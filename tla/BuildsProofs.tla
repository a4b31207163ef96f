---------------------------- MODULE BuildsProofs ----------------------------
(***************************************************************************)
(* What rtdd does on a machine beside a build of its own: the replacement  *)
(* of the binary, the shards of a swarm job, builds on graphify's graph.   *)
(***************************************************************************)
EXTENDS MCBuilds, FiniteSetTheorems, TLAPS

-----------------------------------------------------------------------------
(* SelfUpdate: however many processes replace the binary at once, whatever *)
(* is published, damaged or killed meanwhile, a binary is installed, or the*)
(* one that was moved away is beside it, and each is whole and vouched for.*)
(*                                                                         *)
(* On Windows this hangs on a file that runs being neither removed nor     *)
(* replaced.  The invariant says that a running image keeps one of the two *)
(* names, so the process that sweeps the old name away, being an update    *)
(* itself, can only do so if its own image is at the other one.            *)
Working == {"stage", "fetch", "write", "rename", "aside", "away", "in", "back", "sweep"}
Swapping == {"aside", "away", "in", "back", "sweep"}
Process ==
  [pc : Ended \cup Working, kind : {None, "update", "install"}, tag : Tag \cup {None},
   image : Place \cup {None}, archive : Build \cup {Torn, None}, sums : Build \cup {None}]

Typed ==
  /\ windows \in BOOLEAN /\ latest \in Tag /\ stranded \in BOOLEAN
  /\ served \in [Tag -> [archive : Build, sums : Build]]
  /\ \A t \in Tag : served[t].sums <= served[t].archive
  /\ holds = [f \in Place |-> holds[f]]
  /\ target \in Place \cup {None} /\ old \in Place \cup {None}
  /\ proc \in [Updater -> Process]

VouchedFor(f) ==
  holds[f] \in [tag : Tag, build : Build] /\ holds[f].build <= served[holds[f].tag].sums

\* What a process has when it gets to each point.
Prepared(p) ==
  /\ proc[p].pc \in Working => proc[p].tag \in Tag /\ proc[p].kind \in {"update", "install"}
  /\ proc[p].sums # None => proc[p].tag \in Tag /\ proc[p].sums <= served[proc[p].tag].sums
  /\ proc[p].pc = "write" => proc[p].sums # None /\ proc[p].archive = proc[p].sums
  /\ proc[p].pc \in Swapping \cup {"rename"} => VouchedFor(p)
  /\ proc[p].pc \in Swapping => windows /\ proc[p].image # None
  /\ proc[p].kind = "update" => proc[p].image # None
  /\ proc[p].pc \in Ended => proc[p].image = None
  /\ p \in {target, old} => proc[p].pc \in {"sweep", "updated", "killed"}

\* What runs cannot be taken off both names.
ImagesStay == windows => \A p \in Updater : proc[p].image # None => proc[p].image \in {target, old}

UpdateInv ==
  /\ Typed
  /\ \A p \in Updater : Prepared(p)
  /\ ImagesStay
  /\ \A f \in Names : VouchedFor(f)
  /\ old # None => windows /\ old # target
  /\ NeverUninstalled

LEMMA GotoKeeps ==
  ASSUME Typed, NEW p \in Updater, NEW there \in Ended \cup Working, Goto(p, there)
  PROVE  /\ proc' \in [Updater -> Process]
         /\ \A q \in Updater : q # p => proc'[q] = proc[q]
         /\ proc'[p].pc = there
         /\ there \in Ended => /\ proc'[p].kind = None /\ proc'[p].tag = None /\ proc'[p].image = None
                            /\ proc'[p].archive = None /\ proc'[p].sums = None
         /\ there \notin Ended => /\ proc'[p].kind = proc[p].kind /\ proc'[p].tag = proc[p].tag
                               /\ proc'[p].image = proc[p].image /\ proc'[p].archive = proc[p].archive
                               /\ proc'[p].sums = proc[p].sums
<1>1. CASE there \in Ended
  <2>1. proc' = [proc EXCEPT ![p] = Started(there, None, None, None)]
    BY <1>1 DEF Goto
  <2> QED BY <1>1, <2>1 DEF Started, Typed, Process
<1>2. CASE there \notin Ended
  <2>1. proc' = [proc EXCEPT ![p] = [proc[p] EXCEPT !.pc = there]]
    BY <1>2 DEF Goto
  <2>2. proc[p] \in Process
    BY DEF Typed
  <2> QED BY <1>2, <2>1, <2>2 DEF Typed, Process
<1> QED BY <1>1, <1>2

\* A step of p's that leaves the names alone and touches no file but its own.
LEMMA OnlyItsOwn ==
  ASSUME UpdateInv, NEW p \in Updater,
         UNCHANGED <<windows, latest, served, target, old>>,
         stranded' \in BOOLEAN, stranded => stranded',
         proc' \in [Updater -> Process], \A q \in Updater : q # p => proc'[q] = proc[q],
         holds' = [f \in Place |-> holds'[f]], \A f \in Place : f # p => holds'[f] = holds[f],
         p \in {target, old} => holds'[p] = holds[p],
         Prepared(p)', proc'[p].image \in {None, proc[p].image, target},
         proc[p].pc \in {"in", "back"} /\ target = None => stranded' \/ proc'[p].pc \in {"in", "back"}
  PROVE  UpdateInv'
<1>1. Typed' BY DEF UpdateInv, Typed, Tag, Build
<1>2. ASSUME NEW q \in Updater PROVE Prepared(q)'
  <2>1. CASE q # p
    <3>1. proc'[q] = proc[q] /\ holds'[q] = holds[q] BY <2>1 DEF Place
    <3>2. Prepared(q) BY DEF UpdateInv
    <3> QED BY <3>1, <3>2 DEF Prepared, VouchedFor, Tag, Build
  <2> QED BY <2>1
<1>3. ImagesStay'
  <2> SUFFICES ASSUME windows, NEW q \in Updater, proc'[q].image # None PROVE proc'[q].image \in {target, old}
    BY DEF ImagesStay
  <2>1. CASE q # p BY <2>1 DEF UpdateInv, ImagesStay
  <2>2. CASE q = p BY <2>2 DEF UpdateInv, ImagesStay
  <2> QED BY <2>1, <2>2
<1>4. \A f \in Names' : VouchedFor(f)'
  <2> SUFFICES ASSUME NEW f \in Names PROVE VouchedFor(f)' BY DEF Names
  <2>1. f \in Place /\ VouchedFor(f) BY DEF UpdateInv, Names, Typed
  <2>2. holds'[f] = holds[f] BY <2>1 DEF Names
  <2> QED BY <2>1, <2>2 DEF VouchedFor, Tag, Build
<1>5. (old # None => windows /\ old # target)' BY DEF UpdateInv
<1>6. NeverUninstalled'
  <2>1. Names' # {} BY DEF UpdateInv, NeverUninstalled, Names
  <2>2. ASSUME target = None PROVE stranded' \/ \E q \in Updater : proc'[q].pc \in {"in", "back"}
    <3>1. CASE stranded BY <3>1
    <3>2. CASE \E q \in Updater : proc[q].pc \in {"in", "back"}
      <4>1. PICK q \in Updater : proc[q].pc \in {"in", "back"} BY <3>2
      <4>2. CASE q = p BY <2>2, <4>1, <4>2
      <4>3. CASE q # p BY <4>1, <4>3
      <4> QED BY <4>2, <4>3
    <3> QED BY <2>2, <3>1, <3>2 DEF UpdateInv, NeverUninstalled
  <2> QED BY <2>1, <2>2 DEF NeverUninstalled
<1> QED BY <1>1, <1>2, <1>3, <1>4, <1>5, <1>6 DEF UpdateInv

\* A step that leaves the files and processes alone, and only builds anew.
LEMMA BuildsAnew ==
  ASSUME UpdateInv, UNCHANGED <<windows, holds, target, old, proc, stranded>>,
         latest' \in Tag, served' \in [Tag -> [archive : Build, sums : Build]],
         \A t \in Tag : served'[t].sums <= served'[t].archive /\ served[t].sums <= served'[t].sums,
         MaxBuild \in Nat
  PROVE  UpdateInv'
<1>1. Typed' BY DEF UpdateInv, Typed, Tag, Build
<1>2. ASSUME NEW f, VouchedFor(f) PROVE VouchedFor(f)'
  <2>1. holds[f].tag \in Tag /\ holds[f].build \in Build BY <1>2 DEF VouchedFor
  <2>2. served[holds[f].tag].sums \in Build /\ served'[holds[f].tag].sums \in Build BY <2>1 DEF UpdateInv, Typed
  <2> QED BY <1>2, <2>1, <2>2 DEF VouchedFor, Tag, Build
<1>3. ASSUME NEW q \in Updater PROVE Prepared(q)'
  <2>1. Prepared(q) BY DEF UpdateInv
  <2>2. proc[q] \in Process BY DEF UpdateInv, Typed
  <2>3. CASE proc[q].sums # None
    <3>1. /\ proc[q].tag \in Tag /\ proc[q].sums <= served[proc[q].tag].sums
          /\ proc[q].sums \in Build
      BY <2>1, <2>2, <2>3 DEF Prepared, Process
    <3>2. served[proc[q].tag].sums \in Build /\ served'[proc[q].tag].sums \in Build
      BY <3>1 DEF UpdateInv, Typed
    <3>3. proc[q].sums <= served'[proc[q].tag].sums BY <3>1, <3>2 DEF Build
    <3> QED BY <1>2, <2>1, <3>1, <3>3 DEF Prepared
  <2>4. CASE proc[q].sums = None BY <1>2, <2>1, <2>4 DEF Prepared
  <2> QED BY <2>3, <2>4
<1>4. ImagesStay' /\ NeverUninstalled' /\ (old # None => windows /\ old # target)'
  BY DEF UpdateInv, ImagesStay, NeverUninstalled, Names
<1>5. \A f \in Names' : VouchedFor(f)' BY <1>2 DEF UpdateInv, Names
<1> QED BY <1>1, <1>3, <1>4, <1>5 DEF UpdateInv

\* A process's steps before it comes to the swap, and those that end it.
LEMMA BeforeTheSwap ==
  ASSUME UpdateInv, NEW p \in Updater,
         \/ \E pinned \in (1..latest) \cup {None} : StartUpdate(p, pinned)
         \/ \E t \in Tag : StartInstall(p, t)
         \/ Stage(p) \/ FetchArchive(p) \/ FetchSums(p) \/ WriteStaged(p) \/ Close(p)
         \/ CannotMoveIn(p) \/ Fail(p) \/ Kill(p)
  PROVE  UpdateInv'
<1> USE DEF At, NoFiles
<1>p. proc[p] \in Process /\ Prepared(p) BY DEF UpdateInv, Typed
<1>t. Typed BY DEF UpdateInv
<1>n. p # None BY UpdateParameters DEF Place
<1>1. ASSUME NEW pinned \in (1..latest) \cup {None}, StartUpdate(p, pinned) PROVE UpdateInv'
  <2> DEFINE t == IF pinned = None THEN latest ELSE pinned
  <2>1. t \in Tag
    <3>1. latest \in 1..MaxTag /\ MaxTag \in Nat BY <1>t, UpdateParameters DEF Typed, Tag
    <3> QED BY <3>1, SMT DEF Tag
  <2>2. target \in Place /\ target # None BY <1>1, <1>t DEF StartUpdate, Typed
  <2>3. CASE proc' = [proc EXCEPT ![p] = Started("current", None, None, None)]
    <3> DEFINE r == proc'[p]
    <3>2. /\ proc' \in [Updater -> Process] /\ \A q \in Updater : q # p => proc'[q] = proc[q]
          /\ r.pc = "current" /\ r.kind = None /\ r.sums = None /\ r.image = None
      BY <1>t, <2>3 DEF Started, Typed, Process, Ended
    <3>3. p \notin {target, old} BY <1>1, <1>p DEF StartUpdate, Prepared
    <3>4. Prepared(p)'
      BY <1>1, <3>2, <3>3, UpdateParameters DEF StartUpdate, Prepared, Working, Swapping, Ended
    <3> QED BY <1>1, <1>t, <3>2, <3>4, OnlyItsOwn DEF StartUpdate, Typed
  <2>4. CASE proc' = [proc EXCEPT ![p] = Started("stage", "update", t, target)]
    <3> HIDE DEF t
    <3> DEFINE r == proc'[p]
    <3>2. /\ proc' \in [Updater -> Process] /\ \A q \in Updater : q # p => proc'[q] = proc[q]
          /\ r.pc = "stage" /\ r.kind = "update" /\ r.tag = t /\ r.sums = None /\ r.image = target
      BY <1>t, <2>1, <2>2, <2>4 DEF Started, Typed, Process, Working
    <3>3. p \notin {target, old} BY <1>1, <1>p DEF StartUpdate, Prepared
    <3>4. Prepared(p)'
      BY <1>1, <2>1, <2>2, <3>2, <3>3 DEF StartUpdate, Prepared, Working, Swapping, Ended
    <3> QED BY <1>1, <1>t, <3>2, <3>4, OnlyItsOwn DEF StartUpdate, Typed
  <2> QED BY <1>1, <2>3, <2>4 DEF StartUpdate
<1>2. ASSUME NEW t \in Tag, StartInstall(p, t) PROVE UpdateInv'
  <2> DEFINE r == proc'[p]
  <2>2. /\ proc' \in [Updater -> Process] /\ \A q \in Updater : q # p => proc'[q] = proc[q]
        /\ r.pc = "fetch" /\ r.kind = "install" /\ r.tag = t /\ r.sums = None /\ r.image = None
    BY <1>2, <1>t DEF StartInstall, Started, Typed, Process, Working
  <2>3. p \notin {target, old} BY <1>2, <1>p DEF StartInstall, Prepared
  <2>4. Prepared(p)'
    BY <1>2, <2>2, <2>3 DEF StartInstall, Prepared, Working, Swapping, Ended
  <2> QED BY <1>2, <1>t, <2>2, <2>4, OnlyItsOwn DEF StartInstall, Typed
<1>3. ASSUME Stage(p) PROVE UpdateInv'
  <2>1. Goto(p, "fetch") /\ "fetch" \in Working /\ "fetch" \notin Ended BY <1>3 DEF Stage, Working, Ended
  <2>2. p \notin {target, old} BY <1>3, <1>p DEF Stage, Prepared
  <2>3. /\ holds' = [f \in Place |-> holds'[f]]
        /\ \A f \in Place : f # p => holds'[f] = holds[f]
    BY <1>3, <1>t DEF Stage, Typed
  <2>4. Prepared(p)'
    BY <1>3, <1>p, <1>t, <2>1, <2>2, GotoKeeps DEF Stage, Prepared, Working, Swapping, Ended
  <2> QED BY <1>3, <1>t, <2>1, <2>2, <2>3, <2>4, GotoKeeps, OnlyItsOwn DEF Stage, Typed
<1>4. ASSUME FetchArchive(p) PROVE UpdateInv'
  <2>1. PICK body \in {served[proc[p].tag].archive, Torn} : proc' = [proc EXCEPT ![p].archive = body]
    BY <1>4 DEF FetchArchive
  <2>2. body \in Build \cup {Torn, None}
    BY <1>4, <1>p, <1>t DEF FetchArchive, Prepared, Working, Typed
  <2>3. /\ proc' \in [Updater -> Process] /\ \A q \in Updater : q # p => proc'[q] = proc[q]
        /\ proc'[p].pc = proc[p].pc /\ proc'[p].kind = proc[p].kind /\ proc'[p].tag = proc[p].tag
        /\ proc'[p].image = proc[p].image /\ proc'[p].sums = proc[p].sums
    BY <1>t, <2>1, <2>2 DEF Typed, Process
  <2>4. Prepared(p)' BY <1>4, <1>p, <2>3 DEF FetchArchive, Prepared, Working, Swapping, Ended
  <2> QED BY <1>4, <1>t, <2>3, <2>4, OnlyItsOwn DEF FetchArchive, Typed
<1>5. ASSUME FetchSums(p) PROVE UpdateInv'
  <2> DEFINE sums == served[proc[p].tag].sums
  <2>1. proc[p].tag \in Tag /\ sums \in Build
    BY <1>5, <1>p, <1>t DEF FetchSums, Prepared, Working, Typed
  <2>2. proc' = [proc EXCEPT ![p].sums = sums] BY <1>5 DEF FetchSums
  <2>3. sums <= sums BY <2>1 DEF Build
  <2> HIDE DEF sums
  <2>4. /\ proc' \in [Updater -> Process] /\ \A q \in Updater : q # p => proc'[q] = proc[q]
        /\ proc'[p].pc = proc[p].pc /\ proc'[p].kind = proc[p].kind /\ proc'[p].tag = proc[p].tag
        /\ proc'[p].image = proc[p].image /\ proc'[p].sums = sums
    BY <1>t, <2>1, <2>2 DEF Typed, Process
  <2>5. served'[proc'[p].tag].sums = sums BY <1>5, <2>4 DEF FetchSums, sums
  <2>6. Prepared(p)'
    BY <1>5, <1>p, <2>1, <2>3, <2>4, <2>5 DEF FetchSums, Prepared, Working, Swapping, Ended
  <2> QED BY <1>5, <1>t, <2>4, <2>6, OnlyItsOwn DEF FetchSums, Typed
<1>6. ASSUME WriteStaged(p) PROVE UpdateInv'
  <2>1. Goto(p, "write") /\ "write" \in Working /\ "write" \notin Ended BY <1>6 DEF WriteStaged, Working, Ended
  <2>2. p \notin {target, old} BY <1>6, <1>p DEF WriteStaged, Prepared
  <2>3. /\ holds' = [f \in Place |-> holds'[f]]
        /\ \A f \in Place : f # p => holds'[f] = holds[f]
    BY <1>6, <1>t DEF WriteStaged, Typed
  <2>4. Prepared(p)'
    BY <1>6, <1>p, <1>t, <2>1, <2>2, GotoKeeps DEF WriteStaged, Verify, Prepared, Working, Swapping, Ended
  <2> QED BY <1>6, <1>t, <2>1, <2>2, <2>3, <2>4, GotoKeeps, OnlyItsOwn DEF WriteStaged, Typed
<1>7. ASSUME Close(p) PROVE UpdateInv'
  <2> DEFINE to == IF InOneRename(p) THEN "rename" ELSE "aside"
             made == [tag |-> proc[p].tag, build |-> proc[p].archive]
  <2>1. Goto(p, to) /\ to \in {"rename", "aside"} /\ to \in Working /\ to \notin Ended
    BY <1>7 DEF Close, Working, Ended
  <2>2. p \notin {target, old} BY <1>7, <1>p DEF Close, Prepared
  <2>3. /\ proc[p].tag \in Tag /\ proc[p].archive \in Build
        /\ proc[p].archive <= served[proc[p].tag].sums
    BY <1>7, <1>p, UpdateParameters DEF Close, Prepared, Working, Process
  <2>4. /\ holds' = [f \in Place |-> holds'[f]]
        /\ \A f \in Place : f # p => holds'[f] = holds[f]
        /\ holds'[p] = made
    BY <1>7, <1>t DEF Close, Typed, Place
  <2>5. VouchedFor(p)' BY <1>7, <2>3, <2>4 DEF Close, VouchedFor, Tag, Build
  <2>6. to = "aside" => windows /\ proc[p].kind = "update"
    BY <1>7, <1>p DEF InOneRename, Close, Prepared, Working
  <2> HIDE DEF to
  <2>7. Prepared(p)'
    <3>1. /\ proc'[p].pc = to /\ proc'[p].kind = proc[p].kind /\ proc'[p].tag = proc[p].tag
          /\ proc'[p].image = proc[p].image /\ proc'[p].archive = proc[p].archive
          /\ proc'[p].sums = proc[p].sums
      BY <1>t, <2>1, GotoKeeps
    <3> QED BY <1>7, <1>p, <2>1, <2>2, <2>5, <2>6, <3>1 DEF Close, Prepared, Working, Swapping, Ended
  <2> QED BY <1>7, <1>t, <2>1, <2>2, <2>4, <2>7, GotoKeeps, OnlyItsOwn DEF Close, Typed
<1>8. ASSUME CannotMoveIn(p) PROVE UpdateInv'
  <2>1. Goto(p, "back") /\ "back" \in Working /\ "back" \notin Ended BY <1>8 DEF CannotMoveIn, Working, Ended
  <2>2. Prepared(p)'
    BY <1>8, <1>p, <1>t, <2>1, GotoKeeps DEF CannotMoveIn, Prepared, VouchedFor, Working, Swapping, Ended
  <2> QED BY <1>8, <1>t, <2>1, <2>2, GotoKeeps, OnlyItsOwn DEF CannotMoveIn, Typed
<1>9. ASSUME Fail(p) PROVE UpdateInv'
  <2>1. Goto(p, "failed") /\ "failed" \in Ended BY <1>9 DEF Fail, Fails, Ended
  <2>2. p \notin {target, old} BY <1>9, <1>p DEF Fail, Prepared
  <2>3. /\ holds' = [f \in Place |-> holds'[f]]
        /\ \A f \in Place : f # p => holds'[f] = holds[f]
    BY <1>9, <1>t DEF Fail, Fails, Typed
  <2>4. Prepared(p)'
    BY <1>9, <1>t, <2>1, <2>2, GotoKeeps, UpdateParameters DEF Fail, Prepared, Working, Swapping, Ended
  <2>5. proc[p].pc \notin {"in", "back"} BY <1>9 DEF Fail
  <2> QED BY <1>9, <1>t, <2>1, <2>2, <2>3, <2>4, <2>5, GotoKeeps, OnlyItsOwn DEF Fail, Typed
<1>10. ASSUME Kill(p) PROVE UpdateInv'
  <2>1. Goto(p, "killed") /\ "killed" \in Ended BY <1>10 DEF Kill, Ended
  <2>2. Prepared(p)'
    BY <1>10, <1>t, <2>1, GotoKeeps, UpdateParameters DEF Kill, Prepared, Working, Swapping, Ended
  <2> QED BY <1>10, <1>t, <2>1, <2>2, GotoKeeps, OnlyItsOwn DEF Kill, Typed
<1> QED BY <1>1, <1>2, <1>3, <1>4, <1>5, <1>6, <1>7, <1>8, <1>9, <1>10


\* A file that may be taken off its name is nobody's image.
LEMMA FreeIsNoImage ==
  ASSUME UpdateInv, windows, NEW f, f # None, Free(f)
  PROVE  \A q \in Updater : proc[q].image # f
<1> SUFFICES ASSUME NEW q \in Updater, proc[q].image = f PROVE FALSE OBVIOUS
<1>1. proc[q].pc \notin Ended BY DEF UpdateInv, Prepared
<1> QED BY <1>1 DEF Free, Runs

\* A step that changes the names: what p puts there is its own file, whole.
LEMMA AtTheNames ==
  ASSUME UpdateInv, NEW p \in Updater, NEW there \in Ended \cup Working, Goto(p, there),
         UNCHANGED <<windows, latest, served>>, stranded' \in BOOLEAN,
         holds' = [f \in Place |-> holds'[f]], \A f \in Place : f # p => holds'[f] = holds[f],
         target' \in Place \cup {None}, old' \in Place \cup {None},
         old' # None => windows /\ old' # target',
         target' # None \/ old' # None,
         \A f \in {target', old'} : f \in {target, old, p, None},
         p \in {target', old'} => VouchedFor(p) /\ holds'[p] = holds[p],
         Prepared(p)', ImagesStay',
         target' = None =>
           stranded' \/ there \in {"in", "back"} \/ \E q \in Updater : q # p /\ proc[q].pc \in {"in", "back"}
  PROVE  UpdateInv'
<1>t. Typed BY DEF UpdateInv
<1>g. /\ proc' \in [Updater -> Process] /\ proc'[p].pc = there
      /\ \A q \in Updater : q # p => proc'[q] = proc[q]
  BY <1>t, GotoKeeps
<1>n. None \notin Updater BY UpdateParameters DEF Place
<1>1. Typed' BY <1>t, <1>g DEF Typed, Tag, Build
<1>2. ASSUME NEW q \in Updater PROVE Prepared(q)'
  <2>1. CASE q # p
    <3>1. proc'[q] = proc[q] /\ holds'[q] = holds[q] BY <2>1, <1>g DEF Place
    <3>2. Prepared(q) BY DEF UpdateInv
    <3>3. q \in {target', old'} => q \in {target, old} BY <2>1, <1>n DEF Place
    <3>4. VouchedFor(q) => VouchedFor(q)' BY <3>1 DEF VouchedFor, Tag, Build
    <3>5. served' = served /\ windows' = windows OBVIOUS
    <3> HIDE DEF VouchedFor
    <3> QED BY <3>1, <3>2, <3>3, <3>4, <3>5 DEF Prepared, Build, Tag
  <2> QED BY <2>1
<1>3. \A f \in Names' : VouchedFor(f)'
  <2> SUFFICES ASSUME NEW f \in Names' PROVE VouchedFor(f)' OBVIOUS
  <2>1. f \in Names \cup {p} /\ f \in Place BY <1>1 DEF Names, Typed
  <2>2. VouchedFor(f) /\ holds'[f] = holds[f] BY <2>1 DEF UpdateInv, Names
  <2> QED BY <2>2 DEF VouchedFor, Tag, Build
<1>4. NeverUninstalled'
  <2>1. Names' # {} BY DEF Names
  <2>2. ASSUME target' = None PROVE stranded' \/ \E q \in Updater : proc'[q].pc \in {"in", "back"}
    <3>1. CASE \E q \in Updater : q # p /\ proc[q].pc \in {"in", "back"} BY <3>1, <1>g
    <3>2. CASE there \in {"in", "back"} BY <3>2, <1>g
    <3> QED BY <2>2, <3>1, <3>2
  <2> QED BY <2>1, <2>2 DEF NeverUninstalled
<1> QED BY <1>1, <1>2, <1>3, <1>4 DEF UpdateInv

LEMMA TheSwap ==
  ASSUME UpdateInv, NEW p \in Updater,
         Rename(p) \/ RemoveOld(p) \/ MoveAside(p) \/ MoveIn(p) \/ PutBack(p) \/ Sweep(p)
  PROVE  UpdateInv'
<1> USE DEF At
<1>p. proc[p] \in Process /\ Prepared(p) BY DEF UpdateInv, Typed
<1>t. Typed BY DEF UpdateInv
<1>n. p # None /\ p \in Place /\ None \notin Place BY UpdateParameters DEF Place
<1>f. windows => \A f \in Names : Free(f) => \A q \in Updater : proc[q].image # f
  BY FreeIsNoImage DEF Names
<1>i. windows => \A q \in Updater : proc[q].image # None => proc[q].image \in {target, old}
  BY DEF UpdateInv, ImagesStay
<1>o. /\ old # None => windows /\ old # target
      /\ target # None \/ old # None
      /\ target = None => stranded \/ \E q \in Updater : proc[q].pc \in {"in", "back"}
  BY DEF UpdateInv, NeverUninstalled, Names
<1>h. holds = [f \in Place |-> holds[f]] /\ stranded \in BOOLEAN
      /\ target \in Place \cup {None} /\ old \in Place \cup {None}
  BY <1>t DEF Typed
<1>1. ASSUME Rename(p) PROVE UpdateInv'
  <2>1. Goto(p, "updated") /\ "updated" \in Ended BY <1>1 DEF Rename, Ended
  <2>2. /\ proc'[p].pc = "updated" /\ proc'[p].image = None /\ proc'[p].kind = None
        /\ proc'[p].sums = None /\ \A q \in Updater : q # p => proc'[q] = proc[q]
    BY <1>t, <2>1, GotoKeeps
  <2>3. p \notin {target, old} /\ VouchedFor(p) BY <1>1, <1>p DEF Rename, Prepared
  <2>4. Prepared(p)' BY <2>2, UpdateParameters DEF Prepared, Working, Swapping, Ended
  <2>5. ImagesStay'
    <3> SUFFICES ASSUME windows, NEW q \in Updater, proc'[q].image # None PROVE proc'[q].image \in {p, old}
      BY <1>1 DEF ImagesStay, Rename
    <3>1. proc'[q] = proc[q] BY <2>2
    <3>2. proc[q].image # target \/ target = None BY <1>1, <1>f DEF Rename, Names
    <3> QED BY <1>i, <3>1, <3>2
  <2> QED BY <1>1, <1>n, <1>o, <1>h, <2>1, <2>3, <2>4, <2>5, AtTheNames DEF Rename
<1>2. ASSUME RemoveOld(p) PROVE UpdateInv'
  <2>1. Goto(p, "away") /\ "away" \in Working /\ "away" \notin Ended BY <1>2 DEF RemoveOld, Working, Ended
  <2>2. /\ proc'[p].pc = "away" /\ proc'[p].kind = proc[p].kind /\ proc'[p].tag = proc[p].tag
        /\ proc'[p].image = proc[p].image /\ proc'[p].archive = proc[p].archive
        /\ proc'[p].sums = proc[p].sums /\ \A q \in Updater : q # p => proc'[q] = proc[q]
    BY <1>t, <2>1, GotoKeeps
  <2>3. p \notin {target, old} /\ windows /\ proc[p].image # None
    BY <1>2, <1>p DEF RemoveOld, Prepared, Swapping
  <2>4. target' = target /\ (old' = old \/ (old' = None /\ Free(old))) BY <1>2 DEF RemoveOld
  <2>5. \A q \in Updater : proc[q].image # None => proc[q].image \in {target', old'}
    BY <1>f, <1>i, <2>3, <2>4 DEF Names
  <2>6. target # None \/ old' # None BY <2>3, <2>4, <2>5
  <2>7. ImagesStay' BY <1>2, <2>2, <2>5 DEF ImagesStay, RemoveOld
  <2>8. Prepared(p)'
    BY <1>2, <1>p, <1>n, <2>2, <2>3, <2>4 DEF RemoveOld, Prepared, VouchedFor, Working, Swapping, Ended
  <2>9. target = None => stranded' \/ \E q \in Updater : q # p /\ proc[q].pc \in {"in", "back"}
    BY <1>2, <1>o DEF RemoveOld
  <2> QED BY <1>2, <1>n, <1>o, <1>h, <2>1, <2>3, <2>4, <2>6, <2>7, <2>8, <2>9, AtTheNames DEF RemoveOld
<1>3. ASSUME MoveAside(p) PROVE UpdateInv'
  <2>1. Goto(p, "in") /\ "in" \in Working /\ "in" \notin Ended BY <1>3 DEF MoveAside, Working, Ended
  <2>2. /\ proc'[p].pc = "in" /\ proc'[p].kind = proc[p].kind /\ proc'[p].tag = proc[p].tag
        /\ proc'[p].image = proc[p].image /\ proc'[p].archive = proc[p].archive
        /\ proc'[p].sums = proc[p].sums /\ \A q \in Updater : q # p => proc'[q] = proc[q]
    BY <1>t, <2>1, GotoKeeps
  <2>3. p \notin {target, old} /\ windows /\ proc[p].image # None
    BY <1>3, <1>p DEF MoveAside, Prepared, Swapping
  <2>4. \/ target = None /\ target' = None /\ old' = old
        \/ target # None /\ Free(old) /\ target' = None /\ old' = target
    BY <1>3 DEF MoveAside
  <2>5. \A q \in Updater : proc[q].image # None => proc[q].image \in {target', old'}
    BY <1>f, <1>i, <2>3, <2>4 DEF Names
  <2>6. ImagesStay' BY <1>3, <2>2, <2>5 DEF ImagesStay, MoveAside
  <2>7. Prepared(p)'
    BY <1>3, <1>p, <1>n, <2>2, <2>3, <2>4 DEF MoveAside, Prepared, VouchedFor, Working, Swapping, Ended
  <2> QED BY <1>3, <1>n, <1>o, <1>h, <2>1, <2>3, <2>4, <2>6, <2>7, AtTheNames DEF MoveAside
<1>4. ASSUME MoveIn(p) PROVE UpdateInv'
  <2>1. Goto(p, "sweep") /\ "sweep" \in Working /\ "sweep" \notin Ended BY <1>4 DEF MoveIn, Working, Ended
  <2>2. /\ proc'[p].pc = "sweep" /\ proc'[p].kind = proc[p].kind /\ proc'[p].tag = proc[p].tag
        /\ proc'[p].image = proc[p].image /\ proc'[p].archive = proc[p].archive
        /\ proc'[p].sums = proc[p].sums /\ \A q \in Updater : q # p => proc'[q] = proc[q]
    BY <1>t, <2>1, GotoKeeps
  <2>3. p \notin {target, old} /\ windows /\ proc[p].image # None /\ VouchedFor(p)
    BY <1>4, <1>p DEF MoveIn, Prepared, Swapping
  <2>4. target' = p /\ old' = old /\ Free(target) BY <1>4 DEF MoveIn
  <2>5. \A q \in Updater : proc[q].image # None => proc[q].image \in {target', old'}
    BY <1>f, <1>i, <2>3, <2>4 DEF Names
  <2>6. ImagesStay' BY <1>4, <2>2, <2>5 DEF ImagesStay, MoveIn
  <2>7. Prepared(p)'
    BY <1>4, <1>p, <1>n, <2>2, <2>3, <2>4 DEF MoveIn, Prepared, VouchedFor, Working, Swapping, Ended
  <2> QED BY <1>4, <1>n, <1>o, <1>h, <2>1, <2>3, <2>4, <2>6, <2>7, AtTheNames DEF MoveIn
<1>5. ASSUME PutBack(p) PROVE UpdateInv'
  <2>1. Goto(p, "failed") /\ "failed" \in Ended BY <1>5 DEF PutBack, Fails, Ended
  <2>2. /\ proc'[p].pc = "failed" /\ proc'[p].image = None /\ proc'[p].kind = None
        /\ proc'[p].sums = None /\ \A q \in Updater : q # p => proc'[q] = proc[q]
    BY <1>t, <2>1, GotoKeeps
  <2>3. p \notin {target, old} /\ windows
    BY <1>5, <1>p DEF PutBack, Prepared, Swapping
  <2>4. \/ target' = target /\ old' = old /\ stranded' = stranded /\ target # None
        \/ target' = old /\ old' = None /\ old # None /\ Free(target) /\ stranded' = FALSE
    BY <1>5, <1>o DEF PutBack, Free
  <2>5. \A q \in Updater : proc[q].image # None => proc[q].image \in {target', old'}
    BY <1>f, <1>i, <2>3, <2>4 DEF Names
  <2>6. ImagesStay' BY <1>5, <2>2, <2>5 DEF ImagesStay, PutBack
  <2>7. Prepared(p)' BY <1>n, <2>2, <2>3, <2>4, UpdateParameters DEF Prepared, Working, Swapping, Ended
  <2>8. /\ holds' = [f \in Place |-> holds'[f]]
        /\ \A f \in Place : f # p => holds'[f] = holds[f]
    BY <1>5, <1>h DEF PutBack, Fails
  <2> QED BY <1>5, <1>n, <1>o, <1>h, <2>1, <2>3, <2>4, <2>6, <2>7, <2>8, AtTheNames DEF PutBack
<1>6. ASSUME Sweep(p) PROVE UpdateInv'
  <2>1. Goto(p, "updated") /\ "updated" \in Ended BY <1>6 DEF Sweep, Ended
  <2>2. /\ proc'[p].pc = "updated" /\ proc'[p].image = None /\ proc'[p].kind = None
        /\ proc'[p].sums = None /\ \A q \in Updater : q # p => proc'[q] = proc[q]
    BY <1>t, <2>1, GotoKeeps
  <2>3. windows /\ proc[p].image # None BY <1>6, <1>p DEF Sweep, Prepared, Swapping
  <2>4. target' = target /\ (old' = old \/ (old' = None /\ Free(old))) BY <1>6 DEF Sweep
  <2>5. \A q \in Updater : proc[q].image # None => proc[q].image \in {target', old'}
    BY <1>f, <1>i, <2>3, <2>4 DEF Names
  <2>6. target # None \/ old' # None BY <2>3, <2>4, <2>5
  <2>7. ImagesStay' BY <1>6, <2>2, <2>5 DEF ImagesStay, Sweep
  <2>8. Prepared(p)' BY <2>2, UpdateParameters DEF Prepared, Working, Swapping, Ended
  <2>9. target = None => stranded' \/ \E q \in Updater : q # p /\ proc[q].pc \in {"in", "back"}
    BY <1>6, <1>o DEF Sweep
  <2>10. p \in {target', old'} => VouchedFor(p) BY <1>6, <1>p DEF Sweep, Prepared, Swapping
  <2> QED BY <1>6, <1>n, <1>o, <1>h, <2>1, <2>4, <2>6, <2>7, <2>8, <2>9, <2>10, AtTheNames DEF Sweep
<1> QED BY <1>1, <1>2, <1>3, <1>4, <1>5, <1>6

LEMMA InvStarts == ASSUME UpdateInit PROVE UpdateInv
<1>1. Typed
  <2>1. 1 \in Tag /\ 1 \in Build BY UpdateParameters DEF Tag, Build
  <2>2. holds = [f \in Place |-> holds[f]] BY DEF UpdateInit
  <2>3. proc \in [Updater -> Process] BY DEF UpdateInit, Process, Idle, Started, Ended
  <2>4. served \in [Tag -> [archive : Build, sums : Build]] /\ \A t \in Tag : served[t].sums <= served[t].archive
    BY <2>1 DEF UpdateInit
  <2> QED BY <2>1, <2>2, <2>3, <2>4 DEF UpdateInit, Typed, Place
<1>2. VouchedFor("first")
  <2>1. 1 \in Tag /\ 1 \in Build BY UpdateParameters DEF Tag, Build
  <2> QED BY <2>1 DEF UpdateInit, VouchedFor, Place
<1>3. \A p \in Updater : Prepared(p)
  BY UpdateParameters DEF UpdateInit, Place, Prepared, Idle, Started, Ended, Working, Swapping
<1> QED BY <1>1, <1>2, <1>3, UpdateParameters DEF Place, UpdateInit, UpdateInv, ImagesStay, NeverUninstalled, Names, Idle, Started

LEMMA InvStays == ASSUME UpdateInv, [UpdateNext]_updateVars PROVE UpdateInv'
<1>b. MaxBuild \in Nat /\ MaxTag \in Nat BY UpdateParameters
<1>t. Typed BY DEF UpdateInv
<1>1. CASE Publish
  <2>1. latest \in 1..MaxTag BY <1>t DEF Typed, Tag
  <2>2. latest' \in Tag BY <1>1, <1>b, <2>1 DEF Publish, Tag
  <2>3. \A t \in Tag : served[t].sums <= served[t].sums BY <1>t, <1>b DEF Typed, Build
  <2> QED BY <1>1, <1>b, <1>t, <2>2, <2>3, BuildsAnew DEF Publish, Typed
<1>2. ASSUME NEW t \in Tag, UploadArchive(t) PROVE UpdateInv'
  <2>1. served[t].archive \in 1..MaxBuild /\ served[t].sums \in 1..MaxBuild BY <1>t DEF Typed, Build
  <2>2. served[t].archive + 1 \in Build /\ served[t].sums <= served[t].archive + 1
    BY <1>2, <1>b, <2>1 DEF UploadArchive, Build
  <2>3. /\ served' \in [Tag -> [archive : Build, sums : Build]]
        /\ \A u \in Tag : u # t => served'[u] = served[u]
        /\ served'[t].archive = served[t].archive + 1 /\ served'[t].sums = served[t].sums
    BY <1>2, <1>t, <2>1, <2>2 DEF UploadArchive, Typed, Build
  <2>4. \A u \in Tag : served'[u].sums <= served'[u].archive /\ served[u].sums <= served'[u].sums
    BY <1>b, <1>t, <2>1, <2>2, <2>3 DEF Typed, Build
  <2> QED BY <1>2, <1>b, <1>t, <2>3, <2>4, BuildsAnew DEF UploadArchive, Typed
<1>3. ASSUME NEW t \in Tag, UploadSums(t) PROVE UpdateInv'
  <2>1. served[t].archive \in 1..MaxBuild /\ served[t].sums \in 1..MaxBuild
        /\ served[t].sums <= served[t].archive
    BY <1>t DEF Typed, Build
  <2>3. /\ served' \in [Tag -> [archive : Build, sums : Build]]
        /\ \A u \in Tag : u # t => served'[u] = served[u]
        /\ served'[t].archive = served[t].archive /\ served'[t].sums = served[t].archive
    BY <1>3, <1>t, <2>1 DEF UploadSums, Typed, Build
  <2>4. \A u \in Tag : served'[u].sums <= served'[u].archive /\ served[u].sums <= served'[u].sums
    BY <1>b, <1>t, <2>1, <2>3 DEF Typed, Build
  <2> QED BY <1>3, <1>b, <1>t, <2>3, <2>4, BuildsAnew DEF UploadSums, Typed
<1>4. CASE UNCHANGED updateVars
  <2>1. \A t \in Tag : served[t].sums <= served[t].sums BY <1>t, <1>b DEF Typed, Build
  <2> QED BY <1>4, <1>b, <1>t, <2>1, BuildsAnew DEF updateVars, Typed
<1> QED BY <1>1, <1>2, <1>3, <1>4, BeforeTheSwap, TheSwap DEF UpdateNext

(* What is installed, or was moved away for what was to come, is whole and *)
(* vouched for, for any number of processes, releases and builds.          *)
THEOREM InstalledIsVouchedForAlways == UpdateSpec => []InstalledIsVouchedFor
<1>1. UpdateInit => UpdateInv BY InvStarts
<1>2. UpdateInv /\ [UpdateNext]_updateVars => UpdateInv' BY InvStays
<1>3. UpdateInv => InstalledIsVouchedFor BY DEF UpdateInv, InstalledIsVouchedFor, VouchedFor
<1> QED BY <1>1, <1>2, <1>3, PTL DEF UpdateSpec

(* A binary is installed, or the one that was is beside its place, for any *)
(* number of processes that replace it at once.                            *)
THEOREM NeverUninstalledAlways == UpdateSpec => []NeverUninstalled
<1>1. UpdateInit => UpdateInv BY InvStarts
<1>2. UpdateInv /\ [UpdateNext]_updateVars => UpdateInv' BY InvStays
<1>3. UpdateInv => NeverUninstalled BY DEF UpdateInv
<1> QED BY <1>1, <1>2, <1>3, PTL DEF UpdateSpec

-----------------------------------------------------------------------------
(* SwarmJob: files are told from their names, and a file stays with the    *)
(* shard it was made for.  While a shard's attempts follow each other, the *)
(* invariant follows the one that is alive through its two files.          *)
Points == {"idle", "run", "ran", "keep", "open", "print", "keepcode", "done", "killed"}
KindAt(name) == IF name \in {"tmp", "result"} THEN "result" ELSE "code"
Belongs(file, s) == ShardOf(file[2]) = s

SwarmTyped ==
  /\ names \in [Shards -> [Out -> Files \cup {None}]]
  /\ text \in [Files -> Attempt \cup {Blank}]
  /\ at \in [Attempt -> Points]
  /\ opened \in [Attempt -> Files \cup {None}]

\* A shard's names are of files of its attempts, as is all that is written.
ShardsAreApart ==
  /\ \A s \in Shards, o \in Out :
       names[s][o] # None => names[s][o][1] = KindAt(o) /\ Belongs(names[s][o], s)
  /\ \A f \in Files : text[f] # Blank => ShardOf(text[f]) = ShardOf(f[2])
  /\ \A a \in Attempt : opened[a] # None => Belongs(opened[a], ShardOf(a))
  /\ \A a \in Attempt : at[a] \in {"ran", "print"} => opened[a] # None

Is(name, s, a) == names[s][name] # None /\ text[names[s][name]] = a
\* What an attempt that has its directory to itself finds there.
Holds(s, a) ==
  /\ at[a] = "ran" => opened[a] = names[s]["tmp"]
  /\ at[a] = "keep" => Is("tmp", s, a)
  /\ at[a] \in {"open", "print", "keepcode"} => Is("result", s, a)
  /\ at[a] = "print" => opened[a] = names[s]["stmp"]
  /\ at[a] = "keepcode" => Is("stmp", s, a)
Alone(s) ==
  s \notin overlap =>
    /\ \A a \in Attempt : ShardOf(a) = s /\ Alive(a) =>
         /\ Holds(s, a) /\ names[s]["status"] = None
         /\ \A b \in Attempt : ShardOf(b) = s /\ Alive(b) => b = a
    /\ names[s]["status"] # None => \E a \in Attempt : Is("status", s, a) /\ Is("result", s, a)

SwarmInv ==
  /\ SwarmTyped /\ ShardsAreApart
  /\ \A s \in Shards : Alone(s)
  /\ merge = 0 => \A s \in Shards : Passes(s)

\* Nothing of another shard's is touched.
LEMMA OthersStay ==
  ASSUME SwarmInv, NEW s \in Shards, NEW a \in Attempt, ShardOf(a) # s,
         names'[s] = names[s], s \notin overlap' => s \notin overlap,
         \A b \in Attempt : b # a => at'[b] = at[b] /\ opened'[b] = opened[b],
         \A f \in Files : Belongs(f, s) => text'[f] = text[f]
  PROVE  Alone(s)'
<1> USE DEF SwarmInv
<1>0. \A o \in Out : names[s][o] # None => names[s][o] \in Files /\ Belongs(names[s][o], s)
  BY DEF SwarmTyped, ShardsAreApart
<1>1. \A o \in Out : \A b \in Attempt : Is(o, s, b)' <=> Is(o, s, b)
  BY <1>0 DEF Is
<1>2. \A b \in Attempt : ShardOf(b) = s => (Alive(b)' <=> Alive(b)) /\ (Holds(s, b)' <=> Holds(s, b))
  <2> SUFFICES ASSUME NEW b \in Attempt, ShardOf(b) = s PROVE (Alive(b)' <=> Alive(b)) /\ (Holds(s, b)' <=> Holds(s, b))
    OBVIOUS
  <2>1. at'[b] = at[b] /\ opened'[b] = opened[b] OBVIOUS
  <2>2. {"tmp", "result", "stmp"} \subseteq Out BY DEF Out
  <2> QED BY <1>1, <2>1, <2>2 DEF Alive, Holds
<1>3. "status" \in Out /\ "result" \in Out BY DEF Out
<1> QED BY <1>1, <1>2, <1>3 DEF Alone

\* A step of one attempt: what is left to show of it is its own shard.
LEMMA OwnShard ==
  ASSUME SwarmInv, NEW a \in Attempt, merge = None, merge' = merge,
         SwarmTyped', ShardsAreApart', Alone(ShardOf(a))',
         \A s \in Shards : s # ShardOf(a) => names'[s] = names[s],
         \A s \in Shards : s # ShardOf(a) => (s \in overlap' <=> s \in overlap),
         \A b \in Attempt : b # a => at'[b] = at[b] /\ opened'[b] = opened[b],
         \A f \in Files : ~Belongs(f, ShardOf(a)) => text'[f] = text[f]
  PROVE  SwarmInv'
<1>1. ASSUME NEW s \in Shards PROVE Alone(s)'
  <2>1. CASE s = ShardOf(a) BY <2>1
  <2>2. CASE s # ShardOf(a)
    <3>1. \A f \in Files : Belongs(f, s) => text'[f] = text[f] BY <2>2 DEF Belongs
    <3> QED BY <2>2, <3>1, OthersStay
  <2> QED BY <2>1, <2>2
<1> QED BY <1>1, SwarmParameters DEF SwarmInv

\* `> name` by an attempt: the file it opens.
LEMMA OpensIt ==
  ASSUME SwarmInv, NEW a \in Attempt, NEW name \in Out, Opens(a, name, KindAt(name)),
         NEW to \in Points, Continue(a, to)
  PROVE  /\ SwarmTyped' /\ ShardsAreApart'
         /\ opened'[a] = names'[ShardOf(a)][name] /\ opened'[a] \in Files
         /\ Belongs(opened'[a], ShardOf(a)) /\ opened'[a][1] = KindAt(name)
         /\ \A s \in Shards : s # ShardOf(a) => names'[s] = names[s]
         /\ \A o \in Out : o # name => names'[ShardOf(a)][o] = names[ShardOf(a)][o]
         /\ \A f \in Files : f # opened'[a] => text'[f] = text[f]
         /\ \A b \in Attempt : b # a => opened'[b] = opened[b] /\ at'[b] = at[b]
         /\ at'[a] = to
<1> DEFINE s == ShardOf(a)
           file == IF FileAt(a, name) = None THEN <<KindAt(name), a>> ELSE FileAt(a, name)
<1> USE DEF SwarmInv
<1>0. s \in Shards BY SwarmParameters
<1>1. file \in Files /\ file # None /\ Belongs(file, s) /\ file[1] = KindAt(name)
  <2>1. CASE FileAt(a, name) = None
    <3>1. KindAt(name) \in {"result", "code"} BY DEF KindAt
    <3>2. file = <<KindAt(name), a>> /\ file \in Files BY <2>1, <3>1 DEF Files
    <3> QED BY <3>2, SwarmParameters DEF Belongs
  <2>2. CASE FileAt(a, name) # None
    <3>1. file = names[s][name] BY <2>2 DEF FileAt
    <3> QED BY <1>0, <2>2, <3>1 DEF FileAt, SwarmTyped, ShardsAreApart
  <2> QED BY <2>1, <2>2
<1>2. /\ names' = [names EXCEPT ![s][name] = file] /\ text' = [text EXCEPT ![file] = Blank]
      /\ opened' = [opened EXCEPT ![a] = file] /\ at' = [at EXCEPT ![a] = to]
  BY DEF Opens, Continue
<1> HIDE DEF s, file
<1>3. SwarmTyped' BY <1>0, <1>1, <1>2 DEF SwarmTyped
<1>4. /\ opened'[a] = file /\ names'[s][name] = file /\ at'[a] = to /\ text'[file] = Blank
      /\ \A t \in Shards : t # s => names'[t] = names[t]
      /\ \A o \in Out : o # name => names'[s][o] = names[s][o]
      /\ \A f \in Files : f # file => text'[f] = text[f]
      /\ \A b \in Attempt : b # a => opened'[b] = opened[b] /\ at'[b] = at[b]
  BY <1>0, <1>1, <1>2 DEF SwarmTyped
<1>5. ShardsAreApart'
  <2>1. ASSUME NEW t \in Shards, NEW o \in Out, names'[t][o] # None
        PROVE names'[t][o][1] = KindAt(o) /\ Belongs(names'[t][o], t)
    <3>1. CASE t = s /\ o = name BY <1>1, <1>4, <3>1
    <3>2. CASE ~(t = s /\ o = name)
      <4>1. names'[t][o] = names[t][o] BY <1>4, <3>2
      <4> QED BY <2>1, <4>1 DEF ShardsAreApart
    <3> QED BY <3>1, <3>2
  <2>2. \A f \in Files : text'[f] # Blank => ShardOf(text'[f]) = ShardOf(f[2])
    BY <1>4 DEF ShardsAreApart
  <2>3. \A b \in Attempt : opened'[b] # None => Belongs(opened'[b], ShardOf(b))
    BY <1>1, <1>4 DEF ShardsAreApart, s
  <2>4. \A b \in Attempt : at'[b] \in {"ran", "print"} => opened'[b] # None
    BY <1>1, <1>4 DEF ShardsAreApart
  <2> QED BY <2>1, <2>2, <2>3, <2>4 DEF ShardsAreApart, Belongs
<1> QED BY <1>1, <1>3, <1>4, <1>5 DEF s

\* What an attempt writes to the file it opened.
LEMMA WritesIt ==
  ASSUME SwarmInv, NEW a \in Attempt, at[a] \in {"ran", "print"},
         text' = [text EXCEPT ![opened[a]] = a], UNCHANGED <<names, opened>>,
         NEW to \in Points \ {"ran", "print"}, Continue(a, to)
  PROVE  /\ SwarmTyped' /\ ShardsAreApart' /\ at'[a] = to
         /\ text'[opened[a]] = a /\ opened[a] # None
         /\ \A f \in Files : f # opened[a] => text'[f] = text[f]
         /\ \A f \in Files : ~Belongs(f, ShardOf(a)) => text'[f] = text[f]
         /\ \A b \in Attempt : b # a => at'[b] = at[b]
<1> USE DEF SwarmInv
<1>1. opened[a] \in Files /\ opened[a] # None /\ Belongs(opened[a], ShardOf(a))
  BY DEF SwarmTyped, ShardsAreApart
<1>2. at' = [at EXCEPT ![a] = to] BY DEF Continue
<1>3. /\ at'[a] = to /\ \A b \in Attempt : b # a => at'[b] = at[b]
      /\ text'[opened[a]] = a /\ \A f \in Files : f # opened[a] => text'[f] = text[f]
  BY <1>1, <1>2 DEF SwarmTyped
<1>4. SwarmTyped' BY <1>1, <1>2 DEF SwarmTyped
<1>5. ShardsAreApart'
  <2>1. \A f \in Files : text'[f] # Blank => ShardOf(text'[f]) = ShardOf(f[2])
    BY <1>1, <1>3 DEF ShardsAreApart, Belongs
  <2>2. \A b \in Attempt : at'[b] \in {"ran", "print"} => opened[b] # None
    BY <1>3 DEF ShardsAreApart
  <2> QED BY <2>1, <2>2 DEF ShardsAreApart
<1> QED BY <1>1, <1>3, <1>4, <1>5

\* mv of the file an attempt has there, or of none.
LEMMA MovesIt ==
  ASSUME SwarmInv, NEW a \in Attempt, NEW from \in Out, NEW to \in Out, from # to,
         KindAt(from) = KindAt(to), Moves(a, from, to), UNCHANGED <<text, opened>>,
         NEW then \in Points \ {"ran", "print"}, Continue(a, then)
  PROVE  /\ SwarmTyped' /\ ShardsAreApart' /\ at'[a] = then
         /\ \A b \in Attempt : b # a => at'[b] = at[b]
         /\ \A s \in Shards : s # ShardOf(a) => names'[s] = names[s]
         /\ \A o \in Out \ {from, to} : names'[ShardOf(a)][o] = names[ShardOf(a)][o]
         /\ names[ShardOf(a)][from] # None => names'[ShardOf(a)][to] = names[ShardOf(a)][from]
<1> DEFINE s == ShardOf(a)
<1> USE DEF SwarmInv
<1>0. s \in Shards BY SwarmParameters
<1>1. at' = [at EXCEPT ![a] = then] BY DEF Continue
<1>2. /\ at' \in [Attempt -> Points] /\ at'[a] = then /\ \A b \in Attempt : b # a => at'[b] = at[b]
  BY <1>1 DEF SwarmTyped
<1>3. \A b \in Attempt : at'[b] \in {"ran", "print"} => opened[b] # None
  BY <1>2 DEF ShardsAreApart
<1>4. CASE FileAt(a, from) = None
  <2>1. names' = names BY <1>4 DEF Moves
  <2>2. SwarmTyped' /\ ShardsAreApart' BY <1>2, <1>3, <2>1 DEF SwarmTyped, ShardsAreApart
  <2> QED BY <1>2, <1>4, <2>1, <2>2 DEF FileAt
<1>5. CASE FileAt(a, from) # None
  <2>1. names' = [names EXCEPT ![s][from] = None, ![s][to] = names[s][from]]
    BY <1>5 DEF Moves, FileAt
  <2>2. names[s][from] \in Files BY <1>0, <1>5 DEF FileAt, SwarmTyped
  <2> HIDE DEF s
  <2>3. /\ names'[s][from] = None /\ names'[s][to] = names[s][from]
        /\ \A t \in Shards : t # s => names'[t] = names[t]
        /\ \A o \in Out \ {from, to} : names'[s][o] = names[s][o]
    BY <1>0, <2>1 DEF SwarmTyped
  <2>4. SwarmTyped' BY <1>0, <1>2, <2>1, <2>2 DEF SwarmTyped
  <2>5. ASSUME NEW t \in Shards, NEW o \in Out, names'[t][o] # None
        PROVE names'[t][o][1] = KindAt(o) /\ Belongs(names'[t][o], t)
    <3>1. CASE t = s /\ o = to
      <4>1. names'[t][o] = names[s][from] BY <2>3, <3>1
      <4> QED BY <1>0, <2>5, <3>1, <4>1 DEF ShardsAreApart
    <3>2. CASE ~(t = s /\ o = to)
      <4>1. names'[t][o] = names[t][o] BY <2>3, <2>5, <3>2
      <4> QED BY <2>5, <4>1 DEF ShardsAreApart
    <3> QED BY <3>1, <3>2
  <2>6. ShardsAreApart' BY <1>3, <2>5 DEF ShardsAreApart, Belongs
  <2> QED BY <1>2, <2>3, <2>4, <2>6 DEF s
<1> QED BY <1>4, <1>5

LEMMA AttemptSteps ==
  ASSUME SwarmInv, merge = None, NEW a \in Attempt,
         Begin(a) \/ RunTests(a) \/ TestsExit(a) \/ KeepResult(a)
           \/ OpenStatus(a) \/ PrintStatus(a) \/ KeepStatus(a) \/ KillAttempt(a)
  PROVE  SwarmInv'
<1> DEFINE s == ShardOf(a)
<1>s. s \in Shards BY SwarmParameters
<1>t. SwarmTyped /\ ShardsAreApart /\ Alone(s) BY <1>s DEF SwarmInv
<1>o. {"tmp", "result", "stmp", "status"} = Out BY DEF Out
<1>w. \A o \in Out : names[s][o] # None => names[s][o] \in Files /\ names[s][o][1] = KindAt(o)
  BY <1>s, <1>t DEF SwarmTyped, ShardsAreApart
<1>n. None \notin Attempt /\ None \notin Files /\ Blank \notin Attempt BY SwarmParameters
<1>k. /\ KindAt("tmp") = "result" /\ KindAt("result") = "result"
      /\ KindAt("stmp") = "code" /\ KindAt("status") = "code"
  BY DEF KindAt
\* An attempt that is not alone in an unmarked shard is not alive.
<1>a. ASSUME s \notin overlap, Alive(a)
      PROVE Holds(s, a) /\ names[s]["status"] = None /\ \A b \in Attempt : ShardOf(b) = s /\ Alive(b) => b = a
  BY <1>a, <1>t DEF Alone
<1> HIDE DEF s
\* So of its own shard only its own hold is left to show.
<1>l. ASSUME \A b \in Attempt : b # a => at'[b] = at[b], overlap' = overlap, Alive(a),
             names'[s]["status"] = None, s \notin overlap' /\ Alive(a)' => Holds(s, a)'
      PROVE  Alone(s)'
  <2>1. \A b \in Attempt : b # a => (Alive(b)' <=> Alive(b)) BY <1>l DEF Alive
  <2> QED BY <1>a, <1>l, <2>1 DEF Alone
<1>1. ASSUME Begin(a) PROVE SwarmInv'
  <2>1. PICK to \in {"done", "run"} : at' = [at EXCEPT ![a] = to] /\ (to = "run" => names[s]["status"] = None)
    BY <1>1 DEF Begin, Continue, FileAt, s
  <2>2. /\ at'[a] = to /\ \A b \in Attempt : b # a => at'[b] = at[b]
        /\ UNCHANGED <<names, text, opened, merge>> /\ at[a] = "idle"
    BY <1>1, <1>t, <2>1 DEF Begin, SwarmTyped
  <2>3. SwarmTyped' /\ ShardsAreApart' BY <1>t, <2>1, <2>2 DEF SwarmTyped, Points, ShardsAreApart
  <2>4. overlap \subseteq overlap' /\ overlap' \subseteq overlap \cup {s} BY <1>1 DEF Begin, s
  <2>5. Alone(s)'
    <3> SUFFICES ASSUME s \notin overlap' PROVE Alone(s)' BY DEF Alone
    <3>1. \A b \in Attempt : ShardOf(b) = s => ~Alive(b) BY <1>1 DEF Begin, s
    <3>2. \A b \in Attempt : ShardOf(b) = s /\ Alive(b)' => b = a BY <2>2, <3>1 DEF Alive
    <3>3. Holds(s, a)' BY <2>1, <2>2 DEF Holds
    <3>4. Alive(a)' => names'[s]["status"] = None BY <2>1, <2>2 DEF Alive
    <3>5. s \notin overlap BY <2>4
    <3>6. names'[s]["status"] # None => \E b \in Attempt : Is("status", s, b)' /\ Is("result", s, b)'
      BY <1>t, <2>2, <3>5 DEF Alone, Is
    <3> QED BY <3>2, <3>3, <3>4, <3>6 DEF Alone
  <2> QED BY <1>s, <1>t, <2>2, <2>3, <2>4, <2>5, OwnShard DEF s
<1>2. ASSUME RunTests(a) PROVE SwarmInv'
  <2>1. at[a] = "run" /\ Continue(a, "ran") /\ Opens(a, "tmp", "result") /\ UNCHANGED <<overlap, merge>>
    BY <1>2 DEF RunTests
  <2>2. /\ SwarmTyped' /\ ShardsAreApart' /\ opened'[a] = names'[s]["tmp"] /\ at'[a] = "ran"
        /\ opened'[a] \in Files /\ Belongs(opened'[a], s)
        /\ \A t \in Shards : t # s => names'[t] = names[t]
        /\ \A o \in Out : o # "tmp" => names'[s][o] = names[s][o]
        /\ \A f \in Files : f # opened'[a] => text'[f] = text[f]
        /\ \A b \in Attempt : b # a => opened'[b] = opened[b] /\ at'[b] = at[b]
    <3>1. "tmp" \in Out /\ "ran" \in Points BY DEF Out, Points
    <3> QED BY <1>k, <2>1, <3>1, OpensIt DEF s
  <2>3. Alive(a) BY <2>1 DEF Alive
  <2>4. Alone(s)'
    <3>1. CASE s \in overlap BY <2>1, <3>1 DEF Alone
    <3>2. CASE s \notin overlap
      <4>1. names'[s]["status"] = None BY <1>a, <1>o, <2>2, <2>3, <3>2
      <4>2. Holds(s, a)' BY <2>2 DEF Holds
      <4> QED BY <1>l, <2>1, <2>2, <2>3, <4>1, <4>2
    <3> QED BY <3>1, <3>2
  <2> QED BY <2>1, <2>2, <2>4, OwnShard DEF s
<1>3. ASSUME TestsExit(a) PROVE SwarmInv'
  <2>1. /\ at[a] = "ran" /\ Continue(a, "keep") /\ text' = [text EXCEPT ![opened[a]] = a]
        /\ UNCHANGED <<names, opened, overlap, merge>>
    BY <1>3 DEF TestsExit
  <2>2. /\ SwarmTyped' /\ ShardsAreApart' /\ at'[a] = "keep"
        /\ text'[opened[a]] = a /\ opened[a] # None
        /\ \A f \in Files : ~Belongs(f, s) => text'[f] = text[f]
        /\ \A b \in Attempt : b # a => at'[b] = at[b]
    BY <2>1, WritesIt DEF Points, s
  <2>3. Alive(a) BY <2>1 DEF Alive
  <2>4. Alone(s)'
    <3>1. CASE s \in overlap BY <2>1, <3>1 DEF Alone
    <3>2. CASE s \notin overlap
      <4>1. names'[s]["status"] = None /\ Holds(s, a) BY <1>a, <2>1, <2>3, <3>2
      <4>2. opened[a] = names[s]["tmp"] BY <2>1, <4>1 DEF Holds
      <4>3. Holds(s, a)' BY <2>1, <2>2, <4>2 DEF Holds, Is
      <4> QED BY <1>l, <2>1, <2>2, <2>3, <4>1, <4>3
    <3> QED BY <3>1, <3>2
  <2> QED BY <2>1, <2>2, <2>4, OwnShard DEF s
<1>4. ASSUME KeepResult(a) PROVE SwarmInv'
  <2>1. at[a] = "keep" /\ Continue(a, "open") /\ Moves(a, "tmp", "result") /\ UNCHANGED <<text, opened, overlap, merge>>
    BY <1>4 DEF KeepResult
  <2>2. /\ SwarmTyped' /\ ShardsAreApart' /\ at'[a] = "open"
        /\ \A b \in Attempt : b # a => at'[b] = at[b]
        /\ \A t \in Shards : t # s => names'[t] = names[t]
        /\ \A o \in Out \ {"tmp", "result"} : names'[s][o] = names[s][o]
        /\ names[s]["tmp"] # None => names'[s]["result"] = names[s]["tmp"]
    <3>1. "tmp" \in Out /\ "result" \in Out /\ "open" \in Points \ {"ran", "print"} BY DEF Out, Points
    <3> QED BY <1>k, <2>1, <3>1, MovesIt DEF s
  <2>3. Alive(a) BY <2>1 DEF Alive
  <2>4. Alone(s)'
    <3>1. CASE s \in overlap BY <2>1, <3>1 DEF Alone
    <3>2. CASE s \notin overlap
      <4>1. names'[s]["status"] = None /\ Holds(s, a) BY <1>a, <1>o, <2>2, <2>3, <3>2
      <4>2. Is("tmp", s, a) BY <2>1, <4>1 DEF Holds
      <4>3. Is("result", s, a)' BY <2>1, <2>2, <4>2 DEF Is
      <4>4. Holds(s, a)' BY <2>2, <4>3 DEF Holds
      <4> QED BY <1>l, <2>1, <2>2, <2>3, <4>1, <4>4
    <3> QED BY <3>1, <3>2
  <2> QED BY <2>1, <2>2, <2>4, OwnShard DEF s
<1>5. ASSUME OpenStatus(a) PROVE SwarmInv'
  <2>1. at[a] = "open" /\ Continue(a, "print") /\ Opens(a, "stmp", "code") /\ UNCHANGED <<overlap, merge>>
    BY <1>5 DEF OpenStatus
  <2>2. /\ SwarmTyped' /\ ShardsAreApart' /\ opened'[a] = names'[s]["stmp"] /\ at'[a] = "print"
        /\ opened'[a] \in Files /\ Belongs(opened'[a], s) /\ opened'[a][1] = "code"
        /\ \A t \in Shards : t # s => names'[t] = names[t]
        /\ \A o \in Out : o # "stmp" => names'[s][o] = names[s][o]
        /\ \A f \in Files : f # opened'[a] => text'[f] = text[f]
        /\ \A b \in Attempt : b # a => opened'[b] = opened[b] /\ at'[b] = at[b]
    <3>1. "stmp" \in Out /\ "print" \in Points BY DEF Out, Points
    <3> QED BY <1>k, <2>1, <3>1, OpensIt DEF s
  <2>3. Alive(a) BY <2>1 DEF Alive
  <2>4. Alone(s)'
    <3>1. CASE s \in overlap BY <2>1, <3>1 DEF Alone
    <3>2. CASE s \notin overlap
      <4>1. names'[s]["status"] = None /\ Holds(s, a) BY <1>a, <1>o, <2>2, <2>3, <3>2
      <4>2. Is("result", s, a) BY <2>1, <4>1 DEF Holds
      <4>3. names[s]["result"] \in Files /\ names[s]["result"][1] = "result" BY <1>k, <1>o, <1>w, <4>2 DEF Is
      <4>4. Is("result", s, a)' BY <1>o, <2>2, <4>2, <4>3 DEF Is
      <4>5. Holds(s, a)' BY <2>2, <4>4 DEF Holds
      <4> QED BY <1>l, <2>1, <2>2, <2>3, <4>1, <4>5
    <3> QED BY <3>1, <3>2
  <2> QED BY <2>1, <2>2, <2>4, OwnShard DEF s
<1>6. ASSUME PrintStatus(a) PROVE SwarmInv'
  <2>1. /\ at[a] = "print" /\ Continue(a, "keepcode") /\ text' = [text EXCEPT ![opened[a]] = a]
        /\ UNCHANGED <<names, opened, overlap, merge>>
    BY <1>6 DEF PrintStatus
  <2>2. /\ SwarmTyped' /\ ShardsAreApart' /\ at'[a] = "keepcode"
        /\ text'[opened[a]] = a /\ opened[a] # None
        /\ \A f \in Files : f # opened[a] => text'[f] = text[f]
        /\ \A f \in Files : ~Belongs(f, s) => text'[f] = text[f]
        /\ \A b \in Attempt : b # a => at'[b] = at[b]
    BY <2>1, WritesIt DEF Points, s
  <2>3. Alive(a) BY <2>1 DEF Alive
  <2>4. Alone(s)'
    <3>1. CASE s \in overlap BY <2>1, <3>1 DEF Alone
    <3>2. CASE s \notin overlap
      <4>1. names'[s]["status"] = None /\ Holds(s, a) BY <1>a, <2>1, <2>3, <3>2
      <4>2. opened[a] = names[s]["stmp"] /\ Is("result", s, a) BY <2>1, <4>1 DEF Holds
      <4>3. names[s]["result"] \in Files /\ names[s]["result"][1] = "result" /\ names[s]["stmp"][1] = "code"
        BY <1>k, <1>o, <1>w, <2>2, <4>2 DEF Is
      <4>4. Is("result", s, a)' /\ Is("stmp", s, a)' BY <2>1, <2>2, <4>2, <4>3 DEF Is
      <4>5. Holds(s, a)' BY <2>2, <4>4 DEF Holds
      <4> QED BY <1>l, <2>1, <2>2, <2>3, <4>1, <4>5
    <3> QED BY <3>1, <3>2
  <2> QED BY <2>1, <2>2, <2>4, OwnShard DEF s
<1>7. ASSUME KeepStatus(a) PROVE SwarmInv'
  <2>1. at[a] = "keepcode" /\ Continue(a, "done") /\ Moves(a, "stmp", "status") /\ UNCHANGED <<text, opened, overlap, merge>>
    BY <1>7 DEF KeepStatus
  <2>2. /\ SwarmTyped' /\ ShardsAreApart' /\ at'[a] = "done"
        /\ \A b \in Attempt : b # a => at'[b] = at[b]
        /\ \A t \in Shards : t # s => names'[t] = names[t]
        /\ \A o \in Out \ {"stmp", "status"} : names'[s][o] = names[s][o]
        /\ names[s]["stmp"] # None => names'[s]["status"] = names[s]["stmp"]
    <3>1. "stmp" \in Out /\ "status" \in Out /\ "done" \in Points \ {"ran", "print"} BY DEF Out, Points
    <3> QED BY <1>k, <2>1, <3>1, MovesIt DEF s
  <2>3. Alive(a) BY <2>1 DEF Alive
  <2>4. Alone(s)'
    <3> SUFFICES ASSUME s \notin overlap PROVE Alone(s)' BY <2>1 DEF Alone
    <3>1. Holds(s, a) /\ \A b \in Attempt : ShardOf(b) = s /\ Alive(b) => b = a BY <1>a, <2>3
    <3>2. \A b \in Attempt : ShardOf(b) = s => ~Alive(b)' BY <2>2, <3>1 DEF Alive
    <3>3. Is("stmp", s, a) /\ Is("result", s, a) BY <2>1, <3>1 DEF Holds
    <3>4. Is("status", s, a)' /\ Is("result", s, a)' BY <1>o, <2>1, <2>2, <3>3 DEF Is
    <3> QED BY <3>2, <3>4 DEF Alone
  <2> QED BY <2>1, <2>2, <2>4, OwnShard DEF s
<1>8. ASSUME KillAttempt(a) PROVE SwarmInv'
  <2>1. Alive(a) /\ at' = [at EXCEPT ![a] = "killed"] /\ UNCHANGED <<names, text, opened, overlap, merge>>
    BY <1>8 DEF KillAttempt, Continue
  <2>2. at'[a] = "killed" /\ \A b \in Attempt : b # a => at'[b] = at[b] BY <1>t, <2>1 DEF SwarmTyped
  <2>3. SwarmTyped' /\ ShardsAreApart' BY <1>t, <2>1, <2>2 DEF SwarmTyped, Points, ShardsAreApart
  <2>4. Alone(s)'
    <3>1. CASE s \in overlap BY <2>1, <3>1 DEF Alone
    <3>2. CASE s \notin overlap
      <4>1. names'[s]["status"] = None /\ ~Alive(a)' BY <1>a, <2>1, <2>2, <3>2 DEF Alive
      <4> QED BY <1>l, <2>1, <2>2, <4>1
    <3> QED BY <3>1, <3>2
  <2> QED BY <2>1, <2>2, <2>3, <2>4, OwnShard DEF s
<1> QED BY <1>1, <1>2, <1>3, <1>4, <1>5, <1>6, <1>7, <1>8

LEMMA SwarmStarts == ASSUME SwarmInit PROVE SwarmInv
<1>1. SwarmTyped BY DEF SwarmInit, SwarmTyped, Points, Files
<1>2. ShardsAreApart BY DEF SwarmInit, ShardsAreApart, Files
<1>3. \A s \in Shards : Alone(s)
  <2>1. "status" \in Out BY DEF Out
  <2> QED BY <2>1 DEF SwarmInit, Alone, Alive
<1>4. merge # 0 BY SwarmParameters DEF SwarmInit
<1> QED BY <1>1, <1>2, <1>3, <1>4 DEF SwarmInv

LEMMA SwarmStays == ASSUME SwarmInv, [SwarmNext]_swarmVars PROVE SwarmInv'
<1>1. CASE Merge
  <2>1. SwarmTyped' /\ ShardsAreApart' BY <1>1 DEF Merge, SwarmInv, SwarmTyped, ShardsAreApart
  <2>2. \A s \in Shards : Alone(s)' BY <1>1 DEF Merge, SwarmInv, Alone, Alive, Holds, Is
  <2>3. merge' = 0 => \A s \in Shards : Passes(s)' BY <1>1 DEF Merge, Passes, StatusOf
  <2> QED BY <2>1, <2>2, <2>3 DEF SwarmInv
<1>2. CASE merge = None /\ \E a \in Attempt :
             \/ Begin(a) \/ RunTests(a) \/ TestsExit(a) \/ KeepResult(a)
             \/ OpenStatus(a) \/ PrintStatus(a) \/ KeepStatus(a) \/ KillAttempt(a)
  BY <1>2, AttemptSteps
<1>3. CASE UNCHANGED swarmVars
  BY <1>3 DEF swarmVars, SwarmInv, SwarmTyped, ShardsAreApart, Alone, Alive, Holds, Is, Passes, StatusOf
<1> QED BY <1>1, <1>2, <1>3 DEF SwarmNext

LEMMA SwarmIsRight == ASSUME SwarmInv PROVE JobIsItsShards
<1>o. "status" \in Out /\ "result" \in Out BY DEF Out
<1>1. MergePassesIfAllPassed
  <2> SUFFICES ASSUME merge = 0, NEW s \in Shards PROVE \E a \in Attempt : ShardOf(a) = s /\ code[a] = 0
    BY DEF MergePassesIfAllPassed
  <2>1. StatusOf(s) \notin {None, Blank} /\ code[StatusOf(s)] = 0 BY DEF SwarmInv, Passes
  <2>2. names[s]["status"] # None /\ StatusOf(s) = text[names[s]["status"]] BY <2>1 DEF StatusOf
  <2>3. names[s]["status"] \in Files /\ Belongs(names[s]["status"], s)
    BY <1>o, <2>2 DEF SwarmInv, SwarmTyped, ShardsAreApart
  <2>4. StatusOf(s) \in Attempt /\ ShardOf(StatusOf(s)) = s
    BY <2>1, <2>2, <2>3 DEF SwarmInv, SwarmTyped, ShardsAreApart, Belongs
  <2> QED BY <2>1, <2>4
<1>2. StatusIsItsResult
  <2> SUFFICES ASSUME NEW s \in Shards \ overlap, StatusOf(s) # None
               PROVE StatusOf(s) # Blank /\ ResultOf(s) = StatusOf(s)
    BY DEF StatusIsItsResult
  <2>1. names[s]["status"] # None BY DEF StatusOf
  <2>2. PICK a \in Attempt : Is("status", s, a) /\ Is("result", s, a) BY <2>1 DEF SwarmInv, Alone
  <2> QED BY <2>2, SwarmParameters DEF Is, StatusOf, ResultOf
<1> QED BY <1>1, <1>2 DEF JobIsItsShards

(* A merge passes only if every shard's tests passed, and a status stands  *)
(* beside the result of its attempt: for any shards, attempts and kills.   *)
THEOREM JobIsItsShardsAlways == SwarmSpec => []JobIsItsShards
<1>1. SwarmInit => SwarmInv BY SwarmStarts
<1>2. SwarmInv /\ [SwarmNext]_swarmVars => SwarmInv' BY SwarmStays
<1>3. SwarmInv => JobIsItsShards BY SwarmIsRight
<1> QED BY <1>1, <1>2, <1>3, PTL DEF SwarmSpec

-----------------------------------------------------------------------------
(* Overlay: a build's answer is a function of what it found, and whatever  *)
(* that was, it is the disk's where it was read and graphify's where that  *)
(* can be relied on.                                                       *)
Verdict(current) == IF gf = None THEN "absent" ELSE Ignored(current)
Said(rescan) ==
  LET current == Changed(commit) \cup rescan
      verdict == Verdict(current)
      stale == IF verdict = "used" THEN StaleSet(current) ELSE {}
      toScan == IF verdict = "used" THEN OnDisk \cap stale ELSE OnDisk
  IN  [verdict |-> verdict, scanned |-> toScan, rescan |-> rescan,
       graph |-> IF verdict = "used" THEN Overlaid(stale, toScan) ELSE Assembled(toScan)]

OverlayInv ==
  /\ disk \in Trees /\ commit \in Trees /\ commits \subseteq Trees
  /\ commit \in commits /\ steps \in 0..MaxSteps
  /\ gf # None =>
       /\ gf.read \in Trees /\ gf.built \in Trees \cup {None}
       /\ gf.manifest # None => gf.manifest = {p \in Path : gf.read[p] # Gone}
  /\ answer # None => \E rescan \in SUBSET Path : answer = Said(rescan)

LEMMA InTrees ==
  ASSUME NEW t
  PROVE  t \in Trees <=> t = [p \in Path |-> t[p]] /\ \A p \in Path : t[p] \in Content[p] \cup {Gone}
BY DEF Trees

\* The definitions a scan finds in a file, and those graphify read of it.
LEMMA ScansOfAFile ==
  ASSUME NEW files, NEW n
  PROVE  n \in ScanNodes(files) <=>
           \E f \in files : \E d \in Defines[disk[f]] : n = Node(f, d[1], d[2])
BY DEF ScanNodes

LEMMA NodesOfGraphify ==
  ASSUME NEW n
  PROVE  n \in GfNodes <=> \E f \in Path : \E d \in Defines[gf.read[f]] : n = Node(f, Flat, d[2])
BY DEF GfNodes

\* What is said depends on the disk, the commits and graphify's graph alone.
LEMMA SaysTheSame ==
  ASSUME UNCHANGED <<disk, commit, commits, gf>>, NEW rescan PROVE Said(rescan)' = Said(rescan)
<1>1. OnDisk' = OnDisk /\ \A t : Changed(t)' = Changed(t) BY DEF OnDisk, Changed
<1>2. GfNodes' = GfNodes BY DEF GfNodes
<1>3. GfEdges' = GfEdges BY <1>2 DEF GfEdges
<1>4. CodeFiles' = CodeFiles BY <1>2 DEF CodeFiles
<1>5. \A f : IsCode(f)' = IsCode(f) BY <1>4 DEF IsCode
<1>6. \A current : StaleSet(current)' = StaleSet(current) BY <1>1, <1>4, <1>5 DEF StaleSet
<1>7. \A stale : TooStale(stale)' = TooStale(stale) BY <1>4, <1>5 DEF TooStale
<1>8. \A current : Verdict(current)' = Verdict(current) BY <1>6, <1>7 DEF Verdict, Ignored
<1>9. \A files : ScanNodes(files)' = ScanNodes(files) BY DEF ScanNodes
<1>10. \A nodes, files : Link(nodes, files)' = Link(nodes, files) BY DEF Link
<1>11. \A stale, files : Overlaid(stale, files)' = Overlaid(stale, files)
  <2> TAKE stale, files
  <2>1. OverlaidNodes(stale, files)' = OverlaidNodes(stale, files) BY <1>2, <1>9 DEF OverlaidNodes
  <2>2. KeptEdges(stale, files)' = KeptEdges(stale, files) BY <1>3, <1>9 DEF KeptEdges, Repointed
  <2>3. Link(OverlaidNodes(stale, files), files)' = Link(OverlaidNodes(stale, files), files)
    BY <2>1 DEF Link
  <2> QED BY <2>1, <2>2, <2>3 DEF Overlaid
<1>12. \A files : Assembled(files)' = Assembled(files) BY <1>9, <1>10 DEF Assembled
<1> QED BY <1>1, <1>6, <1>8, <1>11, <1>12 DEF Said

LEMMA OverlayStarts == ASSUME OverlayInit PROVE OverlayInv
BY OverlayParameters DEF OverlayInit, OverlayInv

LEMMA StepsAreCounted == ASSUME steps \in 0..MaxSteps, OneStep PROVE steps' \in 0..MaxSteps
BY OverlayParameters DEF OneStep

LEMMA OverlayStays == ASSUME OverlayInv, [OverlayNext]_overlayVars PROVE OverlayInv'
<1> USE DEF OverlayInv
<1>1. ASSUME NEW rescan \in SUBSET Path, Answer(rescan) PROVE OverlayInv'
  <2>1. UNCHANGED <<disk, commit, commits, gf>> BY <1>1 DEF Answer
  <2>2. answer' = Said(rescan) BY <1>1 DEF Answer, Said, Verdict
  <2>3. Said(rescan)' = Said(rescan) BY <2>1, SaysTheSame
  <2> QED BY <2>1, <2>2, <2>3, <1>1 DEF Answer
<1>2. ASSUME NEW p \in Path, NEW c \in Content[p] \cup {Gone}, EditFile(p, c) PROVE OverlayInv'
  <2>1. disk' \in Trees BY <1>2, InTrees DEF EditFile
  <2> QED BY <1>2, <2>1, StepsAreCounted DEF EditFile, OneStep, Trees
<1>3. ASSUME NEW files \in SUBSET Path, CommitFiles(files) PROVE OverlayInv'
  <2>1. commit' \in Trees BY <1>3, InTrees DEF CommitFiles
  <2> QED BY <1>3, <2>1, StepsAreCounted DEF CommitFiles, OneStep, Trees
<1>4. ASSUME NEW t \in commits, CheckoutTree(t) PROVE OverlayInv'
  <2>1. disk' \in Trees BY <1>4, InTrees DEF CheckoutTree
  <2> QED BY <1>4, <2>1, StepsAreCounted DEF CheckoutTree, OneStep, Trees
<1>5. ASSUME NEW t \in commits, Prune(t) PROVE OverlayInv'
  BY <1>5, StepsAreCounted DEF Prune, OneStep, Trees
<1>6. ASSUME NEW built \in {None, commit}, NEW manifest \in {None, OnDisk}, Index(built, manifest) PROVE OverlayInv'
  BY <1>6, StepsAreCounted DEF Index, OneStep, Trees, OnDisk
<1>7. CASE UNCHANGED overlayVars
  <2>1. \A rescan \in SUBSET Path : Said(rescan)' = Said(rescan) BY <1>7, SaysTheSame DEF overlayVars
  <2> QED BY <1>7, <2>1 DEF overlayVars, Trees
<1> QED BY <1>1, <1>2, <1>3, <1>4, <1>5, <1>6, <1>7 DEF OverlayNext

LEMMA OnlyKnownIsUsed ==
  ASSUME OverlayInv, NEW current, Verdict(current) = "used"
  PROVE  /\ gf # None /\ gf.built # None /\ gf.built \in Trees
         /\ ~TooStale(StaleSet(current))
<1>1. gf # None /\ gf.built # None /\ gf.built \in commits /\ ~TooStale(StaleSet(current))
  BY DEF Verdict, Ignored
<1> QED BY <1>1 DEF OverlayInv

LEMMA NamesAreRight ==
  ASSUME OverlayInv, answer # None PROVE NamesAreTheDisks
<1>1. PICK rescan \in SUBSET Path : answer = Said(rescan) BY DEF OverlayInv
<1> DEFINE current == Changed(commit) \cup rescan
           stale == StaleSet(current)
           files == OnDisk \cap stale
           nodes == answer.graph.nodes
<1>2. disk \in Trees /\ \A p \in Path : p \notin OnDisk => disk[p] = Gone BY DEF OverlayInv, OnDisk
<1> SUFFICES ASSUME NEW f \in Reliable \cup answer.scanned
             PROVE /\ NamesIn(nodes, f) = {d[2] : d \in Defines[disk[f]]}
                   /\ f \in answer.scanned => {n \in nodes : n.file = f} = ScanNodes({f})
  BY DEF NamesAreTheDisks
\* A file's nodes come from one source.
<1>3. ASSUME \A n : n.file = f => (n \in nodes <=> n \in ScanNodes({f}))
      PROVE /\ NamesIn(nodes, f) = {d[2] : d \in Defines[disk[f]]}
            /\ {n \in nodes : n.file = f} = ScanNodes({f})
  <2>1. \A n \in ScanNodes({f}) : n.file = f BY ScansOfAFile DEF Node
  <2>2. {n \in nodes : n.file = f} = ScanNodes({f}) BY <1>3, <2>1
  <2>3. ASSUME NEW x \in NamesIn(nodes, f) PROVE x \in {d[2] : d \in Defines[disk[f]]}
    <3>1. PICK n \in ScanNodes({f}) : x = n.name BY <2>2 DEF NamesIn
    <3> QED BY <3>1, ScansOfAFile DEF Node
  <2>4. ASSUME NEW d \in Defines[disk[f]] PROVE d[2] \in NamesIn(nodes, f)
    <3>1. Node(f, d[1], d[2]) \in ScanNodes({f}) /\ Node(f, d[1], d[2]).name = d[2] BY ScansOfAFile DEF Node
    <3> QED BY <2>2, <3>1 DEF NamesIn
  <2> QED BY <2>2, <2>3, <2>4
<1>4. CASE Verdict(current) # "used"
  <2>1. answer.scanned = OnDisk /\ nodes = ScanNodes(OnDisk) BY <1>1, <1>4 DEF Said, Assembled
  <2>2. ASSUME NEW n, n.file = f PROVE n \in nodes <=> n \in ScanNodes({f})
    <3>1. CASE f \in OnDisk BY <2>1, <2>2, <3>1, ScansOfAFile DEF Node
    <3>2. CASE f \notin OnDisk
      <4>1. f \in Path BY <2>1, <3>2 DEF Reliable
      <4>2. Defines[disk[f]] = {} BY <1>2, <3>2, <4>1, OverlayParameters
      <4> QED BY <2>1, <2>2, <3>2, <4>2, ScansOfAFile DEF Node
    <3> QED BY <3>1, <3>2
  <2> QED BY <1>3, <2>2
<1>5. CASE Verdict(current) = "used"
  <2>1. /\ answer.scanned = files /\ nodes = OverlaidNodes(stale, files)
    BY <1>1, <1>5 DEF Said, Overlaid
  <2>2. gf # None /\ gf.built # None BY <1>5, OnlyKnownIsUsed
  <2> HIDE DEF nodes, files
  <2>3. CASE f \in files
    <3>1. ASSUME NEW n, n.file = f PROVE n \in nodes <=> n \in ScanNodes({f})
      <4>1. n \notin {m \in GfNodes : m.file \notin stale} BY <2>3, <3>1 DEF files
      <4> QED BY <2>1, <2>3, <3>1, <4>1, ScansOfAFile DEF OverlaidNodes, Node
    <3> QED BY <1>3, <3>1
  <2>4. CASE f \notin files
    <3>1. /\ f \in Path /\ gf.manifest # None
          /\ gf.read[f] = gf.built[f] \/ (f \notin gf.manifest /\ IsCode(f))
      BY <2>1, <2>4 DEF Reliable
    <3>2. \A n \in ScanNodes(files) : n.file # f BY <2>4, ScansOfAFile DEF Node
    <3>3. ASSUME NEW n, n.file = f
          PROVE n \in nodes <=> f \notin stale /\ \E d \in Defines[gf.read[f]] : n = Node(f, Flat, d[2])
      BY <2>1, <3>1, <3>2, <3>3, NodesOfGraphify DEF OverlaidNodes, Node
    \* What is not stale is as graphify's commit has it, and as graphify read it.
    <3>4. ASSUME f \notin stale PROVE Defines[gf.read[f]] = Defines[disk[f]]
      <4>1. CASE f \in OnDisk \cup CodeFiles
        <5>1. disk[f] = gf.built[f] /\ ~(f \in OnDisk /\ f \notin gf.manifest /\ IsCode(f))
          BY <3>1, <3>4, <4>1 DEF StaleSet, Changed
        <5>2. f \notin gf.manifest => gf.read[f] = Gone BY <2>2, <3>1 DEF OverlayInv
        <5> QED BY <1>2, <3>1, <5>1, <5>2
      <4>2. CASE f \notin OnDisk \cup CodeFiles
        <5>1. \A d \in Defines[gf.read[f]] : Node(f, Flat, d[2]) \in GfNodes BY <3>1, NodesOfGraphify
        <5>2. ASSUME NEW d \in Defines[gf.read[f]] PROVE f \in CodeFiles
          <6>1. Node(f, Flat, d[2]).file = f BY DEF Node
          <6> QED BY <5>1, <6>1 DEF CodeFiles
        <5>3. Defines[gf.read[f]] = {} BY <4>2, <5>2
        <5> QED BY <1>2, <3>1, <4>2, <5>3, OverlayParameters
      <4> QED BY <4>1, <4>2
    <3>5. f \in stale => Defines[disk[f]] = {}
      BY <1>2, <2>4, <3>1, OverlayParameters DEF files
    <3>6. NamesIn(nodes, f) = {d[2] : d \in Defines[disk[f]]}
      <4>1. CASE f \in stale
        <5>1. {n \in nodes : n.file = f} = {} BY <3>3, <4>1
        <5> QED BY <3>5, <4>1, <5>1 DEF NamesIn
      <4>2. CASE f \notin stale
        <5>1. ASSUME NEW x \in NamesIn(nodes, f) PROVE x \in {d[2] : d \in Defines[disk[f]]}
          <6>1. PICK n \in nodes : n.file = f /\ x = n.name BY DEF NamesIn
          <6>2. PICK d \in Defines[gf.read[f]] : n = Node(f, Flat, d[2]) BY <3>3, <6>1
          <6> QED BY <3>4, <4>2, <6>1, <6>2 DEF Node
        <5>2. ASSUME NEW d \in Defines[disk[f]] PROVE d[2] \in NamesIn(nodes, f)
          <6>1. Node(f, Flat, d[2]).file = f /\ Node(f, Flat, d[2]).name = d[2] BY DEF Node
          <6>2. Node(f, Flat, d[2]) \in nodes BY <3>3, <3>4, <4>2, <6>1
          <6> QED BY <6>1, <6>2 DEF NamesIn
        <5> QED BY <5>1, <5>2
      <4> QED BY <4>1, <4>2
    <3> QED BY <2>1, <2>4, <3>6
  <2> QED BY <2>3, <2>4
<1> QED BY <1>4, <1>5

LEMMA CallsStay ==
  ASSUME OverlayInv, answer # None PROVE CallsSurvive
<1>1. PICK rescan \in SUBSET Path : answer = Said(rescan) BY DEF OverlayInv
<1> DEFINE current == Changed(commit) \cup rescan
           stale == StaleSet(current)
           files == OnDisk \cap stale
           nodes == answer.graph.nodes
           edges == answer.graph.edges
<1> SUFFICES ASSUME answer.verdict = "used", NEW e \in GfEdges, e[1] \in nodes,
                    e[2].name \in NamesIn(nodes, e[2].file)
             PROVE \E n \in nodes : n.file = e[2].file /\ n.name = e[2].name /\ <<e[1], n>> \in edges
  BY DEF CallsSurvive
<1>2. Verdict(current) = "used" BY <1>1 DEF Said
<1>3. nodes = OverlaidNodes(stale, files) /\ edges = KeptEdges(stale, files) \cup Link(OverlaidNodes(stale, files), files)
  BY <1>1, <1>2 DEF Said, Overlaid
<1>4. e[1] \in GfNodes /\ e[2] \in GfNodes /\ e = <<e[1], e[2]>> BY DEF GfEdges
<1>5. disk \in Trees /\ files \subseteq Path BY DEF OverlayInv, OnDisk
<1> HIDE DEF nodes, edges, stale, files
\* graphify's nodes have no scope, those of a scan have one.
<1>6. e[1].file \notin stale
  <2>1. e[1].scope = Flat BY <1>4, NodesOfGraphify DEF Node
  <2>2. ASSUME NEW f \in files, NEW d \in Defines[disk[f]], e[1] = Node(f, d[1], d[2]) PROVE FALSE
    <3>1. d[1] = Flat BY <2>1, <2>2 DEF Node
    <3>2. f \in Path /\ disk[f] \in Content[f] \cup {Gone} BY <1>5, InTrees
    <3> QED BY <3>1, <3>2, OverlayParameters
  <2>3. e[1] \notin ScanNodes(files) BY <2>2, ScansOfAFile
  <2> QED BY <1>3, <2>3 DEF OverlaidNodes
<1>7. Repointed(e, stale, ScanNodes(files)) \subseteq edges BY <1>3 DEF KeptEdges
<1>8. CASE e[2].file \notin stale
  <2>1. e[2] \in nodes BY <1>3, <1>4, <1>8 DEF OverlaidNodes
  <2>2. e \in edges BY <1>6, <1>7, <1>8 DEF Repointed
  <2> QED BY <1>4, <2>1, <2>2
<1>9. CASE e[2].file \in stale
  <2>1. PICK n \in nodes : n.file = e[2].file /\ n.name = e[2].name BY DEF NamesIn
  <2>2. n \in ScanNodes(files) BY <1>3, <1>9, <2>1 DEF OverlaidNodes
  <2>3. <<e[1], n>> \in Repointed(e, stale, ScanNodes(files)) BY <1>6, <1>9, <2>1, <2>2 DEF Repointed
  <2> QED BY <1>7, <2>1, <2>3
<1> QED BY <1>8, <1>9

LEMMA ChangesAreRead ==
  ASSUME OverlayInv, answer # None PROVE ChangesAreScanned
<1>1. PICK rescan \in SUBSET Path : answer = Said(rescan) BY DEF OverlayInv
<1>2. answer.rescan = rescan BY <1>1 DEF Said
<1>3. CASE Verdict(Changed(commit) \cup rescan) = "used"
  BY <1>1, <1>2, <1>3 DEF Said, StaleSet, ChangesAreScanned
<1>4. CASE Verdict(Changed(commit) \cup rescan) # "used"
  BY <1>1, <1>2, <1>4 DEF Said, ChangesAreScanned
<1> QED BY <1>3, <1>4

LEMMA EnoughIsLeft ==
  ASSUME OverlayInv, answer # None PROVE EnoughIsVouched
<1>1. PICK rescan \in SUBSET Path : answer = Said(rescan) BY DEF OverlayInv
<1> DEFINE current == Changed(commit) \cup rescan
           stale == StaleSet(current)
           files == OnDisk \cap stale
           nodes == answer.graph.nodes
           believed == {n.file : n \in nodes \cap GfNodes}
           gone == {f \in stale : IsCode(f)}
<1> SUFFICES ASSUME answer.verdict = "used"
             PROVE CodeFiles # {} /\ 100 * Cardinality(believed) >= (100 - MaxStale) * Cardinality(CodeFiles)
  BY DEF EnoughIsVouched
<1>2. Verdict(current) = "used" BY <1>1 DEF Said
<1>3. nodes = OverlaidNodes(stale, files) BY <1>1, <1>2 DEF Said, Overlaid
<1>4. CodeFiles # {} /\ ~(100 * Cardinality(gone) > MaxStale * Cardinality(CodeFiles))
  BY <1>2, OnlyKnownIsUsed DEF TooStale
<1>5. CodeFiles \subseteq Path /\ stale \subseteq Path
  <2>1. CodeFiles \subseteq Path BY NodesOfGraphify DEF CodeFiles, Node
  <2> QED BY <2>1 DEF StaleSet, OnDisk
<1>6. believed \subseteq CodeFiles BY DEF CodeFiles
<1>7. CodeFiles \ stale \subseteq believed
  <2> SUFFICES ASSUME NEW f \in CodeFiles \ stale PROVE f \in believed OBVIOUS
  <2>1. PICK n \in GfNodes : n.file = f BY DEF CodeFiles
  <2>2. n \in nodes BY <1>3, <2>1 DEF OverlaidNodes
  <2> QED BY <2>1, <2>2
<1>8. CodeFiles \cap stale \subseteq gone BY DEF IsCode
<1>9. gone \subseteq Path BY <1>5
<1> HIDE DEF stale, gone, believed
<1>10. IsFiniteSet(CodeFiles) /\ IsFiniteSet(believed) /\ IsFiniteSet(gone)
  BY <1>5, <1>6, <1>9, FS_Subset, OverlayParameters
<1>11. IsFiniteSet(CodeFiles \ stale) /\ IsFiniteSet(CodeFiles \cap stale) BY <1>10, FS_Subset
<1>12. /\ Cardinality(CodeFiles \ stale) <= Cardinality(believed)
       /\ Cardinality(CodeFiles \cap stale) <= Cardinality(gone)
  BY <1>7, <1>8, <1>10, FS_Subset
<1>13. Cardinality(CodeFiles) = Cardinality(CodeFiles \ stale) + Cardinality(CodeFiles \cap stale)
  <2>1. Cardinality(CodeFiles \ stale) = Cardinality(CodeFiles) - Cardinality(CodeFiles \cap stale)
    BY <1>10, FS_Difference
  <2> QED BY <1>10, <1>11, <2>1, FS_CardinalityType
<1> DEFINE c == Cardinality(CodeFiles) b == Cardinality(believed) g == Cardinality(gone)
           k == Cardinality(CodeFiles \ stale) l == Cardinality(CodeFiles \cap stale)
<1>14. c \in Nat /\ b \in Nat /\ g \in Nat /\ k \in Nat /\ l \in Nat BY <1>10, <1>11, FS_CardinalityType
<1>15. k <= b /\ l <= g /\ c = k + l /\ ~(100 * g > MaxStale * c) BY <1>4, <1>12, <1>13
<1> HIDE DEF c, b, g, k, l
<1> DEFINE share == MaxStale * c
<1>16. share \in Nat /\ (100 - MaxStale) * c = 100 * c - share BY <1>14, OverlayParameters
<1>17. 100 * g <= share BY <1>14, <1>15, <1>16
<1> HIDE DEF share
<1>18. 100 * b >= 100 * c - share BY <1>14, <1>15, <1>16, <1>17
<1> QED BY <1>4, <1>16, <1>18 DEF b, c

(* A build's answer has the disk's names and graphify's calls, scans what  *)
(* changed and believes graphify only if enough of it stands: of any tree, *)
(* any history and any graph of graphify's.                                *)
THEOREM AnswerIsTheDisksAlways == OverlaySpec => []AnswerIsTheDisks
<1>1. OverlayInit => OverlayInv BY OverlayStarts
<1>2. OverlayInv /\ [OverlayNext]_overlayVars => OverlayInv' BY OverlayStays
<1>3. OverlayInv => AnswerIsTheDisks
  <2>1. CASE answer = None
    BY <2>1 DEF AnswerIsTheDisks, NamesAreTheDisks, CallsSurvive, ChangesAreScanned, EnoughIsVouched
  <2>2. CASE answer # None
    BY <2>2, NamesAreRight, CallsStay, ChangesAreRead, EnoughIsLeft DEF AnswerIsTheDisks
  <2> QED BY <2>1, <2>2
<1> QED BY <1>1, <1>2, <1>3, PTL DEF OverlaySpec

\* Every edge joins two nodes of the graph it is in.
LEMMA EdgesJoinNodes ==
  ASSUME OverlayInv, answer # None
  PROVE  answer.scanned \subseteq OnDisk /\ answer.graph.edges \subseteq answer.graph.nodes \X answer.graph.nodes
<1>1. PICK rescan \in SUBSET Path : answer = Said(rescan) BY DEF OverlayInv
<1>2. answer.scanned \subseteq OnDisk BY <1>1 DEF Said
<1>3. \A nodes, files : Link(nodes, files) \subseteq nodes \X nodes BY DEF Link
<1>4. ASSUME NEW stale, NEW files
      PROVE  KeptEdges(stale, files) \subseteq OverlaidNodes(stale, files) \X OverlaidNodes(stale, files)
  <2> SUFFICES ASSUME NEW e \in GfEdges, NEW g \in Repointed(e, stale, ScanNodes(files))
               PROVE  g \in OverlaidNodes(stale, files) \X OverlaidNodes(stale, files)
    BY DEF KeptEdges
  <2>1. e \in GfNodes \X GfNodes /\ e = <<e[1], e[2]>> BY DEF GfEdges
  <2>2. e[1].file \notin stale BY DEF Repointed
  <2>3. e[1] \in OverlaidNodes(stale, files) BY <2>1, <2>2 DEF OverlaidNodes
  <2>4. CASE e[2].file \notin stale
    <3>1. g = e /\ e[2] \in OverlaidNodes(stale, files) BY <2>1, <2>2, <2>4 DEF Repointed, OverlaidNodes
    <3> QED BY <2>1, <2>3, <3>1
  <2>5. CASE e[2].file \in stale
    <3>1. PICK n \in ScanNodes(files) : g = <<e[1], n>> BY <2>2, <2>5 DEF Repointed
    <3> QED BY <2>3, <3>1 DEF OverlaidNodes
  <2> QED BY <2>4, <2>5
<1>5. answer.graph.edges \subseteq answer.graph.nodes \X answer.graph.nodes
  BY <1>1, <1>3, <1>4 DEF Said, Overlaid, Assembled
<1> QED BY <1>2, <1>5

-----------------------------------------------------------------------------
(* The machine as a whole: what each part does of its own it does beside   *)
(* the others.                                                             *)
LEMMA BuildsIsItsParts == BuildsSpec => OverlaySpec /\ UpdateSpec
<1>1. BuildsInit => OverlayInit /\ UpdateInit BY DEF BuildsInit
<1>2. [BuildsNext]_buildsVars => [OverlayNext]_overlayVars /\ [UpdateNext]_updateVars
  BY DEF BuildsNext, buildsVars
<1> QED BY <1>1, <1>2, PTL DEF BuildsSpec, OverlaySpec, UpdateSpec

(* Whatever is built, edited, indexed, replaced or killed on one machine,  *)
(* the trees are trees, a graph's edges join its own nodes, and the name a *)
(* binary was moved to is not the one it is installed at.                  *)
THEOREM BuildsTypeOKAlways == BuildsSpec => []BuildsTypeOK
<1>1. OverlaySpec => []OverlayTypeOK
  <2>1. OverlayInit => OverlayInv BY OverlayStarts
  <2>2. OverlayInv /\ [OverlayNext]_overlayVars => OverlayInv' BY OverlayStays
  <2>3. OverlayInv => OverlayTypeOK BY EdgesJoinNodes DEF OverlayInv, OverlayTypeOK
  <2> QED BY <2>1, <2>2, <2>3, PTL DEF OverlaySpec
<1>2. UpdateSpec => []UpdateTypeOK
  <2>1. UpdateInit => UpdateInv BY InvStarts
  <2>2. UpdateInv /\ [UpdateNext]_updateVars => UpdateInv' BY InvStays
  <2>3. UpdateInv => UpdateTypeOK BY DEF UpdateInv, UpdateTypeOK, Typed, Names
  <2> QED BY <2>1, <2>2, <2>3, PTL DEF UpdateSpec
<1>3. OverlayTypeOK /\ UpdateTypeOK => BuildsTypeOK BY DEF BuildsTypeOK
<1> QED BY <1>1, <1>2, <1>3, BuildsIsItsParts, PTL
=============================================================================
