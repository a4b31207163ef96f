------------------------------ MODULE BenchProofs ------------------------------
(***************************************************************************)
(* Proofs about what the two benchmarks keep: the stores and the worktrees *)
(* of the replay, and the gate and the reports of the agent benchmark.     *)
(*                                                                         *)
(* The stores.  The virtualenv needs an invariant of the build in flight:  *)
(* what is left to install, put on top of what is there, gives the         *)
(* recipe's.  It holds because installing one sequence after another is    *)
(* installing them together, and of several installs of a package the last *)
(* one counts, which takes that a set of positions has a greatest.         *)
(*                                                                         *)
(* The gate.  Between the tag and the commit that is checked out, the form *)
(* would have to change somewhere first; that commit touches it, so the    *)
(* gate's own last one is no older, and it is in the tag: no commit after  *)
(* the tag can be it.  The invariant keeps what this takes of a history: a *)
(* parent is made before its child, and a commit never changes.            *)
(*                                                                         *)
(* The worktrees.  The points are lists of commits, built one by one, and  *)
(* what such a list has is shown at the least place where it would not.    *)
(* In a history without branches the points follow each other, since none  *)
(* between two of them is left out, so each is written over its parent.    *)
(*                                                                         *)
(* The picks.  What a strategy answers is made by joining and by leaving   *)
(* out, so what there is to know of those is what their results hold and   *)
(* that it is there once.  Only importgraph takes steps: its walk has seen *)
(* what changed and the importers of what is off its stack, and nothing    *)
(* that some set closed under importing does without.                      *)
(*                                                                         *)
(* The outcomes.  While a suite runs, its log tells of each test the batch *)
(* has come to what its phases did, and of each module that does not       *)
(* import that it does not; when the batch ends the outcomes say it        *)
(* instead.  chunk is followed step by step: the batches so far are the    *)
(* tests so far, in order, and each has one test or keeps to the budget.   *)
(*                                                                         *)
(* The scores.  A sum is the size of a set of pairs, so that parts add up  *)
(* to it, and none exceeds it, because sets do; what is left is what the   *)
(* records keep: answers are of recorded cycles and of collected tests,    *)
(* samples are sorted, and what is derived once is derived the same again. *)
(***************************************************************************)
EXTENDS Extremes, AgentArm, BenchStores, ReplayTree, Registration, Evaluation, Selections,
        Outcomes, Scores,
        SequenceTheorems, FiniteSetTheorems, TLAPS

-----------------------------------------------------------------------------
(* What a sequence of installs leaves of a package is its last one.        *)
Places(seq, p) == {k \in DOMAIN seq : seq[k][1] = p}
Final(seq, p) == CHOOSE k \in Places(seq, p) : \A m \in Places(seq, p) : m <= k

LEMMA FinalIsLast ==
  ASSUME NEW S, NEW seq \in Seq(S), NEW p, Places(seq, p) # {}
  PROVE  /\ Final(seq, p) \in Places(seq, p)
         /\ \A m \in Places(seq, p) : m <= Final(seq, p)
<1>1. Len(seq) \in Nat /\ Places(seq, p) \subseteq 1..Len(seq) BY DEF Places
<1>2. \E k \in Places(seq, p) : \A m \in Places(seq, p) : m <= k BY <1>1, GreatestOf
<1> QED BY <1>2 DEF Final

LEMMA InstalledAt ==
  ASSUME NEW venv, NEW seq, NEW p \in Package
  PROVE  Installed(venv, seq)[p] =
           IF Places(seq, p) = {} THEN venv[p] ELSE seq[Final(seq, p)][2]
BY DEF Installed, Places, Final

LEMMA InstalledIsOfPackages ==
  ASSUME NEW venv, NEW seq
  PROVE  Installed(venv, seq) = [p \in Package |-> Installed(venv, seq)[p]]
BY DEF Installed

(* Installing two sequences one after the other is installing them as one. *)
LEMMA InstalledTogether ==
  ASSUME NEW venv, NEW S, NEW s \in Seq(S), NEW t \in Seq(S)
  PROVE  Installed(Installed(venv, s), t) = Installed(venv, s \o t)
<1> DEFINE u == s \o t
<1>1. /\ u \in Seq(S) /\ Len(u) = Len(s) + Len(t) /\ DOMAIN u = 1..(Len(s) + Len(t))
      /\ Len(s) \in Nat /\ Len(t) \in Nat /\ DOMAIN s = 1..Len(s) /\ DOMAIN t = 1..Len(t)
  BY SMT
<1>2. /\ \A k \in 1..Len(s) : u[k] = s[k]
      /\ \A k \in 1..Len(t) : u[Len(s) + k] = t[k]
  BY SMT
<1>3. ASSUME NEW p \in Package
      PROVE  Installed(Installed(venv, s), t)[p] = Installed(venv, u)[p]
  <2>1. CASE Places(t, p) = {}
    <3>1. Places(u, p) = Places(s, p)
      <4>1. ASSUME NEW k \in 1..(Len(s) + Len(t)), u[k][1] = p PROVE k \in 1..Len(s)
        <5> SUFFICES ASSUME k > Len(s) PROVE FALSE BY <1>1, SMT
        <5>1. k - Len(s) \in 1..Len(t) /\ k = Len(s) + (k - Len(s)) BY <1>1, SMT
        <5>2. t[k - Len(s)][1] = p BY <1>2, <4>1, <5>1
        <5> QED BY <1>1, <2>1, <5>1, <5>2 DEF Places
      <4>2. 1..Len(s) \subseteq 1..(Len(s) + Len(t)) BY <1>1, SMT
      <4> HIDE DEF u
      <4> QED BY <1>1, <1>2, <4>1, <4>2 DEF Places
    <3>2. Final(u, p) = Final(s, p) BY <3>1 DEF Final
    <3>3. Places(s, p) # {} => u[Final(u, p)] = s[Final(s, p)]
      <4> SUFFICES ASSUME Places(s, p) # {} PROVE u[Final(u, p)] = s[Final(s, p)]
        OBVIOUS
      <4>1. Final(s, p) \in 1..Len(s) BY <1>1, FinalIsLast DEF Places
      <4> QED BY <1>2, <3>2, <4>1
    <3> HIDE DEF u
    <3> QED BY <2>1, <3>1, <3>3, InstalledAt
  <2>2. CASE Places(t, p) # {}
    <3> DEFINE k == Final(t, p)
    <3>1. k \in Places(t, p) /\ (\A m \in Places(t, p) : m <= k) BY <2>2, FinalIsLast
    <3>2. k \in 1..Len(t) /\ t[k][1] = p BY <1>1, <3>1 DEF Places
    <3> HIDE DEF k
    <3>3. Len(s) + k \in Places(u, p)
      <4>1. Len(s) + k \in 1..(Len(s) + Len(t)) BY <1>1, <3>2, SMT
      <4> HIDE DEF u
      <4> QED BY <1>1, <1>2, <3>2, <4>1 DEF Places
    <3>4. ASSUME NEW m \in Places(u, p) PROVE m <= Len(s) + k
      <4> SUFFICES ASSUME m > Len(s) + k PROVE FALSE
        <5> HIDE DEF u
        <5>1. m \in 1..(Len(s) + Len(t)) BY <1>1 DEF Places
        <5> QED BY <1>1, <3>2, <5>1, SMT
      <4>0. m \in 1..(Len(s) + Len(t)) /\ u[m][1] = p
        <5> HIDE DEF u
        <5> QED BY <1>1 DEF Places
      <4>1. m - Len(s) \in 1..Len(t) /\ m = Len(s) + (m - Len(s)) BY <1>1, <3>2, <4>0, SMT
      <4>2. t[m - Len(s)][1] = p BY <1>2, <4>0, <4>1
      <4>3. m - Len(s) \in Places(t, p) BY <1>1, <4>1, <4>2 DEF Places
      <4>4. m - Len(s) <= k BY <3>1, <4>3
      <4> QED BY <1>1, <3>2, <4>0, <4>4, SMT
    <3>5. Final(u, p) = Len(s) + k
      <4> HIDE DEF u
      <4>1. Final(u, p) \in Places(u, p) /\ (\A m \in Places(u, p) : m <= Final(u, p))
        BY <1>1, <3>3, FinalIsLast
      <4>2. Final(u, p) <= Len(s) + k /\ Len(s) + k <= Final(u, p) BY <3>3, <3>4, <4>1
      <4>3. Final(u, p) \in Nat /\ Len(s) + k \in Nat BY <1>1, <3>2, <4>1, SMT DEF Places
      <4> QED BY <4>2, <4>3, SMT
    <3>6. u[Final(u, p)] = t[Final(t, p)] BY <1>2, <3>2, <3>5 DEF k
    <3> HIDE DEF u
    <3> QED BY <2>2, <3>3, <3>6, InstalledAt
  <2> QED BY <2>1, <2>2
<1>4. /\ Installed(Installed(venv, s), t) = [p \in Package |-> Installed(Installed(venv, s), t)[p]]
      /\ Installed(venv, u) = [p \in Package |-> Installed(venv, u)[p]]
  BY InstalledIsOfPackages
<1> HIDE DEF u
<1>5. Installed(Installed(venv, s), t) = Installed(venv, u) BY <1>3, <1>4
<1> QED BY <1>5 DEF u
-----------------------------------------------------------------------------
(* The virtualenv.                                                         *)
Whole(d) == Installed(Installed(Empty, Plugins), Recipes[d].install)

VenvInv ==
  /\ ppc \in {"idle", "clear", "install"} /\ site = [p \in Package |-> site[p]]
  /\ ppc # "idle" => recipe \in DOMAIN Recipes /\ handed = None
  /\ stamp # None => ppc # "install" /\ site = Whole(stamp)
  /\ handed # None => handed = stamp
  /\ ppc = "install" => left \in Seq(AllPins) /\ Installed(site, left) = Whole(recipe)

StoresNext == ArtifactNext \/ VenvNext \/ ColdNext

LEMMA VenvStep ==
  ASSUME VenvInv, [StoresNext]_storeVars
  PROVE  VenvInv'
<1> USE DEF VenvInv
<1>1. CASE UNCHANGED venvVars
  <2>1. UNCHANGED <<site, stamp, ppc, recipe, left, handed>> BY <1>1 DEF venvVars
  <2> QED BY <2>1 DEF Whole
<1>2. ASSUME NEW d \in DOMAIN Recipes, NEW force \in BOOLEAN, Provision(d, force)
      PROVE  VenvInv'
  <2>1. UNCHANGED <<site, stamp, left>> /\ recipe' = d BY <1>2 DEF Provision
  <2>2. \/ ppc' = "idle" /\ handed' = d /\ stamp = d
        \/ ppc' = "clear" /\ handed' = None
        \/ ppc' = "idle" /\ handed' = None
    BY <1>2 DEF Provision
  <2>3. ppc = "idle" BY <1>2 DEF Provision
  <2> QED BY <2>1, <2>2, <2>3 DEF Whole
<1>3. CASE Clear
  <2>1. /\ ppc' = "install" /\ left' = Plugins \o Recipes[recipe].install /\ site' = Empty
        /\ stamp' = None /\ handed' = handed /\ recipe' = recipe /\ ppc = "clear"
    BY <1>3 DEF Clear, Installs
  <2>2. /\ recipe \in DOMAIN Recipes /\ Recipes[recipe].install \in Seq(AllPins)
        /\ Plugins \in Seq(AllPins) /\ handed = None
    BY <2>1, InstallsAreSequences
  <2>3. Installed(Empty, left') = Whole(recipe)
    BY <2>1, <2>2, InstalledTogether DEF Whole
  <2>4. left' \in Seq(AllPins) BY <2>1, <2>2
  <2>5. Empty = [p \in Package |-> Empty[p]] BY DEF Empty
  <2> QED BY <2>1, <2>2, <2>3, <2>4, <2>5
<1>4. CASE InstallOne
  <2>1. /\ ppc = "install" /\ left # <<>> /\ site' = Installed(site, <<Head(left)>>)
        /\ left' = Tail(left)
        /\ stamp' = stamp /\ ppc' = ppc /\ recipe' = recipe /\ handed' = handed
    BY <1>4 DEF InstallOne
  <2>2. left \in Seq(AllPins) /\ Installed(site, left) = Whole(recipe) /\ stamp = None BY <2>1
  <2>3. /\ <<Head(left)>> \in Seq(AllPins) /\ Tail(left) \in Seq(AllPins)
        /\ left = <<Head(left)>> \o Tail(left)
    BY <2>1, <2>2
  <2>4. Installed(Installed(site, <<Head(left)>>), Tail(left)) = Installed(site, left)
    <3> DEFINE first == <<Head(left)>>
               rest == Tail(left)
    <3> HIDE DEF first, rest
    <3>1. first \in Seq(AllPins) /\ rest \in Seq(AllPins) /\ left = first \o rest
      BY <2>3 DEF first, rest
    <3>2. Installed(Installed(site, first), rest) = Installed(site, first \o rest)
      BY <3>1, InstalledTogether
    <3> QED BY <3>1, <3>2 DEF first, rest
  <2>5. site' = [p \in Package |-> site'[p]] BY <2>1, InstalledIsOfPackages
  <2> QED BY <2>1, <2>2, <2>3, <2>4, <2>5
<1>5. CASE Stamp
  <2>1. /\ ppc = "install" /\ left = <<>> /\ stamp' = recipe /\ handed' = recipe
        /\ ppc' = "idle" /\ site' = site
    BY <1>5 DEF Stamp
  <2>2. Installed(site, <<>>) = site BY DEF Installed
  <2> QED BY <2>1, <2>2
<1>6. CASE InstallFails \/ KillProvision
  <2>1. ppc' = "idle" /\ UNCHANGED <<site, stamp, handed, recipe>>
    BY <1>6 DEF InstallFails, KillProvision
  <2> QED BY <2>1
<1>7. CASE ArtifactNext
  BY <1>1, <1>7 DEF ArtifactNext, Store, RemoveOld, Removed, Place, Mark, KillWriter
<1>8. CASE ColdNext
  BY <1>1, <1>8 DEF ColdNext, Configure, Fill, Wipe, ProbeCold
<1>9. CASE VenvNext
  BY <1>2, <1>3, <1>4, <1>5, <1>6, <1>9 DEF VenvNext
<1>10. CASE UNCHANGED storeVars BY <1>1, <1>10 DEF storeVars
<1> QED BY <1>7, <1>8, <1>9, <1>10 DEF StoresNext

(* HandedIsTheRecipes, for any corpus, any plugins and any deaths: the     *)
(* interpreter a suite runs in has the recipe's packages and no older one. *)
(* (envsetup.py:133-180)                                                   *)
THEOREM HandedIsTheRecipesAlways ==
  StoresSpec => []HandedIsTheRecipes
<1>1. StoresInit => VenvInv BY DEF StoresInit, VenvInv, Empty
<1>2. VenvInv /\ [StoresNext]_storeVars => VenvInv' BY VenvStep
<1>3. VenvInv => HandedIsTheRecipes BY DEF VenvInv, HandedIsTheRecipes, Whole
<1> QED BY <1>1, <1>2, <1>3, PTL DEF StoresSpec, StoresNext
-----------------------------------------------------------------------------
(* The artifact, of one process.                                           *)
ArtifactInv(w) ==
  /\ wpc = [x \in {w} |-> wpc[x]] /\ staged = [x \in {w} |-> staged[x]]
  /\ wpc[w] \in {"idle", "staged", "removing", "removed", "placed"}
  /\ wpc[w] # "idle" => staged[w] \in Payloads /\ ~marker
  /\ wpc[w] = "removed" => payload = None
  /\ wpc[w] = "placed" => payload \in Payloads
  /\ marker => payload \in Payloads

LEMMA ArtifactStep ==
  ASSUME NEW w, Writers = {w}, ArtifactInv(w), [StoresNext]_storeVars
  PROVE  ArtifactInv(w)'
<1> USE DEF ArtifactInv
<1>1. CASE UNCHANGED artifactVars BY <1>1 DEF artifactVars
<1>2. ASSUME NEW v \in Payloads, Store(w, v) PROVE ArtifactInv(w)' BY <1>2 DEF Store
<1>3. CASE RemoveOld(w) BY <1>3 DEF RemoveOld
<1>4. CASE Removed(w) BY <1>4 DEF Removed
<1>5. CASE Place(w) BY <1>5 DEF Place
<1>6. CASE Mark(w) BY <1>6 DEF Mark
<1>7. CASE KillWriter(w) BY <1>7 DEF KillWriter
<1>8. CASE ArtifactNext BY <1>2, <1>3, <1>4, <1>5, <1>6, <1>7, <1>8 DEF ArtifactNext
<1>9. CASE VenvNext
  BY <1>1, <1>9 DEF VenvNext, Provision, Clear, InstallOne, InstallFails, Stamp, KillProvision
<1>10. CASE ColdNext BY <1>1, <1>10 DEF ColdNext, Configure, Fill, Wipe, ProbeCold
<1>11. CASE UNCHANGED storeVars BY <1>1, <1>11 DEF storeVars
<1> QED BY <1>8, <1>9, <1>10, <1>11 DEF StoresNext

-----------------------------------------------------------------------------
(* The probe: a verdict does not outlive what it was said of.              *)
ColdInv ==
  /\ setting \in Settings /\ found = [d \in Dirs |-> found[d]]
  /\ ColdIsCold

LEMMA ColdStep ==
  ASSUME ColdInv, [StoresNext]_storeVars
  PROVE  ColdInv'
<1> USE NoneIsNoVerdict DEF ColdInv, ColdIsCold, ReplayCache, DriverCache
<1>1. CASE UNCHANGED coldVars BY <1>1 DEF coldVars
<1>2. ASSUME NEW s \in Settings, NEW h, Configure(s, h) PROVE ColdInv' BY <1>2 DEF Configure
<1>3. ASSUME NEW d \in Dirs, Fill(d) PROVE ColdInv' BY <1>3 DEF Fill
<1>4. ASSUME NEW d \in Dirs, Wipe(d) PROVE ColdInv'
  <2>1. /\ found' = [found EXCEPT ![d] = 0] /\ UNCHANGED <<setting, home, verdict>>
    BY <1>4 DEF Wipe
  <2>2. \A e : found[e] = 0 /\ e \in Dirs => found'[e] = 0 BY <2>1
  <2>3. /\ ReplayCache' = ReplayCache /\ DriverCache' = DriverCache
        /\ ReplayCache \in Dirs /\ DriverCache \in Dirs
    BY <2>1 DEF Settings, Dirs
  <2> QED BY <2>1, <2>2, <2>3
<1>5. CASE ProbeCold
  <2>1. /\ UNCHANGED <<setting, home, found>>
        /\ verdict' = IF Cold(setting, home) THEN "cold" ELSE "refused"
    BY <1>5 DEF ProbeCold
  <2> QED BY <2>1 DEF Cold, ReplayRoot, DriverRoot
<1>6. CASE ColdNext BY <1>2, <1>3, <1>4, <1>5, <1>6 DEF ColdNext
<1>7. CASE ArtifactNext
  BY <1>1, <1>7 DEF ArtifactNext, Store, RemoveOld, Removed, Place, Mark, KillWriter
<1>8. CASE VenvNext
  BY <1>1, <1>8 DEF VenvNext, Provision, Clear, InstallOne, InstallFails, Stamp, KillProvision
<1>9. CASE UNCHANGED storeVars BY <1>1, <1>9 DEF storeVars
<1> QED BY <1>6, <1>7, <1>8, <1>9 DEF StoresNext

(* StoresAreWhole with one process that stores artifacts, for any payloads *)
(* and recipes, wherever it dies: what can be read back is a payload that  *)
(* was stored whole, an interpreter that is handed out is its recipe's,    *)
(* and a machine said to be cold has no cache a gate would read.           *)
(* (cache.py:12-16, 96-125, envsetup.py:133-180, coldcache.py:9-13)        *)
THEOREM StoresAreWholeAlways ==
  ASSUME NEW w, Writers = {w}
  PROVE  StoresSpec => []StoresAreWhole
<1> DEFINE Inv == ArtifactInv(w) /\ VenvInv /\ ColdInv
<1>1. StoresInit => Inv
  BY NoneIsNoVerdict DEF StoresInit, ArtifactInv, VenvInv, ColdInv, ColdIsCold, Settings, Empty
<1>2. Inv /\ [StoresNext]_storeVars => Inv' BY ArtifactStep, VenvStep, ColdStep
<1>3. Inv => StoresAreWhole
  <2>1. ArtifactInv(w) => NeverHalfValid BY DEF ArtifactInv, NeverHalfValid, Readable
  <2>2. VenvInv => HandedIsTheRecipes BY DEF VenvInv, HandedIsTheRecipes, Whole
  <2>3. ColdInv => ColdIsCold BY DEF ColdInv
  <2> QED BY <2>1, <2>2, <2>3 DEF StoresAreWhole
<1> QED BY <1>1, <1>2, <1>3, PTL DEF StoresSpec, StoresNext

(* However many processes store the artifact: what is there, staged and   *)
(* installed is what somebody put there.                                   *)
LEMMA StoresAreTyped == StoresSpec => []StoresTypeOK
<1>. DEFINE Versions == {i[2] : i \in AllPins} \cup {None}
            Inv == VenvInv /\ StoresTypeOK
<1>1. StoresInit => Inv
  <2>. SUFFICES ASSUME StoresInit PROVE Inv
    OBVIOUS
  <2>1. VenvInv
    BY DEF StoresInit, VenvInv, Empty
  <2>2. Empty \in [Package -> Versions]
    BY DEF Empty
  <2>. QED  BY <2>1, <2>2 DEF StoresInit, StoresTypeOK
<1>2. Inv /\ [StoresNext]_storeVars => Inv'
  <2>. SUFFICES ASSUME VenvInv, StoresTypeOK, [StoresNext]_storeVars PROVE StoresTypeOK'
    BY VenvStep
  <2>. USE DEF StoresTypeOK
  <2>1. CASE UNCHANGED <<site, stamp, found>> /\ ArtifactNext
    <3>1. ASSUME NEW w \in Writers, NEW v \in Payloads, Store(w, v) PROVE StoresTypeOK'
      BY <2>1, <3>1 DEF Store
    <3>2. ASSUME NEW w \in Writers, RemoveOld(w) \/ Removed(w) \/ Mark(w) \/ KillWriter(w) PROVE StoresTypeOK'
      BY <2>1, <3>2 DEF RemoveOld, Removed, Mark, KillWriter
    <3>3. ASSUME NEW w \in Writers, Place(w) PROVE StoresTypeOK'
      BY <2>1, <3>3 DEF Place
    <3>. QED  BY <2>1, <3>1, <3>2, <3>3 DEF ArtifactNext
  <2>2. CASE UNCHANGED artifactVars /\ UNCHANGED coldVars /\ VenvNext
    <3>1. UNCHANGED <<payload, marker, staged, found>>
      BY <2>2 DEF artifactVars, coldVars
    <3>2. CASE UNCHANGED <<site, stamp>>
      BY <3>1, <3>2
    <3>3. CASE Clear
      BY <3>1, <3>3 DEF Clear, Empty
    <3>4. CASE InstallOne
      <4>1. ppc = "install" /\ left # <<>> /\ site' = Installed(site, <<Head(left)>>) /\ stamp' = stamp
        BY <3>4 DEF InstallOne
      <4>2. Head(left) \in AllPins
        BY <4>1 DEF VenvInv
      <4>. DEFINE one == <<Head(left)>>
      <4>3. one \in Seq(AllPins) /\ DOMAIN one = {1} /\ one[1][2] \in Versions
        BY <4>2
      <4>4. site' = Installed(site, one)
        BY <4>1
      <4>. HIDE DEF one
      <4>5. ASSUME NEW q \in Package PROVE Installed(site, one)[q] \in Versions
        <5>1. CASE Places(one, q) = {}
          BY <5>1, InstalledAt
        <5>2. CASE Places(one, q) # {}
          <6>1. Final(one, q) = 1
            BY <4>3, <5>2, FinalIsLast DEF Places
          <6>. QED  BY <4>3, <5>2, <6>1, InstalledAt
        <5>. QED  BY <5>1, <5>2
      <4>. HIDE DEF Versions
      <4>6. Installed(site, one) \in [Package -> Versions]
        BY <4>5, InstalledIsOfPackages
      <4>. QED  BY <3>1, <4>1, <4>4, <4>6 DEF Versions
    <3>5. CASE Stamp
      BY <3>1, <3>5 DEF Stamp, VenvInv
    <3>. QED
      BY <2>2, <3>2, <3>3, <3>4, <3>5 DEF VenvNext, Provision, InstallFails, KillProvision
  <2>3. CASE UNCHANGED <<payload, marker, staged, site, stamp>> /\ ColdNext
    <3>1. ASSUME NEW d \in Dirs, Fill(d) \/ Wipe(d) PROVE found' \in [Dirs -> {0, 1}]
      BY <3>1 DEF Fill, Wipe
    <3>. QED  BY <2>3, <3>1 DEF ColdNext, Configure, ProbeCold
  <2>4. CASE UNCHANGED storeVars
    BY <2>4 DEF storeVars, artifactVars, venvVars, coldVars
  <2>5. ArtifactNext => UNCHANGED <<site, stamp, found>>
    BY DEF ArtifactNext, Store, RemoveOld, Removed, Place, Mark, KillWriter, venvVars, coldVars
  <2>6. VenvNext => UNCHANGED artifactVars /\ UNCHANGED coldVars
    BY DEF VenvNext, Provision, Clear, InstallOne, InstallFails, Stamp, KillProvision
  <2>7. ColdNext => UNCHANGED <<payload, marker, staged, site, stamp>>
    BY DEF ColdNext, Configure, Fill, Wipe, ProbeCold, artifactVars, venvVars
  <2>. QED  BY <2>1, <2>2, <2>3, <2>4, <2>5, <2>6, <2>7 DEF StoresNext
<1>3. StoresSpec => StoresInit /\ [][StoresNext]_storeVars
  BY DEF StoresSpec, StoresNext
<1>4. Inv => StoresTypeOK
  OBVIOUS
<1>. QED  BY <1>1, <1>2, <1>3, <1>4, PTL
-----------------------------------------------------------------------------
Made == [parent : 0..MaxCommits, form : Forms \cup {None}, sample : Samples \cup {None}]

\* Of a history on its own: what is known of every one the repository had.
IsHistory(cs) ==
  /\ cs \in Seq(Made)
  /\ \A c \in DOMAIN cs : cs[c].parent \in 0..(c - 1)
FormIn(cs, c) == IF c = 0 THEN None ELSE cs[c].form
IsClosed(cs, set) == \A x \in set : cs[x].parent # 0 => cs[x].parent \in set
AncestorsIn(cs, c) ==
  {a \in DOMAIN cs : \A set \in SUBSET DOMAIN cs : c \in set /\ IsClosed(cs, set) => a \in set}

LEMMA OfThisHistory ==
  /\ \A c : FormAt(c) = FormIn(commits, c)
  /\ \A c : Ancestors(c) = AncestorsIn(commits, c)
<1>1. \A c : FormAt(c) = FormIn(commits, c) BY DEF FormAt, FormIn
<1>2. ASSUME NEW c PROVE Ancestors(c) = AncestorsIn(commits, c)
  <2>1. ASSUME NEW set \in SUBSET DOMAIN commits
        PROVE  (\A x \in set : Before[x] # 0 => Before[x] \in set) <=> IsClosed(commits, set)
    BY DEF IsClosed, Before
  <2> QED BY <2>1 DEF Ancestors, AncestorsIn
<1> QED BY <1>1, <1>2

LEMMA OwnAncestor ==
  ASSUME NEW cs, NEW c \in DOMAIN cs
  PROVE  c \in AncestorsIn(cs, c)
BY DEF AncestorsIn

LEMMA AncestorsAreOlder ==
  ASSUME NEW cs, IsHistory(cs), NEW c \in DOMAIN cs, NEW a \in AncestorsIn(cs, c)
  PROVE  a <= c
<1> DEFINE set == {x \in DOMAIN cs : x <= c}
<1>1. DOMAIN cs = 1..Len(cs) /\ Len(cs) \in Nat BY DEF IsHistory
<1>2. c \in set BY <1>1, SMT
<1>3. IsClosed(cs, set)
  <2> SUFFICES ASSUME NEW x \in set, cs[x].parent # 0 PROVE cs[x].parent \in set
    BY DEF IsClosed
  <2>1. x \in 1..Len(cs) /\ c \in 1..Len(cs) /\ cs[x].parent \in 0..(x - 1) /\ x <= c
    BY <1>1 DEF IsHistory
  <2>2. cs[x].parent \in 1..Len(cs) /\ cs[x].parent <= c BY <1>1, <2>1, SMT
  <2> QED BY <1>1, <2>2
<1>4. a \in set
  <2> HIDE DEF set
  <2>1. set \in SUBSET DOMAIN cs BY DEF set
  <2> QED BY <1>2, <1>3, <2>1 DEF AncestorsIn
<1> QED BY <1>4

LEMMA ParentIsAncestor ==
  ASSUME NEW cs, IsHistory(cs), NEW c, NEW a \in AncestorsIn(cs, c), cs[a].parent # 0
  PROVE  cs[a].parent \in AncestorsIn(cs, c)
<1>1. cs[a].parent \in DOMAIN cs
  <2>1. DOMAIN cs = 1..Len(cs) /\ Len(cs) \in Nat BY DEF IsHistory
  <2>2. a \in 1..Len(cs) /\ cs[a].parent \in 0..(a - 1) BY <2>1 DEF IsHistory, AncestorsIn
  <2> QED BY <2>1, <2>2, SMT
<1> QED BY <1>1 DEF AncestorsIn, IsClosed

LEMMA ThroughTheParent ==
  ASSUME NEW cs, IsHistory(cs), NEW c \in DOMAIN cs, NEW a \in AncestorsIn(cs, c), a # c
  PROVE  cs[c].parent # 0 /\ a \in AncestorsIn(cs, cs[c].parent)
<1>1. cs[c].parent # 0
  <2> SUFFICES ASSUME cs[c].parent = 0 PROVE FALSE OBVIOUS
  <2>1. {c} \in SUBSET DOMAIN cs /\ IsClosed(cs, {c}) BY DEF IsClosed
  <2> QED BY <2>1 DEF AncestorsIn
<1>2. ASSUME NEW set \in SUBSET DOMAIN cs, cs[c].parent \in set, IsClosed(cs, set)
      PROVE  a \in set
  <2>1. set \cup {c} \in SUBSET DOMAIN cs OBVIOUS
  <2>2. IsClosed(cs, set \cup {c}) BY <1>2 DEF IsClosed
  <2>3. a \in set \cup {c} BY <2>1, <2>2 DEF AncestorsIn
  <2> QED BY <2>3
<1>3. a \in DOMAIN cs BY DEF AncestorsIn
<1>4. a \in AncestorsIn(cs, cs[c].parent) BY <1>2, <1>3 DEF AncestorsIn
<1> QED BY <1>1, <1>4

(* Where the newest commit that touched the form on the way to h is the    *)
(* tag's or an ancestor of it, and h is not before the tag, the form at h  *)
(* is the tag's.                                                           *)
LEMMA FormOfTheTag ==
  ASSUME NEW cs, IsHistory(cs), NEW h \in DOMAIN cs, NEW t \in AncestorsIn(cs, h),
         NEW last \in AncestorsIn(cs, t),
         \A c \in AncestorsIn(cs, h) :
           FormIn(cs, c) # FormIn(cs, cs[c].parent) => c <= last
  PROVE  FormIn(cs, h) = FormIn(cs, t)
<1> DEFINE Wrong == {x \in AncestorsIn(cs, h) :
                       t \in AncestorsIn(cs, x) /\ FormIn(cs, x) # FormIn(cs, t)}
<1> SUFFICES ASSUME FormIn(cs, h) # FormIn(cs, t) PROVE FALSE OBVIOUS
<1>1. DOMAIN cs = 1..Len(cs) /\ Len(cs) \in Nat BY DEF IsHistory
<1>2. \A c : AncestorsIn(cs, c) \subseteq DOMAIN cs BY DEF AncestorsIn
<1>3. h \in Wrong BY OwnAncestor
<1>4. PICK x \in Wrong : \A y \in Wrong : x <= y
  <2>1. Wrong \subseteq Nat /\ Wrong # {} BY <1>1, <1>2, <1>3
  <2> HIDE DEF Wrong
  <2> QED BY <1>1, <2>1, LeastOf
<1>5. x \in DOMAIN cs /\ t \in DOMAIN cs /\ t # x BY <1>2
<1>6. cs[x].parent # 0 /\ t \in AncestorsIn(cs, cs[x].parent) BY <1>5, ThroughTheParent
<1>7. cs[x].parent \in AncestorsIn(cs, h) BY <1>6, ParentIsAncestor
<1>8. cs[x].parent < x
  <2>1. cs[x].parent \in 0..(x - 1) BY <1>5 DEF IsHistory
  <2> QED BY <1>1, <1>5, <2>1, SMT
<1>9. cs[x].parent \notin Wrong
  <2>1. cs[x].parent \in 1..Len(cs) /\ x \in 1..Len(cs) BY <1>1, <1>2, <1>5, <1>7
  <2>2. ~ (x <= cs[x].parent) BY <1>8, <2>1, SMT
  <2> HIDE DEF Wrong
  <2> QED BY <1>4, <2>2
<1>10. FormIn(cs, cs[x].parent) = FormIn(cs, t) BY <1>6, <1>7, <1>9
<1>11. x <= last BY <1>10
<1>12. last <= t BY <1>5, AncestorsAreOlder
<1>13. t <= x BY <1>5, AncestorsAreOlder
<1>14. last \in 1..Len(cs) /\ t \in 1..Len(cs) /\ x \in 1..Len(cs) BY <1>1, <1>2, <1>5
<1> QED BY <1>5, <1>11, <1>12, <1>13, <1>14, SMT

(* A commit that is added changes nothing of those that are there.         *)
LEMMA HistoryIsKept ==
  ASSUME NEW cs, IsHistory(cs), NEW new \in Made, NEW c \in DOMAIN cs
  PROVE  /\ FormIn(Append(cs, new), c) = FormIn(cs, c)
         /\ AncestorsIn(Append(cs, new), c) = AncestorsIn(cs, c)
<1> DEFINE ds == Append(cs, new)
<1>1. /\ DOMAIN cs = 1..Len(cs) /\ Len(cs) \in Nat /\ DOMAIN ds = 1..(Len(cs) + 1)
      /\ \A x \in 1..Len(cs) : ds[x] = cs[x]
  BY DEF IsHistory
<1>2. DOMAIN cs \subseteq DOMAIN ds BY <1>1, SMT
<1>3. FormIn(ds, c) = FormIn(cs, c) BY <1>1 DEF FormIn
<1> HIDE DEF ds
<1>4. ASSUME NEW set \in SUBSET DOMAIN cs PROVE IsClosed(ds, set) <=> IsClosed(cs, set)
  BY <1>1 DEF IsClosed
<1>5. ASSUME NEW a \in AncestorsIn(ds, c) PROVE a \in AncestorsIn(cs, c)
  <2>1. IsClosed(cs, DOMAIN cs)
    <3> SUFFICES ASSUME NEW x \in DOMAIN cs, cs[x].parent # 0 PROVE cs[x].parent \in DOMAIN cs
      BY DEF IsClosed
    <3>1. x \in 1..Len(cs) /\ cs[x].parent \in 0..(x - 1) BY <1>1 DEF IsHistory
    <3> QED BY <1>1, <3>1, SMT
  <2>2. ASSUME NEW set \in SUBSET DOMAIN cs, c \in set, IsClosed(cs, set) PROVE a \in set
    <3>1. set \in SUBSET DOMAIN ds /\ IsClosed(ds, set) BY <1>2, <1>4, <2>2
    <3> QED BY <2>2, <3>1 DEF AncestorsIn
  <2>3. a \in DOMAIN cs BY <2>1, <2>2
  <2> QED BY <2>2, <2>3 DEF AncestorsIn
<1>6. ASSUME NEW a \in AncestorsIn(cs, c) PROVE a \in AncestorsIn(ds, c)
  <2>1. a \in DOMAIN ds BY <1>2 DEF AncestorsIn
  <2>2. ASSUME NEW set \in SUBSET DOMAIN ds, c \in set, IsClosed(ds, set) PROVE a \in set
    <3> DEFINE old == set \cap DOMAIN cs
    <3>1. IsClosed(cs, old)
      <4> SUFFICES ASSUME NEW x \in old, cs[x].parent # 0 PROVE cs[x].parent \in old
        BY DEF IsClosed
      <4>1. x \in 1..Len(cs) /\ cs[x].parent \in 0..(x - 1) BY <1>1 DEF IsHistory
      <4>2. cs[x].parent \in DOMAIN cs BY <1>1, <4>1, SMT
      <4>3. ds[x] = cs[x] BY <1>1, <4>1
      <4>4. ds[x].parent # 0 => ds[x].parent \in set BY <2>2 DEF IsClosed
      <4> QED BY <4>2, <4>3, <4>4
    <3>2. c \in old /\ old \in SUBSET DOMAIN cs BY <2>2
    <3>3. a \in old
      <4> HIDE DEF old
      <4> QED BY <3>1, <3>2 DEF AncestorsIn
    <3> QED BY <3>3
  <2> QED BY <2>1, <2>2 DEF AncestorsIn
<1> QED BY <1>3, <1>5, <1>6 DEF ds
-----------------------------------------------------------------------------
\* What a gate read is of commits the repository has, and on the tag or after
\* it, is the tag's.
AsTagged(g) ==
  /\ g.head \in DOMAIN commits /\ g.tag \in DOMAIN commits
  /\ g.form \in Forms
  /\ Committed(g) /\ OnTag(g) => g.form = FormAt(g.tag)

\* What an analysis published is of the repositories that have evidence.
OfTheEvidence(said) ==
  /\ said.again \in Forms /\ Evidence # {}
  /\ said.met <=> Worst >= said.again.floor

RegInv ==
  /\ RegTypeOK /\ IsHistory(commits)
  /\ head = 0 => commits = <<>>
  /\ gate # None => AsTagged(gate)
  /\ recalls \in Published
  /\ criterion # None => AsTagged(criterion.gate) /\ OfTheEvidence(criterion)

\* Where no commit is made, a gate's words stay as true as they were.
LEMMA FrozenStays ==
  ASSUME NEW g, commits' = commits, AsTagged(g)
  PROVE  AsTagged(g)'
BY DEF AsTagged, Committed, OnTag, FormAt, Ancestors, Before

Kept == UNCHANGED <<commits, gate, recalls, criterion>>

LEMMA GateStays ==
  ASSUME RegInv, Kept
  PROVE  /\ IsHistory(commits') /\ (gate # None => AsTagged(gate))'
         /\ gate' # None => gate'.form.status = "SIGNED" /\ gate'.form.sample \in Samples
         /\ recalls' \in Published
         /\ (criterion # None => AsTagged(criterion.gate) /\ OfTheEvidence(criterion))'
<1>1. UNCHANGED <<commits, gate, recalls, criterion>> BY DEF Kept
<1>2. \A g : AsTagged(g) => AsTagged(g)' BY <1>1, FrozenStays
<1>3. OfTheEvidence(criterion)' <=> OfTheEvidence(criterion)
  BY <1>1 DEF OfTheEvidence, Worst, Evidence
<1>4. (gate # None => AsTagged(gate))' BY <1>1, <1>2 DEF RegInv
<1>5. (criterion # None => AsTagged(criterion.gate))' BY <1>1, <1>2 DEF RegInv
<1> QED BY <1>1, <1>3, <1>4, <1>5 DEF RegInv, RegTypeOK

\* The gate lets pass what it read of a history of its own time.
LEMMA PassingKeepsTheTag ==
  ASSUME RegInv, Passes, FormAt(head) = form, tag \in Ancestors(head)
  PROVE  form = FormAt(tag)
<1> USE DEF RegInv
<1>1. DOMAIN commits = 1..Len(commits) /\ Len(commits) \in Nat BY DEF IsHistory
<1>2. head \in DOMAIN commits
  <2>1. tag \in DOMAIN commits BY DEF Ancestors
  <2>2. commits # <<>> BY <1>1, <2>1, SMT
  <2>3. head \in 0..Len(commits) /\ head # 0 BY <2>2 DEF RegTypeOK
  <2> QED BY <1>1, <2>3, SMT
<1>3. Touching # {} /\ LastTouching \in Ancestors(tag)
  BY DEF Passes, Tagged, InTag, LastTouching
<1>4. \A d \in Touching : d <= LastTouching
  <2>1. Touching \subseteq 1..Len(commits) BY <1>1 DEF Touching, Ancestors
  <2>2. \E c \in Touching : \A d \in Touching : d <= c BY <1>1, <1>3, <2>1, GreatestOf
  <2> QED BY <1>3, <2>2 DEF LastTouching
<1>5. ASSUME NEW c \in AncestorsIn(commits, head),
             FormIn(commits, c) # FormIn(commits, commits[c].parent)
      PROVE  c <= LastTouching
  <2>1. c \in DOMAIN commits BY DEF AncestorsIn
  <2>2. Before[c] = commits[c].parent BY <2>1 DEF Before
  <2>3. c \in Touching BY <1>5, <2>2, OfThisHistory DEF Touching
  <2> QED BY <1>4, <2>3
<1>6. tag \in AncestorsIn(commits, head) /\ LastTouching \in AncestorsIn(commits, tag)
  BY <1>3, OfThisHistory
<1>7. FormIn(commits, head) = FormIn(commits, tag) BY <1>2, <1>5, <1>6, FormOfTheTag
<1> QED BY <1>7, OfThisHistory

LEMMA RegStep ==
  ASSUME RegInv, [RegNext]_regVars
  PROVE  RegInv'
<1> USE RegistrationParameters DEF RegInv
<1>1. CASE UNCHANGED regVars
  <2>1. UNCHANGED <<commits, head, tag, form, sample, edits, recalls, gate, criterion>> BY <1>1 DEF regVars
  <2> QED BY <2>1, GateStays DEF Kept, RegTypeOK
<1>2. ASSUME NEW f \in Forms \cup {None}, Write(f) PROVE RegInv'
  <2>1. /\ UNCHANGED <<commits, head, tag, sample, recalls, gate, criterion>> /\ form' = f
        /\ edits < MaxEdits /\ edits' = edits + 1
    BY <1>2 DEF Write
  <2> QED BY <2>1, GateStays DEF Kept, RegTypeOK
<1>3. ASSUME NEW s \in Samples \cup {None}, Freeze(s) PROVE RegInv'
  <2>1. /\ UNCHANGED <<commits, head, tag, form, recalls, gate, criterion>> /\ sample' = s
        /\ edits < MaxEdits /\ edits' = edits + 1
    BY <1>3 DEF Freeze
  <2> QED BY <2>1, GateStays DEF Kept, RegTypeOK
<1>4. CASE CommitAll
  <2> DEFINE new == [parent |-> head, form |-> form, sample |-> sample]
  <2>1. /\ commits' = Append(commits, new) /\ head' = Len(commits) + 1 /\ edits' = 0
        /\ Len(commits) < MaxCommits /\ UNCHANGED <<tag, form, sample, recalls, gate, criterion>>
    BY <1>4 DEF CommitAll
  <2>2. Len(commits) \in Nat /\ DOMAIN commits = 1..Len(commits) BY DEF IsHistory
  <2>3. head \in 0..Len(commits) /\ tag \in 0..Len(commits) BY DEF RegTypeOK
  <2>4. new \in Made
    <3>1. head \in 0..MaxCommits BY <2>1, <2>2, <2>3, SMT
    <3> QED BY <3>1 DEF Made, RegTypeOK
  <2> HIDE DEF new
  <2>5. /\ commits' \in Seq(Made) /\ Len(commits') = Len(commits) + 1
        /\ DOMAIN commits' = 1..(Len(commits) + 1)
        /\ \A x \in 1..Len(commits) : commits'[x] = commits[x]
        /\ commits'[Len(commits) + 1] = new
    BY <2>1, <2>2, <2>4 DEF IsHistory
  <2>6. IsHistory(commits')
    <3> SUFFICES ASSUME NEW c \in DOMAIN commits' PROVE commits'[c].parent \in 0..(c - 1)
      BY <2>5 DEF IsHistory
    <3>1. CASE c \in 1..Len(commits) BY <2>2, <2>5, <3>1 DEF IsHistory
    <3>2. CASE c = Len(commits) + 1
      <4>1. new.parent = head BY DEF new
      <4>2. Len(commits) + 1 - 1 = Len(commits) BY <2>2, SMT
      <4> QED BY <2>3, <2>5, <3>2, <4>1, <4>2
    <3> QED BY <2>2, <2>5, <3>1, <3>2, SMT
  <2>7. DOMAIN commits \subseteq DOMAIN commits' BY <2>2, <2>5, SMT
  <2>8. ASSUME NEW g, AsTagged(g) PROVE AsTagged(g)'
    <3>1. g.head \in DOMAIN commits /\ g.tag \in DOMAIN commits BY <2>8 DEF AsTagged
    <3>2. /\ FormAt(g.head)' = FormIn(commits', g.head)
          /\ FormAt(g.tag)' = FormIn(commits', g.tag)
          /\ Ancestors(g.head)' = AncestorsIn(commits', g.head)
      <4>1. (\A c : FormAt(c) = FormIn(commits, c))' /\ (\A c : Ancestors(c) = AncestorsIn(commits, c))'
        BY OfThisHistory, PTL
      <4> QED BY <4>1
    <3>3. /\ FormIn(commits', g.head) = FormAt(g.head)
          /\ FormIn(commits', g.tag) = FormAt(g.tag)
          /\ AncestorsIn(commits', g.head) = Ancestors(g.head)
      BY <2>1, <2>4, <3>1, HistoryIsKept, OfThisHistory
    <3> QED BY <2>7, <2>8, <3>1, <3>2, <3>3 DEF AsTagged, Committed, OnTag
  <2>10. (gate # None => AsTagged(gate))' /\ (criterion # None => AsTagged(criterion.gate))'
    BY <2>1, <2>8
  <2>11. OfTheEvidence(criterion)' <=> OfTheEvidence(criterion)
    BY <2>1 DEF OfTheEvidence, Worst, Evidence
  <2>9. head' # 0 /\ head' \in 0..Len(commits') /\ tag' \in 0..Len(commits') /\ edits' \in 0..MaxEdits
    BY <2>1, <2>2, <2>3, <2>5, SMT
  <2> QED BY <2>1, <2>5, <2>6, <2>9, <2>10, <2>11 DEF RegTypeOK, Made
<1>5. ASSUME NEW c \in DOMAIN commits, Checkout(c) PROVE RegInv'
  <2>1. /\ UNCHANGED <<commits, tag, edits, recalls, gate, criterion>> /\ head' = c
        /\ form' = commits[c].form /\ sample' = commits[c].sample
    BY <1>5 DEF Checkout
  <2>2. Len(commits) \in Nat /\ c \in 1..Len(commits) /\ commits[c] \in Made BY DEF IsHistory
  <2>3. head' # 0 /\ head' \in 0..Len(commits) BY <2>1, <2>2, SMT
  <2> QED BY <2>1, <2>2, <2>3, GateStays DEF Kept, RegTypeOK, Made
<1>6. CASE MoveTag
  <2>1. UNCHANGED <<commits, head, form, sample, edits, recalls, gate, criterion>> /\ tag' = head
    BY <1>6 DEF MoveTag
  <2> QED BY <2>1, GateStays DEF Kept, RegTypeOK
<1>7. CASE Preflight
  <2>1. /\ UNCHANGED <<commits, head, tag, form, sample, edits, recalls, criterion>>
        /\ gate' = Reading
    BY <1>7 DEF Preflight
  <2>4. /\ (criterion # None => AsTagged(criterion.gate) /\ OfTheEvidence(criterion))'
        /\ IsHistory(commits') /\ recalls' \in Published
    <3>1. \A g : AsTagged(g) => AsTagged(g)' BY <2>1, FrozenStays
    <3>2. OfTheEvidence(criterion)' <=> OfTheEvidence(criterion)
      BY <2>1 DEF OfTheEvidence, Worst, Evidence
    <3> QED BY <2>1, <3>1, <3>2
  <2>2. CASE Passes
    <3>1. gate' = [form |-> form, head |-> head, tag |-> tag] BY <2>1, <2>2 DEF Reading
    <3>2. /\ form.status = "SIGNED" /\ form.sample \in Samples /\ form \in Forms
          /\ tag \in DOMAIN commits /\ head \in DOMAIN commits
      <4>1. form.status = "SIGNED" /\ form \in Forms BY <2>2 DEF Passes, Loads, RegTypeOK
      <4>2. sample # None /\ sample = form.sample BY <2>2 DEF Passes, Sampled
      <4>3. Touching # {} /\ tag # 0 BY <2>2 DEF Passes, Tagged, LastTouching
      <4>4. Len(commits) \in Nat /\ DOMAIN commits = 1..Len(commits) BY DEF IsHistory
      <4>5. commits # <<>>
        <5>1. PICK c \in Touching : TRUE BY <4>3
        <5>2. c \in 1..Len(commits) BY <4>4 DEF Touching, Ancestors
        <5> QED BY <4>4, <5>2, SMT
      <4>6. head \in 1..Len(commits) /\ tag \in 1..Len(commits)
        <5>1. head \in 0..Len(commits) /\ tag \in 0..Len(commits) BY DEF RegTypeOK
        <5> QED BY <4>3, <4>4, <4>5, <5>1, SMT
      <4> QED BY <4>1, <4>2, <4>4, <4>6 DEF RegTypeOK
    <3>3. AsTagged(gate)'
      <4>1. gate'.form = form /\ gate'.head = head /\ gate'.tag = tag BY <3>1
      <4>2. /\ FormAt(gate.head)' = FormAt(head) /\ FormAt(gate.tag)' = FormAt(tag)
            /\ Ancestors(gate.head)' = Ancestors(head)
        BY <2>1, <4>1 DEF FormAt, Ancestors, Before
      <4>3. Committed(gate)' /\ OnTag(gate)' => gate'.form = FormAt(gate.tag)'
        <5> SUFFICES ASSUME Committed(gate)', OnTag(gate)' PROVE gate'.form = FormAt(gate.tag)'
          OBVIOUS
        <5>1. FormAt(head) = form /\ tag \in Ancestors(head)
          BY <4>1, <4>2 DEF Committed, OnTag
        <5> QED BY <2>2, <4>1, <4>2, <5>1, PassingKeepsTheTag
      <4> QED BY <2>1, <3>2, <4>1, <4>3 DEF AsTagged
    <3> QED BY <2>1, <2>4, <3>1, <3>2, <3>3 DEF RegTypeOK
  <2>3. CASE ~ Passes
    <3>1. gate' = None BY <2>1, <2>3 DEF Reading
    <3> QED BY <2>1, <2>4, <3>1 DEF RegTypeOK
  <2> QED BY <2>2, <2>3
<1>8. CASE Conclude
  <2>1. /\ UNCHANGED <<commits, head, tag, form, sample, edits, recalls, gate>>
        /\ gate # None /\ Evidence # {} /\ form \in Forms
        /\ criterion' = [gate |-> gate, met |-> Worst >= form.floor, again |-> form]
    BY <1>8 DEF Conclude, Loads, RegTypeOK
  <2>2. AsTagged(gate)' /\ gate' = gate BY <2>1, FrozenStays
  <2>3. AsTagged(criterion.gate)' BY <2>1, <2>2
  <2>4. OfTheEvidence(criterion)'
    <3>1. Worst' = Worst /\ Evidence' = Evidence BY <2>1 DEF Worst, Evidence
    <3>2. criterion'.met = (Worst >= form.floor) /\ criterion'.again = form BY <2>1
    <3> QED BY <2>1, <3>1, <3>2 DEF OfTheEvidence
  <2> QED BY <2>1, <2>2, <2>3, <2>4 DEF RegTypeOK
<1> QED BY <1>1, <1>2, <1>3, <1>4, <1>5, <1>6, <1>7, <1>8 DEF RegNext

LEMMA RegStart ==
  ASSUME RegInit
  PROVE  RegInv
<1>1. /\ commits = <<>> /\ head = 0 /\ tag = 0 /\ form = None /\ sample = None /\ edits = 0
      /\ gate = None /\ recalls \in Published /\ criterion = None
  BY DEF RegInit
<1>2. commits \in Seq(Made) /\ DOMAIN commits = {} /\ Len(commits) = 0 BY <1>1
<1> QED BY <1>1, <1>2, RegistrationParameters DEF RegInv, RegTypeOK, IsHistory, Made

(* Types of a repository and its gate, for any forms, samples and bounds:  *)
(* what passed was signed and is of a sample that was frozen.              *)
(* (prereg.py:50-79, preflight.py:21-43)                                   *)
THEOREM RegTypeCorrect ==
  RegSpec => []RegTypeOK
<1>1. RegInit => RegInv BY RegStart
<1>2. RegInv /\ [RegNext]_regVars => RegInv' BY RegStep
<1>3. RegInv => RegTypeOK BY DEF RegInv
<1> QED BY <1>1, <1>2, <1>3, PTL DEF RegSpec

\* The least of the published recalls reaches a floor when all of them do.
LEMMA WorstIsOfAll ==
  ASSUME RegInv, Evidence # {}, NEW floor \in Nat
  PROVE  Worst >= floor <=> \A r \in DOMAIN recalls : recalls[r] # None => recalls[r] >= floor
<1>1. Evidence \subseteq Nat BY RegistrationParameters DEF RegInv, Evidence
<1>2. Worst \in Evidence /\ \A x \in Evidence : Worst <= x
  <2>1. \E x \in Evidence : \A y \in Evidence : x <= y BY <1>1, LeastOf
  <2> QED BY <2>1 DEF Worst, Sets!Min
<1>3. Worst >= floor <=> \A x \in Evidence : x >= floor
  <2>1. \A x \in Evidence : x \in Nat BY <1>1
  <2> QED BY <1>2, <2>1, SMT
<1> QED BY <1>3 DEF Evidence

(* JudgedUnderTheTag, for every history: whoever passes with a committed   *)
(* form on the tag or after it runs under the words the tag froze, and a   *)
(* criterion judged under them is met when every repository that has       *)
(* evidence meets it at the floor the tag froze.                           *)
(* (prereg.py:108-131, analyze.py:205-232)                                 *)
THEOREM JudgedUnderTheTagAlways ==
  RegSpec => []JudgedUnderTheTag
<1>1. RegInit => RegInv BY RegStart
<1>2. RegInv /\ [RegNext]_regVars => RegInv' BY RegStep
<1>3. RegInv => JudgedUnderTheTag
  <2> SUFFICES ASSUME RegInv PROVE JudgedUnderTheTag OBVIOUS
  <2>1. GateKeepsTheTag BY DEF RegInv, AsTagged, GateKeepsTheTag
  <2>2. MetByEveryRepository
    <3> SUFFICES ASSUME criterion # None, Committed(criterion.gate), OnTag(criterion.gate),
                        criterion.again = criterion.gate.form
                 PROVE  /\ Evidence # {}
                        /\ criterion.met <=> \A r \in DOMAIN recalls :
                             recalls[r] # None => recalls[r] >= FormAt(criterion.gate.tag).floor
      BY DEF MetByEveryRepository
    <3>1. AsTagged(criterion.gate) /\ OfTheEvidence(criterion) BY DEF RegInv
    <3>2. criterion.again = FormAt(criterion.gate.tag) /\ criterion.again \in Forms
      BY <3>1 DEF AsTagged
    <3>3. criterion.again.floor \in Nat BY <3>2, RegistrationParameters
    <3> QED BY <3>1, <3>2, <3>3, WorstIsOfAll DEF OfTheEvidence
  <2> QED BY <2>1, <2>2 DEF JudgedUnderTheTag
<1> QED BY <1>1, <1>2, <1>3, PTL DEF RegSpec
-----------------------------------------------------------------------------
EvalInv == mirror = [c \in Cell |-> mirror[c]]

\* Of a mirror that is rewritten: it has every instance still, and what it had.
Outlives(new) ==
  /\ new = [c \in Cell |-> new[c]]
  /\ \A c \in Cell : mirror[c] # None => new[c] # None

LEMMA MirroredOutlives ==
  ASSUME NEW cells, NEW k
  PROVE  Outlives(Mirrored(cells, k))
<1> DEFINE new == Mirrored(cells, k)
<1>1. \A c \in Cell : new[c] = IF \E i \in 1..k : cells[i] = c THEN HarnessReport(c) ELSE mirror[c]
  BY DEF Mirrored
<1>2. new = [c \in Cell |-> new[c]] BY DEF Mirrored
<1>3. \A c \in Cell : mirror[c] # None => HarnessReport(c) # None BY DEF HarnessReport
<1> QED BY <1>1, <1>2, <1>3 DEF Outlives

\* A death in the middle of a write leaves a piece, which is a file too.
LEMMA TornOutlives ==
  ASSUME NEW old, Outlives(old), NEW d
  PROVE  Outlives([old EXCEPT ![d] = Torn])
<1> DEFINE new == [old EXCEPT ![d] = Torn]
<1>1. \A c \in Cell : new[c] = IF c = d THEN Torn ELSE old[c] BY DEF Outlives
<1>2. new = [c \in Cell |-> new[c]] BY DEF Outlives
<1> QED BY <1>1, <1>2, ATornFileIsThere DEF Outlives

LEMMA ReportsStay ==
  ASSUME EvalInv, [EvalNext]_evalVars
  PROVE  Outlives(mirror')
<1>1. CASE UNCHANGED mirror BY <1>1 DEF EvalInv, Outlives
<1>2. ASSUME NEW cells, CollectsCells(cells) PROVE Outlives(mirror')
  <2>1. PICK k : mirror' = Mirrored(cells, k) BY <1>2 DEF CollectsCells
  <2> QED BY <2>1, MirroredOutlives
<1>3. ASSUME NEW k, KillCollect(k) PROVE Outlives(mirror')
  <2>1. PICK cells : mirror' = [Mirrored(cells, k - 1) EXCEPT ![cells[k]] = Torn]
    BY <1>3 DEF KillCollect
  <2>2. Outlives([Mirrored(cells, k - 1) EXCEPT ![cells[k]] = Torn])
    BY MirroredOutlives, TornOutlives
  <2> QED BY <2>1, <2>2
<1>4. ASSUME NEW arm \in Arm, CollectArm(arm) PROVE Outlives(mirror') BY <1>2, <1>4 DEF CollectArm
<1>5. CASE Analyze BY <1>2, <1>5 DEF Analyze
<1>6. CASE UNCHANGED evalVars BY <1>1, <1>6 DEF evalVars
<1>7. CASE EvalNext
  BY <1>1, <1>3, <1>4, <1>5, <1>7
     DEF EvalNext, RunInstance, KillInstance, RemoveTorn, RunHarness, DropLogs
<1> QED BY <1>6, <1>7

(* ReportsOutlive, for any instance and whoever dies: a report that was    *)
(* collected is there after every later collection, of a tree the harness  *)
(* left half or not at all.  (evaluate.py:142-155, 174-203)                *)
THEOREM ReportsOutliveAlways ==
  EvalSpec => ReportsOutlive
<1>1. EvalInit => EvalInv BY DEF EvalInit, EvalInv
<1>2. EvalInv /\ [EvalNext]_evalVars => EvalInv'
  BY ReportsStay DEF EvalInv, Outlives
<1>3. EvalInv /\ [EvalNext]_evalVars => [\A c \in Cell : mirror[c] # None => mirror'[c] # None]_mirror
  BY ReportsStay DEF Outlives
<1> QED BY <1>1, <1>2, <1>3, PTL DEF EvalSpec, ReportsOutlive

-----------------------------------------------------------------------------
\* s is the numbers of some set, the smallest first.
Ascending(s) ==
  s \in Seq(Nat) /\ \A j, k \in DOMAIN s : j < k => s[j] < s[k]
Lists(s, set) == Ascending(s) /\ Numbers(s) = set

LEMMA NothingListed == Lists(<<>>, {})
BY DEF Lists, Ascending, Numbers

LEMMA OneMoreListed ==
  ASSUME NEW s, NEW set, Lists(s, set), NEW i \in Nat, \A x \in set : x < i
  PROVE  Lists(Append(s, i), set \cup {i})
<1>. DEFINE m == Len(s)
            t == Append(s, i)
<1>1. s \in Seq(Nat) /\ m \in Nat /\ DOMAIN s = 1..m
  BY DEF Lists, Ascending
<1>2. /\ t \in Seq(Nat) /\ Len(t) = m + 1 /\ DOMAIN t = 1..(m + 1)
      /\ \A k \in 1..m : t[k] = s[k]
      /\ t[m + 1] = i
  BY <1>1, AppendProperties
<1>3. \A k \in 1..m : s[k] \in Nat /\ s[k] < i
  BY <1>1 DEF Lists, Numbers
<1>. HIDE DEF m, t
<1>4. ASSUME NEW j \in 1..(m + 1), NEW k \in 1..(m + 1), j < k PROVE t[j] < t[k]
  <2>1. j \in 1..m
    BY <1>1, <1>4
  <2>2. CASE k = m + 1
    BY <1>2, <1>3, <2>1, <2>2
  <2>3. CASE k # m + 1
    <3>1. k \in 1..m
      BY <1>1, <2>3
    <3>2. s[j] < s[k]
      BY <1>1, <1>4, <2>1, <3>1 DEF Lists, Ascending
    <3>. QED  BY <1>2, <2>1, <3>1, <3>2
  <2>. QED  BY <2>2, <2>3
<1>5. Numbers(t) = set \cup {i}
  <2>1. 1..(m + 1) = (1..m) \cup {m + 1}
    BY <1>1
  <2>2. set = {s[k] : k \in 1..m}
    BY <1>1 DEF Lists, Numbers
  <2>3. Numbers(t) = {t[k] : k \in 1..(m + 1)}
    BY <1>2 DEF Numbers
  <2>. QED  BY <1>2, <2>1, <2>2, <2>3
<1>. QED  BY <1>2, <1>4, <1>5 DEF Lists, Ascending, t

\* u lists what of some numbers is up to each of 0..n.
Listing(u, n, some) ==
  /\ DOMAIN u = 0..n
  /\ u = [i \in 0..n |-> IF i = 0 THEN <<>>
                         ELSE IF i \in some THEN Append(u[i - 1], i) ELSE u[i - 1]]
  /\ \A i \in 0..n : Lists(u[i], some \cap (1..i))

LEMMA ListingExists ==
  ASSUME NEW n \in Nat, NEW some PROVE \E u : Listing(u, n, some)
<1>. DEFINE T == {m \in 0..n : ~ \E u : Listing(u, m, some)}
<1>. SUFFICES ASSUME T # {} PROVE FALSE
  OBVIOUS
<1>1. T \subseteq Nat
  OBVIOUS
<1>2. PICK m \in T : \A l \in T : m <= l
  <2>. HIDE DEF T
  <2>. QED  BY <1>1, LeastOf
<1>3. m \in 0..n /\ ~ \E u : Listing(u, m, some)
  OBVIOUS
<1>4. CASE m = 0
  <2>. DEFINE v == [i \in 0..0 |-> <<>>]
  <2>1. v = [i \in 0..0 |-> IF i = 0 THEN <<>>
                            ELSE IF i \in some THEN Append(v[i - 1], i) ELSE v[i - 1]]
    OBVIOUS
  <2>2. \A i \in 0..0 : Lists(v[i], some \cap (1..i))
    <3>1. some \cap (1..0) = {}
      OBVIOUS
    <3>. QED  BY <3>1, NothingListed
  <2>3. Listing(v, 0, some)
    BY <2>1, <2>2 DEF Listing
  <2>. QED  BY <1>3, <1>4, <2>3
<1>5. CASE m # 0
  <2>1. m - 1 \in 0..n /\ ~ (m <= m - 1)
    BY <1>3, <1>5
  <2>2. PICK u : Listing(u, m - 1, some)
    BY <1>2, <2>1
  <2>. HIDE DEF T
  <2>. DEFINE last == IF m \in some THEN Append(u[m - 1], m) ELSE u[m - 1]
              v == [i \in 0..m |-> IF i = m THEN last ELSE u[i]]
  <2>3. \A i \in 0..(m - 1) :
          u[i] = IF i = 0 THEN <<>>
                 ELSE IF i \in some THEN Append(u[i - 1], i) ELSE u[i - 1]
    BY <2>2 DEF Listing
  <2>4. \A i \in 0..m :
          v[i] = IF i = 0 THEN <<>>
                 ELSE IF i \in some THEN Append(v[i - 1], i) ELSE v[i - 1]
    <3>. SUFFICES ASSUME NEW i \in 0..m
         PROVE v[i] = IF i = 0 THEN <<>>
                      ELSE IF i \in some THEN Append(v[i - 1], i) ELSE v[i - 1]
      OBVIOUS
    <3>1. CASE i = m
      <4>1. v[i] = last /\ v[i - 1] = u[m - 1]
        BY <1>3, <1>5, <3>1
      <4>. QED  BY <1>5, <3>1, <4>1
    <3>2. CASE i # m
      <4>1. i \in 0..(m - 1) /\ v[i] = u[i]
        BY <1>3, <3>2
      <4>2. i # 0 => v[i - 1] = u[i - 1]
        BY <1>3, <3>2
      <4>. QED  BY <2>3, <4>1, <4>2
    <3>. QED  BY <3>1, <3>2
  <2>5. \A i \in 0..m : Lists(v[i], some \cap (1..i))
    <3>. SUFFICES ASSUME NEW i \in 0..m PROVE Lists(v[i], some \cap (1..i))
      OBVIOUS
    <3>1. CASE i # m
      <4>1. i \in 0..(m - 1) /\ v[i] = u[i]
        BY <1>3, <3>1
      <4>. QED  BY <2>2, <4>1 DEF Listing
    <3>2. CASE i = m
      <4>1. m - 1 \in 0..(m - 1) /\ m \in Nat
        BY <1>3, <1>5
      <4>2. Lists(u[m - 1], some \cap (1..(m - 1)))
        BY <2>2, <4>1 DEF Listing
      <4>3. CASE m \in some
        <5>1. some \cap (1..m) = (some \cap (1..(m - 1))) \cup {m}
          BY <1>3, <1>5, <4>3
        <5>2. \A x \in some \cap (1..(m - 1)) : x < m
          BY <4>1
        <5>3. Lists(Append(u[m - 1], m), (some \cap (1..(m - 1))) \cup {m})
          BY <4>1, <4>2, <5>2, OneMoreListed
        <5>. QED  BY <3>2, <4>3, <5>1, <5>3
      <4>4. CASE m \notin some
        <5>1. some \cap (1..m) = some \cap (1..(m - 1))
          BY <1>3, <1>5, <4>4
        <5>. QED  BY <3>2, <4>2, <4>4, <5>1
      <4>. QED  BY <4>3, <4>4
    <3>. QED  BY <3>1, <3>2
  <2>. HIDE DEF last
  <2>6. v = [i \in 0..m |-> IF i = 0 THEN <<>>
                            ELSE IF i \in some THEN Append(v[i - 1], i) ELSE v[i - 1]]
    <3>1. v = [i \in 0..m |-> v[i]]
      OBVIOUS
    <3>2. [i \in 0..m |-> v[i]] =
            [i \in 0..m |-> IF i = 0 THEN <<>>
                            ELSE IF i \in some THEN Append(v[i - 1], i) ELSE v[i - 1]]
      <4>. HIDE DEF v
      <4>. QED  BY <2>4
    <3>. QED  BY <3>1, <3>2
  <2>7. DOMAIN v = 0..m
    OBVIOUS
  <2>. HIDE DEF v
  <2>8. Listing(v, m, some)
    BY <2>5, <2>6, <2>7 DEF Listing
  <2>. QED  BY <1>3, <2>8
<1>. QED  BY <1>4, <1>5

\* What OldestFirst makes of some commits lists them.
LEMMA OldestFirstLists ==
  ASSUME NEW some, some \subseteq 1..MaxHistory
  PROVE  Lists(OldestFirst(some), some)
<1>. DEFINE n == MaxHistory
            Defines(f) == f = [i \in 0..n |->
              IF i = 0 THEN <<>> ELSE IF i \in some THEN Append(f[i - 1], i) ELSE f[i - 1]]
<1>0. n \in Nat
  BY TreeParameters
<1>1. PICK u : Listing(u, n, some)
  BY <1>0, ListingExists
<1>2. Defines(u)
  BY <1>1 DEF Listing
<1>3. ASSUME NEW f, Defines(f) PROVE f = u
  <2>. DEFINE T == {i \in 0..n : u[i] # f[i]}
  <2>1. ASSUME T # {} PROVE FALSE
    <3>1. T \subseteq Nat
      OBVIOUS
    <3>2. PICK m \in T : \A l \in T : m <= l
      <4>. HIDE DEF T
      <4>. QED  BY <2>1, <3>1, LeastOf
    <3>3. m \in 0..n /\ u[m] # f[m]
      OBVIOUS
    <3>4. m # 0
      BY <1>2, <1>3, <3>3
    <3>5. m - 1 \in 0..n /\ ~ (m <= m - 1)
      BY <1>0, <3>3, <3>4
    <3>6. u[m - 1] = f[m - 1]
      BY <3>2, <3>5
    <3>. QED  BY <1>2, <1>3, <3>3, <3>4, <3>6
  <2>2. \A i \in 0..n : u[i] = f[i]
    BY <2>1
  <2>3. u = [i \in 0..n |-> u[i]] /\ f = [i \in 0..n |-> f[i]]
    BY <1>2, <1>3
  <2>4. [i \in 0..n |-> u[i]] = [i \in 0..n |-> f[i]]
    BY <2>2
  <2>. QED  BY <2>3, <2>4
<1>4. u = CHOOSE f : Defines(f)
  <2>. HIDE DEF Defines
  <2>. QED  BY <1>2, <1>3
<1>5. OldestFirst(some) = u[n]
  BY <1>4 DEF OldestFirst
<1>6. Lists(u[n], some \cap (1..n))
  <2>1. n \in 0..n
    BY <1>0
  <2>. HIDE DEF n
  <2>. QED  BY <1>1, <2>1 DEF Listing
<1>7. some \cap (1..n) = some
  OBVIOUS
<1>. QED  BY <1>5, <1>6, <1>7

\* The last k of them: no more than k, and none that is left out is newer than
\* one that is not.
LEMMA LastAreNewest ==
  ASSUME NEW s, NEW set, Lists(s, set), NEW k \in Nat
  PROVE  /\ Ascending(Last(s, k)) /\ Len(Last(s, k)) <= k
         /\ Numbers(Last(s, k)) \subseteq set
         /\ Last(s, k) # <<>> => \A x \in set : Last(s, k)[1] < x => x \in Numbers(Last(s, k))
<1>. DEFINE m == Len(s)
            from == IF m > k THEN m - k + 1 ELSE 1
            t == Last(s, k)
<1>1. s \in Seq(Nat) /\ m \in Nat /\ DOMAIN s = 1..m /\ set = {s[i] : i \in 1..m}
      /\ \A i, j \in 1..m : i < j => s[i] < s[j]
  BY DEF Lists, Ascending, Numbers
<1>2. from \in Nat /\ 1 <= from
  BY <1>1
<1>3. t = SubSeq(s, from, m)
  BY DEF Last
<1>4. \A i \in from..m : s[i] \in Nat
  BY <1>1, <1>2
<1>. HIDE DEF m, t
<1>5. /\ t \in Seq(Nat)
      /\ Len(t) = IF from <= m THEN m - from + 1 ELSE 0
      /\ \A i \in 1..(m - from + 1) : t[i] = s[from + i - 1]
  <2>. HIDE DEF from
  <2>1. from \in Int /\ m \in Int
    BY <1>1, <1>2
  <2>. QED  BY <1>3, <1>4, <2>1, SubSeqProperties
<1>6. Len(t) <= k
  BY <1>1, <1>5
<1>. HIDE DEF from
<1>7. DOMAIN t = 1..Len(t) /\ Len(t) \in Nat
  BY <1>5
<1>8. \A i \in DOMAIN t : i \in Nat /\ from + i - 1 \in 1..m /\ t[i] = s[from + i - 1]
  BY <1>1, <1>2, <1>5, <1>7
<1>9. \A i, j \in DOMAIN t : i < j => t[i] < t[j]
  <2>. SUFFICES ASSUME NEW i \in DOMAIN t, NEW j \in DOMAIN t, i < j PROVE t[i] < t[j]
    OBVIOUS
  <2>1. from + i - 1 < from + j - 1
    BY <1>2, <1>8
  <2>. QED  BY <1>1, <1>8, <2>1
<1>10. Numbers(t) \subseteq set
  BY <1>1, <1>8 DEF Numbers
<1>11. ASSUME t # <<>>, NEW x \in set, t[1] < x PROVE x \in Numbers(t)
  <2>1. Len(t) # 0 /\ from <= m
    BY <1>1, <1>2, <1>5, <1>7, <1>11
  <2>2. 1 \in DOMAIN t /\ t[1] = s[from] /\ from \in 1..m
    <3>1. 1 \in 1..(m - from + 1) /\ from + 1 - 1 = from
      BY <1>1, <1>2, <2>1
    <3>2. t[1] = s[from + 1 - 1]
      BY <1>5, <3>1
    <3>3. Len(t) = m - from + 1
      BY <1>5, <2>1
    <3>. QED  BY <1>1, <1>2, <1>7, <2>1, <3>1, <3>2, <3>3
  <2>3. PICK j \in 1..m : x = s[j]
    BY <1>1
  <2>4. from < j
    <3>1. CASE j = from
      BY <1>1, <1>11, <2>2, <2>3, <3>1
    <3>2. CASE j < from
      <4>1. s[j] < s[from] /\ s[j] \in Nat /\ s[from] \in Nat
        BY <1>1, <2>2, <3>2
      <4>. QED  BY <1>11, <2>2, <2>3, <4>1
    <3>. QED  BY <1>2, <3>1, <3>2
  <2>5. j - from + 1 \in DOMAIN t /\ t[j - from + 1] = s[j]
    <3>1. j - from + 1 \in 1..(m - from + 1)
      BY <1>1, <1>2, <2>4
    <3>2. from + (j - from + 1) - 1 = j
      BY <1>2
    <3>3. j - from + 1 \in DOMAIN t
      BY <1>5, <1>7, <2>1, <3>1
    <3>. QED  BY <1>5, <3>1, <3>2, <3>3
  <2>. QED  BY <2>3, <2>5 DEF Numbers
<1>. QED  BY <1>5, <1>6, <1>9, <1>10, <1>11 DEF Ascending, t

\* Of two lists, the one of fewer numbers is no longer.
LEMMA FewerAreShorter ==
  ASSUME NEW s, NEW t, Ascending(s), Ascending(t), Numbers(s) \subseteq Numbers(t)
  PROVE  Len(s) <= Len(t)
<1>. DEFINE m == Len(s)
            n == Len(t)
            place == [k \in 1..m |-> CHOOSE j \in 1..n : t[j] = s[k]]
<1>1. /\ m \in Nat /\ n \in Nat
      /\ \A j, k \in 1..m : j < k => s[j] < s[k]
      /\ \A k \in 1..m : s[k] \in Nat
      /\ \A k \in 1..m : \E j \in 1..n : t[j] = s[k]
  <2>1. s \in Seq(Nat) /\ t \in Seq(Nat)
    BY DEF Ascending
  <2>2. m \in Nat /\ n \in Nat /\ DOMAIN s = 1..m /\ DOMAIN t = 1..n
    BY <2>1
  <2>3. \A k \in 1..m : s[k] \in Nat
    BY <2>1
  <2>4. \A k \in 1..m : s[k] \in {t[j] : j \in 1..n}
    BY <2>2 DEF Numbers
  <2>. QED  BY <2>2, <2>3, <2>4 DEF Ascending
<1>2. \A k \in 1..m : place[k] \in 1..n /\ t[place[k]] = s[k]
  BY <1>1
<1>3. place \in [1..m -> 1..n]
  BY <1>2
<1>4. IsFiniteSet(1..m) /\ Cardinality(1..m) = m /\ IsFiniteSet(1..n) /\ Cardinality(1..n) = n
  <2>1. 1 \in Int /\ m \in Int /\ n \in Int
    BY <1>1
  <2>2. Cardinality(1..m) = (IF 1 > m THEN 0 ELSE m - 1 + 1) /\ IsFiniteSet(1..m)
    BY <2>1, FS_Interval
  <2>3. Cardinality(1..n) = (IF 1 > n THEN 0 ELSE n - 1 + 1) /\ IsFiniteSet(1..n)
    BY <2>1, FS_Interval
  <2>. HIDE DEF m, n
  <2>. QED  BY <1>1, <2>2, <2>3
<1>5. ASSUME n < m PROVE FALSE
  <2>. HIDE DEF place, m, n
  <2>1. PICK x, y \in 1..m : x # y /\ place[x] = place[y]
    BY <1>3, <1>4, <1>5, FS_PigeonHole
  <2>2. s[x] = s[y]
    BY <1>2, <2>1
  <2>. QED  BY <1>1, <2>1, <2>2
<1>. QED  BY <1>1, <1>5

-----------------------------------------------------------------------------
(* What a history keeps: only its first commit has no parent, and a parent *)
(* is older than its child.                                                *)
HistoryHolds ==
  /\ hist \in Seq([parent : Nat, tree : Trees, merge : BOOLEAN])
  /\ Len(hist) <= MaxHistory
  /\ \A i \in DOMAIN hist : Parent(i) < i /\ (Parent(i) = 0 => i = 1)

LEMMA HistoryTyped ==
  ASSUME HistoryHolds
  PROVE  /\ Len(hist) \in Nat /\ DOMAIN hist = 1..Len(hist)
         /\ \A i \in DOMAIN hist :
              /\ hist[i] \in [parent : Nat, tree : Trees, merge : BOOLEAN]
              /\ i \in 1..MaxHistory /\ Parent(i) \in 0..(i - 1) /\ TreeOf(i) \in Trees
<1>1. Len(hist) \in Nat /\ DOMAIN hist = 1..Len(hist)
      /\ \A i \in DOMAIN hist : hist[i] \in [parent : Nat, tree : Trees, merge : BOOLEAN]
  <2>. DEFINE Commits == [parent : Nat, tree : Trees, merge : BOOLEAN]
  <2>1. hist \in Seq(Commits)
    BY DEF HistoryHolds
  <2>. HIDE DEF Commits
  <2>2. Len(hist) \in Nat /\ DOMAIN hist = 1..Len(hist) /\ \A i \in DOMAIN hist : hist[i] \in Commits
    BY <2>1
  <2>. QED  BY <2>2 DEF Commits
<1>2. ASSUME NEW i \in DOMAIN hist
      PROVE  i \in 1..MaxHistory /\ Parent(i) \in 0..(i - 1) /\ TreeOf(i) \in Trees
  <2>1. hist[i].parent \in Nat /\ hist[i].tree \in Trees
    BY <1>1
  <2>2. i \in 1..Len(hist) /\ Len(hist) <= MaxHistory
    BY <1>1 DEF HistoryHolds
  <2>3. Parent(i) < i
    BY DEF HistoryHolds
  <2>. QED  BY <1>1, <2>1, <2>2, <2>3, TreeParameters DEF Parent, TreeOf
<1>. QED  BY <1>1, <1>2

\* The newest of some commits, no more than were asked for.
LEMMA NewestOf ==
  ASSUME HistoryHolds, NEW some, some \subseteq DOMAIN hist
  PROVE  LET s == Last(OldestFirst(some), MaxPoints)
         IN  /\ Ascending(s) /\ Len(s) <= MaxPoints /\ Numbers(s) \subseteq some
             /\ s # <<>> => \A x \in some : s[1] < x => x \in Numbers(s)
<1>1. some \subseteq 1..MaxHistory
  BY HistoryTyped
<1>2. Lists(OldestFirst(some), some)
  BY <1>1, OldestFirstLists
<1>. QED  BY <1>2, LastAreNewest, TreeParameters

\* A number of an ascending sequence is not below its first.
LEMMA FirstIsLeast ==
  ASSUME NEW s, Ascending(s), NEW x \in Numbers(s)
  PROVE  s # <<>> /\ 1 \in DOMAIN s /\ s[1] \in Nat /\ s[1] <= x
<1>1. s \in Seq(Nat) /\ Len(s) \in Nat /\ DOMAIN s = 1..Len(s)
  BY DEF Ascending
<1>2. PICK k \in DOMAIN s : x = s[k]
  BY DEF Numbers
<1>3. k \in 1..Len(s) /\ 1 \in DOMAIN s /\ s # <<>>
  BY <1>1, <1>2
<1>4. s[1] \in Nat /\ s[k] \in Nat
  BY <1>1, <1>3
<1>5. 1 < k => s[1] < s[k]
  BY <1>2, <1>3 DEF Ascending
<1>6. k = 1 \/ 1 < k
  BY <1>1, <1>3
<1>. QED  BY <1>2, <1>3, <1>4, <1>5, <1>6

\* What replay_points gives.
LEMMA ReplayPointsAre ==
  ASSUME HistoryHolds
  PROVE  /\ Ascending(ReplayPoints) /\ Len(ReplayPoints) <= MaxPoints
         /\ \A x \in Numbers(ReplayPoints) :
              x \in DOMAIN hist /\ Parent(x) # 0 /\ ~hist[x].merge
         /\ ReplayPoints # <<>> =>
              \A x \in DOMAIN hist :
                ReplayPoints[1] < x => hist[x].merge \/ x \in Numbers(ReplayPoints)
<1>. DEFINE plain == {i \in DOMAIN hist : ~hist[i].merge}
            kept == {i \in Numbers(Newest) : Parent(i) # 0}
<1>1. /\ Ascending(Newest) /\ Len(Newest) <= MaxPoints /\ Numbers(Newest) \subseteq plain
      /\ Newest # <<>> => \A x \in plain : Newest[1] < x => x \in Numbers(Newest)
  BY NewestOf DEF Newest
<1>2. kept \subseteq 1..MaxHistory
  BY <1>1, HistoryTyped
<1>3. Ascending(ReplayPoints) /\ Numbers(ReplayPoints) = kept
  BY <1>2, OldestFirstLists DEF ReplayPoints, Lists
<1>4. Len(ReplayPoints) <= MaxPoints
  <2>1. Len(ReplayPoints) <= Len(Newest)
    BY <1>1, <1>3, FewerAreShorter
  <2>2. Len(ReplayPoints) \in Nat /\ Len(Newest) \in Nat
    BY <1>1, <1>3 DEF Ascending
  <2>. QED  BY <1>1, <2>1, <2>2, TreeParameters
<1>5. ASSUME ReplayPoints # <<>>, NEW x \in DOMAIN hist, ReplayPoints[1] < x, ~hist[x].merge
      PROVE  x \in Numbers(ReplayPoints)
  <2>1. ReplayPoints \in Seq(Nat) /\ 1 \in DOMAIN ReplayPoints
    BY <1>3, <1>5 DEF Ascending
  <2>2. ReplayPoints[1] \in Numbers(ReplayPoints)
    BY <2>1 DEF Numbers
  <2>3. ReplayPoints[1] \in Numbers(Newest) /\ ReplayPoints[1] \in 1..MaxHistory
    BY <1>2, <1>3, <2>2
  <2>4. Newest # <<>> /\ Newest[1] \in Nat /\ Newest[1] <= ReplayPoints[1]
    BY <1>1, <2>3, FirstIsLeast
  <2>5. x \in 1..MaxHistory /\ (Parent(x) = 0 => x = 1)
    BY HistoryTyped DEF HistoryHolds
  <2>6. Newest[1] < x /\ x # 1
    BY <1>5, <2>3, <2>4, <2>5
  <2>. QED  BY <1>1, <1>3, <1>5, <2>4, <2>5, <2>6
<1>. QED  BY <1>1, <1>3, <1>4, <1>5

\* What paired_points gives.
LEMMA PairedPointsAre ==
  ASSUME HistoryHolds
  PROVE  /\ Ascending(PairedPoints) /\ Len(PairedPoints) <= MaxPoints
         /\ \A x \in Numbers(PairedPoints) :
              x \in DOMAIN hist /\ Parent(x) # 0 /\ ~hist[x].merge /\ TouchesBoth(x)
         /\ PairedPoints # <<>> =>
              \A x \in DOMAIN hist : PairedPoints[1] < x =>
                hist[x].merge \/ ~TouchesBoth(x) \/ x \in Numbers(PairedPoints)
<1>. DEFINE both == {i \in DOMAIN hist : ~hist[i].merge /\ Parent(i) # 0 /\ TouchesBoth(i)}
<1>1. /\ Ascending(PairedPoints) /\ Len(PairedPoints) <= MaxPoints
      /\ Numbers(PairedPoints) \subseteq both
      /\ PairedPoints # <<>> =>
           \A x \in both : PairedPoints[1] < x => x \in Numbers(PairedPoints)
  BY NewestOf DEF PairedPoints
<1>2. ASSUME PairedPoints # <<>>, NEW x \in DOMAIN hist, PairedPoints[1] < x
      PROVE  Parent(x) # 0
  <2>1. PairedPoints \in Seq(Nat) /\ 1 \in DOMAIN PairedPoints
    BY <1>1, <1>2 DEF Ascending
  <2>2. PairedPoints[1] \in DOMAIN hist
    BY <1>1, <2>1 DEF Numbers
  <2>3. PairedPoints[1] \in 1..MaxHistory /\ x \in 1..MaxHistory /\ (Parent(x) = 0 => x = 1)
    BY <2>2, HistoryTyped DEF HistoryHolds
  <2>. QED  BY <1>2, <2>3
<1>. QED  BY <1>1, <1>2

LEMMA BothAreNewest ==
  ASSUME HistoryHolds PROVE PointsAreNewest
<1>. SUFFICES ASSUME NEW s \in {ReplayPoints, PairedPoints}
     PROVE /\ Len(s) <= MaxPoints
           /\ \A k \in 1..(Len(s) - 1) : s[k] < s[k + 1]
           /\ \A k \in DOMAIN s : Parent(s[k]) # 0 /\ ~hist[s[k]].merge
           /\ s # <<>> => \A i \in (s[1] + 1)..Len(hist) :
                \/ \E k \in DOMAIN s : s[k] = i
                \/ hist[i].merge
                \/ s = PairedPoints /\ ~TouchesBoth(i)
  BY DEF PointsAreNewest
<1>1. /\ Ascending(s) /\ Len(s) <= MaxPoints
      /\ \A x \in Numbers(s) : x \in DOMAIN hist /\ Parent(x) # 0 /\ ~hist[x].merge
      /\ s # <<>> => \A x \in DOMAIN hist : s[1] < x =>
           hist[x].merge \/ (s = PairedPoints /\ ~TouchesBoth(x)) \/ x \in Numbers(s)
  <2>1. CASE s = ReplayPoints
    BY <2>1, ReplayPointsAre
  <2>2. CASE s = PairedPoints
    BY <2>2, PairedPointsAre
  <2>. QED  BY <2>1, <2>2
<1>2. s \in Seq(Nat) /\ Len(s) \in Nat /\ DOMAIN s = 1..Len(s)
  BY <1>1 DEF Ascending
<1>3. ASSUME NEW k \in 1..(Len(s) - 1) PROVE s[k] < s[k + 1]
  <2>1. k \in DOMAIN s /\ k + 1 \in DOMAIN s /\ k < k + 1
    BY <1>2
  <2>. QED  BY <1>1, <2>1 DEF Ascending
<1>4. \A k \in DOMAIN s : Parent(s[k]) # 0 /\ ~hist[s[k]].merge
  BY <1>1 DEF Numbers
<1>5. ASSUME s # <<>>, NEW i \in (s[1] + 1)..Len(hist)
      PROVE \/ \E k \in DOMAIN s : s[k] = i
            \/ hist[i].merge
            \/ s = PairedPoints /\ ~TouchesBoth(i)
  <2>1. 1 \in DOMAIN s /\ s[1] \in Nat
    BY <1>2, <1>5
  <2>2. i \in DOMAIN hist /\ s[1] < i
    BY <2>1, HistoryTyped
  <2>. QED  BY <1>1, <1>5, <2>2 DEF Numbers
<1>. QED  BY <1>1, <1>3, <1>4, <1>5

LEMMA PairedTouchBoth ==
  ASSUME HistoryHolds PROVE PairedCanDetect
<1>. SUFFICES ASSUME NEW k \in DOMAIN PairedPoints PROVE ProbeCandidate(PairedPoints[k])
  BY DEF PairedCanDetect
<1>. DEFINE i == PairedPoints[k]
<1>1. i \in Numbers(PairedPoints)
  BY DEF Numbers
<1>2. {IsTestPath(p) : p \in Named(i) \ Renamed(i)} = {TRUE, FALSE}
  BY <1>1, PairedPointsAre DEF TouchesBoth
<1>. HIDE DEF i
<1>3. \A ch \in ChangesOf(i) : IsTestPath(ch.path) \in {TRUE, FALSE}
  <2>. SUFFICES ASSUME NEW ch \in ChangesOf(i) PROVE IsTestPath(ch.path) \in {TRUE, FALSE}
    OBVIOUS
  <2>1. CASE ch.path \in TestPath
    <3>1. IsTestPath(ch.path) = TRUE
      BY <2>1 DEF IsTestPath
    <3>. QED  BY <3>1
  <2>2. CASE ch.path \notin TestPath
    <3>1. IsTestPath(ch.path) = FALSE
      BY <2>2 DEF IsTestPath
    <3>. QED  BY <3>1
  <2>. QED  BY <2>1, <2>2
<1>4. \A p \in Named(i) : \E ch \in ChangesOf(i) : ch.path = p
  BY DEF Named
<1>5. ASSUME NEW b \in {TRUE, FALSE}
      PROVE  \E ch \in ChangesOf(i) : IsTestPath(ch.path) = b
  <2>1. PICK p \in Named(i) \ Renamed(i) : IsTestPath(p) = b
    BY <1>2
  <2>. QED  BY <1>4, <2>1
<1>6. {IsTestPath(ch.path) : ch \in ChangesOf(i)} = {TRUE, FALSE}
  BY <1>3, <1>5, Zenon
<1>. QED  BY <1>6 DEF ProbeCandidate, i

-----------------------------------------------------------------------------
\* A change is of a path where the two differ.
LEMMA PathsOfADiff ==
  ASSUME NEW a, NEW b
  PROVE  /\ \A p : (\E ch \in DiffChanges(a, b) : ch.path = p) <=> p \in Path /\ a[p] # b[p]
         /\ \A ch \in DiffChanges(a, b) : ch.path \in Path /\ ch.status \in {"A", "M", "D"}
<1>. DEFINE letter(p) == IF a[p] = None THEN "A" ELSE IF b[p] = None THEN "D" ELSE "M"
            ch(p) == [path |-> p, status |-> letter(p)]
            differ == {q \in Path : a[q] # b[q]}
<1>1. DiffChanges(a, b) = {ch(p) : p \in differ}
  BY DEF DiffChanges
<1>2. \A p : ch(p).path = p /\ ch(p).status \in {"A", "M", "D"}
  OBVIOUS
<1>. HIDE DEF ch
<1>. QED  BY <1>1, <1>2

\* The parent's tree with a commit's changes is the commit's tree.
LEMMA NaturalIsTheCommit ==
  ASSUME HistoryHolds, NEW i \in DOMAIN hist, Parent(i) # 0
  PROVE  /\ Parent(i) \in DOMAIN hist /\ TreeOf(Parent(i)) \in Trees /\ TreeOf(i) \in Trees
         /\ Natural(TreeOf(Parent(i)), i) = TreeOf(i)
<1>1. Parent(i) \in 1..Len(hist) /\ DOMAIN hist = 1..Len(hist) /\ TreeOf(i) \in Trees
  BY HistoryTyped
<1>2. TreeOf(Parent(i)) \in Trees
  BY <1>1, HistoryTyped
<1>. DEFINE a == TreeOf(Parent(i))
            b == TreeOf(i)
<1>3. \A p \in Path : (\E ch \in ChangesOf(i) : ch.path = p) <=> a[p] # b[p]
  BY PathsOfADiff DEF ChangesOf
<1>4. Natural(a, i) = [p \in Path |-> b[p]]
  <2>1. Natural(a, i) = [p \in Path |-> IF \E ch \in ChangesOf(i) : ch.path = p THEN b[p] ELSE a[p]]
    BY DEF Natural, Written
  <2>2. \A p \in Path : (IF \E ch \in ChangesOf(i) : ch.path = p THEN b[p] ELSE a[p]) = b[p]
    <3>. HIDE DEF a, b
    <3>. QED  BY <1>3
  <2>. HIDE DEF a, b
  <2>. QED  BY <2>1, <2>2
<1>5. b = [p \in Path |-> b[p]]
  BY <1>1 DEF Trees
<1>. QED  BY <1>1, <1>2, <1>4, <1>5

\* The commit's tests over its parent's source.
LEMMA ProbeIsTheTests ==
  ASSUME HistoryHolds, NEW i \in DOMAIN hist, Parent(i) # 0
  PROVE  /\ Probe(TreeOf(i), i) \in Trees
         /\ \A p \in Path :
              Probe(TreeOf(i), i)[p] = TreeOf(IF IsTestPath(p) THEN i ELSE Parent(i))[p]
<1>. DEFINE a == TreeOf(Parent(i))
            b == TreeOf(i)
            source == {ch \in ChangesOf(i) : ~IsTestPath(ch.path)}
<1>1. a \in Trees /\ b \in Trees
  BY NaturalIsTheCommit
<1>2. \A p \in Path : (\E ch \in source : ch.path = p) <=> (a[p] # b[p] /\ ~IsTestPath(p))
  <2>1. \A p \in Path : (\E ch \in ChangesOf(i) : ch.path = p) <=> a[p] # b[p]
    BY PathsOfADiff DEF ChangesOf
  <2>. HIDE DEF a, b
  <2>. QED  BY <2>1
<1>3. Probe(b, i) = [p \in Path |-> IF \E ch \in source : ch.path = p THEN a[p] ELSE b[p]]
  BY DEF Probe, Written
<1>4. ASSUME NEW p \in Path PROVE Probe(b, i)[p] = IF IsTestPath(p) THEN b[p] ELSE a[p]
  <2>. HIDE DEF a, b, source
  <2>. QED  BY <1>2, <1>3
<1>5. Probe(b, i) \in Trees
  <2>. HIDE DEF source
  <2>. QED  BY <1>1, <1>3 DEF Trees
<1>6. ASSUME NEW p \in Path
      PROVE  Probe(TreeOf(i), i)[p] = TreeOf(IF IsTestPath(p) THEN i ELSE Parent(i))[p]
  <2>1. CASE IsTestPath(p)
    BY <1>4, <2>1
  <2>2. CASE ~IsTestPath(p)
    BY <1>4, <2>2
  <2>. QED  BY <2>1, <2>2
<1>. QED  BY <1>5, <1>6

\* In a history without branches the points follow each other.
LEMMA PointsFollow ==
  ASSUME HistoryHolds, Linear, NEW k \in 1..(Len(ReplayPoints) - 1)
  PROVE  ReplayPoints[k + 1] = ReplayPoints[k] + 1
<1>. DEFINE s == ReplayPoints
<1>1. s \in Seq(Nat) /\ Len(s) \in Nat /\ DOMAIN s = 1..Len(s)
      /\ \A i, j \in DOMAIN s : i < j => s[i] < s[j]
  BY ReplayPointsAre DEF Ascending
<1>2. \A j \in DOMAIN s : s[j] \in DOMAIN hist
  BY ReplayPointsAre DEF Numbers
<1>3. /\ k \in DOMAIN s /\ k + 1 \in DOMAIN s /\ 1 \in DOMAIN s /\ s # <<>>
      /\ k \in Nat /\ k < k + 1
  BY <1>1
<1>4. s[1] <= s[k] /\ s[k] < s[k + 1]
  <2>1. s[k] < s[k + 1]
    BY <1>1, <1>3
  <2>2. k = 1 \/ 1 < k
    BY <1>3
  <2>3. s[1] \in Nat /\ s[k] \in Nat
    BY <1>1, <1>3
  <2>. QED  BY <1>1, <1>3, <2>1, <2>2, <2>3
<1>5. DOMAIN hist = 1..Len(hist) /\ Len(hist) \in Nat
  BY HistoryTyped
<1>6. s[k] + 1 \in DOMAIN hist /\ s[1] < s[k] + 1
  <2>1. s[k] \in 1..Len(hist) /\ s[k + 1] \in 1..Len(hist) /\ s[1] \in Nat
    BY <1>1, <1>2, <1>3, <1>5
  <2>. QED  BY <1>4, <1>5, <2>1
<1>7. s[k] + 1 \in Numbers(s)
  <2>1. ~hist[s[k] + 1].merge
    BY <1>6 DEF Linear
  <2>. QED  BY <1>3, <1>6, <2>1, ReplayPointsAre
<1>8. PICK j \in DOMAIN s : s[j] = s[k] + 1
  BY <1>7 DEF Numbers
<1>9. j \in Nat /\ s[j] \in Nat /\ s[k] \in Nat /\ s[k + 1] \in Nat
  BY <1>1, <1>3, <1>8
<1>10. k < j
  <2>1. ~ (j = k)
    BY <1>8, <1>9
  <2>2. ~ (j < k)
    <3>. SUFFICES ASSUME j < k PROVE FALSE
      OBVIOUS
    <3>1. s[j] < s[k]
      BY <1>1, <1>3
    <3>. QED  BY <1>8, <1>9, <3>1
  <2>. QED  BY <1>3, <1>9, <2>1, <2>2
<1>11. ~ (k + 1 < j)
  <2>. SUFFICES ASSUME k + 1 < j PROVE FALSE
    OBVIOUS
  <2>1. s[k + 1] < s[j]
    BY <1>1, <1>3
  <2>. QED  BY <1>4, <1>8, <1>9, <2>1
<1>12. j = k + 1
  BY <1>3, <1>9, <1>10, <1>11
<1>. QED  BY <1>8, <1>12

-----------------------------------------------------------------------------
(* What a worktree holds, however it came about: a variant what its        *)
(* materialisation writes, a drift its last point, where points follow     *)
(* each other.                                                             *)
WorktreeHolds ==
  /\ work \in [at : 0..Len(hist), tree : Trees]
  /\ work = NoWork <=> shape = "none"
  /\ \A ch \in shown : ch.path \in Path /\ ch.status \in {"A", "M", "D"}
VariantHolds ==
  /\ shape \in {"natural", "probe"} =>
       target \in DOMAIN hist /\ Parent(target) # 0 /\ shown = ChangedSinceHead(work)
  /\ shape = "natural" =>
       work = [at |-> Parent(target), tree |-> Natural(TreeOf(Parent(target)), target)]
  /\ shape = "probe" => work = [at |-> target, tree |-> Probe(TreeOf(target), target)]
DriftHolds ==
  /\ drift \in Seq(Nat)
  /\ shape # "drift" => drift = <<>>
  /\ shape = "drift" =>
       /\ ReplayPoints # <<>> /\ work.at = Parent(ReplayPoints[1])
       /\ Len(drift) <= Len(ReplayPoints)
       /\ drift # <<>> => target = ReplayPoints[Len(drift)] /\ shown = ChangedSinceHead(work)
       /\ Linear => work.tree = IF drift = <<>> THEN TreeOf(work.at) ELSE TreeOf(target)
TreeInv == HistoryHolds /\ WorktreeHolds /\ VariantHolds /\ DriftHolds

LEMMA TreeInitHolds == TreeInit => TreeInv
<1>. SUFFICES ASSUME TreeInit PROVE TreeInv
  OBVIOUS
<1>1. HistoryHolds
  BY TreeParameters DEF TreeInit, HistoryHolds
<1>2. WorktreeHolds
  BY DEF TreeInit, WorktreeHolds, NoWork, NoFiles, Trees
<1>3. VariantHolds /\ DriftHolds
  BY DEF TreeInit, VariantHolds, DriftHolds
<1>. QED  BY <1>1, <1>2, <1>3 DEF TreeInv

\* A commit is made before there is a worktree.
LEMMA CommitHolds ==
  ASSUME TreeInv, NEW parent \in 0..Len(hist), NEW tree \in Trees, NEW merge \in BOOLEAN,
         parent = 0 => hist = <<>>, Len(hist) < MaxHistory, work = NoWork,
         hist' = Append(hist, [parent |-> parent, tree |-> tree, merge |-> merge]),
         UNCHANGED <<work, shown, shape, target, drift>>
  PROVE  TreeInv'
<1>. DEFINE Commits == [parent : Nat, tree : Trees, merge : BOOLEAN]
            new == [parent |-> parent, tree |-> tree, merge |-> merge]
            n == Len(hist)
<1>1. hist \in Seq(Commits) /\ n \in Nat
  BY HistoryTyped DEF TreeInv, HistoryHolds
<1>2. new \in Commits /\ new.parent = parent
  BY <1>1
<1>3. /\ hist' \in Seq(Commits) /\ Len(hist') = n + 1 /\ DOMAIN hist' = 1..(n + 1)
      /\ \A i \in 1..n : hist'[i] = hist[i]
      /\ hist'[n + 1] = new
  <2>1. hist' = Append(hist, new)
    OBVIOUS
  <2>. HIDE DEF Commits, new
  <2>. QED  BY <1>1, <1>2, <2>1, AppendProperties
<1>4. ASSUME NEW i \in DOMAIN hist'
      PROVE  hist'[i].parent < i /\ (hist'[i].parent = 0 => i = 1)
  <2>1. CASE i \in 1..n
    <3>1. hist'[i].parent = Parent(i) /\ i \in DOMAIN hist
      BY <1>3, <2>1, HistoryTyped DEF Parent, TreeInv
    <3>. QED  BY <3>1 DEF TreeInv, HistoryHolds
  <2>2. CASE i = n + 1
    <3>1. hist'[i].parent = parent
      BY <1>2, <1>3, <2>2
    <3>2. parent = 0 => n = 0
      OBVIOUS
    <3>. HIDE DEF n, new
    <3>3. parent \in 0..n
      BY DEF n
    <3>. QED  BY <1>1, <2>2, <3>1, <3>2, <3>3
  <2>. QED  BY <1>1, <1>3, <1>4, <2>1, <2>2
<1>5. HistoryHolds'
  <2>1. n + 1 <= MaxHistory
    BY <1>1, TreeParameters
  <2>. QED  BY <1>3, <1>4, <2>1 DEF HistoryHolds, Parent
<1>6. shape = "none" /\ drift = <<>>
  BY DEF TreeInv, WorktreeHolds, DriftHolds
<1>7. WorktreeHolds'
  <2>1. 0..n \subseteq 0..(n + 1)
    BY <1>1
  <2>. HIDE DEF n, new
  <2>. QED  BY <1>3, <2>1 DEF TreeInv, WorktreeHolds, NoWork, n
<1>8. VariantHolds'
  BY <1>6 DEF VariantHolds
<1>9. DriftHolds'
  BY <1>6 DEF DriftHolds
<1>. QED  BY <1>5, <1>7, <1>8, <1>9 DEF TreeInv

LEMMA SameHistory ==
  ASSUME hist' = hist
  PROVE  ReplayPoints' = ReplayPoints /\ (Linear <=> Linear') /\ (HistoryHolds => HistoryHolds')
<1>1. Newest' = Newest
  BY DEF Newest
<1>2. ReplayPoints' = ReplayPoints
  BY <1>1 DEF ReplayPoints, Parent
<1>. QED  BY <1>2 DEF Linear, HistoryHolds, Parent

LEMMA NaturalHolds ==
  ASSUME TreeInv, NEW i \in DOMAIN hist, Parent(i) # 0, CheckOutNatural(i) PROVE TreeInv'
<1>. DEFINE w == [at |-> Parent(i), tree |-> Natural(TreeOf(Parent(i)), i)]
<1>1. /\ hist' = hist /\ drift' = drift /\ work' = w /\ shown' = ChangedSinceHead(w)
      /\ shape' = "natural" /\ target' = i /\ shape = "none"
  BY DEF CheckOutNatural, TreeInv, WorktreeHolds
<1>2. HistoryHolds /\ HistoryHolds'
  BY <1>1, SameHistory DEF TreeInv
<1>3. w \in [at : 0..Len(hist), tree : Trees] /\ w.at # 0
  <2>1. Parent(i) \in DOMAIN hist /\ Natural(TreeOf(Parent(i)), i) \in Trees
    BY <1>2, NaturalIsTheCommit
  <2>2. Parent(i) \in 0..Len(hist)
    BY <1>2, <2>1, HistoryTyped
  <2>. QED  BY <2>1, <2>2
<1>4. \A ch \in ChangedSinceHead(w) : ch.path \in Path /\ ch.status \in {"A", "M", "D"}
  BY PathsOfADiff DEF ChangedSinceHead
<1>5. WorktreeHolds'
  <2>1. w # NoWork
    BY <1>3 DEF NoWork
  <2>. HIDE DEF w
  <2>. QED  BY <1>1, <1>3, <1>4, <2>1 DEF WorktreeHolds, NoWork
<1>6. VariantHolds'
  BY <1>1 DEF VariantHolds, ChangedSinceHead, TreeOf, Parent, Natural, ChangesOf
<1>7. DriftHolds'
  BY <1>1 DEF DriftHolds, TreeInv
<1>. QED  BY <1>2, <1>5, <1>6, <1>7 DEF TreeInv

LEMMA ProbeHolds ==
  ASSUME TreeInv, NEW i \in DOMAIN hist, Parent(i) # 0, CheckOutProbe(i) PROVE TreeInv'
<1>. DEFINE w == [at |-> i, tree |-> Probe(TreeOf(i), i)]
<1>1. /\ hist' = hist /\ drift' = drift /\ work' = w /\ shown' = ChangedSinceHead(w)
      /\ shape' = "probe" /\ target' = i /\ shape = "none"
  BY DEF CheckOutProbe, TreeInv, WorktreeHolds
<1>2. HistoryHolds /\ HistoryHolds'
  BY <1>1, SameHistory DEF TreeInv
<1>3. w \in [at : 0..Len(hist), tree : Trees] /\ w.at # 0
  <2>1. Probe(TreeOf(i), i) \in Trees
    BY <1>2, ProbeIsTheTests
  <2>2. i \in 1..Len(hist)
    BY <1>2, HistoryTyped
  <2>. QED  BY <2>1, <2>2
<1>4. \A ch \in ChangedSinceHead(w) : ch.path \in Path /\ ch.status \in {"A", "M", "D"}
  BY PathsOfADiff DEF ChangedSinceHead
<1>5. WorktreeHolds'
  <2>1. w # NoWork
    BY <1>3 DEF NoWork
  <2>. HIDE DEF w
  <2>. QED  BY <1>1, <1>3, <1>4, <2>1 DEF WorktreeHolds, NoWork
<1>6. VariantHolds'
  BY <1>1 DEF VariantHolds, ChangedSinceHead, TreeOf, Parent, Probe, ChangesOf
<1>7. DriftHolds'
  BY <1>1 DEF DriftHolds, TreeInv
<1>. QED  BY <1>2, <1>5, <1>6, <1>7 DEF TreeInv

\* The first point's parent, before anything is written over it.
LEMMA StartHolds ==
  ASSUME TreeInv, StartDrift PROVE TreeInv'
<1>. DEFINE p == Parent(ReplayPoints[1])
<1>1. /\ hist' = hist /\ drift' = drift /\ shown' = shown /\ shape' = "drift" /\ shape = "none"
      /\ work' = [at |-> p, tree |-> TreeOf(p)] /\ drift = <<>> /\ ReplayPoints # <<>>
  BY DEF StartDrift, TreeInv, WorktreeHolds, DriftHolds
<1>2. HistoryHolds /\ HistoryHolds' /\ ReplayPoints' = ReplayPoints
  BY <1>1, SameHistory DEF TreeInv
<1>3. ReplayPoints[1] \in DOMAIN hist /\ p # 0 /\ Len(ReplayPoints) \in Nat
  <2>1. ReplayPoints \in Seq(Nat)
    BY <1>2, ReplayPointsAre DEF Ascending
  <2>2. ReplayPoints[1] \in Numbers(ReplayPoints)
    BY <1>1, <2>1 DEF Numbers
  <2>. QED  BY <1>2, <2>1, <2>2, ReplayPointsAre
<1>4. p \in 0..Len(hist) /\ TreeOf(p) \in Trees
  BY <1>2, <1>3, NaturalIsTheCommit, HistoryTyped
<1>5. WorktreeHolds'
  <2>. HIDE DEF p
  <2>1. work' # NoWork
    BY <1>1, <1>3 DEF NoWork
  <2>. QED  BY <1>1, <1>4, <2>1 DEF WorktreeHolds, TreeInv, NoWork
<1>6. VariantHolds'
  BY <1>1 DEF VariantHolds
<1>7. DriftHolds'
  BY <1>1, <1>2, <1>3 DEF DriftHolds, TreeInv, Parent, TreeOf
<1>. QED  BY <1>2, <1>5, <1>6, <1>7 DEF TreeInv

\* The next point is written over the one before, which is its parent.
LEMMA CycleHolds ==
  ASSUME TreeInv, DriftCycle PROVE TreeInv'
<1>. DEFINE s == ReplayPoints
            k == Len(drift)
            i == s[k + 1]
            w == [work EXCEPT !.tree = Natural(work.tree, i)]
<1>1. /\ hist' = hist /\ shape = "drift" /\ shape' = "drift" /\ k < Len(s)
      /\ work' = w /\ shown' = ChangedSinceHead(w) /\ target' = i /\ drift' = Append(drift, i)
  BY DEF DriftCycle
<1>2. HistoryHolds /\ HistoryHolds' /\ s' = s /\ (Linear <=> Linear')
  BY <1>1, SameHistory DEF TreeInv
<1>3. s \in Seq(Nat) /\ Len(s) \in Nat /\ DOMAIN s = 1..Len(s) /\ drift \in Seq(Nat) /\ k \in Nat
  BY <1>2, ReplayPointsAre DEF Ascending, TreeInv, DriftHolds
<1>4. \A j \in DOMAIN s : s[j] \in DOMAIN hist /\ Parent(s[j]) # 0
  BY <1>2, ReplayPointsAre DEF Numbers
<1>5. k + 1 \in DOMAIN s /\ i \in DOMAIN hist /\ Parent(i) # 0 /\ i \in Nat
  <2>1. k + 1 \in DOMAIN s
    BY <1>1, <1>3
  <2>. QED  BY <1>3, <1>4, <2>1
<1>6. /\ work \in [at : 0..Len(hist), tree : Trees] /\ work # NoWork
      /\ s # <<>> /\ work.at = Parent(s[1])
      /\ drift # <<>> => target = s[k]
      /\ Linear => work.tree = IF drift = <<>> THEN TreeOf(work.at) ELSE TreeOf(target)
  BY <1>1 DEF TreeInv, WorktreeHolds, DriftHolds
<1>7. TreeOf(i) \in Trees
  BY <1>2, <1>5, HistoryTyped
<1>8. Natural(work.tree, i) \in Trees
  <2>1. work.tree \in Trees
    BY <1>6
  <2>. HIDE DEF i
  <2>. QED  BY <1>7, <2>1 DEF Natural, Written, Trees
<1>. HIDE DEF i, k, s
<1>9. w \in [at : 0..Len(hist), tree : Trees] /\ w.at = work.at /\ w.tree = Natural(work.tree, i)
  BY <1>6, <1>8
<1>10. work.at # 0
  <2>1. 1 \in DOMAIN s
    BY <1>3, <1>5, <1>6
  <2>. QED  BY <1>4, <1>6, <2>1
<1>11. WorktreeHolds'
  <2>1. w # NoWork
    BY <1>9, <1>10 DEF NoWork
  <2>2. \A ch \in ChangedSinceHead(w) : ch.path \in Path /\ ch.status \in {"A", "M", "D"}
    BY PathsOfADiff DEF ChangedSinceHead
  <2>. HIDE DEF w
  <2>. QED  BY <1>1, <1>9, <2>1, <2>2 DEF WorktreeHolds, NoWork
<1>12. VariantHolds'
  BY <1>1 DEF VariantHolds
<1>13. Linear => w.tree = TreeOf(i)
  <2>. SUFFICES ASSUME Linear PROVE work.tree = TreeOf(Parent(i))
    BY <1>2, <1>5, <1>9, NaturalIsTheCommit
  <2>1. CASE drift = <<>>
    <3>1. k = 0 /\ i = s[1]
      BY <2>1 DEF k, i
    <3>. QED  BY <1>6, <2>1, <3>1
  <2>2. CASE drift # <<>>
    <3>1. k # 0
      BY <1>3, <2>2 DEF k
    <3>2. k \in 1..(Len(s) - 1)
      BY <1>1, <1>3, <3>1
    <3>3. i = s[k] + 1
      BY <1>2, <3>2, PointsFollow DEF i, s
    <3>4. Parent(i) = i - 1
      BY <1>5 DEF Linear, Parent
    <3>5. s[k] \in Nat /\ i - 1 = s[k]
      BY <1>3, <3>2, <3>3
    <3>. QED  BY <1>6, <2>2, <3>4, <3>5
  <2>. QED  BY <2>1, <2>2
<1>14. /\ drift' \in Seq(Nat) /\ Len(drift') = k + 1 /\ drift' # <<>>
  BY <1>1, <1>3, <1>5, AppendProperties DEF k
<1>15. shown' = ChangedSinceHead(work)' /\ TreeOf(target)' = TreeOf(i)
  BY <1>1 DEF ChangedSinceHead, TreeOf
<1>16. ReplayPoints' = s /\ s # <<>> /\ Parent(s[1])' = Parent(s[1]) /\ work'.at = Parent(s[1])
  <2>1. Parent(s[1])' = Parent(s[1])
    BY <1>1, <1>2 DEF Parent
  <2>. QED  BY <1>1, <1>2, <1>6, <1>9, <2>1 DEF s
<1>17. Len(drift') <= Len(s) /\ target' = s[Len(drift')]
  BY <1>1, <1>3, <1>14 DEF i
<1>18. Linear' => work'.tree = TreeOf(target)'
  BY <1>1, <1>2, <1>13, <1>15
<1>19. DriftHolds'
  <2>. HIDE DEF w
  <2>1. (ReplayPoints[1])' = s[1]
    BY <1>16
  <2>2. Parent(ReplayPoints[1])' = Parent(s[1])
    BY <1>1, <2>1 DEF Parent
  <2>. QED  BY <1>1, <1>14, <1>15, <1>16, <1>17, <1>18, <2>2 DEF DriftHolds
<1>. QED  BY <1>2, <1>11, <1>12, <1>19 DEF TreeInv

LEMMA TreeStepHolds == TreeInv /\ [TreeNext]_treeVars => TreeInv'
<1>. SUFFICES ASSUME TreeInv, [TreeNext]_treeVars PROVE TreeInv'
  OBVIOUS
<1>1. ASSUME NEW parent \in 0..Len(hist), NEW tree \in Trees, CommitOn(parent, tree)
      PROVE  TreeInv'
  <2>1. parent = 0 => hist = <<>>
    BY <1>1 DEF CommitOn
  <2>. QED  BY <1>1, <2>1, CommitHolds DEF CommitOn
<1>2. ASSUME NEW tree \in Trees, Merge(tree) PROVE TreeInv'
  <2>1. Len(hist) \in 0..Len(hist) /\ Len(hist) # 0 /\ Len(hist) < MaxHistory
    BY <1>2, TreeParameters DEF Merge
  <2>. QED  BY <1>2, <2>1, CommitHolds DEF Merge
<1>3. ASSUME NEW i \in DOMAIN hist, Parent(i) # 0, CheckOutNatural(i) \/ CheckOutProbe(i)
      PROVE  TreeInv'
  BY <1>3, NaturalHolds, ProbeHolds
<1>4. CASE StartDrift
  BY <1>4, StartHolds
<1>5. CASE DriftCycle
  BY <1>5, CycleHolds
<1>6. CASE UNCHANGED treeVars
  <2>1. hist' = hist /\ work' = work /\ shown' = shown /\ shape' = shape /\ target' = target
        /\ drift' = drift
    BY <1>6 DEF treeVars
  <2>2. HistoryHolds' /\ ReplayPoints' = ReplayPoints /\ (Linear <=> Linear')
    BY <2>1, SameHistory DEF TreeInv
  <2>3. WorktreeHolds'
    BY <2>1 DEF TreeInv, WorktreeHolds, NoWork
  <2>4. VariantHolds'
    BY <2>1 DEF TreeInv, VariantHolds, ChangedSinceHead, TreeOf, Parent, Natural, Probe, ChangesOf
  <2>5. DriftHolds'
    BY <2>1, <2>2 DEF TreeInv, DriftHolds, ChangedSinceHead, TreeOf, Parent
  <2>. QED  BY <2>2, <2>3, <2>4, <2>5 DEF TreeInv
<1>7. /\ \A k \in DOMAIN ReplayPoints : ReplayPoints[k] \in DOMAIN hist /\ Parent(ReplayPoints[k]) # 0
      /\ \A k \in DOMAIN PairedPoints : PairedPoints[k] \in DOMAIN hist /\ Parent(PairedPoints[k]) # 0
  BY ReplayPointsAre, PairedPointsAre DEF TreeInv, Numbers
<1>. QED  BY <1>1, <1>2, <1>3, <1>4, <1>5, <1>6, <1>7 DEF TreeNext

LEMMA InvGivesTree == TreeInv => TreeTypeOK /\ TreeIsTheVariant
<1>. SUFFICES ASSUME TreeInv PROVE TreeTypeOK /\ TreeIsTheVariant
  OBVIOUS
<1>1. HistoryHolds
  BY DEF TreeInv
<1>2. TreeTypeOK
  <2>1. \A i \in DOMAIN hist : hist[i].tree \in Trees /\ hist[i].parent \in 0..(i - 1)
    BY <1>1, HistoryTyped DEF TreeOf, Parent
  <2>. QED  BY <2>1 DEF TreeInv, WorktreeHolds, TreeTypeOK
<1>3. WorktreeIsTheVariant
  <2>1. ASSUME shape = "natural" PROVE work.tree = TreeOf(target) /\ shown = ChangesOf(target)
    <3>1. /\ target \in DOMAIN hist /\ Parent(target) # 0 /\ shown = ChangedSinceHead(work)
          /\ work.at = Parent(target) /\ work.tree = Natural(TreeOf(Parent(target)), target)
      BY <2>1 DEF TreeInv, VariantHolds
    <3>2. work.tree = TreeOf(target)
      BY <1>1, <3>1, NaturalIsTheCommit
    <3>. QED  BY <3>1, <3>2 DEF ChangedSinceHead, ChangesOf
  <2>2. ASSUME shape = "probe"
        PROVE  /\ \A p \in Path :
                    work.tree[p] = TreeOf(IF IsTestPath(p) THEN target ELSE Parent(target))[p]
               /\ {ch.path : ch \in shown} = {ch.path : ch \in ChangesOf(target)} \ TestPath
    <3>1. /\ target \in DOMAIN hist /\ Parent(target) # 0 /\ shown = ChangedSinceHead(work)
          /\ work.at = target /\ work.tree = Probe(TreeOf(target), target)
      BY <2>2 DEF TreeInv, VariantHolds
    <3>2. \A p \in Path :
            work.tree[p] = TreeOf(IF IsTestPath(p) THEN target ELSE Parent(target))[p]
      BY <1>1, <3>1, ProbeIsTheTests
    <3>3. \A p \in Path : (IsTestPath(p) => work.tree[p] = TreeOf(target)[p])
                         /\ (~IsTestPath(p) => work.tree[p] = TreeOf(Parent(target))[p])
      BY <3>2
    <3>4. \A p : (\E ch \in shown : ch.path = p)
                   <=> p \in Path /\ TreeOf(target)[p] # work.tree[p]
      BY <3>1, PathsOfADiff DEF ChangedSinceHead
    <3>5. \A p : (\E ch \in ChangesOf(target) : ch.path = p)
                   <=> p \in Path /\ TreeOf(Parent(target))[p] # TreeOf(target)[p]
      BY PathsOfADiff DEF ChangesOf
    <3>6. \A p : (\E ch \in shown : ch.path = p)
                   <=> (\E ch \in ChangesOf(target) : ch.path = p) /\ p \notin TestPath
      BY <3>3, <3>4, <3>5 DEF IsTestPath
    <3>7. {ch.path : ch \in shown} = {ch.path : ch \in ChangesOf(target)} \ TestPath
      BY <3>6
    <3>. QED  BY <3>2, <3>7
  <2>. QED  BY <2>1, <2>2 DEF WorktreeIsTheVariant
<1>4. DriftIsMeasured
  BY DEF TreeInv, DriftHolds, DriftIsMeasured, ChangedSinceHead
<1>. QED  BY <1>1, <1>2, <1>3, <1>4, PairedTouchBoth, BothAreNewest DEF TreeIsTheVariant

(* What is replayed is the history, for any commits, paths and contents    *)
(* and however many points are asked for.  (gitwork.py:97-303,             *)
(* session.py:88-141)                                                      *)
THEOREM TreeIsTheVariantAlways == TreeSpec => []TreeIsTheVariant
<1>1. TreeInv => TreeIsTheVariant
  BY InvGivesTree
<1>. QED  BY <1>1, TreeInitHolds, TreeStepHolds, PTL DEF TreeSpec

-----------------------------------------------------------------------------
(* The arm *)

Working == {"agent", "write", "charge"}

\* Every token billed is in the cost file, in the budget, about to be charged
\* or lost.
Accounts ==
  /\ pc = "idle" => InFile(cost) + lost = spent
  /\ pc # "idle" =>
       /\ cost # Truncated
       /\ Restored <= budget
       /\ budget + Uncharged + lost = spent

\* A process goes on to another instance under the ceiling only.
UnderCeiling ==
  /\ pc \in Working \cup {"next"} => budget <= Ceiling
  /\ pc # "idle" => budget <= Ceiling + MaxSpend
  /\ InFile(cost) <= Ceiling + MaxSpend

\* The records the process has passed, and the one it is about to write.
RecordsInOrder ==
  /\ pc \in Working \cup {"check", "next"} =>
       \A i \in Instance : i < at => record[i] # None
  /\ pc \in {"agent", "write"} => record[at] = None
  /\ pc = "charge" => record[at] # None
  /\ exit = "ok" =>
       /\ pc \in {"closing", "idle"}
       /\ \A i \in Instance : record[i] # None

IInv == TypeOK /\ Accounts /\ UnderCeiling /\ RecordsInOrder

-----------------------------------------------------------------------------

LEMMA Initially == Init => IInv
<1> SUFFICES ASSUME Init PROVE IInv
  OBVIOUS
<1> USE BoundsAreNat, SentinelsAreFresh DEF Init
<1>1. TypeOK
  BY DEF TypeOK, Files, Spend, Instance
<1>2. Accounts
  BY DEF Accounts, InFile
<1>3. UnderCeiling
  BY DEF UnderCeiling, InFile, Working
<1>4. RecordsInOrder
  BY DEF RecordsInOrder, Working
<1> QED
  BY <1>1, <1>2, <1>3, <1>4 DEF IInv

\* The types.
LEMMA TypeKept == IInv /\ Next => TypeOK'
<1> SUFFICES ASSUME IInv, Next PROVE TypeOK'
  OBVIOUS
<1> USE BoundsAreNat, SentinelsAreFresh DEF IInv, files
<1>1. CASE Start
  BY <1>1 DEF Start, TypeOK, Files, Spend, Instance, InFile, Leave, Restored, Accounts
<1>2. CASE Check
  BY <1>2 DEF Check, TypeOK, Files, Spend, Instance, InFile, Leave, Restored, Accounts
<1>3. CASE TakeNext
  BY <1>3 DEF TakeNext, TypeOK, Files, Spend, Instance, InFile, Leave, Restored, Accounts
<1>4. ASSUME NEW tokens \in Spend, Answer(tokens) PROVE TypeOK'
  BY <1>4 DEF Answer, TypeOK, Files, Spend, Instance, InFile, Leave, Restored, Accounts
<1>5. ASSUME NEW tokens \in Spend, HarnessError(tokens) PROVE TypeOK'
  BY <1>5 DEF HarnessError, TypeOK, Files, Spend, Instance, InFile, Leave, Restored, Accounts
<1>6. CASE WriteRecord
  BY <1>6 DEF WriteRecord, TypeOK, Files, Spend, Instance, InFile, Leave, Restored, Accounts
<1>7. CASE Charge
  BY <1>7 DEF Charge, TypeOK, Files, Spend, Instance, InFile, Leave, Restored, Accounts
<1>8. CASE Close
  BY <1>8 DEF Close, TypeOK, Files, Spend, Instance, InFile, Leave, Restored, Accounts
<1>9. CASE BrokenPrompt
  BY <1>9 DEF BrokenPrompt, TypeOK, Files, Spend, Instance, InFile, Leave, Restored, Accounts
<1>10. CASE WriteFails
  BY <1>10 DEF WriteFails, TypeOK, Files, Spend, Instance, InFile, Leave, Restored, Accounts
<1>11. ASSUME NEW tokens \in Spend, Interrupt(tokens) PROVE TypeOK'
  BY <1>11 DEF Interrupt, Uncharged, TypeOK, Files, Spend, Instance, InFile, Leave, Restored, Accounts
<1>12. ASSUME NEW tokens \in Spend, Kill(tokens) PROVE TypeOK'
  <2>1. record' \in [Instance -> Files] /\ cost' \in Files
    BY <1>12 DEF Kill, TypeOK, Files
  <2>2. lost' \in Nat
    BY <1>12 DEF Kill, TypeOK, Files, Spend, Restored, Uncharged, Unsaved, Accounts
  <2> QED
    BY <1>12, <2>1, <2>2 DEF Kill, TypeOK, Spend
<1> QED
  BY <1>1, <1>2, <1>3, <1>4, <1>5, <1>6, <1>7, <1>8, <1>9, <1>10, <1>11, <1>12 DEF Next, Work, Mishap


\* The accounts: each action moves tokens between the agent, the record, the
\* budget, the cost file and those lost.
LEMMA AccountsKept == IInv /\ Next => Accounts'
<1> SUFFICES ASSUME IInv, Next PROVE Accounts'
  OBVIOUS
<1> USE BoundsAreNat, SentinelsAreFresh DEF IInv, files
<1>1. CASE Start
  BY <1>1 DEF Start, Accounts, Uncharged, Unsaved, InFile, Leave, Restored, TypeOK, Files, Spend, Instance
<1>2. CASE Check
  BY <1>2 DEF Check, Accounts, Uncharged, Unsaved, InFile, Leave, Restored, TypeOK, Files, Spend, Instance
<1>3. CASE TakeNext
  BY <1>3 DEF TakeNext, Accounts, Uncharged, Unsaved, InFile, Leave, Restored, TypeOK, Files, Spend, Instance
<1>4. ASSUME NEW tokens \in Spend, Answer(tokens) PROVE Accounts'
  BY <1>4 DEF Answer, Accounts, Uncharged, Unsaved, InFile, Leave, Restored, TypeOK, Files, Spend, Instance
<1>5. ASSUME NEW tokens \in Spend, HarnessError(tokens) PROVE Accounts'
  BY <1>5 DEF HarnessError, Accounts, Uncharged, Unsaved, InFile, Leave, Restored, TypeOK, Files, Spend, Instance
<1>6. CASE WriteRecord
  BY <1>6 DEF WriteRecord, Accounts, Uncharged, Unsaved, InFile, Leave, Restored, TypeOK, Files, Spend, Instance
<1>7. CASE Charge
  BY <1>7 DEF Charge, Accounts, Uncharged, Unsaved, InFile, Leave, Restored, TypeOK, Files, Spend, Instance
<1>8. CASE Close
  BY <1>8 DEF Close, Accounts, Uncharged, Unsaved, InFile, Leave, Restored, TypeOK, Files, Spend, Instance
<1>9. CASE BrokenPrompt
  BY <1>9 DEF BrokenPrompt, Accounts, Uncharged, Unsaved, InFile, Leave, Restored, TypeOK, Files, Spend, Instance
<1>10. CASE WriteFails
  BY <1>10 DEF WriteFails, Accounts, Uncharged, Unsaved, InFile, Leave, Restored, TypeOK, Files, Spend, Instance
<1>11. ASSUME NEW tokens \in Spend, Interrupt(tokens) PROVE Accounts'
  BY <1>11 DEF Interrupt, Accounts, Uncharged, Unsaved, InFile, Leave, Restored, TypeOK, Files, Spend, Instance
<1>12. ASSUME NEW tokens \in Spend, Kill(tokens) PROVE Accounts'
  <2>1. CASE cost' = Truncated
    BY <1>12, <2>1 DEF Kill, Accounts, InFile, TypeOK, Spend
  <2>2. CASE cost' # Truncated
    <3>1. /\ cost' = cost /\ cost # Truncated
          /\ lost' = lost + tokens + (budget - Restored) + Uncharged
          /\ spent' = spent + tokens
          /\ pc' = "idle"
      BY <1>12, <2>2 DEF Kill, Unsaved, Accounts, TypeOK, Files, Spend,
        Restored, Uncharged
    <3>2. Restored = InFile(cost) /\ Restored \in Nat /\ Uncharged \in Nat
      BY <3>1 DEF InFile, Restored, TypeOK, Files, Spend, Uncharged
    <3>3. InFile(cost)' = InFile(cost)
      BY <3>1 DEF InFile
    <3>4. budget + Uncharged + lost = spent
      BY <1>12 DEF Kill, Accounts
    <3> QED
      BY <3>1, <3>2, <3>3, <3>4 DEF Accounts, TypeOK, Spend
  <2> QED
    BY <2>1, <2>2
<1> QED
  BY <1>1, <1>2, <1>3, <1>4, <1>5, <1>6, <1>7, <1>8, <1>9, <1>10, <1>11, <1>12 DEF Next, Work, Mishap


\* Budget.check stands before each instance and after each.
LEMMA CeilingKept == IInv /\ Next => UnderCeiling'
<1> SUFFICES ASSUME IInv, Next PROVE UnderCeiling'
  OBVIOUS
<1> USE BoundsAreNat, SentinelsAreFresh DEF IInv, files
<1>1. CASE Start
  BY <1>1 DEF Start, UnderCeiling, Working, Over, InFile, Leave, Restored, TypeOK, Files, Spend, Instance, Accounts
<1>2. CASE Check
  BY <1>2 DEF Check, UnderCeiling, Working, Over, InFile, Leave, Restored, TypeOK, Files, Spend, Instance, Accounts
<1>3. CASE TakeNext
  BY <1>3 DEF TakeNext, UnderCeiling, Working, Over, InFile, Leave, Restored, TypeOK, Files, Spend, Instance, Accounts
<1>4. ASSUME NEW tokens \in Spend, Answer(tokens) PROVE UnderCeiling'
  BY <1>4 DEF Answer, UnderCeiling, Working, Over, InFile, Leave, Restored, TypeOK, Files, Spend, Instance, Accounts
<1>5. ASSUME NEW tokens \in Spend, HarnessError(tokens) PROVE UnderCeiling'
  BY <1>5 DEF HarnessError, UnderCeiling, Working, Over, InFile, Leave, Restored, TypeOK, Files, Spend, Instance, Accounts
<1>6. CASE WriteRecord
  BY <1>6 DEF WriteRecord, UnderCeiling, Working, Over, InFile, Leave, Restored, TypeOK, Files, Spend, Instance, Accounts
<1>7. CASE Charge
  BY <1>7 DEF Charge, UnderCeiling, Working, Over, InFile, Leave, Restored, TypeOK, Files, Spend, Instance, Accounts
<1>8. CASE Close
  BY <1>8 DEF Close, UnderCeiling, Working, Over, InFile, Leave, Restored, TypeOK, Files, Spend, Instance, Accounts
<1>9. CASE BrokenPrompt
  BY <1>9 DEF BrokenPrompt, UnderCeiling, Working, Over, InFile, Leave, Restored, TypeOK, Files, Spend, Instance, Accounts
<1>10. CASE WriteFails
  BY <1>10 DEF WriteFails, UnderCeiling, Working, Over, InFile, Leave, Restored, TypeOK, Files, Spend, Instance, Accounts
<1>11. ASSUME NEW tokens \in Spend, Interrupt(tokens) PROVE UnderCeiling'
  BY <1>11 DEF Interrupt, UnderCeiling, Working, Over, InFile, Leave, Restored, TypeOK, Files, Spend, Instance, Accounts
<1>12. ASSUME NEW tokens \in Spend, Kill(tokens) PROVE UnderCeiling'
  BY <1>12 DEF Kill, UnderCeiling, Working, Over, InFile, Leave, Restored, TypeOK, Files, Spend, Instance, Accounts
<1> QED
  BY <1>1, <1>2, <1>3, <1>4, <1>5, <1>6, <1>7, <1>8, <1>9, <1>10, <1>11, <1>12 DEF Next, Work, Mishap


\* The records are written in the order of the list.
LEMMA OrderKept == IInv /\ Next => RecordsInOrder'
<1> SUFFICES ASSUME IInv, Next PROVE RecordsInOrder'
  OBVIOUS
<1> USE BoundsAreNat, SentinelsAreFresh DEF IInv, files
<1>1. CASE Start
  BY <1>1 DEF Start, RecordsInOrder, Working, Cached, Leave, Over, TypeOK, Files, Spend, Instance
<1>2. CASE Check
  BY <1>2 DEF Check, RecordsInOrder, Working, Leave, TypeOK, Instance
<1>3. CASE TakeNext
  <2>1. CASE at > Instances
    BY <1>3, <2>1 DEF TakeNext, RecordsInOrder, Working, Leave, TypeOK, Instance
  <2>2. CASE at <= Instances /\ Cached(at)
    <3>1. at' = at + 1 /\ UNCHANGED <<record, pc, exit>> /\ pc = "next"
      BY <1>3, <2>2 DEF TakeNext, TypeOK
    <3>2. \A i \in Instance : i < at' => i < at \/ i = at
      BY <3>1 DEF TypeOK, Instance
    <3>3. \A i \in Instance : i < at' => record[i] # None
      BY <2>2, <3>1, <3>2 DEF RecordsInOrder, Working, Cached
    <3> QED
      BY <3>1, <3>3 DEF RecordsInOrder, Working
  <2>3. CASE at <= Instances /\ ~Cached(at)
    BY <1>3, <2>3 DEF TakeNext, RecordsInOrder, Working, Cached, TypeOK
  <2> QED
    BY <2>1, <2>2, <2>3 DEF TypeOK
<1>4. ASSUME NEW tokens \in Spend, Answer(tokens) PROVE RecordsInOrder'
  BY <1>4 DEF Answer, RecordsInOrder, Working, Cached, Leave, Over, TypeOK, Files, Spend, Instance
<1>5. ASSUME NEW tokens \in Spend, HarnessError(tokens) PROVE RecordsInOrder'
  BY <1>5 DEF HarnessError, RecordsInOrder, Working, Cached, Leave, Over, TypeOK, Files, Spend, Instance
<1>6. CASE WriteRecord
  BY <1>6 DEF WriteRecord, RecordsInOrder, Working, Cached, Leave, Over, TypeOK, Files, Spend, Instance
<1>7. CASE Charge
  BY <1>7 DEF Charge, RecordsInOrder, Working, Cached, Leave, Over, TypeOK, Files, Spend, Instance
<1>8. CASE Close
  BY <1>8 DEF Close, RecordsInOrder, Working, Cached, Leave, Over, TypeOK, Files, Spend, Instance
<1>9. CASE BrokenPrompt
  BY <1>9 DEF BrokenPrompt, RecordsInOrder, Working, Cached, Leave, Over, TypeOK, Files, Spend, Instance
<1>10. CASE WriteFails
  BY <1>10 DEF WriteFails, RecordsInOrder, Working, Cached, Leave, Over, TypeOK, Files, Spend, Instance
<1>11. ASSUME NEW tokens \in Spend, Interrupt(tokens) PROVE RecordsInOrder'
  BY <1>11 DEF Interrupt, RecordsInOrder, Working, Cached, Leave, Over, TypeOK, Files, Spend, Instance
<1>12. ASSUME NEW tokens \in Spend, Kill(tokens) PROVE RecordsInOrder'
  BY <1>12 DEF Kill, RecordsInOrder, Working, Cached, Leave, Over, TypeOK, Files, Spend, Instance
<1> QED
  BY <1>1, <1>2, <1>3, <1>4, <1>5, <1>6, <1>7, <1>8, <1>9, <1>10, <1>11, <1>12 DEF Next, Work, Mishap

-----------------------------------------------------------------------------

LEMMA Inductive == IInv /\ [Next]_vars => IInv'
<1> SUFFICES ASSUME IInv, [Next]_vars PROVE IInv'
  OBVIOUS
<1>1. CASE Next
  BY <1>1, TypeKept, AccountsKept, CeilingKept, OrderKept DEF IInv
<1>2. CASE UNCHANGED vars
  BY <1>2 DEF vars, files, IInv, TypeOK, Accounts, UnderCeiling, RecordsInOrder,
    Uncharged, Restored, InFile
<1> QED
  BY <1>1, <1>2

THEOREM Invariant == Spec => []IInv
BY Initially, Inductive, PTL DEF Spec

\* The state of an arm has its types, for any number of instances, any spend
\* and any ceiling.
THEOREM Typed == Spec => []TypeOK
<1>1. IInv => TypeOK
  BY DEF IInv
<1> QED
  BY <1>1, Invariant, PTL

\* The cost file and the tokens no cost file can count add up to what was
\* spent, however often the arm was killed and resumed (read_cost, the finally
\* block of run_arm).
THEOREM CostCountsAllAlways == Spec => []CostCountsAll
<1>1. IInv => CostCountsAll
  BY DEF IInv, Accounts, CostCountsAll
<1> QED
  BY <1>1, Invariant, PTL

\* The processes of an arm together pass the ceiling by one instance at most,
\* apart from uncounted tokens (Budget.restore, Budget.check).
THEOREM CeilingHoldsAlways == Spec => []CeilingHolds
<1>1. IInv => CeilingHolds
  BY BoundsAreNat DEF IInv, Accounts, UnderCeiling, CeilingHolds, TypeOK, Working,
    Uncharged, Spend, Files, InFile, Restored
<1> QED
  BY <1>1, Invariant, PTL

\* An arm that ends well has a record of every instance, whatever failed in
\* them (the harness_error record of run_arm).
THEOREM CompleteArm == Spec => []ArmIsComplete
<1>1. IInv => ArmIsComplete
  BY DEF IInv, RecordsInOrder, ArmIsComplete
<1> QED
  BY <1>1, Invariant, PTL

\* No process writes an instance's record a second time (the skip of a record
\* that exists in run_arm).
THEOREM KeptRecords == Spec => RecordsAreKept
<1> DEFINE Unerased == \A i \in Instance : record[i] # None => record'[i] = record[i]
<1>1. ASSUME IInv, [Next]_vars PROVE [Unerased]_record
  <2>1. CASE WriteRecord \/ WriteFails
    BY <1>1, <2>1 DEF IInv, TypeOK, RecordsInOrder, WriteRecord, WriteFails, Instance
  <2>2. ASSUME NEW tokens \in Spend, Kill(tokens) PROVE [Unerased]_record
    BY <1>1, <2>2 DEF IInv, TypeOK, RecordsInOrder, Kill, Instance
  <2>3. CASE record' = record
    BY <2>3
  <2> QED
    BY <1>1, <2>1, <2>2, <2>3 DEF Next, Work, Mishap, Start, Check, TakeNext,
      Answer, HarnessError, Charge, Close, BrokenPrompt, Interrupt, files, vars
<1> QED
  BY <1>1, Invariant, PTL DEF Spec, RecordsAreKept

-----------------------------------------------------------------------------
(* The tokens of the records *)

\* u has the sums of the first tokens of the records r, up to each.
Sums(u, r, n) ==
  /\ u \in [0 .. n -> Nat]
  /\ \A i \in 0 .. n : u[i] = IF i = 0 THEN 0 ELSE u[i - 1] + InFile(r[i])

LEMMA InFileIsNat == ASSUME NEW x \in Files PROVE InFile(x) \in Nat
BY DEF Files, InFile

LEMMA SumsExist ==
  ASSUME NEW r \in [Instance -> Files]
  PROVE  \E u : Sums(u, r, Instances)
<1> DEFINE T == {n \in 0 .. Instances : ~ \E u : Sums(u, r, n)}
<1> SUFFICES ASSUME T # {} PROVE FALSE
  <2>1. Instances \in 0 .. Instances
    BY BoundsAreNat
  <2>2. QED
    BY <2>1
<1>1. T \subseteq Nat
  BY BoundsAreNat
<1>2. PICK n \in T : \A m \in T : n <= m
  <2> HIDE DEF T
  <2> QED
    BY <1>1, LeastOf
<1>3. n \in Nat /\ n <= Instances /\ ~ \E u : Sums(u, r, n)
  BY BoundsAreNat
<1>4. CASE n = 0
  <2>1. Sums([i \in 0 .. 0 |-> 0], r, 0)
    BY DEF Sums
  <2>2. QED
    BY <1>3, <1>4, <2>1
<1>5. CASE n # 0
  <2>1. n - 1 \in 0 .. Instances /\ ~ (n <= n - 1)
    BY <1>3, <1>5, BoundsAreNat
  <2>2. n - 1 \notin T
    BY <1>2, <2>1
  <2>3. PICK u : Sums(u, r, n - 1)
    BY <2>1, <2>2
  <2> HIDE DEF T
  <2> DEFINE v == [i \in 0 .. n |->
                     IF i = n THEN u[n - 1] + InFile(r[n]) ELSE u[i]]
  <2>4. n \in Instance /\ r[n] \in Files /\ InFile(r[n]) \in Nat
    BY <1>3, <1>5, InFileIsNat, BoundsAreNat DEF Instance
  <2>5. \A i \in 0 .. n - 1 : u[i] \in Nat
    BY <2>3 DEF Sums
  <2>6. v \in [0 .. n -> Nat]
    BY <2>4, <2>5, <1>3, <1>5
  <2>7. \A i \in 0 .. n : v[i] = IF i = 0 THEN 0 ELSE v[i - 1] + InFile(r[i])
    <3> SUFFICES ASSUME NEW i \in 0 .. n
                 PROVE  v[i] = IF i = 0 THEN 0 ELSE v[i - 1] + InFile(r[i])
      OBVIOUS
    <3>1. CASE i = n
      <4>1. n - 1 \in 0 .. n /\ n - 1 # n
        BY <1>3, <1>5
      <4>2. QED
        BY <3>1, <4>1, <1>5
    <3>2. CASE i # n
      <4>1. i \in 0 .. n - 1
        BY <3>2, <1>3
      <4>2. i # 0 => i - 1 \in 0 .. n /\ i - 1 # n
        BY <1>3
      <4>3. v[i] = u[i]
        BY <3>2
      <4>4. i # 0 => v[i - 1] = u[i - 1]
        BY <4>2
      <4>5. QED
        BY <4>1, <4>3, <4>4, <2>3 DEF Sums
    <3>3. QED
      BY <3>1, <3>2
  <2>8. Sums(v, r, n)
    BY <2>6, <2>7 DEF Sums
  <2>9. QED
    BY <2>8, <1>3
<1>6. QED
  BY <1>4, <1>5

\* The function a recursive definition chooses is the one that has the sums.
LEMMA ChosenSums ==
  ASSUME NEW r, NEW u, Sums(u, r, Instances)
  PROVE  u = CHOOSE f : f = [i \in 0 .. Instances |->
                               IF i = 0 THEN 0 ELSE f[i - 1] + InFile(r[i])]
<1> DEFINE Defines(f) == f = [i \in 0 .. Instances |->
                     IF i = 0 THEN 0 ELSE f[i - 1] + InFile(r[i])]
<1>1. Defines(u)
  <2>1. u = [i \in 0 .. Instances |-> u[i]]
    BY DEF Sums
  <2>2. [i \in 0 .. Instances |-> u[i]] =
          [i \in 0 .. Instances |->
             IF i = 0 THEN 0 ELSE u[i - 1] + InFile(r[i])]
    BY DEF Sums
  <2>3. QED
    BY <2>1, <2>2
<1>2. ASSUME NEW f, Defines(f) PROVE f = u
  <2> DEFINE T == {i \in 0 .. Instances : u[i] # f[i]}
  <2>1. ASSUME T # {} PROVE FALSE
    <3>1. T \subseteq Nat
      BY BoundsAreNat
    <3>2. PICK n \in T : \A m \in T : n <= m
      <4> HIDE DEF T
      <4> QED
        BY <2>1, <3>1, LeastOf
    <3>3. n \in 0 .. Instances /\ u[n] # f[n]
      OBVIOUS
    <3>4. n # 0
      BY <3>3, <1>1, <1>2
    <3>5. n - 1 \in 0 .. Instances /\ ~ (n <= n - 1)
      BY <3>3, <3>4, BoundsAreNat
    <3>6. u[n - 1] = f[n - 1]
      BY <3>2, <3>5
    <3>7. QED
      BY <3>3, <3>4, <3>6, <1>1, <1>2
  <2>2. \A i \in 0 .. Instances : u[i] = f[i]
    BY <2>1
  <2>3. /\ u = [i \in 0 .. Instances |-> u[i]]
        /\ f = [i \in 0 .. Instances |-> f[i]]
    BY <1>1, <1>2
  <2>4. [i \in 0 .. Instances |-> u[i]] = [i \in 0 .. Instances |-> f[i]]
    BY <2>2
  <2>5. QED
    BY <2>3, <2>4
<1>3. u = CHOOSE f : Defines(f)
  <2> HIDE DEF Defines
  <2> QED
    BY <1>1, <1>2
<1>4. QED
  BY <1>3

\* The tokens in some records are the last of their sums.
LEMMA TokensAreTheSum ==
  ASSUME NEW r, NEW u, Sums(u, r, Instances)
  PROVE  TokensIn(r) = u[Instances]
BY ChosenSums DEF TokensIn

\* A record that is written where none was adds its tokens.
LEMMA RecordingAdds ==
  ASSUME NEW r \in [Instance -> Files], NEW i \in Instance,
         r[i] = None, NEW x \in Files
  PROVE  /\ TokensIn([r EXCEPT ![i] = x]) = TokensIn(r) + InFile(x)
         /\ TokensIn(r) \in Nat
<1> DEFINE s == [r EXCEPT ![i] = x]
<1>1. PICK u : Sums(u, r, Instances)
  BY SumsExist
<1> DEFINE v == [j \in 0 .. Instances |->
                   IF j < i THEN u[j] ELSE u[j] + InFile(x)]
<1>2. i \in Nat /\ 1 <= i /\ i <= Instances /\ Instances \in Nat
  BY BoundsAreNat DEF Instance
<1>3. InFile(x) \in Nat /\ InFile(r[i]) = 0 /\ InFile(s[i]) = InFile(x)
  BY InFileIsNat DEF InFile
<1>4. \A j \in 1 .. Instances : j # i => s[j] = r[j]
  BY DEF Instance
<1>5. \A j \in 0 .. Instances : u[j] \in Nat
  BY <1>1 DEF Sums
<1>6. v \in [0 .. Instances -> Nat]
  BY <1>3, <1>5
<1>7. ASSUME NEW j \in 0 .. Instances
      PROVE  v[j] = IF j = 0 THEN 0 ELSE v[j - 1] + InFile(s[j])
  <2>1. CASE j = 0
    BY <2>1, <1>1, <1>2 DEF Sums
  <2>2. CASE j # 0
    <3>1. /\ j - 1 \in 0 .. Instances /\ j \in 1 .. Instances
          /\ u[j] = u[j - 1] + InFile(r[j])
      BY <2>2, <1>1, <1>2 DEF Sums
    <3>2. InFile(r[j]) \in Nat
      BY <3>1, InFileIsNat DEF Instance
    <3>3. CASE j < i
      <4>1. s[j] = r[j] /\ j - 1 < i
        BY <3>1, <3>3, <1>2, <1>4
      <4>2. QED
        BY <2>2, <3>1, <3>3, <4>1
    <3>4. CASE j = i
      <4>1. v[j - 1] = u[j - 1] /\ v[j] = u[j] + InFile(x)
        BY <3>1, <3>4, <1>2
      <4>2. QED
        BY <2>2, <3>1, <3>4, <4>1, <1>3, <1>5
    <3>5. CASE j > i
      <4>1. s[j] = r[j]
        BY <3>1, <3>5, <1>2, <1>4
      <4>2. v[j] = u[j] + InFile(x) /\ v[j - 1] = u[j - 1] + InFile(x)
        BY <3>1, <3>5, <1>2
      <4>3. QED
        BY <2>2, <3>1, <3>2, <4>1, <4>2, <1>3, <1>5
    <3>6. QED
      BY <3>3, <3>4, <3>5, <3>1, <1>2
  <2>3. QED
    BY <2>1, <2>2
<1> HIDE DEF v
<1>8. Sums(v, s, Instances)
  BY <1>6, <1>7 DEF Sums
<1>9. s \in [Instance -> Files]
  OBVIOUS
<1>10. TokensIn(s) = v[Instances]
  BY <1>8, TokensAreTheSum
<1>11. TokensIn(r) = u[Instances]
  BY <1>1, TokensAreTheSum
<1>12. v[Instances] = u[Instances] + InFile(x) /\ u[Instances] \in Nat
  BY <1>2, <1>5 DEF v
<1>13. QED
  BY <1>10, <1>11, <1>12

LEMMA TokensAreNat ==
  ASSUME NEW r \in [Instance -> Files] PROVE TokensIn(r) \in Nat
<1>1. PICK u : Sums(u, r, Instances)
  BY SumsExist
<1>2. QED
  BY <1>1, TokensAreTheSum, BoundsAreNat DEF Sums

\* What the budget counts, and is about to, is in the records.
Charged ==
  /\ pc = "idle" => InFile(cost) <= TokensIn(record)
  /\ pc # "idle" => budget <= TokensIn(record)
  /\ pc = "charge" => budget + result <= TokensIn(record)

LEMMA ChargedAtFirst == Init => Charged
<1> SUFFICES ASSUME Init PROVE Charged
  OBVIOUS
<1>1. TokensIn(record) \in Nat
  BY Initially, TokensAreNat DEF IInv, TypeOK
<1>2. QED
  BY <1>1 DEF Init, Charged, InFile

LEMMA ChargedKept == IInv /\ Charged /\ [Next]_vars => Charged'
<1> SUFFICES ASSUME IInv, Charged, [Next]_vars PROVE Charged'
  OBVIOUS
<1> DEFINE old == TokensIn(record)
           new == TokensIn(record)'
<1>1. record \in [Instance -> Files] /\ old \in Nat /\ budget \in Nat /\ result \in Nat
  BY TokensAreNat, BoundsAreNat DEF IInv, TypeOK, Spend
<1>2. /\ pc = "idle" => InFile(cost) <= old
      /\ pc # "idle" => budget <= old
      /\ pc = "charge" => budget + result <= old
  BY DEF Charged
<1>3. record' = record => new = old
  OBVIOUS
<1>4. ASSUME pc \in {"write"}, NEW x \in Files, record' = [record EXCEPT ![at] = x]
      PROVE  new = old + InFile(x)
  <2>1. at \in Instance /\ record[at] = None
    BY <1>4 DEF IInv, TypeOK, RecordsInOrder
  <2>2. TokensIn([record EXCEPT ![at] = x]) = TokensIn(record) + InFile(x)
    BY <1>1, <2>1, RecordingAdds
  <2>3. QED
    BY <1>4, <2>2
<1>5. Truncated \in Files /\ InFile(Truncated) = 0
  BY DEF Files, InFile
<1>6. SUFFICES /\ pc' = "idle" => InFile(cost') <= new
               /\ pc' # "idle" => budget' <= new
               /\ pc' = "charge" => budget' + result' <= new
  BY DEF Charged, InFile
<1> HIDE DEF old, new
<1>7. CASE Start
  <2>1. cost # Truncated => InFile(cost) = Restored
    BY SentinelsAreFresh DEF InFile, Restored
  <2>2. QED
    BY <1>7, <2>1, <1>1, <1>2, <1>3 DEF Start, files
<1>8. CASE Check \/ TakeNext
  BY <1>8, <1>1, <1>2, <1>3 DEF Check, TakeNext, Leave, files
<1>9. ASSUME NEW tokens \in Spend, Answer(tokens) \/ HarnessError(tokens) \/ Interrupt(tokens)
      PROVE  <1>6!1
  BY <1>9, <1>1, <1>2, <1>3 DEF Answer, HarnessError, Interrupt, Leave, files
<1>10. CASE WriteRecord
  <2>1. result \in Files /\ InFile(result) = result
    BY <1>1, SentinelsAreFresh DEF Files, InFile
  <2>2. new = old + result
    BY <1>10, <1>4, <2>1 DEF WriteRecord
  <2>3. QED
    BY <1>10, <2>2, <1>1, <1>2 DEF WriteRecord
<1>11. CASE WriteFails
  <2>1. new = old + InFile(Truncated)
    <3>1. pc \in {"write"} /\ record' = [record EXCEPT ![at] = Truncated]
      BY <1>11 DEF WriteFails
    <3>2. QED
      BY <3>1, <1>4, <1>5
  <2>2. QED
    BY <1>11, <2>1, <1>1, <1>2, <1>5 DEF WriteFails, Leave
<1>12. CASE Charge
  BY <1>12, <1>1, <1>2, <1>3 DEF Charge, Leave, files
<1>13. CASE Close
  <2>1. InFile(budget) = budget
    BY <1>1, SentinelsAreFresh DEF InFile
  <2>2. QED
    BY <1>13, <2>1, <1>1, <1>2, <1>3 DEF Close
<1>14. CASE BrokenPrompt
  BY <1>14, <1>1, <1>2, <1>3 DEF BrokenPrompt, Leave, files
<1>15. ASSUME NEW tokens \in Spend, Kill(tokens) PROVE <1>6!1
  <2>1. new = old
    <3>1. CASE record' = record
      BY <3>1, <1>3
    <3>2. CASE record' # record
      <4>1. pc \in {"write"} /\ record' = [record EXCEPT ![at] = Truncated]
        BY <1>15, <3>2 DEF Kill
      <4>2. new = old + InFile(Truncated)
        BY <4>1, <1>4, <1>5
      <4>3. QED
        BY <4>2, <1>1, <1>5
    <3>3. QED
      BY <3>1, <3>2
  <2>2. InFile(cost) <= old
    <3>1. InFile(cost) <= budget
      BY <1>15, <1>1, SentinelsAreFresh DEF Kill, IInv, Accounts, Restored, InFile
    <3>2. InFile(cost) \in Nat
      BY InFileIsNat DEF IInv, TypeOK
    <3>3. QED
      BY <1>15, <1>1, <1>2, <3>1, <3>2 DEF Kill
  <2>3. InFile(cost') <= old
    <3>1. cost' = cost \/ cost' = Truncated
      BY <1>15 DEF Kill
    <3>2. QED
      BY <3>1, <2>2, <1>1, <1>5
  <2>4. QED
    BY <1>15, <2>1, <2>3 DEF Kill
<1>16. CASE UNCHANGED vars
  BY <1>16, <1>1, <1>2, <1>3 DEF vars, files
<1>17. QED
  BY <1>7, <1>8, <1>9, <1>10, <1>11, <1>12, <1>13, <1>14, <1>15, <1>16 DEF Next, Work, Mishap

\* Between processes the cost file counts no tokens but those some record
\* holds (the record written before Budget.add, run_arm).
THEOREM ChargedIsRecordedAlways == Spec => []ChargedIsRecorded
<1>1. Charged => ChargedIsRecorded
  BY DEF Charged, ChargedIsRecorded
<1> QED
  BY <1>1, Invariant, ChargedAtFirst, ChargedKept, PTL DEF Spec

-----------------------------------------------------------------------------
(* What the strategies answer, and what is run of it *)
\* What an answer may name: tests, files, and what neither tree has.
Offers == TestIds \cup {<<f>> : f \in SourceFiles}

\* What reverse_reachable has seen is some of what there is to see, and it
\* lacks only the importers of what is still on the stack.
WalkInv ==
  /\ changed \subseteq seen
  /\ \A e \in imports : e[2] \in seen \ stack => e[1] \in seen
  /\ \A set \in SUBSET SourceFiles : HasImporters(set) => seen \subseteq set
\* Everything the strategies answer from has its type, and the walk is right.
SelInv ==
  /\ SelTypeOK
  /\ round1 \in Seq(GraphIds) /\ round2 \in Seq(GraphIds) /\ offered \in Seq(Offers)
  /\ phase \in {"closing", "closed"} => WalkInv
  /\ phase = "closed" => stack = {}

-----------------------------------------------------------------------------
(* What sequences of a set's elements there are *)

\* A finite set can be put in some order, each element once.
LEMMA InSomeIs ==
  ASSUME NEW set, IsFiniteSet(set)
  PROVE  /\ InSome(set) \in Seq(set) /\ OnceEach(InSome(set)) /\ Elements(InSome(set)) = set
         /\ InSome(set) \in [1..Cardinality(set) -> set]
<1>. DEFINE n == Cardinality(set)
            Fits(s) == s \in [1..n -> set] /\ OnceEach(s) /\ Elements(s) = set
<1>1. n \in Nat /\ ExistsBijection(1..n, set)
  BY FS_CardinalityType
<1>. HIDE DEF n
<1>2. PICK s : s \in Bijection(1..n, set)
  BY <1>1 DEF ExistsBijection
<1>3. s \in [1..n -> set] /\ DOMAIN s = 1..n
  BY <1>2 DEF Bijection, Injection
<1>4. OnceEach(s)
  BY <1>2 DEF Bijection, Injection, IsInjective, OnceEach
<1>5. Elements(s) = set
  BY <1>2, <1>3 DEF Bijection, Surjection, Elements
<1>6. \E x \in [1..n -> set] : OnceEach(x) /\ Elements(x) = set
  BY <1>3, <1>4, <1>5
<1>7. InSome(set) = CHOOSE x \in [1..n -> set] : OnceEach(x) /\ Elements(x) = set
  BY DEF InSome, n
<1>8. Fits(InSome(set))
  BY <1>6, <1>7
<1>9. \A x \in [1..n -> set] : x \in Seq(set)
  BY <1>1
<1>. QED  BY <1>8, <1>9 DEF n

\* No more elements than the set has, each once.
LEMMA OnceEachIsNoLonger ==
  ASSUME NEW set, NEW s, IsFiniteSet(set), s \in Seq(set), OnceEach(s)
  PROVE  Len(s) <= Cardinality(set)
<1>. DEFINE n == Len(s)
<1>1. n \in Nat /\ DOMAIN s = 1..n /\ s = [i \in 1..n |-> s[i]] /\ Elements(s) \subseteq set
  BY DEF Elements
<1>. HIDE DEF n
<1>2. \A i \in 1..n : s[i] \in Elements(s)
  BY <1>1 DEF Elements
<1>3. s \in [1..n -> Elements(s)]
  <2>. DEFINE e == Elements(s)
  <2>. HIDE DEF e
  <2>1. \A i \in 1..n : s[i] \in e
    BY <1>2 DEF e
  <2>. QED  BY <1>1, <2>1 DEF e
<1>4. \A e \in Elements(s) : \E i \in 1..n : s[i] = e
  BY <1>1 DEF Elements
<1>5. s \in Bijection(1..n, Elements(s))
  BY <1>1, <1>3, <1>4 DEF Bijection, Injection, Surjection, IsInjective, OnceEach
<1>6. Cardinality(Elements(s)) = n
  <2>1. ExistsBijection(1..n, Elements(s))
    BY <1>5 DEF ExistsBijection
  <2>. QED  BY <1>1, <2>1, FS_CountingElements
<1>7. Cardinality(Elements(s)) <= Cardinality(set)
  BY <1>1, FS_Subset
<1>. QED  BY <1>6, <1>7 DEF n

\* dict.fromkeys keeps each element, once.
LEMMA DedupedIs ==
  ASSUME NEW S, NEW s, s \in Seq(S)
  PROVE  Deduped(s) \in Seq(S) /\ OnceEach(Deduped(s)) /\ Elements(Deduped(s)) = Elements(s)
<1>. DEFINE n == Len(s)
            places == {i \in DOMAIN s : \E k \in 1..(i - 1) : s[k] = s[i]}
<1>1. n \in Nat /\ DOMAIN s = 1..n
  OBVIOUS
<1>2. Deduped(s) = LeftOut(s, places)
  BY DEF Deduped
<1>3. \A i, k \in DOMAIN s \ places : s[i] = s[k] => i = k
  <2>. HIDE DEF n
  <2>1. ASSUME NEW i \in DOMAIN s, NEW k \in DOMAIN s, i < k, s[i] = s[k] PROVE k \in places
    <3>1. i \in 1..(k - 1)
      BY <1>1, <2>1
    <3>. QED  BY <2>1, <3>1
  <2>2. \A i, k \in DOMAIN s : i < k \/ k < i \/ i = k
    BY <1>1
  <2>. HIDE DEF places
  <2>. QED  BY <2>1, <2>2
<1>4. \A i \in DOMAIN s : \E k \in DOMAIN s \ places : s[k] = s[i]
  <2>. SUFFICES ASSUME NEW i \in DOMAIN s PROVE \E k \in DOMAIN s \ places : s[k] = s[i]
    OBVIOUS
  <2>. HIDE DEF n, places
  <2>. DEFINE T == {k \in 1..n : s[k] = s[i]}
  <2>1. T \subseteq Nat /\ T # {}
    BY <1>1
  <2>2. PICK k \in T : \A l \in T : k <= l
    <3>. HIDE DEF T
    <3>. QED  BY <2>1, LeastOf
  <2>3. k \in 1..n /\ s[k] = s[i]
    OBVIOUS
  <2>4. \A l \in 1..(k - 1) : s[l] # s[k]
    <3>1. \A l \in 1..(k - 1) : l \in 1..n /\ ~ (k <= l)
      BY <1>1, <2>3
    <3>. QED  BY <2>2, <2>3, <3>1
  <2>5. k \notin places
    BY <2>4 DEF places
  <2>. QED  BY <1>1, <2>3, <2>5
<1>. HIDE DEF n, places
<1>5. /\ LeftOut(s, places) \in Seq(S)
      /\ Elements(LeftOut(s, places)) = {s[i] : i \in DOMAIN s \ places}
      /\ OnceEach(LeftOut(s, places))
  BY <1>3, LeftOutIs
<1>6. {s[i] : i \in DOMAIN s \ places} = Elements(s)
  BY <1>4 DEF Elements
<1>. QED  BY <1>2, <1>5, <1>6

\* What comes first is deduped first.
LEMMA DedupedStarts ==
  ASSUME NEW S, NEW s, NEW r, s \in Seq(S), r \in Seq(S)
  PROVE  GoesOn(S, Deduped(s), Deduped(s \o r))
<1>. DEFINE z == s \o r
            m == Len(s)
            n == Len(z)
            Again(x) == {i \in DOMAIN x : \E k \in 1..(i - 1) : x[k] = x[i]}
            Parts(x) == [i \in DOMAIN x |-> IF i \in Again(x) THEN <<>> ELSE <<x[i]>>]
<1>1. Deduped(z) = Joined(Parts(z)) /\ Deduped(s) = Joined(Parts(s))
  BY DEF Deduped, LeftOut
<1>2. /\ z \in Seq(S) /\ m \in Nat /\ n \in Nat /\ m <= n
      /\ DOMAIN s = 1..m /\ DOMAIN z = 1..n
      /\ \A i \in 1..m : z[i] = s[i]
  <2>1. m \in Nat /\ Len(r) \in Nat /\ DOMAIN s = 1..m
    OBVIOUS
  <2>2. z \in Seq(S) /\ n = m + Len(r)
        /\ \A i \in 1..(m + Len(r)) : z[i] = IF i <= m THEN s[i] ELSE r[i - m]
    BY ConcatProperties
  <2>3. DOMAIN z = 1..n
    BY <2>2
  <2>. HIDE DEF z, m, n
  <2>. QED  BY <2>1, <2>2, <2>3
<1>3. ASSUME NEW x, x \in Seq(S)
      PROVE  Parts(x) \in Seq(Seq(S)) /\ Len(Parts(x)) = Len(x)
             /\ \A i \in DOMAIN x : Parts(x)[i] = IF i \in Again(x) THEN <<>> ELSE <<x[i]>>
  <2>1. Len(x) \in Nat /\ DOMAIN x = 1..Len(x) /\ \A i \in DOMAIN x : x[i] \in S
    BY <1>3
  <2>2. \A i \in DOMAIN x : (IF i \in Again(x) THEN <<>> ELSE <<x[i]>>) \in Seq(S)
    <3>. HIDE DEF Again
    <3>. QED  BY <2>1, OneElement, NoElements
  <2>. HIDE DEF Again
  <2>. QED  BY <2>1, <2>2
<1>4. \A i \in 1..m : i \in Again(z) <=> i \in Again(s)
  <2>. HIDE DEF z, m, n
  <2>1. \A i \in 1..m : i \in 1..n /\ \A k \in 1..(i - 1) : k \in 1..m
    BY <1>2
  <2>. QED  BY <1>2, <2>1
<1>5. \A i \in 1..m : Parts(z)[i] = Parts(s)[i]
  <2>1. \A i \in 1..m : i \in 1..n
    BY <1>2
  <2>. HIDE DEF z, m, n, Again, Parts
  <2>. QED  BY <1>2, <1>3, <1>4, <2>1
<1>6. Len(Parts(s)) = m /\ Len(Parts(z)) = n
  <2>. HIDE DEF Parts
  <2>. QED  BY <1>2, <1>3
<1>. DEFINE p == Parts(s)
            q == Parts(z)
<1>7. p \in Seq(Seq(S)) /\ q \in Seq(Seq(S)) /\ Starts(p, q)
  <2>. HIDE DEF Parts, z, m, n
  <2>. QED  BY <1>2, <1>3, <1>5, <1>6 DEF Starts
<1>. HIDE DEF p, q, Parts, Again, z, m, n
<1>8. GoesOn(S, Joined(p), Joined(q))
  BY <1>7, JoinedStarts
<1>. QED  BY <1>1, <1>8 DEF p, q, z

-----------------------------------------------------------------------------
(* What is answered, and what validate_selection makes of it *)

LEMMA TestsAre ==
  ASSUME NEW t, t \in TestIds
  PROVE  /\ t = <<t[1], t[2], t[3]>> /\ FileOf(t) \in TestFiles /\ FileOf(t) \in SourceFiles
         /\ ~ IsFile(t) /\ \A f : t # <<f>>
<1>1. t = <<t[1], t[2], t[3]>> /\ t[1] \in TestFiles
  BY DEF TestIds
<1>2. Len(t) = 3
  BY <1>1
<1>3. \A f : Len(<<f>>) = 1
  OBVIOUS
<1>. QED  BY <1>1, <1>2, <1>3 DEF FileOf, IsFile, SourceFiles

LEMMA SomeOfNow ==
  ASSUME NEW set, SelTypeOK, set \subseteq now
  PROVE  /\ IsFiniteSet(set) /\ IsFiniteSet(now)
         /\ InSome(set) \in Seq(now) /\ OnceEach(InSome(set)) /\ Elements(InSome(set)) = set
<1>1. IsFiniteSet(TestIds) /\ now \subseteq TestIds /\ set \subseteq TestIds
  BY SelectionParameters DEF SelTypeOK, TestIds
<1>2. IsFiniteSet(set) /\ IsFiniteSet(now)
  BY <1>1, FS_Subset
<1>3. InSome(set) \in Seq(set) /\ OnceEach(InSome(set)) /\ Elements(InSome(set)) = set
  BY <1>2, InSomeIs
<1>4. InSome(set) \in Seq(now)
  <2>. DEFINE s == InSome(set)
  <2>1. s \in Seq(set)
    BY <1>3
  <2>. HIDE DEF s
  <2>2. s \in Seq(now)
    BY <2>1
  <2>. QED  BY <2>2 DEF s
<1>. QED  BY <1>2, <1>3, <1>4

\* An answer's tests that are files stand for their tests.
Meant(tests) ==
  {t \in now : <<FileOf(t)>> \in Elements(tests)} \cup {s \in Elements(tests) : ~ IsFile(s)}

LEMMA ExpandedIs ==
  ASSUME NEW tests, SelTypeOK, tests \in Seq(Offers)
  PROVE  /\ ExpandFileSelectors(tests) \in Seq(TestIds) /\ OnceEach(ExpandFileSelectors(tests))
         /\ Elements(ExpandFileSelectors(tests)) = Meant(tests)
<1>. DEFINE n == Len(tests)
            Of(f) == {t \in now : FileOf(t) = f}
            parts == [i \in DOMAIN tests |->
                       IF IsFile(tests[i]) THEN InSome({t \in now : FileOf(t) = tests[i][1]})
                       ELSE <<tests[i]>>]
<1>1. n \in Nat /\ DOMAIN tests = 1..n /\ \A i \in 1..n : tests[i] \in Offers
  OBVIOUS
<1>2. \A i \in 1..n : parts[i] = IF IsFile(tests[i]) THEN InSome(Of(tests[i][1])) ELSE <<tests[i]>>
  BY <1>1
<1>3. ExpandFileSelectors(tests) = Deduped(Joined(parts))
  BY DEF ExpandFileSelectors
<1>4. DOMAIN parts = 1..n /\ parts = [i \in 1..n |-> parts[i]]
  BY <1>1
<1>. HIDE DEF n, parts
<1>5. \A x \in Offers : IsFile(x) => x = <<x[1]>>
  <2>1. \A f : <<f>> = <<(<<f>>)[1]>>
    OBVIOUS
  <2>. QED  BY <2>1, TestsAre DEF Offers
<1>6. \A x \in Offers : ~ IsFile(x) => x \in TestIds
  <2>1. \A f : Len(<<f>>) = 1
    OBVIOUS
  <2>. QED  BY <2>1 DEF Offers, IsFile
<1>7. ASSUME NEW i \in 1..n
      PROVE  /\ parts[i] \in Seq(TestIds)
             /\ IsFile(tests[i]) => Elements(parts[i]) = Of(tests[i][1])
             /\ ~ IsFile(tests[i]) => Elements(parts[i]) = {tests[i]}
  <2>1. CASE IsFile(tests[i])
    <3>. DEFINE y == InSome(Of(tests[i][1]))
    <3>1. Of(tests[i][1]) \subseteq now
      OBVIOUS
    <3>. HIDE DEF Of
    <3>2. y \in Seq(now) /\ Elements(y) = Of(tests[i][1])
      BY <3>1, SomeOfNow
    <3>3. parts[i] = y
      BY <1>2, <2>1
    <3>4. y \in Seq(TestIds)
      <4>1. now \subseteq TestIds
        BY DEF SelTypeOK
      <4>. HIDE DEF y
      <4>. QED  BY <3>2, <4>1
    <3>. QED  BY <2>1, <3>2, <3>3, <3>4
  <2>2. CASE ~ IsFile(tests[i])
    <3>1. tests[i] \in TestIds /\ parts[i] = <<tests[i]>>
      BY <1>1, <1>2, <1>6, <2>2
    <3>. QED  BY <2>2, <3>1, OneElement
  <2>. QED  BY <2>1, <2>2
<1>8. parts \in Seq(Seq(TestIds))
  <2>1. \A i \in 1..n : parts[i] \in Seq(TestIds)
    BY <1>7
  <2>. QED  BY <1>1, <1>4, <2>1
<1>9. Joined(parts) \in Seq(TestIds) /\ Elements(Joined(parts)) = UNION {Elements(parts[i]) : i \in 1..n}
  BY <1>4, <1>8, JoinedElements
<1>10. UNION {Elements(parts[i]) : i \in 1..n} \subseteq Meant(tests)
  <2>. SUFFICES ASSUME NEW i \in 1..n, NEW t \in Elements(parts[i]) PROVE t \in Meant(tests)
    OBVIOUS
  <2>1. tests[i] \in Elements(tests) /\ tests[i] \in Offers
    BY <1>1 DEF Elements
  <2>2. CASE IsFile(tests[i])
    BY <1>5, <1>7, <2>1, <2>2 DEF Meant
  <2>3. CASE ~ IsFile(tests[i])
    BY <1>7, <2>1, <2>3 DEF Meant
  <2>. QED  BY <2>2, <2>3
<1>11. Meant(tests) \subseteq UNION {Elements(parts[i]) : i \in 1..n}
  <2>1. ASSUME NEW t \in now, <<FileOf(t)>> \in Elements(tests)
        PROVE  \E i \in 1..n : t \in Elements(parts[i])
    <3>1. PICK i \in 1..n : tests[i] = <<FileOf(t)>>
      BY <1>1, <2>1 DEF Elements
    <3>2. IsFile(tests[i]) /\ tests[i][1] = FileOf(t)
      BY <3>1 DEF IsFile
    <3>. QED  BY <1>7, <3>2
  <2>2. ASSUME NEW s \in Elements(tests), ~ IsFile(s)
        PROVE  \E i \in 1..n : s \in Elements(parts[i])
    <3>1. PICK i \in 1..n : tests[i] = s
      BY <1>1, <2>2 DEF Elements
    <3>. QED  BY <1>7, <2>2, <3>1
  <2>. QED  BY <2>1, <2>2 DEF Meant
<1>12. Elements(Joined(parts)) = Meant(tests)
  BY <1>9, <1>10, <1>11
<1>. QED  BY <1>3, <1>9, <1>12, DedupedIs

LEMMA ValidatedIs ==
  ASSUME NEW tests, NEW escalated, SelTypeOK, tests \in Seq(Offers)
  PROVE  LET v == Validate(Answered(tests, escalated))
             stale == {t \in Meant(tests) : t \notin now /\ t \in base}
         IN  /\ v.stale = stale /\ Elements(v.tests) = Meant(tests) \ stale /\ OnceEach(v.tests)
             /\ v.refused <=> \E t \in Meant(tests) \ stale : t \notin now
<1>. DEFINE x == ExpandFileSelectors(tests)
            stale == {t \in Elements(x) : t \notin now /\ t \in base}
            places == {i \in DOMAIN x : x[i] \in stale}
            kept == LeftOut(x, places)
            ans == Answered(tests, escalated)
            v == [tests |-> kept, stale |-> stale, escalated |-> escalated,
                  refused |-> \E t \in Elements(kept) : t \notin now]
<1>1. ans.tests = tests /\ ans.escalated = escalated
  BY DEF Answered
<1>2. Validate(ans) = v
  <2>. HIDE DEF ans
  <2>. QED  BY <1>1 DEF Validate
<1>3. v.tests = kept /\ v.stale = stale /\ (v.refused <=> \E t \in Elements(kept) : t \notin now)
  <2>. HIDE DEF kept, stale
  <2>. QED  OBVIOUS
<1>4. x \in Seq(TestIds) /\ OnceEach(x) /\ Elements(x) = Meant(tests)
  BY ExpandedIs
<1>. HIDE DEF x, v, ans
<1>5. Elements(kept) = {x[i] : i \in DOMAIN x \ places} /\ OnceEach(kept)
  <2>1. \A i, k \in DOMAIN x \ places : x[i] = x[k] => i = k
    BY <1>4 DEF OnceEach
  <2>. HIDE DEF places
  <2>. QED  BY <1>4, <2>1, LeftOutIs
<1>6. {x[i] : i \in DOMAIN x \ places} = Elements(x) \ stale
  BY DEF Elements
<1>. HIDE DEF kept, stale
<1>7. stale = {t \in Meant(tests) : t \notin now /\ t \in base}
  BY <1>4 DEF stale
<1>8. Elements(kept) = Meant(tests) \ stale
  BY <1>4, <1>5, <1>6
<1>. QED  BY <1>2, <1>3, <1>5, <1>7, <1>8 DEF ans

-----------------------------------------------------------------------------
(* The strategies *)

\* A graph id picks every parametrisation of the test it names.
LEMMA GraphIdsAre ==
  ASSUME NEW gs, SelTypeOK, gs \in Seq(GraphIds)
  PROVE  /\ ExpandGraphIds(gs) \in Seq(now) /\ OnceEach(ExpandGraphIds(gs))
         /\ Elements(ExpandGraphIds(gs)) =
              {t \in now : \E i \in DOMAIN gs : gs[i][1] = t[1] /\ gs[i][2] = t[2]}
<1>. DEFINE n == Len(gs)
            Of(g) == {t \in now : TestKey(t) = <<g[1], g[2]>>}
            parts == [i \in DOMAIN gs |-> NamedBy(gs[i])]
            mean == {t \in now : \E i \in 1..n : gs[i][1] = t[1] /\ gs[i][2] = t[2]}
<1>1. n \in Nat /\ DOMAIN gs = 1..n
  OBVIOUS
<1>2. DOMAIN parts = 1..n /\ parts = [i \in 1..n |-> parts[i]]
      /\ \A i \in 1..n : parts[i] = InSome(Of(gs[i]))
  BY <1>1 DEF NamedBy
<1>3. ExpandGraphIds(gs) = Deduped(Joined(parts))
  BY DEF ExpandGraphIds
<1>. HIDE DEF n, parts
<1>4. \A i \in 1..n : parts[i] \in Seq(now) /\ Elements(parts[i]) = Of(gs[i])
  <2>1. \A g : Of(g) \subseteq now
    OBVIOUS
  <2>. HIDE DEF Of
  <2>. QED  BY <1>2, <2>1, SomeOfNow
<1>5. parts \in Seq(Seq(now))
  BY <1>1, <1>2, <1>4
<1>6. Joined(parts) \in Seq(now) /\ Elements(Joined(parts)) = UNION {Elements(parts[i]) : i \in 1..n}
  BY <1>2, <1>5, JoinedElements
<1>7. \A g, t : t \in Of(g) <=> t \in now /\ g[1] = t[1] /\ g[2] = t[2]
  BY DEF TestKey
<1>8. UNION {Elements(parts[i]) : i \in 1..n} = mean
  <2>. HIDE DEF Of
  <2>. QED  BY <1>4, <1>7
<1>9. Elements(Joined(parts)) = mean
  BY <1>6, <1>8
<1>. HIDE DEF mean
<1>10. ExpandGraphIds(gs) \in Seq(now) /\ OnceEach(ExpandGraphIds(gs))
       /\ Elements(ExpandGraphIds(gs)) = mean
  BY <1>3, <1>6, <1>9, DedupedIs
<1>. QED  BY <1>1, <1>10 DEF mean

\* More graph ids pick more, later.
LEMMA GraphIdsStart ==
  ASSUME NEW gs, NEW hs, SelTypeOK, gs \in Seq(GraphIds), hs \in Seq(GraphIds)
  PROVE  GoesOn(now, ExpandGraphIds(gs), ExpandGraphIds(gs \o hs))
<1>. DEFINE z == gs \o hs
            m == Len(gs)
            n == Len(z)
            Parts(x) == [i \in DOMAIN x |-> NamedBy(x[i])]
            p == Parts(gs)
            q == Parts(z)
<1>1. /\ z \in Seq(GraphIds) /\ m \in Nat /\ n \in Nat /\ m <= n
      /\ DOMAIN gs = 1..m /\ DOMAIN z = 1..n
      /\ \A i \in 1..m : z[i] = gs[i]
  <2>1. m \in Nat /\ Len(hs) \in Nat /\ DOMAIN gs = 1..m
    OBVIOUS
  <2>2. z \in Seq(GraphIds) /\ n = m + Len(hs)
        /\ \A i \in 1..(m + Len(hs)) : z[i] = IF i <= m THEN gs[i] ELSE hs[i - m]
    BY ConcatProperties
  <2>3. DOMAIN z = 1..n
    BY <2>2
  <2>. HIDE DEF z, m, n
  <2>. QED  BY <2>1, <2>2, <2>3
<1>2. \A g : NamedBy(g) \in Seq(now)
  <2>1. \A g : {t \in now : TestKey(t) = <<g[1], g[2]>>} \subseteq now
    OBVIOUS
  <2>. QED  BY <2>1, SomeOfNow DEF NamedBy
<1>. HIDE DEF z, m, n
<1>3. /\ p \in Seq(Seq(now)) /\ Len(p) = m /\ q \in Seq(Seq(now)) /\ Len(q) = n
      /\ (\A i \in 1..m : p[i] = NamedBy(gs[i])) /\ \A i \in 1..n : q[i] = NamedBy(z[i])
  BY <1>1, <1>2
<1>4. ExpandGraphIds(gs) = Deduped(Joined(p)) /\ ExpandGraphIds(z) = Deduped(Joined(q))
  BY DEF ExpandGraphIds
<1>. HIDE DEF p, q, Parts
<1>5. Starts(p, q)
  <2>1. \A i \in 1..m : i \in 1..n
    BY <1>1
  <2>. QED  BY <1>1, <1>3, <2>1 DEF Starts
<1>6. GoesOn(now, Joined(p), Joined(q))
  BY <1>3, <1>5, JoinedStarts
<1>7. PICK r \in Seq(now) : Joined(q) = Joined(p) \o r
  BY <1>6 DEF GoesOn
<1>8. Joined(p) \in Seq(now)
  BY <1>3, JoinedElements
<1>9. GoesOn(now, Deduped(Joined(p)), Deduped(Joined(p) \o r))
  BY <1>8, DedupedStarts
<1>. QED  BY <1>4, <1>7, <1>9 DEF z

\* What a strategy answers: tests of this tree, all of them if it escalates.
Picks(a) ==
  \E tests \in Seq(now), escalated \in BOOLEAN :
    a = Answered(tests, escalated) /\ (escalated => Elements(tests) = now)

LEMMA PicksAre ==
  ASSUME NEW a, SelTypeOK, Picks(a)
  PROVE  /\ a.tests \in Seq(now) /\ (a.escalated => Elements(a.tests) = now)
         /\ ~ Validate(a).refused
         /\ Elements(Validate(a).tests) \subseteq now /\ OnceEach(Validate(a).tests)
<1>1. PICK tests \in Seq(now), escalated \in BOOLEAN :
        a = Answered(tests, escalated) /\ (escalated => Elements(tests) = now)
  BY DEF Picks
<1>2. a.tests = tests /\ a.escalated = escalated
  BY <1>1 DEF Answered
<1>3. tests \in Seq(Offers) /\ Elements(tests) \subseteq now
  <2>1. now \subseteq Offers
    BY DEF SelTypeOK, Offers
  <2>. HIDE DEF SelTypeOK
  <2>2. tests \in Seq(Offers)
    BY <2>1
  <2>. QED  BY <2>2, InElements
<1>4. Meant(tests) \subseteq now
  BY <1>3 DEF Meant
<1>. DEFINE v == Validate(a)
            stale == {t \in Meant(tests) : t \notin now /\ t \in base}
<1>5. Elements(v.tests) = Meant(tests) \ stale /\ OnceEach(v.tests)
      /\ (v.refused <=> \E t \in Meant(tests) \ stale : t \notin now)
  BY <1>1, <1>3, ValidatedIs
<1>. HIDE DEF v
<1>6. stale = {}
  BY <1>4
<1>. QED  BY <1>1, <1>2, <1>4, <1>5, <1>6 DEF v

LEMMA SomePicks ==
  ASSUME NEW set, SelTypeOK, set \subseteq now
  PROVE  /\ Picks(Answered(InSome(set), FALSE))
         /\ Elements(InSome(set)) = set /\ (set # {} => InSome(set) # <<>>)
<1>1. InSome(set) \in Seq(now) /\ Elements(InSome(set)) = set
  BY SomeOfNow
<1>. QED  BY <1>1, InElements DEF Picks

LEMMA EverythingPicks ==
  ASSUME SelTypeOK
  PROVE  /\ Picks(Everything) /\ Everything.tests = InSome(now) /\ Elements(InSome(now)) = now
         /\ (now # {} => InSome(now) # <<>>)
<1>1. InSome(now) \in Seq(now) /\ Elements(InSome(now)) = now
  BY SomeOfNow
<1>. QED  BY <1>1, InElements DEF Picks, Everything, Answered

LEMMA RtddPicks ==
  ASSUME SelInv
  PROVE  /\ Picks(Rtdd) /\ Picks(RtddRounds12)
         /\ Rtdd.tests = ExpandGraphIds(round1) /\ RtddRounds12.tests = ExpandGraphIds(round1 \o round2)
<1>1. round1 \in Seq(GraphIds) /\ round2 \in Seq(GraphIds) /\ SelTypeOK
  BY DEF SelInv
<1>2. round1 \o round2 \in Seq(GraphIds)
  BY <1>1, ConcatProperties
<1>3. ExpandGraphIds(round1) \in Seq(now) /\ ExpandGraphIds(round1 \o round2) \in Seq(now)
  BY <1>1, <1>2, GraphIdsAre
<1>. QED  BY <1>3 DEF Picks, Rtdd, RtddRounds12, Answered

LEMMA LastFailedPicks ==
  ASSUME SelTypeOK
  PROVE  Picks(LastFailed) /\ (now # {} => LastFailed.tests # <<>>)
<1>. DEFINE still == {k \in failed : ~ IsFile(k) /\ k \in now}
<1>1. LastFailed = IF still = {} THEN Everything ELSE Answered(InSome(still), FALSE)
  BY DEF LastFailed
<1>2. still \subseteq now
  OBVIOUS
<1>. HIDE DEF still
<1>3. Answered(InSome(still), FALSE).tests = InSome(still)
  BY DEF Answered
<1>. QED  BY <1>1, <1>2, <1>3, SomePicks, EverythingPicks

LEMMA TestmonPicks ==
  ASSUME SelTypeOK
  PROVE  Picks(Testmon) /\ (database \in {Nobody, Unreadable} => Elements(Testmon.tests) = now)
<1>. DEFINE still == database \cap now
            all == still = now /\ now # {}
<1>1. Testmon = IF database \in {Nobody, Unreadable} THEN Everything ELSE Answered(InSome(still), all)
  BY DEF Testmon
<1>2. InSome(still) \in Seq(now) /\ Elements(InSome(still)) = still
  BY SomeOfNow
<1>3. all \in BOOLEAN /\ (all => Elements(InSome(still)) = now)
  BY <1>2
<1>. HIDE DEF still, all
<1>4. Picks(Answered(InSome(still), all))
  BY <1>2, <1>3 DEF Picks
<1>. QED  BY <1>1, <1>4, EverythingPicks

LEMMA PathHeuristicPicks ==
  ASSUME SelTypeOK PROVE Picks(PathHeuristic)
<1>. DEFINE collected == {FileOf(t) : t \in now}
            picked == (changed \cap TestFiles \cap collected)
                        \cup {f \in collected : \E s \in changed \cap Sources : f \in Siblings[s]}
<1>1. PathHeuristic = Answered(InSome({t \in now : FileOf(t) \in picked}), FALSE)
  BY DEF PathHeuristic
<1>. HIDE DEF picked
<1>. QED  BY <1>1, SomePicks

LEMMA RandomRatioPicks ==
  ASSUME SelInv PROVE Picks(RandomRatio)
<1>. DEFINE s == InSome(now)
            m == Len(Rtdd.tests)
<1>1. SelTypeOK /\ round1 \in Seq(GraphIds)
  BY DEF SelInv
<1>2. s \in Seq(now) /\ OnceEach(s) /\ Elements(s) = now /\ IsFiniteSet(now)
  BY <1>1, SomeOfNow
<1>3. Rtdd.tests \in Seq(now) /\ OnceEach(Rtdd.tests)
  BY <1>1, GraphIdsAre, RtddPicks
<1>4. m \in Nat /\ m <= Cardinality(now)
  <2>1. m \in Nat
    BY <1>3
  <2>. QED  BY <1>2, <1>3, <2>1, OnceEachIsNoLonger
<1>5. Len(s) = Cardinality(now) /\ \A i \in 1..Len(s) : s[i] \in now
  <2>1. s \in [1..Cardinality(now) -> now]
    BY <1>2, InSomeIs
  <2>2. Cardinality(now) \in Nat
    BY <1>2, FS_CardinalityType
  <2>. HIDE DEF s
  <2>. QED  BY <1>2, <2>1, <2>2
<1>. HIDE DEF s, m
<1>6. SubSeq(s, 1, m) \in Seq(now)
  <2>1. \A i \in 1..m : i \in 1..Len(s)
    BY <1>2, <1>4, <1>5
  <2>2. \A i \in 1..m : s[i] \in now
    BY <1>5, <2>1
  <2>. QED  BY <1>4, <2>2, SubSeqProperties
<1>. QED  BY <1>6 DEF Picks, RandomRatio, s, m

LEMMA ImportGraphPicks ==
  ASSUME SelTypeOK
  PROVE  /\ Picks(ImportGraph)
         /\ Elements(ImportGraph.tests) = {t \in now : FileOf(t) \in seen}
<1>1. ImportGraph.tests = InSome({t \in now : FileOf(t) \in seen})
  BY DEF ImportGraph, Answered
<1>. QED  BY <1>1, SomePicks DEF ImportGraph

LEMMA StrategiesPick ==
  ASSUME SelInv, NEW a \in Strategies PROVE Picks(a)
<1>1. SelTypeOK
  BY DEF SelInv
<1>2. a \in {ImportGraph, Rtdd, RtddRounds12, LastFailed, Testmon, PathHeuristic, RandomRatio,
             Everything}
  BY DEF Strategies
<1>. QED  BY <1>1, <1>2, ImportGraphPicks, RtddPicks, LastFailedPicks, TestmonPicks,
             PathHeuristicPicks, RandomRatioPicks, EverythingPicks

-----------------------------------------------------------------------------
(* The invariant *)

LEMMA OffersAre ==
  ASSUME NEW k, NEW S, k \in Asked(S) PROVE k \in Seq(S)
<1>1. PICK n \in 0..MaxAsked : k \in [1..n -> S]
  BY DEF Asked
<1>2. n \in Nat
  BY SelectionParameters
<1>. QED  BY <1>1, <1>2

LEMMA SelStarts ==
  ASSUME SelInit PROVE SelInv
<1>1. base \in SUBSET TestIds /\ imports \in SUBSET (SourceFiles \X SourceFiles)
  BY SelectionParameters DEF SelInit, TestIds, SourceFiles
<1>. QED  BY <1>1 DEF SelInit, SelInv, SelTypeOK

selRest == <<round1, round2, offered, seen, stack, phase>>

LEMMA EditKeeps ==
  ASSUME SelInv, phase = "edit", UNCHANGED <<selRest, base>>, now' \subseteq TestIds,
         imports' \subseteq SourceFiles \X SourceFiles, changed' \subseteq SourceFiles
  PROVE  SelInv'
BY DEF SelInv, SelTypeOK, selRest, Offers

LEMMA SelStep ==
  ASSUME SelInv, [SelNext]_selVars PROVE SelInv'
<1>1. ASSUME NEW f, NEW d, PrepareState(f, d) PROVE SelInv'
  BY <1>1 DEF PrepareState, SelInv, SelTypeOK, Offers
<1>2. ASSUME NEW t \in TestIds, EditTest(t) PROVE SelInv'
  <2>1. FileOf(t) \in SourceFiles
    BY TestsAre
  <2>. QED  BY <1>2, <2>1, EditKeeps DEF EditTest, Edit, selRest, SelInv, SelTypeOK
<1>3. ASSUME NEW f \in SourceFiles, NEW g \in SourceFiles, EditImport(f, g) PROVE SelInv'
  BY <1>3, EditKeeps DEF EditImport, Edit, selRest, SelInv, SelTypeOK
<1>4. ASSUME NEW f \in Sources, EditSource(f) PROVE SelInv'
  BY <1>4, EditKeeps DEF EditSource, Edit, selRest, SelInv, SelTypeOK, SourceFiles
<1>5. ASSUME NEW r1 \in Seq(GraphIds), NEW r2 \in Seq(GraphIds), NEW other \in Seq(Offers),
             Ask(r1, r2, other)
      PROVE  SelInv'
  BY <1>5 DEF Ask, SelInv, SelTypeOK, Offers
<1>6. ASSUME AskImportGraph PROVE SelInv'
  <2>1. changed' \subseteq seen' /\ seen' \ stack' = {}
        /\ \A set \in SUBSET SourceFiles : HasImporters(set)' => seen' \subseteq set
    BY <1>6 DEF AskImportGraph, HasImporters
  <2>2. SelTypeOK' /\ round1' = round1 /\ round2' = round2 /\ offered' = offered
        /\ phase' = "closing"
    BY <1>6 DEF AskImportGraph, SelInv, SelTypeOK
  <2>. QED  BY <2>1, <2>2 DEF SelInv, WalkInv, Offers
<1>7. ASSUME NEW m \in SourceFiles, Visit(m) PROVE SelInv'
  <2>. DEFINE new == {e[1] : e \in {x \in imports : x[2] = m}} \ seen
  <2>1. /\ phase = "closing" /\ phase' = "closing" /\ m \in stack
        /\ seen' = seen \cup new /\ stack' = (stack \ {m}) \cup new
        /\ UNCHANGED <<base, now, imports, changed, round1, round2, offered>>
    BY <1>7 DEF Visit
  <2>2. SelTypeOK /\ WalkInv
    BY <2>1 DEF SelInv
  <2>3. new \subseteq SourceFiles /\ new \cap seen = {}
    BY <2>2 DEF SelTypeOK
  <2>4. \A e \in imports : e[2] = m => e[1] \in seen \cup new
    OBVIOUS
  <2>5. \A e \in imports : e[2] \in seen' \ stack' => e[1] \in seen'
    <3>. HIDE DEF new
    <3>. QED  BY <2>1, <2>2, <2>4 DEF WalkInv
  <2>6. \A set \in SUBSET SourceFiles : HasImporters(set) => seen' \subseteq set
    <3>. SUFFICES ASSUME NEW set \in SUBSET SourceFiles, HasImporters(set) PROVE seen' \subseteq set
      OBVIOUS
    <3>1. seen \subseteq set /\ m \in set
      BY <2>1, <2>2 DEF WalkInv, SelTypeOK
    <3>2. new \subseteq set
      BY <3>1 DEF HasImporters
    <3>. QED  BY <2>1, <3>1, <3>2
  <2>7. \A set : HasImporters(set)' <=> HasImporters(set)
    BY <2>1 DEF HasImporters
  <2>8. changed' \subseteq seen'
    BY <2>1, <2>2 DEF WalkInv
  <2>9. WalkInv'
    BY <2>1, <2>5, <2>6, <2>7, <2>8 DEF WalkInv
  <2>10. SelTypeOK'
    <3>. HIDE DEF new
    <3>. QED  BY <2>1, <2>2, <2>3 DEF SelTypeOK
  <2>. HIDE DEF new
  <2>. QED  BY <2>1, <2>9, <2>10 DEF SelInv, Offers
<1>8. ASSUME Closed PROVE SelInv'
  BY <1>8 DEF Closed, SelInv, SelTypeOK, WalkInv, HasImporters, Offers
<1>9. ASSUME UNCHANGED selVars PROVE SelInv'
  BY <1>9 DEF selVars, SelInv, SelTypeOK, WalkInv, HasImporters, Offers
<1>10. <<>> \in Seq(GraphIds) /\ <<>> \in Seq(Offers) /\ \A r \in GraphIds : <<r>> \in Seq(GraphIds)
  BY NoElements, OneElement
<1>11. (TestIds \cup {<<f>> : f \in SourceFiles}) = Offers
  BY DEF Offers
<1>12. (\E r1 \in Asked(GraphIds), r2 \in GraphIds : Unprepared /\ Ask(r1, <<r2>>, <<>>)) => SelInv'
  BY <1>5, <1>10, OffersAre
<1>13. (\E other \in Asked(TestIds \cup {<<f>> : f \in SourceFiles}) :
          Unprepared /\ Ask(<<>>, <<>>, other)) => SelInv'
  <2>. SUFFICES ASSUME NEW other \in Asked(Offers), Ask(<<>>, <<>>, other) PROVE SelInv'
    BY <1>11
  <2>. QED  BY <1>5, <1>10, OffersAre
<1>14. Ask(<<>>, <<>>, <<>>) => SelInv'
  BY <1>5, <1>10
<1>. QED  BY <1>1, <1>2, <1>3, <1>4, <1>6, <1>7, <1>8, <1>9, <1>12, <1>13, <1>14 DEF SelNext

-----------------------------------------------------------------------------
(* What it says of the picks *)

LEMMA PicksAreCollectedNow ==
  ASSUME SelInv PROVE PicksAreCollected
<1>1. ASSUME NEW a \in Strategies
      PROVE  /\ ~ Validate(a).refused
             /\ Elements(Validate(a).tests) \subseteq now /\ OnceEach(Validate(a).tests)
  <2>1. SelTypeOK
    BY DEF SelInv
  <2>. QED  BY <2>1, StrategiesPick, PicksAre
<1>. QED  BY <1>1 DEF PicksAreCollected

LEMMA AnswersAreClassifiedNow ==
  ASSUME SelInv PROVE AnswersAreClassified
<1>. DEFINE v == Validate(Answered(offered, FALSE))
            stale == {t \in Meant(offered) : t \notin now /\ t \in base}
            runs == {t \in now : t \in Elements(offered) \/ <<FileOf(t)>> \in Elements(offered)}
            gone == {s \in Elements(offered) : ~ IsFile(s)} \ now
<1>1. SelTypeOK /\ offered \in Seq(Offers)
  BY DEF SelInv
<1>2. /\ v.stale = stale /\ Elements(v.tests) = Meant(offered) \ stale
      /\ v.refused <=> \E t \in Meant(offered) \ stale : t \notin now
  BY <1>1, ValidatedIs
<1>3. \A t \in now : ~ IsFile(t)
  BY <1>1, TestsAre DEF SelTypeOK
<1>. HIDE DEF v
<1>4. stale = gone \cap base
  BY <1>3 DEF Meant
<1>5. v.refused <=> gone \ base # {}
  BY <1>2, <1>3 DEF Meant
<1>6. ~ v.refused => Elements(v.tests) = runs
  BY <1>2, <1>3 DEF Meant
<1>. QED  BY <1>2, <1>4, <1>5, <1>6 DEF AnswersAreClassified, v

LEMMA GraphIdsNameTestsNow ==
  ASSUME SelInv PROVE GraphIdsNameTests
<1>. DEFINE s == ExpandGraphIds(round1)
            z == ExpandGraphIds(round1 \o round2)
<1>1. SelTypeOK /\ round1 \in Seq(GraphIds) /\ round2 \in Seq(GraphIds)
  BY DEF SelInv
<1>2. Rtdd.tests = s /\ RtddRounds12.tests = z
  BY RtddPicks
<1>3. s \in Seq(now)
      /\ Elements(s) = {t \in now : \E i \in DOMAIN round1 : round1[i][1] = t[1] /\ round1[i][2] = t[2]}
  BY <1>1, GraphIdsAre
<1>4. GoesOn(now, s, z)
  BY <1>1, GraphIdsStart
<1>. HIDE DEF s, z
<1>5. s = SubSeq(z, 1, Len(s))
  BY <1>3, <1>4, StartOf DEF GoesOn
<1>. QED  BY <1>2, <1>3, <1>5 DEF GraphIdsNameTests

LEMMA EscalationIsTheSuiteNow ==
  ASSUME SelInv PROVE EscalationIsTheSuite
<1>1. SelTypeOK
  BY DEF SelInv
<1>2. \A a \in Strategies : a.escalated => Elements(a.tests) = now
  BY <1>1, StrategiesPick, PicksAre
<1>. QED  BY <1>1, <1>2, LastFailedPicks, TestmonPicks DEF EscalationIsTheSuite

LEMMA ImportsAreClosedNow ==
  ASSUME SelInv PROVE ImportsAreClosed
<1>. SUFFICES ASSUME phase = "closed"
     PROVE  Elements(ImportGraph.tests) =
              {t \in now : \A set \in SUBSET SourceFiles : HasImporters(set) => FileOf(t) \in set}
  BY DEF ImportsAreClosed
<1>1. SelTypeOK /\ WalkInv /\ stack = {}
  BY DEF SelInv
<1>2. seen \in SUBSET SourceFiles /\ HasImporters(seen)
  BY <1>1 DEF SelTypeOK, WalkInv, HasImporters
<1>3. \A set \in SUBSET SourceFiles : HasImporters(set) => seen \subseteq set
  BY <1>1 DEF WalkInv
<1>4. \A t \in now : FileOf(t) \in seen
                      <=> \A set \in SUBSET SourceFiles : HasImporters(set) => FileOf(t) \in set
  BY <1>2, <1>3
<1>. QED  BY <1>1, <1>4, ImportGraphPicks

\* Whatever any strategy answers, at any number of tests, files and edits:
\* what is run of it are tests of this tree, once each, all of those it meant.
THEOREM PicksAreRunnableAlways == SelSpec => []PicksAreRunnable
<1>1. SelInit => SelInv
  BY SelStarts
<1>2. SelInv /\ [SelNext]_selVars => SelInv'
  BY SelStep
<1>3. SelInv => PicksAreRunnable
  BY PicksAreCollectedNow, AnswersAreClassifiedNow, GraphIdsNameTestsNow, EscalationIsTheSuiteNow,
     ImportsAreClosedNow DEF PicksAreRunnable
<1>. QED  BY <1>1, <1>2, <1>3, PTL DEF SelSpec

-----------------------------------------------------------------------------
(* Sequences, one element longer *)

LEMMA OneLonger ==
  ASSUME NEW S, NEW s, NEW e, s \in Seq(S), e \in S
  PROVE  /\ Append(s, e) \in Seq(S) /\ Len(Append(s, e)) = Len(s) + 1
         /\ Len(s) + 1 \in 1..(Len(s) + 1) /\ Append(s, e)[Len(s) + 1] = e
         /\ \A i \in 1..Len(s) : Append(s, e)[i] = s[i] /\ i \in 1..(Len(s) + 1)
OBVIOUS

LEMMA WithoutLast ==
  ASSUME NEW S, NEW s, s \in Seq(S), s # <<>>
  PROVE  \E r \in Seq(S) : Len(r) = Len(s) - 1 /\ s = Append(r, s[Len(s)]) /\ s[Len(s)] \in S
<1>. DEFINE n == Len(s)
            r == [i \in 1..(n - 1) |-> s[i]]
<1>1. n \in Nat /\ n # 0 /\ n - 1 \in Nat /\ \A i \in 1..n : s[i] \in S
  OBVIOUS
<1>2. s = [i \in 1..n |-> s[i]]
  OBVIOUS
<1>. HIDE DEF n
<1>3. r \in Seq(S) /\ Len(r) = n - 1 /\ \A i \in 1..(n - 1) : r[i] = s[i]
  <2>1. \A i \in 1..(n - 1) : s[i] \in S
    BY <1>1
  <2>. QED  BY <1>1, <2>1
<1>4. s[n] \in S
  BY <1>1
<1>. HIDE DEF r
<1>. DEFINE z == Append(r, s[n])
<1>5. z \in Seq(S) /\ Len(z) = n /\ \A i \in 1..n : z[i] = s[i]
  BY <1>1, <1>3, <1>4
<1>6. z = [i \in 1..n |-> z[i]]
  BY <1>5
<1>7. z = s
  <2>. HIDE DEF z
  <2>. QED  BY <1>2, <1>5, <1>6
<1>. QED  BY <1>3, <1>4, <1>7 DEF n

\* What is joined to the end comes last.
LEMMA JoinedLast ==
  ASSUME NEW S, NEW p, NEW x, p \in Seq(Seq(S)), x \in Seq(S)
  PROVE  Joined(Append(p, x)) = Joined(p) \o x
<1>. DEFINE n == Len(p)
            q == Append(p, x)
<1>1. n \in Nat /\ q \in Seq(Seq(S)) /\ Len(q) = n + 1 /\ q[n + 1] = x /\ \A i \in 1..n : q[i] = p[i]
  BY OneLonger
<1>2. PICK u : u[0] = <<>> /\ (\A i \in 1..Len(p) : u[i] = u[i - 1] \o p[i]) /\ Joined(p) = u[Len(p)]
  BY JoinedIs
<1>. HIDE DEF q
<1>3. PICK v : v[0] = <<>> /\ (\A i \in 1..Len(q) : v[i] = v[i - 1] \o q[i]) /\ Joined(q) = v[Len(q)]
  BY <1>1, JoinedIs
<1>4. n = Len(p)
  OBVIOUS
<1>. HIDE DEF n
<1>5. \A i \in 1..n : v[i] = v[i - 1] \o p[i]
  <2>1. \A i \in 1..n : i \in 1..(n + 1)
    BY <1>1
  <2>. QED  BY <1>1, <1>3, <2>1
<1>6. SameUpTo(u, v, n)
  <2>1. StepAlike(u, v, n)
    BY <1>2, <1>3, <1>4, <1>5 DEF StepAlike
  <2>. QED  BY <1>1, <2>1, StepsAgree
<1>7. n \in 0..n /\ n + 1 \in 1..(n + 1) /\ (n + 1) - 1 = n
  BY <1>1
<1>8. v[n + 1] = v[n] \o x
  BY <1>1, <1>3, <1>7
<1>. QED  BY <1>1, <1>2, <1>3, <1>4, <1>6, <1>7, <1>8 DEF q, SameUpTo

-----------------------------------------------------------------------------
(* The batches *)

Costs(u, b) ==
  u[0] = 0 /\ \A i \in 1..Len(b) : u[i - 1] \in Nat /\ u[i] = u[i - 1] + Length[b[i]] + 1

LEMMA CostIs ==
  ASSUME NEW b, b \in Seq(TestSet)
  PROVE  \E u : Costs(u, b) /\ Cost(b) = u[Len(b)] /\ Cost(b) \in Nat
<1>. DEFINE n == Len(b)
            next == [x \in Nat \X (1..n) |-> x[1] + Length[b[x[2]]] + 1]
            Defines(f) == f = [i \in 0..n |-> IF i = 0 THEN 0 ELSE f[i - 1] + Length[b[i]] + 1]
<1>1. n \in Nat /\ \A i \in 1..n : Length[b[i]] \in Nat
  BY OutcomesParameters DEF TestSet
<1>. HIDE DEF n
<1>2. next \in [Nat \X (1..n) -> Nat]
      /\ \A m \in Nat, i \in 1..n : next[<<m, i>>] = m + Length[b[i]] + 1
  BY <1>1
<1>3. PICK u \in [0..n -> Nat] : Follows(u, n, 0, next)
  <2>. HIDE DEF next
  <2>. QED  BY <1>1, <1>2, StepsExist
<1>. HIDE DEF next
<1>4. \A i \in 1..n : i - 1 \in 0..n /\ u[i - 1] \in Nat
  BY <1>1, <1>3
<1>5. u[0] = 0 /\ \A i \in 1..n : u[i] = u[i - 1] + Length[b[i]] + 1
  BY <1>2, <1>3, <1>4 DEF Follows
<1>6. Defines(u)
  BY <1>1, <1>3, <1>5
<1>7. ASSUME NEW f, Defines(f) PROVE f = u
  <2>1. StepAlike(f, u, n)
    BY <1>1, <1>5, <1>7 DEF StepAlike
  <2>2. \A i \in 0..n : f[i] = u[i]
    BY <1>1, <2>1, StepsAgree DEF SameUpTo
  <2>3. f = [i \in 0..n |-> f[i]] /\ u = [i \in 0..n |-> u[i]]
    BY <1>3, <1>7
  <2>. QED  BY <2>2, <2>3
<1>8. u = CHOOSE f : Defines(f)
  <2>. HIDE DEF Defines
  <2>. QED  BY <1>6, <1>7
<1>9. Cost(b) = u[n]
  BY <1>8 DEF Cost, n
<1>10. n \in 0..n
  BY <1>1
<1>11. u[n] \in Nat
  BY <1>3, <1>10
<1>. QED  BY <1>4, <1>5, <1>9, <1>11 DEF Costs, n

LEMMA CostMore ==
  ASSUME NEW b, NEW t, b \in Seq(TestSet), t \in TestSet
  PROVE  Cost(b) \in Nat /\ Cost(Append(b, t)) = Cost(b) + Length[t] + 1
<1>. DEFINE n == Len(b)
            z == Append(b, t)
<1>1. n \in Nat /\ z \in Seq(TestSet) /\ Len(z) = n + 1 /\ z[n + 1] = t /\ \A i \in 1..n : z[i] = b[i]
  BY OneLonger
<1>2. PICK u : Costs(u, b) /\ Cost(b) = u[Len(b)] /\ Cost(b) \in Nat
  BY CostIs
<1>. HIDE DEF z
<1>3. PICK v : Costs(v, z) /\ Cost(z) = v[Len(z)]
  BY <1>1, CostIs
<1>4. n = Len(b)
  OBVIOUS
<1>. HIDE DEF n
<1>5. StepAlike(u, v, n)
  <2>1. \A i \in 1..n : i \in 1..(n + 1)
    BY <1>1
  <2>. QED  BY <1>1, <1>2, <1>3, <1>4, <2>1 DEF Costs, StepAlike
<1>6. \A i \in 0..n : u[i] = v[i]
  BY <1>1, <1>5, StepsAgree DEF SameUpTo
<1>7. n \in 0..n /\ n + 1 \in 1..(n + 1) /\ (n + 1) - 1 = n
  BY <1>1
<1>8. v[n + 1] = v[n] + Length[t] + 1
  BY <1>1, <1>3, <1>7 DEF Costs
<1>. QED  BY <1>1, <1>2, <1>3, <1>4, <1>6, <1>7, <1>8 DEF z

\* The batches so far are those tests, in batches that fit.
InBatches(parts, tests) ==
  /\ parts \in Seq(Seq(TestSet)) /\ Joined(parts) = tests
  /\ \A i \in 1..Len(parts) : \/ Len(parts[i]) = 1
                              \/ Len(parts[i]) > 1 /\ Cost(parts[i]) <= Budget

LEMMA OneMore ==
  ASSUME NEW parts, NEW tests, NEW t, InBatches(parts, tests), t \in TestSet
  PROVE  InBatches(Added(parts, t), Append(tests, t))
<1>. DEFINE n == Len(parts)
            Fits(b) == Len(b) = 1 \/ (Len(b) > 1 /\ Cost(b) <= Budget)
<1>1. n \in Nat /\ parts \in Seq(Seq(TestSet)) /\ Joined(parts) = tests /\ \A i \in 1..n : Fits(parts[i])
  <2>1. parts \in Seq(Seq(TestSet)) /\ Joined(parts) = tests /\ \A i \in 1..n : Fits(parts[i])
    BY DEF InBatches
  <2>2. n \in Nat
    BY <2>1
  <2>. QED  BY <2>1, <2>2
<1>2. tests \in Seq(TestSet)
  BY <1>1, JoinedElements
<1>3. tests \o <<t>> = Append(tests, t)
  BY <1>2
<1>4. <<t>> \in Seq(TestSet) /\ Len(<<t>>) = 1
  BY OneElement
<1>5. CASE parts # <<>> /\ Cost(parts[n]) + Length[t] + 1 <= Budget
  <2>1. PICK r \in Seq(Seq(TestSet)) :
          Len(r) = n - 1 /\ parts = Append(r, parts[n]) /\ parts[n] \in Seq(TestSet)
    BY <1>1, <1>5, WithoutLast
  <2>. DEFINE last == parts[n]
              more == Append(last, t)
  <2>2. Added(parts, t) = [parts EXCEPT ![n] = more]
    BY <1>5 DEF Added
  <2>3. n # 0
    BY <1>1, <1>5
  <2>4. more \in Seq(TestSet) /\ Len(more) = Len(last) + 1 /\ Len(last) \in Nat /\ Len(last) # 0
        /\ Cost(more) <= Budget
    <3>1. Fits(last)
      BY <1>1, <2>3
    <3>2. more \in Seq(TestSet) /\ Len(more) = Len(last) + 1 /\ Len(last) \in Nat
      BY <2>1, OneLonger
    <3>3. Cost(more) = Cost(last) + Length[t] + 1
      BY <2>1, CostMore
    <3>4. Cost(more) <= Budget
      BY <1>5, <3>3
    <3>5. Len(last) = 1 \/ Len(last) > 1
      BY <3>1
    <3>. HIDE DEF more, last, Fits
    <3>6. \A k \in Nat : k = 1 \/ k > 1 => k # 0
      OBVIOUS
    <3>7. Len(last) # 0
      BY <3>2, <3>5, <3>6
    <3>. QED  BY <3>2, <3>4, <3>7
  <2>5. Fits(more)
    <3>. HIDE DEF more, last
    <3>. QED  BY <2>4
  <2>6. last \o <<t>> = more
    BY <2>1
  <2>. HIDE DEF last, more
  <2>. DEFINE z == [parts EXCEPT ![n] = more]
              y == Append(r, more)
  <2>7. y \in Seq(Seq(TestSet)) /\ Len(y) = n /\ y[n] = more /\ \A i \in 1..(n - 1) : y[i] = r[i]
    <3>1. (n - 1) + 1 = n
      BY <1>1
    <3>. QED  BY <2>1, <2>4, <3>1, OneLonger
  <2>8. \A i \in 1..(n - 1) : parts[i] = r[i] /\ i # n
    <3>. DEFINE l == parts[n]
    <3>1. l \in Seq(TestSet) /\ parts = Append(r, l)
      BY <2>1
    <3>. HIDE DEF l
    <3>2. \A i \in 1..Len(r) : parts[i] = r[i]
      BY <2>1, <3>1, OneLonger
    <3>. QED  BY <1>1, <2>1, <3>2
  <2>9. \A i \in 1..n : i = n \/ i \in 1..(n - 1)
    BY <1>1
  <2>10. z = y
    <3>1. DOMAIN parts = 1..n /\ parts = [i \in 1..n |-> parts[i]]
      BY <1>1
    <3>2. z = [i \in 1..n |-> z[i]] /\ \A i \in 1..n : z[i] = IF i = n THEN more ELSE parts[i]
      BY <3>1
    <3>3. y = [i \in 1..n |-> y[i]]
      <4>. HIDE DEF y
      <4>. QED  BY <2>7
    <3>4. \A i \in 1..n : z[i] = y[i]
      <4>. HIDE DEF z, y
      <4>. QED  BY <2>7, <2>8, <2>9, <3>2
    <3>. HIDE DEF z, y
    <3>. QED  BY <3>2, <3>3, <3>4
  <2>11. Joined(parts) = Joined(r) \o last
    <3>1. parts = Append(r, last)
      BY <2>1 DEF last
    <3>. QED  BY <2>1, <3>1, JoinedLast DEF last
  <2>12. Joined(y) = Joined(r) \o more
    BY <2>1, <2>4, JoinedLast
  <2>13. Joined(r) \in Seq(TestSet)
    BY <2>1, JoinedElements
  <2>14. Joined(r) \o more = tests \o <<t>>
    <3>. DEFINE a == Joined(r)
                c == <<t>>
    <3>1. a \in Seq(TestSet) /\ c \in Seq(TestSet) /\ last \in Seq(TestSet) /\ more = last \o c
      BY <1>4, <2>1, <2>6, <2>13 DEF last
    <3>2. tests = a \o last
      BY <1>1, <2>11
    <3>. HIDE DEF a, c
    <3>. QED  BY <3>1, <3>2, ConcatAssociative DEF a, c
  <2>. HIDE DEF z, y
  <2>15. \A i \in 1..n : Fits(y[i])
    <3>. HIDE DEF Fits
    <3>. QED  BY <1>1, <2>5, <2>7, <2>8, <2>9
  <2>16. Added(parts, t) = y
    BY <2>2, <2>10 DEF z
  <2>. QED  BY <1>3, <2>7, <2>12, <2>14, <2>15, <2>16 DEF InBatches
<1>6. CASE ~ (parts # <<>> /\ Cost(parts[n]) + Length[t] + 1 <= Budget)
  <2>. DEFINE one == <<t>>
              y == Append(parts, one)
  <2>1. Added(parts, t) = y
    BY <1>6 DEF Added
  <2>2. one \in Seq(TestSet) /\ Len(one) = 1 /\ tests \o one = Append(tests, t)
    BY <1>3, <1>4
  <2>. HIDE DEF one
  <2>3. y \in Seq(Seq(TestSet)) /\ Len(y) = n + 1 /\ y[n + 1] = one /\ \A i \in 1..n : y[i] = parts[i]
    BY <1>1, <2>2, OneLonger
  <2>4. Joined(y) = tests \o one
    BY <1>1, <2>2, JoinedLast
  <2>. HIDE DEF y
  <2>5. \A i \in 1..(n + 1) : i = n + 1 \/ i \in 1..n
    BY <1>1
  <2>6. \A i \in 1..(n + 1) : Fits(y[i])
    <3>1. Fits(one)
      BY <2>2
    <3>. HIDE DEF Fits
    <3>. QED  BY <1>1, <2>3, <2>5, <3>1
  <2>. QED  BY <2>1, <2>2, <2>3, <2>4, <2>6 DEF InBatches
<1>. QED  BY <1>5, <1>6

LEMMA NoBatches == InBatches(<<>>, <<>>)
<1>1. <<>> \in Seq(Seq(TestSet)) /\ Len(<<>>) = 0 /\ 1..0 = {}
  OBVIOUS
<1>2. Joined(<<>>) = <<>>
  BY <1>1, JoinedIs
<1>. QED  BY <1>1, <1>2 DEF InBatches

\* Batches are the tests in order, each within the budget or one test.
LEMMA ChunkIs ==
  ASSUME NEW tests, tests \in Seq(TestSet) PROVE InBatches(Chunk(tests), tests)
<1>. DEFINE n == Len(tests)
            V == {x \in Seq(Seq(TestSet)) : InBatches(x, Joined(x))}
            next == [x \in V \X (1..n) |-> Added(x[1], tests[x[2]])]
            Upto(k) == [i \in 1..k |-> tests[i]]
            Defines(f) == f = [i \in 0..n |-> IF i = 0 THEN <<>> ELSE Added(f[i - 1], tests[i])]
<1>1. n \in Nat /\ (\A i \in 1..n : tests[i] \in TestSet) /\ tests = Upto(n)
  OBVIOUS
<1>. HIDE DEF n
<1>2. <<>> \in V
  <2>1. Joined(<<>>) = <<>> /\ <<>> \in Seq(Seq(TestSet))
    BY NoBatches DEF InBatches
  <2>. QED  BY <2>1, NoBatches
<1>3. ASSUME NEW x \in V, NEW t \in TestSet
      PROVE  Added(x, t) \in V /\ Joined(Added(x, t)) = Append(Joined(x), t)
  <2>1. InBatches(Added(x, t), Append(Joined(x), t))
    BY OneMore
  <2>2. Added(x, t) \in Seq(Seq(TestSet)) /\ Joined(Added(x, t)) = Append(Joined(x), t)
    BY <2>1 DEF InBatches
  <2>. QED  BY <2>1, <2>2
<1>. HIDE DEF V
<1>4. next \in [V \X (1..n) -> V] /\ \A x \in V, i \in 1..n : next[<<x, i>>] = Added(x, tests[i])
  BY <1>1, <1>3
<1>5. PICK u \in [0..n -> V] : Follows(u, n, <<>>, next)
  <2>. HIDE DEF next
  <2>. QED  BY <1>1, <1>2, <1>4, StepsExist
<1>. HIDE DEF next
<1>6. \A i \in 1..n : i - 1 \in 0..n /\ u[i - 1] \in V
  BY <1>1, <1>5
<1>7. u[0] = <<>> /\ \A i \in 1..n : u[i] = Added(u[i - 1], tests[i])
  BY <1>4, <1>5, <1>6 DEF Follows
<1>8. Defines(u)
  BY <1>1, <1>5, <1>7
<1>9. ASSUME NEW f, Defines(f) PROVE f = u
  <2>0. 0 \in 0..n /\ \A i \in 1..n : i \in 0..n /\ i # 0
    BY <1>1
  <2>4. f[0] = <<>> /\ \A i \in 1..n : f[i] = Added(f[i - 1], tests[i])
    BY <1>9, <2>0
  <2>1. StepAlike(f, u, n)
    BY <1>7, <2>4 DEF StepAlike
  <2>2. \A i \in 0..n : f[i] = u[i]
    BY <1>1, <2>1, StepsAgree DEF SameUpTo
  <2>3. f = [i \in 0..n |-> f[i]] /\ u = [i \in 0..n |-> u[i]]
    BY <1>5, <1>9
  <2>. QED  BY <2>2, <2>3
<1>10. u = CHOOSE f : Defines(f)
  <2>. HIDE DEF Defines
  <2>. QED  BY <1>8, <1>9
<1>11. Chunk(tests) = u[n]
  BY <1>10 DEF Chunk, n
<1>12. ASSUME NEW k \in 1..n PROVE Append(Upto(k - 1), tests[k]) = Upto(k)
  <2>. DEFINE s == Upto(k - 1)
              z == Append(s, tests[k])
              y == Upto(k)
  <2>1. k \in Nat /\ k - 1 \in Nat /\ k # 0 /\ (\A i \in 1..(k - 1) : i \in 1..n /\ i \in 1..k /\ i # k)
        /\ tests[k] \in TestSet
    BY <1>1
  <2>2. s \in Seq(TestSet) /\ Len(s) = k - 1 /\ \A i \in 1..(k - 1) : s[i] = tests[i]
    <3>1. \A i \in 1..(k - 1) : tests[i] \in TestSet
      BY <1>1, <2>1
    <3>. QED  BY <2>1, <3>1
  <2>3. \A i \in 1..k : y[i] = tests[i]
    OBVIOUS
  <2>. HIDE DEF s
  <2>4. z \in Seq(TestSet) /\ Len(z) = k /\ \A i \in 1..k : z[i] = tests[i]
    BY <2>1, <2>2
  <2>. HIDE DEF z
  <2>5. z = [i \in 1..k |-> z[i]]
    BY <2>4
  <2>6. y = [i \in 1..k |-> y[i]]
    OBVIOUS
  <2>. HIDE DEF y
  <2>7. z = y
    BY <2>3, <2>4, <2>5, <2>6
  <2>. QED  BY <2>7 DEF z, y, s
<1>13. Upto(0) = <<>>
  OBVIOUS
<1>. HIDE DEF Upto
<1>. DEFINE Good == {k \in 0..n : Joined(u[k]) = Upto(k)}
<1>14. 0 \in Good /\ \A k \in 1..n : k - 1 \in Good => k \in Good
  <2>1. 0 \in Good
    BY <1>1, <1>7, <1>13, NoBatches DEF InBatches
  <2>2. ASSUME NEW k \in 1..n, k - 1 \in Good PROVE k \in Good
    <3>1. Joined(u[k - 1]) = Upto(k - 1) /\ u[k - 1] \in V /\ tests[k] \in TestSet /\ k \in 0..n
      BY <1>1, <1>6, <2>2
    <3>2. Joined(u[k]) = Append(Joined(u[k - 1]), tests[k])
      BY <1>3, <1>7, <3>1
    <3>. QED  BY <1>12, <3>1, <3>2
  <2>. QED  BY <2>1, <2>2
<1>15. \A k \in 0..n : k \in Good
  <2>. HIDE DEF Good
  <2>. QED  BY <1>1, <1>14, Upward
<1>16. n \in 0..n
  BY <1>1
<1>17. Joined(u[n]) = tests /\ u[n] \in V
  BY <1>1, <1>5, <1>15, <1>16
<1>18. InBatches(u[n], Joined(u[n]))
  BY <1>17 DEF V
<1>. QED  BY <1>11, <1>17, <1>18

-----------------------------------------------------------------------------
(* The report log *)

Events == [node : Nodes, when : {"setup", "call", "teardown", "collect"},
           outcome : {"passed", "failed", "skipped"}]
Said == [Nodes -> Marks \cup {Unseen}]

\* What an event makes of what was said of its node.
Told(v, e) ==
  IF e.when = "call" THEN PhaseStatus[e.outcome]
  ELSE IF e.when \in {"setup", "teardown"} /\ e.outcome = "failed" THEN "error"
  ELSE IF e.when = "setup" /\ e.outcome = "skipped" /\ v = Unseen THEN "skip"
  ELSE v

LEMMA EventIs ==
  ASSUME NEW x, NEW w, NEW o
  PROVE  /\ Event(x, w, o).node = x /\ Event(x, w, o).when = w /\ Event(x, w, o).outcome = o
         /\ (x \in Nodes /\ w \in {"setup", "call", "teardown", "collect"}
               /\ o \in {"passed", "failed", "skipped"} => Event(x, w, o) \in Events)
BY DEF Event, Events

LEMMA TestNodes ==
  /\ \A t \in TestSet : t = <<t[1], t[2]>> /\ t[1] \in Modules /\ t \in Nodes /\ Len(t) = 2
  /\ \A m \in Modules : <<m>> \in Nodes /\ Len(<<m>>) = 1 /\ <<m>> \notin TestSet
  /\ \A m, k : <<m>> = <<k>> => m = k
  /\ \A x \in Nodes : x \in TestSet \/ \E m \in Modules : x = <<m>>
  /\ Listed \in Seq(TestSet) /\ OnceEach(Listed)
<1>. DEFINE pairs == {<<t[1], t[2]>> : t \in Elements(Listed)}
<1>1. Listed \in Seq(pairs) /\ OnceEach(Listed)
  BY OutcomesParameters
<1>2. TestSet \subseteq pairs /\ Listed \in Seq(TestSet)
  <2>1. DOMAIN Listed = 1..Len(Listed) /\ Len(Listed) \in Nat /\ \A i \in 1..Len(Listed) : Listed[i] \in pairs
    <3>. HIDE DEF pairs
    <3>. QED  BY <1>1
  <2>2. TestSet \subseteq pairs
    <3>. HIDE DEF pairs
    <3>. QED  BY <2>1 DEF TestSet, Elements
  <2>3. \A i \in 1..Len(Listed) : Listed[i] \in TestSet
    BY <2>1 DEF TestSet, Elements
  <2>4. Listed = [i \in 1..Len(Listed) |-> Listed[i]]
    <3>. HIDE DEF pairs
    <3>. QED  BY <1>1
  <2>. QED  BY <2>1, <2>2, <2>3, <2>4
<1>3. \A t \in TestSet : t = <<t[1], t[2]>>
  <2>1. \A t \in pairs : \E a, b : t = <<a, b>>
    OBVIOUS
  <2>. HIDE DEF pairs
  <2>. QED  BY <1>2, <2>1
<1>4. \A t \in TestSet : Len(t) = 2
  <2>1. \A a, b : Len(<<a, b>>) = 2
    OBVIOUS
  <2>. QED  BY <1>3, <2>1
<1>5. \A m, k : Len(<<m>>) = 1 /\ (<<m>> = <<k>> => m = k)
  OBVIOUS
<1>. QED  BY <1>1, <1>2, <1>3, <1>4, <1>5 DEF Modules, Nodes

LEMMA SeenIs ==
  ASSUME NEW st, NEW e, st \in Said, e \in Events
  PROVE  /\ Seen(st, e) \in Said /\ Seen(st, e)[e.node] = Told(st[e.node], e)
         /\ \A x \in Nodes : x # e.node => Seen(st, e)[x] = st[x]
<1>1. e.node \in Nodes /\ e.when \in {"setup", "call", "teardown", "collect"}
      /\ e.outcome \in {"passed", "failed", "skipped"}
  BY DEF Events
<1>2. CASE e.when = "call"
  <2>1. Seen(st, e) = [st EXCEPT ![e.node] = PhaseStatus[e.outcome]]
    BY <1>2 DEF Seen
  <2>2. PhaseStatus[e.outcome] \in Marks
    BY <1>1 DEF PhaseStatus, Marks
  <2>3. Told(st[e.node], e) = PhaseStatus[e.outcome]
    BY <1>2 DEF Told
  <2>. QED  BY <1>1, <2>1, <2>2, <2>3 DEF Said
<1>3. CASE e.when \in {"setup", "teardown"} /\ e.outcome = "failed"
  <2>1. Seen(st, e) = [st EXCEPT ![e.node] = "error"]
    BY <1>3 DEF Seen
  <2>2. Told(st[e.node], e) = "error" /\ "error" \in Marks
    BY <1>3 DEF Told, Marks
  <2>. QED  BY <1>1, <2>1, <2>2 DEF Said
<1>4. CASE e.when = "setup" /\ e.outcome = "skipped"
  <2>1. Seen(st, e) = [st EXCEPT ![e.node] = IF @ = Unseen THEN "skip" ELSE @]
    BY <1>4 DEF Seen
  <2>2. Told(st[e.node], e) = (IF st[e.node] = Unseen THEN "skip" ELSE st[e.node]) /\ "skip" \in Marks
    BY <1>4 DEF Told, Marks
  <2>. QED  BY <1>1, <2>1, <2>2 DEF Said
<1>5. CASE ~ (e.when = "call") /\ ~ (e.when \in {"setup", "teardown"} /\ e.outcome = "failed")
           /\ ~ (e.when = "setup" /\ e.outcome = "skipped")
  <2>1. Seen(st, e) = st
    BY <1>5 DEF Seen
  <2>2. Told(st[e.node], e) = st[e.node]
    BY <1>5 DEF Told
  <2>. QED  BY <2>1, <2>2
<1>. QED  BY <1>2, <1>3, <1>4, <1>5

Reads(u, events) ==
  u[0] = NoVerdicts /\ \A i \in 1..Len(events) : u[i] = Seen(u[i - 1], events[i])

LEMMA NothingSaid == NoVerdicts \in Said /\ \A x \in Nodes : NoVerdicts[x] = Unseen
BY DEF NoVerdicts, Said

LEMMA StatusIs ==
  ASSUME NEW events, events \in Seq(Events)
  PROVE  \E u : Reads(u, events) /\ StatusAfter(events) = u[Len(events)] /\ StatusAfter(events) \in Said
<1>. DEFINE n == Len(events)
            next == [x \in Said \X (1..n) |-> Seen(x[1], events[x[2]])]
            Defines(f) == f = [i \in 0..n |-> IF i = 0 THEN NoVerdicts ELSE Seen(f[i - 1], events[i])]
<1>1. n \in Nat /\ \A i \in 1..n : events[i] \in Events
  OBVIOUS
<1>. HIDE DEF n
<1>2. next \in [Said \X (1..n) -> Said]
      /\ \A x \in Said, i \in 1..n : next[<<x, i>>] = Seen(x, events[i])
  <2>1. \A x \in Said, i \in 1..n : Seen(x, events[i]) \in Said
    BY <1>1, SeenIs
  <2>. QED  BY <2>1
<1>3. PICK u \in [0..n -> Said] : Follows(u, n, NoVerdicts, next)
  <2>. HIDE DEF next
  <2>. QED  BY <1>1, <1>2, NothingSaid, StepsExist
<1>. HIDE DEF next
<1>4. \A i \in 1..n : i - 1 \in 0..n /\ u[i - 1] \in Said
  BY <1>1, <1>3
<1>5. u[0] = NoVerdicts /\ \A i \in 1..n : u[i] = Seen(u[i - 1], events[i])
  BY <1>2, <1>3, <1>4 DEF Follows
<1>6. Defines(u)
  BY <1>1, <1>3, <1>5
<1>7. ASSUME NEW f, Defines(f) PROVE f = u
  <2>0. 0 \in 0..n /\ \A i \in 1..n : i \in 0..n /\ i # 0
    BY <1>1
  <2>1. f[0] = NoVerdicts /\ \A i \in 1..n : f[i] = Seen(f[i - 1], events[i])
    BY <1>7, <2>0
  <2>2. StepAlike(f, u, n)
    BY <1>5, <2>1 DEF StepAlike
  <2>3. \A i \in 0..n : f[i] = u[i]
    BY <1>1, <2>2, StepsAgree DEF SameUpTo
  <2>4. f = [i \in 0..n |-> f[i]] /\ u = [i \in 0..n |-> u[i]]
    BY <1>3, <1>7
  <2>. QED  BY <2>3, <2>4
<1>8. u = CHOOSE f : Defines(f)
  <2>. HIDE DEF Defines
  <2>. QED  BY <1>6, <1>7
<1>9. StatusAfter(events) = u[n]
  BY <1>8 DEF StatusAfter, n
<1>10. n \in 0..n
  BY <1>1
<1>11. u[n] \in Said
  BY <1>3, <1>10
<1>. QED  BY <1>5, <1>9, <1>11 DEF Reads, n

LEMMA StatusMore ==
  ASSUME NEW events, NEW e, events \in Seq(Events), e \in Events
  PROVE  StatusAfter(events) \in Said /\ StatusAfter(Append(events, e)) = Seen(StatusAfter(events), e)
<1>. DEFINE n == Len(events)
            z == Append(events, e)
<1>1. n \in Nat /\ z \in Seq(Events) /\ Len(z) = n + 1 /\ z[n + 1] = e /\ \A i \in 1..n : z[i] = events[i]
  BY OneLonger
<1>2. PICK u : Reads(u, events) /\ StatusAfter(events) = u[Len(events)] /\ StatusAfter(events) \in Said
  BY StatusIs
<1>. HIDE DEF z
<1>3. PICK v : Reads(v, z) /\ StatusAfter(z) = v[Len(z)]
  BY <1>1, StatusIs
<1>4. n = Len(events)
  OBVIOUS
<1>. HIDE DEF n
<1>5. StepAlike(u, v, n)
  <2>1. \A i \in 1..n : i \in 1..(n + 1)
    BY <1>1
  <2>. QED  BY <1>1, <1>2, <1>3, <1>4, <2>1 DEF Reads, StepAlike
<1>6. \A i \in 0..n : u[i] = v[i]
  BY <1>1, <1>5, StepsAgree DEF SameUpTo
<1>7. n \in 0..n /\ n + 1 \in 1..(n + 1) /\ (n + 1) - 1 = n
  BY <1>1
<1>8. v[n + 1] = Seen(v[n], e)
  BY <1>1, <1>3, <1>7 DEF Reads
<1>. QED  BY <1>1, <1>2, <1>3, <1>4, <1>6, <1>7, <1>8 DEF z

-----------------------------------------------------------------------------
(* What the log says of a test is what its phases did *)

HasFailed(D) == \E p \in D : p.outcome = "failed"
HasPassed(D) == \E p \in D : p.when = "call" /\ p.outcome = "passed"
Says(v, D) ==
  /\ v = "pass" <=> HasPassed(D) /\ ~ HasFailed(D)
  /\ v \in {"fail", "error"} <=> HasFailed(D)

Phases(t, setup, call, teardown) ==
  LET calls == IF setup = "passed" THEN <<Event(t, "call", call)>> ELSE <<>>
  IN  <<Event(t, "setup", setup)>> \o calls \o <<Event(t, "teardown", teardown)>>

LEMMA OneMoreElement ==
  ASSUME NEW S, NEW m, NEW e, m \in Seq(S), e \in S
  PROVE  m \o <<e>> = Append(m, e) /\ Append(m, e) \in Seq(S) /\ Elements(Append(m, e)) = Elements(m) \cup {e}
<1>. DEFINE one == <<e>>
<1>1. one \in Seq(S) /\ Elements(one) = {e} /\ m \o one = Append(m, e) /\ Append(m, e) \in Seq(S)
  BY OneElement
<1>. HIDE DEF one
<1>2. one \in Seq(S) /\ m \in Seq(S)
  BY <1>1
<1>3. Elements(m \o one) = Elements(m) \cup Elements(one)
  BY <1>2, JoinElements
<1>. QED  BY <1>1, <1>3 DEF one

LongerBy(l, a, b, c) ==
  /\ l \o (<<a>> \o <<b>> \o <<c>>) = Append(Append(Append(l, a), b), c)
  /\ l \o (<<a>> \o <<>> \o <<c>>) = Append(Append(l, a), c)
  /\ Elements(<<a>> \o <<b>> \o <<c>>) = {a, b, c} /\ Elements(<<a>> \o <<>> \o <<c>>) = {a, c}

LEMMA TwoOrThree ==
  ASSUME NEW S, NEW l, NEW a, NEW b, NEW c, l \in Seq(S), a \in S, b \in S, c \in S
  PROVE  LongerBy(l, a, b, c)
<1>. DEFINE x == <<a>>
            y == <<b>>
            z == <<c>>
<1>1. /\ x \in Seq(S) /\ y \in Seq(S) /\ z \in Seq(S)
      /\ Elements(x) = {a} /\ Elements(y) = {b} /\ Elements(z) = {c}
  BY OneElement
<1>2. \A m \in Seq(S) : m \o x = Append(m, a) /\ m \o y = Append(m, b) /\ m \o z = Append(m, c)
                        /\ Append(m, a) \in Seq(S) /\ Append(m, b) \in Seq(S)
  BY OneMoreElement
<1>. HIDE DEF x, y, z
<1>3. x \o <<>> = x
  BY <1>1, ConcatEmptySeq
<1>4. x \o y \in Seq(S) /\ Elements(x \o y) = Elements(x) \cup Elements(y)
  BY <1>1, JoinElements
<1>. DEFINE w == x \o y
<1>13. w \in Seq(S) /\ z \in Seq(S) /\ l \in Seq(S)
  BY <1>1, <1>4
<1>. HIDE DEF w
<1>5. Elements(w \o z) = Elements(w) \cup Elements(z)
  BY <1>13, JoinElements
<1>6. Elements(x \o z) = Elements(x) \cup Elements(z)
  BY <1>1, JoinElements
<1>7. l \o (w \o z) = (l \o w) \o z
  BY <1>13, ConcatAssociative
<1>8. l \o (x \o y) = (l \o x) \o y
  BY <1>1, ConcatAssociative
<1>9. l \o (x \o z) = (l \o x) \o z
  BY <1>1, ConcatAssociative
<1>10. (l \o x) \o y = Append(Append(l, a), b) /\ ((l \o x) \o y) \o z = Append(Append(Append(l, a), b), c)
       /\ (l \o x) \o z = Append(Append(l, a), c)
  BY <1>2
<1>11. Elements((x \o y) \o z) = {a, b, c} /\ Elements(x \o z) = {a, c}
  BY <1>1, <1>4, <1>5, <1>6 DEF w
<1>12. l \o ((x \o y) \o z) = Append(Append(Append(l, a), b), c) /\ l \o (x \o z) = Append(Append(l, a), c)
  BY <1>7, <1>8, <1>9, <1>10 DEF w
<1>. QED  BY <1>3, <1>11, <1>12 DEF x, y, z, LongerBy

Logged(l, phases, setup, a, b, c) ==
  /\ a \in Events /\ b \in Events /\ c \in Events
  /\ setup = "passed" => /\ l \o phases = Append(Append(Append(l, a), b), c)
                         /\ Elements(phases) = {a, b, c}
  /\ setup # "passed" => /\ l \o phases = Append(Append(l, a), c)
                         /\ Elements(phases) = {a, c}

LEMMA PhasesAre ==
  ASSUME NEW l, NEW t, NEW setup, NEW call, NEW teardown,
         l \in Seq(Events), t \in TestSet, setup \in {"passed", "failed", "skipped"},
         call \in {"passed", "failed", "skipped"}, teardown \in {"passed", "failed"}
  PROVE  Logged(l, Phases(t, setup, call, teardown), setup,
                Event(t, "setup", setup), Event(t, "call", call), Event(t, "teardown", teardown))
<1>. DEFINE a == Event(t, "setup", setup)
            b == Event(t, "call", call)
            c == Event(t, "teardown", teardown)
<1>1. a \in Events /\ b \in Events /\ c \in Events
  BY TestNodes, EventIs
<1>2. Phases(t, setup, call, teardown) = <<a>> \o (IF setup = "passed" THEN <<b>> ELSE <<>>) \o <<c>>
  BY DEF Phases
<1>. HIDE DEF a, b, c
<1>3. /\ l \o (<<a>> \o <<b>> \o <<c>>) = Append(Append(Append(l, a), b), c)
      /\ l \o (<<a>> \o <<>> \o <<c>>) = Append(Append(l, a), c)
      /\ Elements(<<a>> \o <<b>> \o <<c>>) = {a, b, c} /\ Elements(<<a>> \o <<>> \o <<c>>) = {a, c}
  <2>1. LongerBy(l, a, b, c)
    BY <1>1, TwoOrThree
  <2>. QED  BY <2>1 DEF LongerBy
<1>4. CASE setup = "passed"
  <2>1. Phases(t, setup, call, teardown) = <<a>> \o <<b>> \o <<c>>
    BY <1>2, <1>4
  <2>. QED  BY <1>1, <1>3, <1>4, <2>1 DEF a, b, c, Logged
<1>5. CASE setup # "passed"
  <2>1. Phases(t, setup, call, teardown) = <<a>> \o <<>> \o <<c>>
    BY <1>2, <1>5
  <2>. QED  BY <1>1, <1>3, <1>5, <2>1 DEF a, b, c, Logged
<1>. QED  BY <1>4, <1>5

LEMMA PhasesSay ==
  ASSUME NEW l, NEW t, NEW setup, NEW call, NEW teardown,
         l \in Seq(Events), t \in TestSet, StatusAfter(l)[t] = Unseen,
         setup \in {"passed", "failed", "skipped"},
         call \in {"passed", "failed", "skipped"}, teardown \in {"passed", "failed"}
  PROVE  LET phases == Phases(t, setup, call, teardown)
             st == StatusAfter(l \o phases)
         IN  /\ l \o phases \in Seq(Events) /\ st \in Said
             /\ Elements(phases) \subseteq Events
             /\ \A e \in Elements(phases) : ~ Uncollected(e)
             /\ \A x \in Nodes : x # t => st[x] = StatusAfter(l)[x]
             /\ Says(st[t], Elements(phases))
             /\ Elements(l \o phases) = Elements(l) \cup Elements(phases)
<1>. DEFINE a == Event(t, "setup", setup)
            b == Event(t, "call", call)
            c == Event(t, "teardown", teardown)
            phases == Phases(t, setup, call, teardown)
            s0 == StatusAfter(l)
            la == Append(l, a)
            lb == Append(la, b)
<1>1. /\ a \in Events /\ b \in Events /\ c \in Events
      /\ setup = "passed" => l \o phases = Append(lb, c) /\ Elements(phases) = {a, b, c}
      /\ setup # "passed" => l \o phases = Append(la, c) /\ Elements(phases) = {a, c}
  <2>1. Logged(l, phases, setup, a, b, c)
    BY PhasesAre
  <2>. HIDE DEF a, b, c, phases
  <2>. QED  BY <2>1 DEF Logged, la, lb
<1>2. /\ a.node = t /\ a.when = "setup" /\ a.outcome = setup
      /\ b.node = t /\ b.when = "call" /\ b.outcome = call
      /\ c.node = t /\ c.when = "teardown" /\ c.outcome = teardown
  BY EventIs
<1>. HIDE DEF a, b, c, phases
<1>3. la \in Seq(Events) /\ lb \in Seq(Events)
  BY <1>1
<1>4. Append(lb, c) \in Seq(Events) /\ Append(la, c) \in Seq(Events)
  <2>. HIDE DEF la, lb
  <2>. QED  BY <1>1, <1>3
<1>5. /\ Elements(la) = Elements(l) \cup {a} /\ Elements(lb) = Elements(la) \cup {b}
      /\ Elements(Append(lb, c)) = Elements(lb) \cup {c} /\ Elements(Append(la, c)) = Elements(la) \cup {c}
  <2>1. \A m \in Seq(Events), e \in Events : Elements(Append(m, e)) = Elements(m) \cup {e}
    BY OneMoreElement
  <2>. HIDE DEF la, lb
  <2>2. Elements(Append(lb, c)) = Elements(lb) \cup {c} /\ Elements(Append(la, c)) = Elements(la) \cup {c}
    BY <1>1, <1>3, <2>1
  <2>3. Elements(la) = Elements(l) \cup {a} /\ Elements(lb) = Elements(la) \cup {b}
    BY <1>1, <1>3, <2>1 DEF la, lb
  <2>. QED  BY <2>2, <2>3
<1>6. s0 \in Said /\ StatusAfter(la) = Seen(s0, a) /\ StatusAfter(lb) = Seen(StatusAfter(la), b)
      /\ StatusAfter(Append(lb, c)) = Seen(StatusAfter(lb), c)
      /\ StatusAfter(Append(la, c)) = Seen(StatusAfter(la), c)
  <2>1. s0 \in Said /\ StatusAfter(la) = Seen(s0, a)
    BY <1>1, StatusMore
  <2>2. StatusAfter(lb) = Seen(StatusAfter(la), b)
    <3>. HIDE DEF la
    <3>. QED  BY <1>1, <1>3, StatusMore
  <2>. HIDE DEF la, lb
  <2>. QED  BY <1>1, <1>3, <2>1, <2>2, StatusMore
<1>. HIDE DEF la, lb, s0
<1>. DEFINE sa == StatusAfter(la)
            sb == StatusAfter(lb)
            sac == StatusAfter(Append(la, c))
            sbc == StatusAfter(Append(lb, c))
<1>7. /\ sa \in Said /\ sa[t] = Told(s0[t], a) /\ \A x \in Nodes : x # t => sa[x] = s0[x]
  BY <1>1, <1>2, <1>6, SeenIs
<1>8. /\ sb \in Said /\ sb[t] = Told(sa[t], b) /\ \A x \in Nodes : x # t => sb[x] = sa[x]
  <2>. HIDE DEF sa
  <2>. QED  BY <1>1, <1>2, <1>6, <1>7, SeenIs DEF sa
<1>9. /\ sac \in Said /\ sac[t] = Told(sa[t], c) /\ \A x \in Nodes : x # t => sac[x] = sa[x]
  BY <1>1, <1>2, <1>6, <1>7, SeenIs
<1>10. /\ sbc \in Said /\ sbc[t] = Told(sb[t], c) /\ \A x \in Nodes : x # t => sbc[x] = sb[x]
  BY <1>1, <1>2, <1>6, <1>8, SeenIs
<1>. HIDE DEF sa, sb, sac, sbc
<1>11. s0[t] = Unseen
  BY DEF s0
<1>12. Unseen \notin Marks
  BY OutcomesParameters
<1>13. \A e \in {a, b, c} : ~ Uncollected(e)
  BY <1>2 DEF Uncollected
<1>14. CASE setup = "passed"
  <2>1. sa[t] = Unseen
    BY <1>2, <1>7, <1>11, <1>14 DEF Told
  <2>2. sb[t] = PhaseStatus[call]
    BY <1>2, <1>8 DEF Told
  <2>3. sbc[t] = IF teardown = "failed" THEN "error" ELSE PhaseStatus[call]
    BY <1>2, <1>10, <2>2 DEF Told
  <2>4. HasFailed({a, b, c}) <=> call = "failed" \/ teardown = "failed"
    BY <1>2, <1>14 DEF HasFailed
  <2>5. HasPassed({a, b, c}) <=> call = "passed"
    BY <1>2 DEF HasPassed
  <2>6. Says(sbc[t], {a, b, c})
    BY <2>3, <2>4, <2>5 DEF Says, PhaseStatus
  <2>7. \A x \in Nodes : x # t => sbc[x] = s0[x]
    BY <1>7, <1>8, <1>10
  <2>8. Elements(Append(lb, c)) = Elements(l) \cup {a, b, c}
    BY <1>5
  <2>9. l \o phases = Append(lb, c) /\ Elements(phases) = {a, b, c}
    BY <1>1, <1>14
  <2>. QED  BY <1>1, <1>4, <1>10, <1>13, <2>6, <2>7, <2>8, <2>9 DEF phases, sbc, s0
<1>15. CASE setup # "passed"
  <2>1. sa[t] = IF setup = "failed" THEN "error" ELSE "skip"
    BY <1>2, <1>7, <1>11, <1>15 DEF Told
  <2>2. sac[t] = IF setup = "failed" \/ teardown = "failed" THEN "error" ELSE "skip"
    BY <1>2, <1>9, <2>1 DEF Told
  <2>3. HasFailed({a, c}) <=> setup = "failed" \/ teardown = "failed"
    BY <1>2 DEF HasFailed
  <2>4. ~ HasPassed({a, c})
    BY <1>2 DEF HasPassed
  <2>5. Says(sac[t], {a, c})
    BY <2>2, <2>3, <2>4 DEF Says
  <2>6. \A x \in Nodes : x # t => sac[x] = s0[x]
    BY <1>7, <1>9
  <2>7. Elements(Append(la, c)) = Elements(l) \cup {a, c}
    BY <1>5
  <2>8. l \o phases = Append(la, c) /\ Elements(phases) = {a, c}
    BY <1>1, <1>15
  <2>. QED  BY <1>1, <1>4, <1>9, <1>13, <2>5, <2>6, <2>7, <2>8 DEF phases, sac, s0
<1>. QED  BY <1>14, <1>15

-----------------------------------------------------------------------------
(* The invariant *)

\* The tests of the batch that runs which it has not come to.
Waiting == IF batches = <<>> THEN {} ELSE Elements(batches[1])

\* Of the tests that ran the log says what they did, of the modules that do
\* not import and whose turn came that they do not.
LogInv ==
  LET st == StatusAfter(log)
  IN  /\ st \in Said /\ did \in [TestSet -> SUBSET Events]
      /\ \A t \in TestSet : Says(st[t], did[t])
      /\ \A t \in Waiting : st[t] = Unseen
      /\ \A m \in Modules : st[<<m>>] = Unseen
      /\ \A e \in Elements(log) : Uncollected(e) => \E m \in broken : e.node = <<m>>
      /\ \A t \in TestSet \ Waiting : t[1] \in broken =>
           \E e \in Elements(log) : e.node = <<t[1]>> /\ Uncollected(e)

\* When all ran, the outcomes say it.
KnownInv ==
  /\ \A t \in TestSet : Says(outcomes[t], did[t])
  /\ \A m \in Modules : outcomes[<<m>>] \in {"fail", "error"} <=> m \in broken

OneBatch(rest) == rest \in Seq(TestSet) /\ OnceEach(rest) /\ batches = <<rest>>

OutInv ==
  /\ checkout \in {"base", "child", "scored"} /\ broken \subseteq Modules
  /\ outcomes \in Said /\ log \in Seq(Events) /\ pre \subseteq Nodes /\ full \subseteq Nodes
  /\ batches # <<>> => (\E rest : OneBatch(rest)) /\ outcomes = NoVerdicts /\ LogInv
  /\ batches = <<>> => log = <<>> /\ KnownInv
  /\ checkout = "scored" => batches = <<>> /\ full = Delta
  /\ sel \subseteq TestSet

LEMMA FirstOf ==
  ASSUME NEW S, NEW r, r \in Seq(S), r # <<>>, OnceEach(r)
  PROVE  /\ Head(r) \in S /\ Head(r) \in Elements(r) /\ Tail(r) \in Seq(S) /\ OnceEach(Tail(r))
         /\ Elements(Tail(r)) = Elements(r) \ {Head(r)}
<1>. DEFINE n == Len(r)
            z == Tail(r)
<1>1. n \in Nat /\ n # 0 /\ DOMAIN r = 1..n /\ Head(r) = r[1] /\ \A i \in 1..n : r[i] \in S
  OBVIOUS
<1>2. z \in Seq(S) /\ Len(z) = n - 1 /\ \A i \in 1..(n - 1) : z[i] = r[i + 1]
  <2>1. z \in Seq(S) /\ Len(z) = n - 1
    OBVIOUS
  <2>. QED  BY <2>1
<1>3. DOMAIN z = 1..(n - 1)
  BY <1>2
<1>. HIDE DEF n, z
<1>4. 1 \in 1..n /\ (\A i \in 1..(n - 1) : i + 1 \in 1..n /\ i + 1 # 1)
      /\ \A i \in 1..n : i = 1 \/ (i - 1 \in 1..(n - 1) /\ (i - 1) + 1 = i)
  BY <1>1
<1>5. OnceEach(z)
  <2>1. ASSUME NEW i \in 1..(n - 1), NEW k \in 1..(n - 1), z[i] = z[k] PROVE i = k
    <3>1. z[i] = r[i + 1] /\ z[k] = r[k + 1] /\ i + 1 \in DOMAIN r /\ k + 1 \in DOMAIN r
      BY <1>1, <1>2, <1>4
    <3>2. i + 1 = k + 1
      BY <2>1, <3>1 DEF OnceEach
    <3>. QED  BY <3>2
  <2>. QED  BY <1>3, <2>1 DEF OnceEach
<1>6. \A i \in 1..(n - 1) : z[i] \in Elements(r) /\ z[i] # r[1]
  BY <1>1, <1>2, <1>4 DEF OnceEach, Elements
<1>7. ASSUME NEW i \in 1..n PROVE r[i] = r[1] \/ r[i] \in Elements(z)
  <2>1. CASE i - 1 \in 1..(n - 1) /\ (i - 1) + 1 = i
    <3>1. z[i - 1] = r[i]
      BY <1>2, <2>1
    <3>. QED  BY <1>3, <2>1, <3>1 DEF Elements
  <2>. QED  BY <1>4, <2>1
<1>8. Elements(z) = Elements(r) \ {r[1]}
  BY <1>1, <1>3, <1>6, <1>7 DEF Elements
<1>. QED  BY <1>1, <1>2, <1>4, <1>5, <1>8 DEF Elements, z

LEMMA BatchesAre ==
  ASSUME NEW rest, OneBatch(rest)
  PROVE  /\ Head(batches) = rest /\ Tail(batches) = <<>> /\ Waiting = Elements(rest)
         /\ <<Tail(rest)>> \o Tail(batches) = <<Tail(rest)>> /\ batches # <<>>
<1>1. \A r : Head(<<r>>) = r /\ Tail(<<r>>) = <<>> /\ <<r>> # <<>> /\ (<<r>>)[1] = r
  OBVIOUS
<1>2. \A r : <<r>> \o <<>> = <<r>>
  <2>. SUFFICES ASSUME NEW r PROVE <<r>> \o <<>> = <<r>>
    OBVIOUS
  <2>. DEFINE one == <<r>>
  <2>1. one \in Seq({r})
    OBVIOUS
  <2>. HIDE DEF one
  <2>2. one \o <<>> = one
    BY <2>1, ConcatEmptySeq
  <2>. QED  BY <2>2 DEF one
<1>. QED  BY <1>1, <1>2 DEF OneBatch, Waiting

LEMMA NoOneSays ==
  ASSUME NEW v, v = Unseen PROVE Says(v, {})
BY OutcomesParameters DEF Says, HasFailed, HasPassed, Marks

\* A suite that starts waits for all its tests.
LEMMA SuiteStarts ==
  ASSUME batches' = Batches(<<>>), log' = <<>>, did' = [t \in TestSet |-> {}]
  PROVE  OneBatch(Listed)' /\ LogInv' /\ (batches # <<>>)'
<1>1. batches' = <<Listed>>
  BY DEF Batches
<1>2. OneBatch(Listed)'
  BY <1>1, TestNodes DEF OneBatch
<1>3. Waiting' = TestSet /\ batches' # <<>>
  <2>1. \A r : <<r>> # <<>> /\ (<<r>>)[1] = r
    OBVIOUS
  <2>. QED  BY <1>1, <2>1 DEF Waiting, TestSet
<1>4. <<>> \in Seq(Events) /\ Len(<<>>) = 0
  OBVIOUS
<1>5. StatusAfter(<<>>) = NoVerdicts /\ Elements(<<>>) = {}
  BY <1>4, StatusIs, NoElements DEF Reads
<1>6. LogInv'
  <2>1. \A t \in TestSet : NoVerdicts[t] = Unseen /\ did'[t] = {}
    BY NothingSaid, TestNodes
  <2>2. \A m \in Modules : NoVerdicts[<<m>>] = Unseen
    BY NothingSaid, TestNodes
  <2>3. \A t \in TestSet : Says(NoVerdicts[t], did'[t])
    BY <2>1, NoOneSays
  <2>4. did' \in [TestSet -> SUBSET Events]
    OBVIOUS
  <2>. QED  BY <1>3, <1>5, <2>1, <2>2, <2>3, <2>4, NothingSaid DEF LogInv
<1>. QED  BY <1>2, <1>3, <1>6

LEMMA OutStarts ==
  ASSUME OutInit PROVE OutInv
<1>1. batches = <<Listed>>
  BY DEF OutInit, Batches
<1>2. OneBatch(Listed)
  BY <1>1, TestNodes DEF OneBatch
<1>3. Waiting = TestSet /\ batches # <<>>
  <2>1. \A r : <<r>> # <<>> /\ (<<r>>)[1] = r
    OBVIOUS
  <2>. QED  BY <1>1, <2>1 DEF Waiting, TestSet
<1>4. <<>> \in Seq(Events) /\ Len(<<>>) = 0
  OBVIOUS
<1>5. StatusAfter(<<>>) = NoVerdicts /\ Elements(<<>>) = {}
  BY <1>4, StatusIs, NoElements DEF Reads
<1>6. log = <<>> /\ did = [t \in TestSet |-> {}] /\ outcomes = NoVerdicts
  BY DEF OutInit
<1>7. LogInv
  <2>1. \A t \in TestSet : NoVerdicts[t] = Unseen /\ did[t] = {}
    BY <1>6, NothingSaid, TestNodes
  <2>2. \A m \in Modules : NoVerdicts[<<m>>] = Unseen
    BY NothingSaid, TestNodes
  <2>3. \A t \in TestSet : Says(NoVerdicts[t], did[t])
    BY <2>1, NoOneSays
  <2>4. did \in [TestSet -> SUBSET Events]
    BY <1>6
  <2>. QED  BY <1>3, <1>5, <1>6, <2>1, <2>2, <2>3, <2>4, NothingSaid DEF LogInv
<1>. QED  BY <1>2, <1>3, <1>4, <1>6, <1>7, NothingSaid DEF OutInv, OutInit

LEMMA RunTestKeeps ==
  ASSUME OutInv, NEW setup \in {"passed", "failed", "skipped"},
         NEW call \in {"passed", "failed", "skipped"}, NEW teardown \in {"passed", "failed"},
         RunTest(setup, call, teardown)
  PROVE  OutInv'
<1>. DEFINE t == Head(Head(batches))
            phases == Phases(t, setup, call, teardown)
            l == log \o phases
<1>1. /\ batches # <<>> /\ Head(batches) # <<>> /\ t \in Collected /\ checkout # "scored"
      /\ log' = l /\ did' = [did EXCEPT ![t] = Elements(phases)]
      /\ batches' = <<Tail(Head(batches))>> \o Tail(batches)
      /\ UNCHANGED <<checkout, broken, outcomes, pre, full, sel>>
  BY DEF RunTest, Phases
<1>2. PICK rest : OneBatch(rest)
  BY <1>1 DEF OutInv
<1>3. Head(batches) = rest /\ Tail(batches) = <<>> /\ Waiting = Elements(rest)
      /\ <<Tail(rest)>> \o Tail(batches) = <<Tail(rest)>>
  BY <1>2, BatchesAre
<1>4. rest \in Seq(TestSet) /\ OnceEach(rest) /\ rest # <<>>
  BY <1>1, <1>2, <1>3 DEF OneBatch
<1>5. /\ t = Head(rest) /\ t \in TestSet /\ t \in Waiting /\ Tail(rest) \in Seq(TestSet)
      /\ OnceEach(Tail(rest)) /\ Elements(Tail(rest)) = Waiting \ {t}
  BY <1>3, <1>4, FirstOf
<1>6. batches' = <<Tail(rest)>>
  BY <1>1, <1>3
<1>7. OneBatch(Tail(rest))' /\ batches' # <<>> /\ Waiting' = Waiting \ {t}
  <2>1. \A r : <<r>> # <<>> /\ (<<r>>)[1] = r
    OBVIOUS
  <2>2. OneBatch(Tail(rest))'
    <3>. DEFINE after == Tail(rest)
    <3>1. after \in Seq(TestSet) /\ OnceEach(after) /\ batches' = <<after>>
      BY <1>5, <1>6
    <3>2. after' = after
      OBVIOUS
    <3>. HIDE DEF after
    <3>. QED  BY <3>1, <3>2 DEF OneBatch, after
  <2>. QED  BY <1>5, <1>6, <2>1, <2>2 DEF Waiting
<1>8. LogInv /\ outcomes = NoVerdicts /\ log \in Seq(Events)
  BY <1>1 DEF OutInv
<1>. HIDE DEF t, phases, l
<1>9. /\ l \in Seq(Events) /\ StatusAfter(l) \in Said /\ Elements(phases) \subseteq Events
      /\ \A e \in Elements(phases) : ~ Uncollected(e)
      /\ \A x \in Nodes : x # t => StatusAfter(l)[x] = StatusAfter(log)[x]
      /\ Says(StatusAfter(l)[t], Elements(phases))
      /\ Elements(l) = Elements(log) \cup Elements(phases)
  <2>1. StatusAfter(log)[t] = Unseen
    BY <1>5, <1>8 DEF LogInv
  <2>. QED  BY <1>5, <1>8, <2>1, PhasesSay DEF l, phases
<1>10. LogInv'
  <2>1. did' \in [TestSet -> SUBSET Events] /\ did'[t] = Elements(phases)
        /\ \A x \in TestSet : x # t => did'[x] = did[x]
    BY <1>1, <1>5, <1>8, <1>9 DEF LogInv
  <2>2. \A x \in TestSet : Says(StatusAfter(l)[x], did'[x])
    BY <1>8, <1>9, <2>1, TestNodes DEF LogInv
  <2>3. \A x \in Waiting' : StatusAfter(l)[x] = Unseen
    <3>1. Waiting \subseteq TestSet
      BY <1>3, <1>4, InElements
    <3>. QED  BY <1>7, <1>8, <1>9, <3>1, TestNodes DEF LogInv
  <2>4. \A m \in Modules : StatusAfter(l)[<<m>>] = Unseen
    <3>1. \A m \in Modules : <<m>> # t /\ <<m>> \in Nodes
      BY <1>5, TestNodes
    <3>. QED  BY <1>8, <1>9, <3>1 DEF LogInv
  <2>5. \A e \in Elements(l) : Uncollected(e) => \E m \in broken : e.node = <<m>>
    BY <1>8, <1>9 DEF LogInv
  <2>6. \A x \in TestSet \ Waiting' : x[1] \in broken =>
          \E e \in Elements(l) : e.node = <<x[1]>> /\ Uncollected(e)
    <3>1. t[1] \notin broken
      BY <1>1 DEF Collected
    <3>. QED  BY <1>7, <1>8, <1>9, <3>1 DEF LogInv
  <2>. QED  BY <1>1, <1>9, <2>1, <2>2, <2>3, <2>4, <2>5, <2>6 DEF LogInv
<1>. QED  BY <1>1, <1>7, <1>8, <1>9, <1>10 DEF OutInv, Delta, Failing

LEMMA NotCollectedKeeps ==
  ASSUME OutInv, NotCollected PROVE OutInv'
<1>. DEFINE t == Head(Head(batches))
            e == Event(<<t[1]>>, "collect", "failed")
            l == Append(log, e)
<1>1. /\ batches # <<>> /\ Head(batches) # <<>> /\ t \notin Collected /\ checkout # "scored"
      /\ log' = l /\ batches' = <<Tail(Head(batches))>> \o Tail(batches)
      /\ UNCHANGED <<checkout, broken, outcomes, pre, full, did, sel>>
  BY DEF NotCollected
<1>2. PICK rest : OneBatch(rest)
  BY <1>1 DEF OutInv
<1>3. Head(batches) = rest /\ Tail(batches) = <<>> /\ Waiting = Elements(rest)
      /\ <<Tail(rest)>> \o Tail(batches) = <<Tail(rest)>>
  BY <1>2, BatchesAre
<1>4. rest \in Seq(TestSet) /\ OnceEach(rest) /\ rest # <<>>
  BY <1>1, <1>2, <1>3 DEF OneBatch
<1>5. /\ t = Head(rest) /\ t \in TestSet /\ t \in Waiting /\ Tail(rest) \in Seq(TestSet)
      /\ OnceEach(Tail(rest)) /\ Elements(Tail(rest)) = Waiting \ {t}
  BY <1>3, <1>4, FirstOf
<1>6. batches' = <<Tail(rest)>>
  BY <1>1, <1>3
<1>7. OneBatch(Tail(rest))' /\ batches' # <<>> /\ Waiting' = Waiting \ {t}
  <2>1. \A r : <<r>> # <<>> /\ (<<r>>)[1] = r
    OBVIOUS
  <2>2. OneBatch(Tail(rest))'
    <3>. DEFINE after == Tail(rest)
    <3>1. after \in Seq(TestSet) /\ OnceEach(after) /\ batches' = <<after>>
      BY <1>5, <1>6
    <3>2. after' = after
      OBVIOUS
    <3>. HIDE DEF after
    <3>. QED  BY <3>1, <3>2 DEF OneBatch, after
  <2>. QED  BY <1>5, <1>6, <2>1, <2>2 DEF Waiting
<1>8. LogInv /\ outcomes = NoVerdicts /\ log \in Seq(Events)
  BY <1>1 DEF OutInv
<1>. HIDE DEF t
<1>9. e \in Events /\ e.node = <<t[1]>> /\ e.when = "collect" /\ e.outcome = "failed"
      /\ t[1] \in broken
  <2>1. <<t[1]>> \in Nodes /\ t[1] \in Modules
    BY <1>5, TestNodes
  <2>2. t[1] \in broken
    BY <1>1, <1>5 DEF Collected
  <2>. QED  BY <2>1, <2>2, EventIs
<1>. HIDE DEF e
<1>10. l \in Seq(Events) /\ Elements(l) = Elements(log) \cup {e}
  BY <1>8, <1>9, OneMoreElement
<1>11. StatusAfter(l) = StatusAfter(log)
  <2>1. StatusAfter(l) = Seen(StatusAfter(log), e)
    BY <1>8, <1>9, StatusMore
  <2>2. Seen(StatusAfter(log), e) = StatusAfter(log)
    BY <1>9 DEF Seen
  <2>. QED  BY <2>1, <2>2
<1>. HIDE DEF l
<1>12. Uncollected(e)
  BY <1>9 DEF Uncollected
<1>13. LogInv'
  <2>1. \A k \in Elements(l) : Uncollected(k) => \E m \in broken : k.node = <<m>>
    BY <1>8, <1>9, <1>10 DEF LogInv
  <2>2. \A x \in TestSet \ Waiting' : x[1] \in broken =>
          \E k \in Elements(l) : k.node = <<x[1]>> /\ Uncollected(k)
    BY <1>7, <1>8, <1>9, <1>10, <1>12 DEF LogInv
  <2>. QED  BY <1>1, <1>7, <1>8, <1>11, <2>1, <2>2 DEF LogInv
<1>. QED  BY <1>1, <1>7, <1>8, <1>10, <1>13 DEF OutInv, Delta, Failing

LEMMA EndBatchKeeps ==
  ASSUME OutInv, EndBatch PROVE OutInv'
<1>. DEFINE st == StatusAfter(log)
            p == Parsed(log)
<1>1. /\ batches # <<>> /\ Head(batches) = <<>>
      /\ outcomes' = Merged(outcomes, p) /\ log' = <<>> /\ batches' = Tail(batches)
      /\ UNCHANGED <<checkout, broken, pre, full, did, sel>>
  BY DEF EndBatch
<1>2. PICK rest : OneBatch(rest)
  BY <1>1 DEF OutInv
<1>3. Head(batches) = rest /\ Tail(batches) = <<>> /\ Waiting = Elements(rest)
  BY <1>2, BatchesAre
<1>4. Waiting = {} /\ batches' = <<>>
  BY <1>1, <1>3, NoElements
<1>5. LogInv /\ outcomes = NoVerdicts /\ log \in Seq(Events) /\ checkout # "scored"
  BY <1>1 DEF OutInv
<1>6. st \in Said
  BY <1>5 DEF LogInv
<1>7. \A x \in Nodes : p[x] = IF st[x] = Unseen /\ (\E e \in Elements(log) : e.node = x /\ Uncollected(e))
                             THEN "error" ELSE st[x]
  BY DEF Parsed
<1>8. p \in Said
  BY <1>6 DEF Parsed, Said, Marks
<1>9. outcomes' = p
  <2>1. \A x \in Nodes : Merged(NoVerdicts, p)[x] = p[x]
    BY NothingSaid DEF Merged
  <2>2. Merged(NoVerdicts, p) = [x \in Nodes |-> Merged(NoVerdicts, p)[x]]
    BY DEF Merged
  <2>3. p = [x \in Nodes |-> p[x]]
    BY <1>8 DEF Said
  <2>. HIDE DEF p
  <2>. QED  BY <1>1, <1>5, <2>1, <2>2, <2>3
<1>. HIDE DEF p
<1>10. KnownInv'
  <2>1. ASSUME NEW t \in TestSet PROVE Says(p[t], did[t])
    <3>1. t \in Nodes /\ \A m : <<m>> # t
      <4>1. Len(t) = 2 /\ t \in Nodes /\ \A m : Len(<<m>>) = 1
        BY TestNodes
      <4>. QED  BY <4>1
    <3>2. ~\E e \in Elements(log) : e.node = t /\ Uncollected(e)
      <4>1. ASSUME NEW e \in Elements(log), e.node = t, Uncollected(e) PROVE FALSE
        <5>1. \E m \in broken : e.node = <<m>>
          BY <1>5, <4>1 DEF LogInv
        <5>. QED  BY <3>1, <4>1, <5>1
      <4>. QED  BY <4>1
    <3>3. p[t] = st[t]
      BY <1>7, <3>1, <3>2
    <3>. QED  BY <1>5, <3>3 DEF LogInv
  <2>2. ASSUME NEW m \in Modules PROVE p[<<m>>] \in {"fail", "error"} <=> m \in broken
    <3>1. <<m>> \in Nodes /\ st[<<m>>] = Unseen
      BY <1>5, TestNodes DEF LogInv
    <3>2. Unseen \notin {"fail", "error"}
      BY OutcomesParameters DEF Marks
    <3>3. (\E e \in Elements(log) : e.node = <<m>> /\ Uncollected(e)) => m \in broken
      BY <1>5, TestNodes DEF LogInv
    <3>4. m \in broken => \E e \in Elements(log) : e.node = <<m>> /\ Uncollected(e)
      <4>1. PICK t \in TestSet : m = t[1]
        BY DEF Modules
      <4>. QED  BY <1>4, <1>5, <4>1 DEF LogInv
    <3>. QED  BY <1>7, <3>1, <3>2, <3>3, <3>4
  <2>. QED  BY <1>1, <1>9, <2>1, <2>2 DEF KnownInv
<1>11. <<>> \in Seq(Events)
  OBVIOUS
<1>. QED  BY <1>1, <1>4, <1>5, <1>8, <1>9, <1>10, <1>11 DEF OutInv

LEMMA BaseDoneKeeps ==
  ASSUME OutInv, NEW breaks \in SUBSET Modules, BaseDone(breaks) PROVE OutInv'
<1>1. /\ batches = <<>> /\ pre' = Failing(outcomes) /\ checkout' = "child" /\ broken' = breaks
      /\ batches' = Batches(<<>>) /\ outcomes' = NoVerdicts /\ did' = [t \in TestSet |-> {}]
      /\ UNCHANGED <<log, full, sel>>
  BY DEF BaseDone
<1>2. log = <<>>
  BY <1>1 DEF OutInv
<1>3. OneBatch(Listed)' /\ LogInv' /\ batches' # <<>>
  BY <1>1, <1>2, SuiteStarts
<1>. QED  BY <1>1, <1>3, NothingSaid DEF OutInv, Failing

LEMMA ScoreKeeps ==
  ASSUME OutInv, NEW picked \in SUBSET Collected, Score(picked) PROVE OutInv'
<1>1. /\ batches = <<>> /\ full' = Delta /\ checkout' = "scored" /\ sel' = picked
      /\ UNCHANGED <<broken, batches, log, outcomes, pre, did>>
  BY DEF Score
<1>2. Delta' = Delta /\ Delta \subseteq Nodes /\ picked \subseteq TestSet
  BY <1>1 DEF Delta, Failing, Collected
<1>3. KnownInv'
  BY <1>1 DEF OutInv, KnownInv
<1>. QED  BY <1>1, <1>2, <1>3 DEF OutInv

LEMMA OutStep ==
  ASSUME OutInv, [OutNext]_outVars PROVE OutInv'
<1>1. CASE UNCHANGED outVars
  BY <1>1 DEF outVars, OutInv, LogInv, KnownInv, OneBatch, Waiting, Delta, Failing
<1>. QED  BY <1>1, RunTestKeeps, NotCollectedKeeps, EndBatchKeeps, BaseDoneKeeps, ScoreKeeps DEF OutNext

-----------------------------------------------------------------------------
(* What it says of the outcomes *)

LEMMA PassedAllPhasesNow ==
  ASSUME OutInv PROVE PassedAllPhases
<1>1. ASSUME batches = <<>>, NEW t \in TestSet
      PROVE  /\ outcomes[t] = "pass" <=> HasPassed(did[t]) /\ ~ HasFailed(did[t])
             /\ t \in Failing(outcomes) <=> HasFailed(did[t])
  <2>1. Says(outcomes[t], did[t]) /\ t \in Nodes
    BY <1>1, TestNodes DEF OutInv, KnownInv
  <2>. QED  BY <2>1 DEF Says, Failing
<1>. QED  BY <1>1 DEF PassedAllPhases, HasPassed, HasFailed

LEMMA OnlyNewFailuresNow ==
  ASSUME OutInv PROVE OnlyNewFailures
<1>. SUFFICES ASSUME checkout = "scored" PROVE OnlyNewFailures
  BY DEF OnlyNewFailures
<1>1. batches = <<>> /\ full = Failing(outcomes) \ pre /\ KnownInv /\ broken \subseteq Modules
  BY DEF OutInv, Delta
<1>2. \A t \in TestSet : t \in full <=> t \notin pre /\ HasFailed(did[t])
  BY <1>1, TestNodes DEF Failing, KnownInv, Says
<1>3. \A m \in Modules : <<m>> \in full <=> <<m>> \notin pre /\ m \in broken
  BY <1>1, TestNodes DEF Failing, KnownInv
<1>4. full \subseteq Nodes
  BY <1>1 DEF Failing
<1>5. {x \in full : Len(x) = 1} = {<<m>> : m \in {b \in broken : <<b>> \notin pre}}
  <2>1. ASSUME NEW x \in full, Len(x) = 1
        PROVE  \E m \in broken : x = <<m>> /\ <<m>> \notin pre
    <3>1. x \notin TestSet
      BY <2>1, TestNodes
    <3>2. PICK m \in Modules : x = <<m>>
      BY <1>4, <3>1, TestNodes
    <3>. QED  BY <1>3, <3>2
  <2>2. ASSUME NEW m \in broken, <<m>> \notin pre PROVE <<m>> \in full /\ Len(<<m>>) = 1
    BY <1>1, <1>3, <2>2, TestNodes
  <2>. QED  BY <2>1, <2>2
<1>. QED  BY <1>1, <1>2, <1>5 DEF OnlyNewFailures, HasFailed

LEMMA BatchesAreTheTestsNow ==
  ASSUME OutInv PROVE BatchesAreTheTests
<1>. DEFINE picked == LeftOut(Listed, {i \in DOMAIN Listed : Listed[i] \notin sel})
            parts == Chunk(picked)
<1>1. picked \in Seq(TestSet)
  BY TestNodes, LeftOutIs
<1>. HIDE DEF picked
<1>2. InBatches(parts, picked)
  BY <1>1, ChunkIs
<1>3. DOMAIN parts = 1..Len(parts)
  BY <1>2 DEF InBatches
<1>. QED  BY <1>2, <1>3 DEF BatchesAreTheTests, InBatches, picked

\* For any tests, lengths of ids, phases and modules that do not import, in
\* the base tree and in the commit's: a test is scored for what it did in
\* this tree and not in the one before.
THEOREM OutcomesAreTheCommitsAlways == OutSpec => []OutcomesAreTheCommits
<1>1. OutInit => OutInv
  BY OutStarts
<1>2. OutInv /\ [OutNext]_outVars => OutInv'
  BY OutStep
<1>3. OutInv => OutcomesAreTheCommits
  BY PassedAllPhasesNow, OnlyNewFailuresNow, BatchesAreTheTestsNow DEF OutcomesAreTheCommits
<1>. QED  BY <1>1, <1>2, <1>3, PTL DEF OutSpec

-----------------------------------------------------------------------------
(* Sums, as the sizes of sets *)

Grains(n) == UNION {{x} \X (1..n[x]) : x \in DOMAIN n}
Summable(n) == IsFiniteSet(DOMAIN n) /\ \A x \in DOMAIN n : n[x] \in Nat

LEMMA GrainsAre ==
  ASSUME NEW n
  PROVE  /\ Total(n) = Cardinality(Grains(n))
         /\ \A x, k : <<x, k>> \in Grains(n) <=> x \in DOMAIN n /\ k \in 1..n[x]
         /\ \A g \in Grains(n) : g = <<g[1], g[2]>> /\ g[1] \in DOMAIN n /\ g[2] \in 1..n[g[1]]
<1>1. \A x, k : <<x, k>> \in Grains(n) <=> x \in DOMAIN n /\ k \in 1..n[x]
  BY DEF Grains
<1>2. \A g \in Grains(n) : g = <<g[1], g[2]>>
  BY DEF Grains
<1>3. \A g \in Grains(n) : g[1] \in DOMAIN n /\ g[2] \in 1..n[g[1]]
  BY <1>1, <1>2
<1>. QED  BY <1>1, <1>2, <1>3 DEF Total, Grains

LEMMA TotalIs ==
  ASSUME NEW n, Summable(n) PROVE IsFiniteSet(Grains(n)) /\ Total(n) \in Nat
<1>. DEFINE S == DOMAIN n
            columns == {{x} \X (1..n[x]) : x \in S}
            f == [x \in S |-> {x} \X (1..n[x])]
<1>1. IsFiniteSet(S) /\ \A x \in S : n[x] \in Nat
  BY DEF Summable
<1>2. f \in Surjection(S, columns)
  BY DEF Surjection
<1>3. IsFiniteSet(columns)
  <2>. HIDE DEF f, columns, S
  <2>. QED  BY <1>1, <1>2, FS_Surjection
<1>4. ASSUME NEW x \in S PROVE IsFiniteSet({x} \X (1..n[x]))
  <2>1. IsFiniteSet({x})
    BY FS_Singleton
  <2>2. 1 \in Int /\ n[x] \in Int
    BY <1>1
  <2>3. IsFiniteSet(1..n[x])
    BY <2>2, FS_Interval
  <2>. QED  BY <2>1, <2>3, FS_Product
<1>5. \A T \in columns : IsFiniteSet(T)
  BY <1>4
<1>6. IsFiniteSet(UNION columns)
  <2>. HIDE DEF columns
  <2>. QED  BY <1>3, <1>5, FS_UNION
<1>7. IsFiniteSet(Grains(n))
  BY <1>6 DEF Grains
<1>. QED  BY <1>7, GrainsAre, FS_CardinalityType

\* What is nowhere more sums up to no more, and to as much if it is the same.
LEMMA TotalUpTo ==
  ASSUME NEW n, NEW m, Summable(n), Summable(m), DOMAIN n = DOMAIN m,
         \A x \in DOMAIN n : n[x] <= m[x]
  PROVE  Total(n) <= Total(m) /\ (Total(n) = Total(m) => \A x \in DOMAIN n : n[x] = m[x])
<1>. DEFINE g == Grains(n)
            h == Grains(m)
<1>1. \A x \in DOMAIN n : n[x] \in Nat /\ m[x] \in Nat
  BY DEF Summable
<1>2. g \subseteq h
  <2>1. ASSUME NEW e \in g PROVE e \in h
    <3>1. e = <<e[1], e[2]>> /\ e[1] \in DOMAIN n /\ e[2] \in 1..n[e[1]]
      BY GrainsAre
    <3>2. e[2] \in 1..m[e[1]]
      BY <1>1, <3>1
    <3>3. <<e[1], e[2]>> \in h
      BY <3>1, <3>2, GrainsAre
    <3>. QED  BY <3>1, <3>3
  <2>. QED  BY <2>1
<1>3. IsFiniteSet(h) /\ Total(n) = Cardinality(g) /\ Total(m) = Cardinality(h)
  BY TotalIs, GrainsAre
<1>4. ASSUME g = h, NEW x \in DOMAIN n PROVE n[x] = m[x]
  <2>1. CASE m[x] = 0
    BY <1>1, <2>1
  <2>2. CASE m[x] # 0
    <3>1. m[x] \in 1..m[x]
      BY <1>1, <2>2
    <3>2. <<x, m[x]>> \in h
      BY <3>1, GrainsAre
    <3>3. m[x] \in 1..n[x]
      BY <1>4, <3>2, GrainsAre
    <3>. QED  BY <1>1, <3>3
  <2>. QED  BY <2>1, <2>2
<1>. HIDE DEF g, h
<1>5. Cardinality(g) <= Cardinality(h) /\ (Cardinality(h) = Cardinality(g) => h = g)
  BY <1>2, <1>3, FS_Subset
<1>. QED  BY <1>3, <1>4, <1>5

LEMMA TotalIsNone ==
  ASSUME NEW n, Summable(n) PROVE Total(n) = 0 <=> \A x \in DOMAIN n : n[x] = 0
<1>1. Total(n) = 0 <=> Grains(n) = {}
  BY TotalIs, GrainsAre, FS_EmptySet
<1>2. \A x \in DOMAIN n : n[x] \in Nat
  BY DEF Summable
<1>3. ASSUME NEW x \in DOMAIN n, n[x] # 0 PROVE <<x, 1>> \in Grains(n)
  <2>1. 1 \in 1..n[x]
    BY <1>2, <1>3
  <2>. QED  BY <2>1, GrainsAre
<1>4. ASSUME NEW e \in Grains(n) PROVE \E x \in DOMAIN n : n[x] # 0
  <2>1. e[1] \in DOMAIN n /\ e[2] \in 1..n[e[1]]
    BY GrainsAre
  <2>2. n[e[1]] # 0
    BY <1>2, <2>1
  <2>. QED  BY <2>1, <2>2
<1>. QED  BY <1>1, <1>3, <1>4

\* One of each is no more than their sum.
LEMMA TotalAtLeast ==
  ASSUME NEW n, NEW T, Summable(n), T \subseteq DOMAIN n, \A x \in T : n[x] # 0
  PROVE  Cardinality(T) <= Total(n)
<1>. DEFINE f == [x \in T |-> <<x, 1>>]
<1>1. \A x \in T : f[x] \in Grains(n)
  <2>1. ASSUME NEW x \in T PROVE <<x, 1>> \in Grains(n)
    <3>1. x \in DOMAIN n /\ n[x] \in Nat /\ n[x] # 0
      BY DEF Summable
    <3>2. 1 \in 1..n[x]
      BY <3>1
    <3>. QED  BY <3>1, <3>2, GrainsAre
  <2>. QED  BY <2>1
<1>2. f \in Injection(T, Grains(n))
  BY <1>1 DEF Injection, IsInjective
<1>3. IsFiniteSet(Grains(n)) /\ Total(n) = Cardinality(Grains(n))
  BY TotalIs, GrainsAre
<1>. HIDE DEF f
<1>. QED  BY <1>2, <1>3, FS_Injection

\* What is nowhere over w sums up to no more than that often w.
LEMMA TotalWithin ==
  ASSUME NEW n, NEW T, NEW w, Summable(n), T \subseteq DOMAIN n, w \in Nat,
         \A x \in DOMAIN n : n[x] <= w /\ (x \notin T => n[x] = 0)
  PROVE  Total(n) <= Cardinality(T) * w
<1>1. \A x \in DOMAIN n : n[x] \in Nat
  BY DEF Summable
<1>2. Grains(n) \subseteq T \X (1..w)
  <2>1. ASSUME NEW e \in Grains(n) PROVE e \in T \X (1..w)
    <3>1. e = <<e[1], e[2]>> /\ e[1] \in DOMAIN n /\ e[2] \in 1..n[e[1]]
      BY GrainsAre
    <3>2. e[1] \in T /\ e[2] \in 1..w
      BY <1>1, <3>1
    <3>. QED  BY <3>1, <3>2
  <2>. QED  BY <2>1
<1>3. IsFiniteSet(T)
  <2>1. IsFiniteSet(DOMAIN n)
    BY DEF Summable
  <2>. QED  BY <2>1, FS_Subset
<1>4. IsFiniteSet(1..w) /\ Cardinality(1..w) = w
  BY FS_Interval
<1>5. IsFiniteSet(T \X (1..w)) /\ Cardinality(T \X (1..w)) = Cardinality(T) * w
  BY <1>3, <1>4, FS_Product
<1>. QED  BY <1>2, <1>5, GrainsAre, FS_Subset

\* Four sets of which no two have anything in common.
Apart(A, B, C, D) ==
  A \cap B = {} /\ A \cap C = {} /\ A \cap D = {} /\ B \cap C = {} /\ B \cap D = {} /\ C \cap D = {}

LEMMA TwoParts ==
  ASSUME NEW A, NEW B, IsFiniteSet(A), IsFiniteSet(B), A \cap B = {}
  PROVE  /\ IsFiniteSet(A \cup B) /\ Cardinality(A) \in Nat /\ Cardinality(B) \in Nat
         /\ Cardinality(A \cup B) = Cardinality(A) + Cardinality(B)
<1>. DEFINE a == Cardinality(A)
            b == Cardinality(B)
            u == Cardinality(A \cup B)
            z == Cardinality(A \cap B)
<1>1. z = 0
  BY FS_EmptySet
<1>2. a \in Nat /\ b \in Nat
  BY FS_CardinalityType
<1>3. IsFiniteSet(A \cup B) /\ u = a + b - z
  BY FS_Union
<1>. HIDE DEF a, b, u, z
<1>4. u = a + b
  BY <1>1, <1>2, <1>3
<1>. QED  BY <1>2, <1>3, <1>4 DEF a, b, u

LEMMA FourParts ==
  ASSUME NEW A, NEW B, NEW C, NEW D, IsFiniteSet(A), IsFiniteSet(B), IsFiniteSet(C), IsFiniteSet(D),
         Apart(A, B, C, D)
  PROVE  Cardinality(A \cup B \cup C \cup D)
           = Cardinality(A) + Cardinality(B) + Cardinality(C) + Cardinality(D)
<1>. DEFINE x == A \cup B
            y == C \cup D
<1>1. A \cap B = {} /\ C \cap D = {} /\ x \cap y = {}
  BY DEF Apart
<1>2. /\ Cardinality(A) \in Nat /\ Cardinality(B) \in Nat /\ IsFiniteSet(x)
      /\ Cardinality(x) = Cardinality(A) + Cardinality(B)
  BY <1>1, TwoParts
<1>3. /\ Cardinality(C) \in Nat /\ Cardinality(D) \in Nat /\ IsFiniteSet(y)
      /\ Cardinality(y) = Cardinality(C) + Cardinality(D)
  BY <1>1, TwoParts
<1>4. x \cup y = A \cup B \cup C \cup D
  OBVIOUS
<1>. HIDE DEF x, y
<1>5. Cardinality(x \cup y) = Cardinality(x) + Cardinality(y)
  BY <1>1, <1>2, <1>3, TwoParts
<1>. DEFINE a == Cardinality(A)
            b == Cardinality(B)
            c == Cardinality(C)
            d == Cardinality(D)
            u == Cardinality(x)
            v == Cardinality(y)
            w == Cardinality(x \cup y)
<1>6. a \in Nat /\ b \in Nat /\ c \in Nat /\ d \in Nat /\ u = a + b /\ v = c + d /\ w = u + v
  BY <1>2, <1>3, <1>5
<1>. HIDE DEF a, b, c, d, u, v, w
<1>7. w = a + b + c + d
  BY <1>6
<1>. QED  BY <1>4, <1>7 DEF a, b, c, d, w

LEMMA TotalOfFour ==
  ASSUME NEW n, DOMAIN n = Strata, \A k \in Strata : n[k] \in Nat
  PROVE  Total(n) = n["1"] + n["2-5"] + n["6-20"] + n["21+"]
<1>. DEFINE Column(k) == {k} \X (1..n[k])
<1>1. ASSUME NEW k \in Strata PROVE IsFiniteSet(Column(k)) /\ Cardinality(Column(k)) = n[k]
  <2>1. IsFiniteSet({k}) /\ Cardinality({k}) = 1
    BY FS_Singleton
  <2>2. IsFiniteSet(1..n[k]) /\ Cardinality(1..n[k]) = n[k]
    BY FS_Interval
  <2>3. IsFiniteSet(Column(k)) /\ Cardinality(Column(k)) = 1 * n[k]
    BY <2>1, <2>2, FS_Product
  <2>. QED  BY <2>3
<1>2. Grains(n) = Column("1") \cup Column("2-5") \cup Column("6-20") \cup Column("21+")
  BY DEF Grains, Strata
<1>3. Apart(Column("1"), Column("2-5"), Column("6-20"), Column("21+"))
  BY DEF Apart
<1>4. "1" \in Strata /\ "2-5" \in Strata /\ "6-20" \in Strata /\ "21+" \in Strata
  BY DEF Strata
<1>. HIDE DEF Column
<1>. QED  BY <1>1, <1>2, <1>3, <1>4, GrainsAre, FourParts

-----------------------------------------------------------------------------
(* What the records keep *)

LEMMA AlsoIs ==
  ASSUME NEW f, NEW x, NEW v
  PROVE  /\ DOMAIN Also(f, x, v) = DOMAIN f \cup {x} /\ Also(f, x, v)[x] = v
         /\ \A y \in DOMAIN f : y # x => Also(f, x, v)[y] = f[y]
BY DEF Also

LEMMA NothingIs == DOMAIN Nothing = {}
BY DEF Nothing

CommitsInv == DOMAIN commitOf \subseteq Cycles /\ \A c \in DOMAIN commitOf : commitOf[c] \in Truths
AnswersInv ==
  /\ IsFiniteSet(DOMAIN answers)
  /\ \A k \in DOMAIN answers : k[1] \in DOMAIN commitOf /\ answers[k] \subseteq commitOf[k[1]].all
  /\ gaveUp \subseteq DOMAIN answers
  /\ \A k \in gaveUp : answers[k] = commitOf[k[1]].all /\ k[2] # "static"
StaticInv ==
  \A c \in DOMAIN commitOf : <<c, "static">> \in DOMAIN answers =>
    <<c, Level2>> \in DOMAIN answers /\ answers[<<c, "static">>] = Static(c)
ReportsInv == DOMAIN reports \subseteq DOMAIN commitOf /\ \A c \in DOMAIN reports : reports[c] \in Uncovered
SamplesInv ==
  samples \in Seq(Nat) /\ \A i, k \in DOMAIN samples : i <= k => samples[i] <= samples[k]

ScoresInv == CommitsInv /\ AnswersInv /\ StaticInv /\ ReportsInv /\ SamplesInv

LEMMA StaticStays ==
  ASSUME NEW c, commitOf'[c] = commitOf[c], answers'[<<c, Level2>>] = answers[<<c, Level2>>]
  PROVE  Static(c)' = Static(c)
<1>1. CollectedFiles(c)' = CollectedFiles(c)
  BY DEF CollectedFiles
<1>2. ASSUME NEW p PROVE TestFor(c, p)' = TestFor(c, p)
  BY <1>1 DEF TestFor
<1>3. Level1(c)' = Level1(c)
  BY <1>1, <1>2 DEF Level1
<1>. QED  BY <1>3 DEF Static, Level2

LEMMA ScoresStart == ASSUME ScoresInit PROVE ScoresInv
<1>1. /\ DOMAIN commitOf = {} /\ DOMAIN answers = {} /\ DOMAIN reports = {} /\ gaveUp = {}
      /\ samples = <<>>
  BY NothingIs DEF ScoresInit
<1>2. CommitsInv /\ StaticInv /\ ReportsInv
  BY <1>1 DEF CommitsInv, StaticInv, ReportsInv
<1>3. AnswersInv
  BY <1>1, FS_EmptySet DEF AnswersInv
<1>4. SamplesInv
  BY <1>1 DEF SamplesInv
<1>. QED  BY <1>2, <1>3, <1>4 DEF ScoresInv

LEMMA RecordCommitKeeps ==
  ASSUME ScoresInv, NEW c \in Cycles, NEW truth \in Truths, RecordCommit(c, truth)
  PROVE  ScoresInv'
<1>1. c \notin DOMAIN commitOf /\ commitOf' = Also(commitOf, c, truth)
      /\ UNCHANGED <<answers, gaveUp, reports, samples>>
  BY DEF RecordCommit
<1>2. /\ DOMAIN commitOf' = DOMAIN commitOf \cup {c} /\ commitOf'[c] = truth
      /\ \A x \in DOMAIN commitOf : x # c /\ commitOf'[x] = commitOf[x]
  <2>. DEFINE z == Also(commitOf, c, truth)
  <2>1. /\ DOMAIN z = DOMAIN commitOf \cup {c} /\ z[c] = truth
        /\ \A y \in DOMAIN commitOf : y # c => z[y] = commitOf[y]
    BY DEF Also
  <2>2. commitOf' = z /\ c \notin DOMAIN commitOf
    BY <1>1
  <2>. HIDE DEF z
  <2>. QED  BY <2>1, <2>2
<1>3. CommitsInv'
  BY <1>2 DEF ScoresInv, CommitsInv
<1>4. AnswersInv'
  BY <1>1, <1>2 DEF ScoresInv, AnswersInv
<1>5. ReportsInv' /\ SamplesInv'
  BY <1>1, <1>2 DEF ScoresInv, ReportsInv, SamplesInv
<1>6. \A x \in DOMAIN commitOf : Static(x)' = Static(x)
  BY <1>1, <1>2, StaticStays
<1>7. <<c, "static">> \notin DOMAIN answers
  BY <1>1 DEF ScoresInv, AnswersInv
<1>8. StaticInv'
  BY <1>1, <1>2, <1>6, <1>7 DEF ScoresInv, StaticInv
<1>. QED  BY <1>3, <1>4, <1>5, <1>8 DEF ScoresInv

LEMMA RecordAnswerKeeps ==
  ASSUME ScoresInv, NEW c \in DOMAIN commitOf, NEW s \in ArmsRun, NEW e \in BOOLEAN,
         NEW tests \in SUBSET commitOf[c].all, RecordAnswer(c, s, tests, e)
  PROVE  ScoresInv'
<1>. DEFINE k == <<c, s>>
<1>1. /\ k \notin DOMAIN answers /\ (e => tests = commitOf[c].all) /\ answers' = Also(answers, k, tests)
      /\ gaveUp' = (IF e THEN gaveUp \cup {k} ELSE gaveUp)
      /\ UNCHANGED <<commitOf, reports, samples>>
  BY DEF RecordAnswer
<1>2. k[1] = c /\ k[2] = s /\ s # "static"
  BY ScoresParameters
<1>3. \A x : k # <<x, "static">>
  BY <1>2
<1>. HIDE DEF k
<1>4. /\ DOMAIN answers' = DOMAIN answers \cup {k} /\ answers'[k] = tests
      /\ \A x \in DOMAIN answers : x # k /\ answers'[x] = answers[x]
  <2>. DEFINE z == Also(answers, k, tests)
  <2>1. /\ DOMAIN z = DOMAIN answers \cup {k} /\ z[k] = tests
        /\ \A y \in DOMAIN answers : y # k => z[y] = answers[y]
    BY DEF Also
  <2>2. answers' = z /\ k \notin DOMAIN answers
    BY <1>1
  <2>. HIDE DEF z
  <2>. QED  BY <2>1, <2>2
<1>5. CommitsInv' /\ ReportsInv' /\ SamplesInv'
  BY <1>1 DEF ScoresInv, CommitsInv, ReportsInv, SamplesInv
<1>6. AnswersInv'
  <2>1. IsFiniteSet(DOMAIN answers')
    BY <1>4, FS_AddElement DEF ScoresInv, AnswersInv
  <2>2. \A x \in DOMAIN answers' : x[1] \in DOMAIN commitOf /\ answers'[x] \subseteq commitOf[x[1]].all
    BY <1>2, <1>4 DEF ScoresInv, AnswersInv
  <2>3. gaveUp' \subseteq DOMAIN answers'
    BY <1>1, <1>4 DEF ScoresInv, AnswersInv
  <2>4. \A x \in gaveUp' : answers'[x] = commitOf[x[1]].all /\ x[2] # "static"
    BY <1>1, <1>2, <1>4 DEF ScoresInv, AnswersInv
  <2>. QED  BY <1>1, <2>1, <2>2, <2>3, <2>4 DEF AnswersInv
<1>7. StaticInv'
  <2>1. ASSUME NEW x \in DOMAIN commitOf, <<x, "static">> \in DOMAIN answers'
        PROVE  <<x, Level2>> \in DOMAIN answers' /\ answers'[<<x, "static">>] = Static(x)'
    <3>1. <<x, "static">> \in DOMAIN answers
      BY <1>3, <1>4, <2>1
    <3>2. <<x, Level2>> \in DOMAIN answers /\ answers[<<x, "static">>] = Static(x)
      BY <3>1 DEF ScoresInv, StaticInv
    <3>3. Static(x)' = Static(x)
      BY <1>1, <1>4, <3>2, StaticStays
    <3>4. answers'[<<x, "static">>] = answers[<<x, "static">>]
      BY <1>4, <3>1
    <3>. QED  BY <1>4, <3>2, <3>3, <3>4
  <2>. QED  BY <1>1, <2>1 DEF StaticInv
<1>. QED  BY <1>5, <1>6, <1>7 DEF ScoresInv

LEMMA RecordReportKeeps ==
  ASSUME ScoresInv, NEW c \in Cycles, NEW r \in Uncovered, RecordReport(c, r)
  PROVE  ScoresInv'
<1>1. c \in DOMAIN commitOf /\ c \notin DOMAIN reports /\ reports' = Also(reports, c, r)
      /\ UNCHANGED <<commitOf, answers, gaveUp, samples>>
  BY DEF RecordReport
<1>2. /\ DOMAIN reports' = DOMAIN reports \cup {c} /\ reports'[c] = r
      /\ \A x \in DOMAIN reports : reports'[x] = reports[x]
  <2>. DEFINE z == Also(reports, c, r)
  <2>1. /\ DOMAIN z = DOMAIN reports \cup {c} /\ z[c] = r
        /\ \A y \in DOMAIN reports : y # c => z[y] = reports[y]
    BY DEF Also
  <2>2. reports' = z /\ c \notin DOMAIN reports
    BY <1>1
  <2>. HIDE DEF z
  <2>. QED  BY <2>1, <2>2
<1>3. ReportsInv'
  BY <1>1, <1>2 DEF ScoresInv, ReportsInv
<1>4. CommitsInv' /\ SamplesInv' /\ AnswersInv'
  BY <1>1 DEF ScoresInv, CommitsInv, AnswersInv, SamplesInv
<1>5. StaticInv'
  <2>1. \A x : Static(x)' = Static(x)
    BY <1>1, StaticStays
  <2>. QED  BY <1>1, <2>1 DEF ScoresInv, StaticInv
<1>. QED  BY <1>3, <1>4, <1>5 DEF ScoresInv

LEMMA TakeSampleKeeps ==
  ASSUME ScoresInv, NEW ms \in Times, NEW before \in 0..Len(samples), TakeSample(ms, before)
  PROVE  ScoresInv'
<1>. DEFINE n == Len(samples)
            z == [i \in 1..n + 1 |->
                   IF i <= before THEN samples[i] ELSE IF i = before + 1 THEN ms ELSE samples[i - 1]]
<1>1. /\ samples' = z /\ (\A i \in DOMAIN samples : samples[i] <= ms <=> i <= before)
      /\ UNCHANGED <<commitOf, answers, gaveUp, reports>>
  BY DEF TakeSample
<1>2. /\ n \in Nat /\ before \in Nat /\ before <= n /\ ms \in Nat /\ DOMAIN samples = 1..n
      /\ \A i \in 1..n : samples[i] \in Nat
  <2>1. samples \in Seq(Nat)
    BY DEF ScoresInv, SamplesInv
  <2>2. n \in Nat
    BY <2>1
  <2>. QED  BY <2>1, <2>2, ScoresParameters
<1>3. \A i, k \in 1..n : i <= k => samples[i] <= samples[k]
  BY <1>2 DEF ScoresInv, SamplesInv
<1>. HIDE DEF n
<1>4. \A i \in 1..n + 1 :
        \/ i <= before /\ i \in 1..n /\ samples[i] <= ms
        \/ i = before + 1
        \/ before + 1 < i /\ i - 1 \in 1..n /\ ms < samples[i - 1]
  <2>1. ASSUME NEW i \in 1..n + 1 PROVE i <= before \/ i = before + 1 \/ before + 1 < i
    BY <1>2
  <2>2. ASSUME NEW i \in 1..n + 1, i <= before PROVE i \in 1..n /\ samples[i] <= ms
    <3>1. i \in 1..n
      BY <1>2, <2>2
    <3>. QED  BY <1>1, <1>2, <2>2, <3>1
  <2>3. ASSUME NEW i \in 1..n + 1, before + 1 < i PROVE i - 1 \in 1..n /\ ms < samples[i - 1]
    <3>1. i - 1 \in 1..n /\ ~ (i - 1 <= before)
      BY <1>2, <2>3
    <3>2. ~ (samples[i - 1] <= ms) /\ samples[i - 1] \in Nat
      BY <1>1, <1>2, <3>1
    <3>. QED  BY <1>2, <3>1, <3>2
  <2>. QED  BY <2>1, <2>2, <2>3
<1>5. /\ DOMAIN z = 1..n + 1
      /\ \A i \in 1..n + 1 : z[i] = IF i <= before THEN samples[i] ELSE IF i = before + 1 THEN ms ELSE samples[i - 1]
  OBVIOUS
<1>6. \A i \in 1..n + 1 : z[i] \in Nat
  BY <1>2, <1>4
<1>7. z \in Seq(Nat)
  BY <1>2, <1>6
<1>8. \A i \in 1..n + 1 :
        /\ i <= before => z[i] = samples[i]
        /\ i = before + 1 => z[i] = ms
        /\ before + 1 < i => z[i] = samples[i - 1]
  BY <1>2
<1>. HIDE DEF z
<1>9. ASSUME NEW i \in 1..n + 1, NEW k \in 1..n + 1, i <= k PROVE z[i] <= z[k]
  <2>1. CASE k <= before
    <3>1. i <= before /\ i \in 1..n /\ k \in 1..n
      BY <1>2, <1>9, <2>1
    <3>. QED  BY <1>3, <1>8, <1>9, <2>1, <3>1
  <2>2. CASE before + 1 < i
    <3>1. before + 1 < k /\ i - 1 \in 1..n /\ k - 1 \in 1..n /\ i - 1 <= k - 1
      BY <1>2, <1>9, <2>2
    <3>2. samples[i - 1] <= samples[k - 1]
      BY <1>3, <3>1
    <3>. QED  BY <1>8, <2>2, <3>1, <3>2
  <2>3. CASE ~ (k <= before) /\ ~ (before + 1 < i)
    <3>1. z[i] <= ms
      <4>1. i <= before \/ i = before + 1
        BY <1>2, <2>3
      <4>2. CASE i <= before
        <5>1. samples[i] <= ms
          BY <1>2, <1>4, <4>2
        <5>. QED  BY <1>8, <4>2, <5>1
      <4>3. CASE i = before + 1
        BY <1>2, <1>8, <4>3
      <4>. QED  BY <4>1, <4>2, <4>3
    <3>2. ms <= z[k]
      <4>1. k = before + 1 \/ before + 1 < k
        BY <1>2, <2>3
      <4>2. CASE before + 1 < k
        <5>1. ms < samples[k - 1]
          <6>1. ~ (k <= before) /\ k # before + 1
            BY <1>2, <4>2
          <6>. QED  BY <1>4, <6>1
        <5>2. z[k] = samples[k - 1]
          BY <1>8, <4>2
        <5>3. z[k] \in Nat
          BY <1>6
        <5>. QED  BY <1>2, <5>1, <5>2, <5>3
      <4>3. CASE k = before + 1
        BY <1>2, <1>8, <4>3
      <4>. QED  BY <4>1, <4>2, <4>3
    <3>. QED  BY <1>2, <1>6, <3>1, <3>2
  <2>. QED  BY <2>1, <2>2, <2>3
<1>10. SamplesInv'
  BY <1>1, <1>5, <1>7, <1>9 DEF SamplesInv
<1>11. CommitsInv' /\ AnswersInv' /\ ReportsInv'
  BY <1>1 DEF ScoresInv, CommitsInv, AnswersInv, ReportsInv
<1>12. StaticInv'
  <2>1. \A x : Static(x)' = Static(x)
    BY <1>1, StaticStays
  <2>. QED  BY <1>1, <2>1 DEF ScoresInv, StaticInv
<1>. QED  BY <1>10, <1>11, <1>12 DEF ScoresInv

LEMMA DeriveKeeps ==
  ASSUME ScoresInv, DeriveStatic PROVE ScoresInv'
<1>. DEFINE own == {<<c, "static">> : c \in DOMAIN commitOf}
<1>1. Derivable /\ answers' = Derived /\ UNCHANGED <<commitOf, gaveUp, reports, samples>>
  BY DEF DeriveStatic
<1>2. /\ DOMAIN Derived = Underived \cup own
      /\ \A k \in Underived : Derived[k] = answers[k]
      /\ \A c \in DOMAIN commitOf : Derived[<<c, "static">>] = Static(c)
  BY DEF Derived, Underived
<1>3. CommitsInv' /\ ReportsInv' /\ SamplesInv'
  BY <1>1 DEF ScoresInv, CommitsInv, ReportsInv, SamplesInv
<1>4. \A c \in DOMAIN commitOf : Static(c) \subseteq commitOf[c].all
  BY <1>1 DEF Derivable, Static, Level1
<1>5. IsFiniteSet(Underived \cup own)
  <2>1. IsFiniteSet(Underived)
    BY FS_Subset DEF ScoresInv, AnswersInv, Underived
  <2>2. IsFiniteSet(DOMAIN commitOf)
    BY ScoresParameters, FS_Subset DEF ScoresInv, CommitsInv
  <2>. DEFINE f == [c \in DOMAIN commitOf |-> <<c, "static">>]
  <2>3. f \in Surjection(DOMAIN commitOf, own)
    BY DEF Surjection
  <2>. HIDE DEF f, own
  <2>4. IsFiniteSet(own)
    BY <2>2, <2>3, FS_Surjection
  <2>. QED  BY <2>1, <2>4, FS_Union
<1>6. AnswersInv'
  <2>1. \A k \in Underived : k \in DOMAIN answers
    BY DEF Underived
  <2>2. \A k \in DOMAIN Derived : k[1] \in DOMAIN commitOf /\ Derived[k] \subseteq commitOf[k[1]].all
    <3>1. \A k \in Underived : k[1] \in DOMAIN commitOf /\ Derived[k] \subseteq commitOf[k[1]].all
      BY <1>2, <2>1 DEF ScoresInv, AnswersInv
    <3>2. \A c \in DOMAIN commitOf : <<c, "static">>[1] = c /\ Derived[<<c, "static">>] \subseteq commitOf[c].all
      BY <1>2, <1>4
    <3>. QED  BY <1>2, <3>1, <3>2
  <2>3. gaveUp \subseteq Underived
    BY DEF ScoresInv, AnswersInv, Underived
  <2>4. \A k \in gaveUp : Derived[k] = commitOf[k[1]].all /\ k[2] # "static"
    BY <1>2, <2>3 DEF ScoresInv, AnswersInv
  <2>. QED  BY <1>1, <1>2, <1>5, <2>2, <2>3, <2>4 DEF AnswersInv
<1>7. StaticInv'
  <2>1. ASSUME NEW c \in DOMAIN commitOf
        PROVE  <<c, Level2>> \in DOMAIN Derived /\ Derived[<<c, Level2>>] = answers[<<c, Level2>>]
    <3>1. <<c, Level2>> \in DOMAIN answers
      BY <1>1 DEF Derivable
    <3>2. <<c, Level2>> \in Underived
      BY <3>1 DEF Underived, Level2
    <3>. QED  BY <1>2, <3>2
  <2>2. ASSUME NEW c \in DOMAIN commitOf PROVE Static(c)' = Static(c)
    BY <1>1, <2>1, StaticStays
  <2>. QED  BY <1>1, <1>2, <2>1, <2>2 DEF StaticInv
<1>. QED  BY <1>3, <1>6, <1>7 DEF ScoresInv

LEMMA ScoresStep ==
  ASSUME ScoresInv, [ScoresNext]_scoreVars PROVE ScoresInv'
<1>1. CASE UNCHANGED scoreVars
  <2>1. \A x : Static(x)' = Static(x)
    BY <1>1, StaticStays DEF scoreVars
  <2>. QED  BY <1>1, <2>1 DEF scoreVars, ScoresInv, CommitsInv, AnswersInv, ReportsInv, SamplesInv, StaticInv
<1>. QED  BY <1>1, RecordCommitKeeps, RecordAnswerKeeps, RecordReportKeeps, TakeSampleKeeps, DeriveKeeps
          DEF ScoresNext

-----------------------------------------------------------------------------
(* Shares *)

LEMMA ShareOfScale ==
  ASSUME NEW h, NEW f, NEW w, h \in Nat, f \in Nat, w \in Nat, f # 0, h <= f
  PROVE  (h * w) \div f \in Nat /\ (h * w) \div f <= w /\ (h = 0 => (h * w) \div f = 0)
<1>. DEFINE q == (h * w) \div f
<1>1. h * w \in Nat /\ h * w <= f * w
  <2>1. f - h \in Nat
    OBVIOUS
  <2>2. (f - h) * w \in Nat /\ f * w = h * w + (f - h) * w
    BY <2>1
  <2>3. h * w \in Nat
    OBVIOUS
  <2>. QED  BY <2>2, <2>3
<1>2. q \in Nat /\ f * q <= h * w
  BY <1>1
<1>3. q <= w
  <2>1. ASSUME q > w PROVE FALSE
    <3>1. q - w - 1 \in Nat
      BY <1>2, <2>1
    <3>2. f * q = f * w + f + f * (q - w - 1) /\ f * (q - w - 1) \in Nat /\ f * w \in Nat
      BY <1>2, <3>1
    <3>. QED  BY <1>1, <1>2, <3>2
  <2>. QED  BY <1>2, <2>1
<1>4. h = 0 => q = 0
  <2>1. h = 0 => h * w = 0
    OBVIOUS
  <2>. QED  BY <2>1
<1>. QED  BY <1>2, <1>3, <1>4

\* Whatever shares a set out over the strata leaves as much as there was.
LEMMA CardByStratum ==
  ASSUME NEW X, NEW g, IsFiniteSet(X), \A x \in X : g[x] \in Strata
  PROVE  Cardinality(X) = Total([k \in Strata |-> Cardinality({x \in X : g[x] = k})])
<1>. DEFINE Part(k) == {x \in X : g[x] = k}
            n == [k \in Strata |-> Cardinality(Part(k))]
<1>1. \A k : IsFiniteSet(Part(k)) /\ Cardinality(Part(k)) \in Nat
  BY FS_Subset, FS_CardinalityType
<1>2. X = Part("1") \cup Part("2-5") \cup Part("6-20") \cup Part("21+")
  BY DEF Strata
<1>3. Apart(Part("1"), Part("2-5"), Part("6-20"), Part("21+"))
  BY DEF Apart
<1>. HIDE DEF Part
<1>4. Cardinality(X) = Cardinality(Part("1")) + Cardinality(Part("2-5"))
                         + Cardinality(Part("6-20")) + Cardinality(Part("21+"))
  BY <1>1, <1>2, <1>3, FourParts
<1>5. /\ DOMAIN n = Strata /\ \A k \in Strata : n[k] \in Nat /\ n[k] = Cardinality(Part(k))
  BY <1>1
<1>6. "1" \in Strata /\ "2-5" \in Strata /\ "6-20" \in Strata /\ "21+" \in Strata
  BY DEF Strata
<1>. HIDE DEF n
<1>7. Total(n) = n["1"] + n["2-5"] + n["6-20"] + n["21+"]
  BY <1>5, TotalOfFour
<1>8. Total(n) = Cardinality(X)
  BY <1>4, <1>5, <1>6, <1>7
<1>. QED  BY <1>8 DEF n, Part

LEMMA TotalByStratum ==
  ASSUME NEW n, NEW g, Summable(n), \A x \in DOMAIN n : g[x] \in Strata
  PROVE  Total(n) = Total([k \in Strata |-> Total([x \in {y \in DOMAIN n : g[y] = k} |-> n[x]])])
<1>. DEFINE X == Grains(n)
            f == [e \in X |-> g[e[1]]]
            Of(k) == [x \in {y \in DOMAIN n : g[y] = k} |-> n[x]]
<1>1. IsFiniteSet(X) /\ Total(n) = Cardinality(X)
  BY TotalIs, GrainsAre
<1>2. \A e \in X : e[1] \in DOMAIN n /\ f[e] = g[e[1]]
  BY GrainsAre
<1>3. ASSUME NEW k PROVE {e \in X : f[e] = k} = Grains(Of(k))
  <2>1. DOMAIN Of(k) = {y \in DOMAIN n : g[y] = k} /\ \A x \in DOMAIN Of(k) : Of(k)[x] = n[x]
    OBVIOUS
  <2>2. \A e \in X : e = <<e[1], e[2]>> /\ e[1] \in DOMAIN n /\ e[2] \in 1..n[e[1]]
    BY GrainsAre
  <2>3. \A x, i : <<x, i>> \in X <=> x \in DOMAIN n /\ i \in 1..n[x]
    BY GrainsAre
  <2>. HIDE DEF X, Of
  <2>4. \A e \in Grains(Of(k)) : e = <<e[1], e[2]>> /\ e[1] \in DOMAIN Of(k) /\ e[2] \in 1..Of(k)[e[1]]
    BY GrainsAre
  <2>5. \A x, i : <<x, i>> \in Grains(Of(k)) <=> x \in DOMAIN Of(k) /\ i \in 1..Of(k)[x]
    BY GrainsAre
  <2>6. ASSUME NEW e \in X, f[e] = k PROVE e \in Grains(Of(k))
    <3>1. e[1] \in DOMAIN Of(k) /\ e[2] \in 1..Of(k)[e[1]]
      BY <1>2, <2>1, <2>2, <2>6
    <3>2. <<e[1], e[2]>> \in Grains(Of(k))
      BY <2>5, <3>1
    <3>. QED  BY <2>2, <3>2
  <2>7. ASSUME NEW e \in Grains(Of(k)) PROVE e \in X /\ f[e] = k
    <3>1. e[1] \in DOMAIN n /\ g[e[1]] = k /\ e[2] \in 1..n[e[1]]
      BY <2>1, <2>4
    <3>2. <<e[1], e[2]>> \in X
      BY <2>3, <3>1
    <3>3. e \in X
      BY <2>4, <3>2
    <3>. QED  BY <1>2, <3>1, <3>3
  <2>. QED  BY <2>6, <2>7
<1>4. Cardinality(X) = Total([k \in Strata |-> Cardinality({e \in X : f[e] = k})])
  <2>1. \A e \in X : f[e] \in Strata
    BY <1>2
  <2>. HIDE DEF X, f
  <2>. QED  BY <1>1, <2>1, CardByStratum
<1>5. \A k \in Strata : Cardinality({e \in X : f[e] = k}) = Total(Of(k))
  BY <1>3, GrainsAre
<1>6. [k \in Strata |-> Cardinality({e \in X : f[e] = k})] = [k \in Strata |-> Total(Of(k))]
  <2>. HIDE DEF X, f, Of
  <2>. QED  BY <1>5
<1>. QED  BY <1>1, <1>4, <1>6

-----------------------------------------------------------------------------
(* What the records are *)

LEMMA CommitsAre ==
  ASSUME ScoresInv, NEW c, c \in DOMAIN commitOf
  PROVE  /\ IsFiniteSet(Full(c)) /\ Cardinality(Full(c)) \in Nat
         /\ (Cardinality(Full(c)) = 0 <=> Full(c) = {})
         /\ IsFiniteSet(commitOf[c].all) /\ IsFiniteSet(commitOf[c].changed)
         /\ \A t \in commitOf[c].all : Duration[t] \in Nat
<1>1. commitOf[c] \in Truths
  BY DEF ScoresInv, CommitsInv
<1>2. /\ IsFiniteSet(Full(c)) /\ IsFiniteSet(commitOf[c].all) /\ IsFiniteSet(commitOf[c].changed)
      /\ \A t \in commitOf[c].all : Duration[t] \in Nat
  BY <1>1, ScoresParameters DEF Full
<1>. QED  BY <1>2, FS_CardinalityType, FS_EmptySet

LEMMA PairsAre ==
  ASSUME ScoresInv, NEW s
  PROVE  /\ IsFiniteSet(Paired(s)) /\ Paired(s) \subseteq DOMAIN commitOf
         /\ \A c \in Paired(s) : <<c, s>> \in DOMAIN answers /\ answers[<<c, s>>] \subseteq commitOf[c].all
<1>1. Paired(s) \subseteq DOMAIN commitOf /\ DOMAIN commitOf \subseteq Cycles /\ IsFiniteSet(Cycles)
  BY ScoresParameters DEF Paired, ScoresInv, CommitsInv
<1>2. IsFiniteSet(Paired(s))
  BY <1>1, FS_Subset
<1>3. ASSUME NEW c \in Paired(s)
      PROVE  <<c, s>> \in DOMAIN answers /\ answers[<<c, s>>] \subseteq commitOf[c].all
  BY DEF Paired, ScoresInv, AnswersInv
<1>. QED  BY <1>1, <1>2, <1>3

LEMMA HitsAre ==
  ASSUME ScoresInv, NEW c, NEW s, c \in DOMAIN commitOf
  PROVE  /\ Cardinality(Hits(c, s)) \in Nat /\ Cardinality(Hits(c, s)) <= Cardinality(Full(c))
         /\ (Cardinality(Hits(c, s)) = 0 <=> Hits(c, s) = {})
<1>1. Hits(c, s) \subseteq Full(c) /\ IsFiniteSet(Full(c))
  BY CommitsAre DEF Hits
<1>2. IsFiniteSet(Hits(c, s)) /\ Cardinality(Hits(c, s)) <= Cardinality(Full(c))
  BY <1>1, FS_Subset
<1>. QED  BY <1>2, FS_CardinalityType, FS_EmptySet

LEMMA DetectingIs ==
  ASSUME ScoresInv, NEW s
  PROVE  LET det == Detecting(Paired(s))
         IN  /\ IsFiniteSet(det) /\ det \subseteq DOMAIN commitOf
             /\ \A c \in det : /\ Cardinality(Full(c)) \in Nat /\ Cardinality(Full(c)) # 0
                               /\ Stratum(Cardinality(Full(c))) \in Strata
<1>. DEFINE det == Detecting(Paired(s))
<1>1. det \subseteq Paired(s) /\ IsFiniteSet(Paired(s)) /\ Paired(s) \subseteq DOMAIN commitOf
  BY PairsAre DEF Detecting
<1>2. IsFiniteSet(det)
  BY <1>1, FS_Subset
<1>3. ASSUME NEW c \in det PROVE Cardinality(Full(c)) \in Nat /\ Cardinality(Full(c)) # 0
  BY <1>1, CommitsAre DEF Detecting
<1>4. ASSUME NEW k \in Nat, k # 0 PROVE Stratum(k) \in Strata
  BY <1>4 DEF Stratum, Strata
<1>. QED  BY <1>1, <1>2, <1>3, <1>4

-----------------------------------------------------------------------------
(* Recall *)

\* The strata of what an arm was paired with.
LEMMA StrataAre ==
  ASSUME NEW pairs, NEW k, k \in Strata
  PROVE  /\ InStratum(pairs, k) = {c \in Detecting(pairs) : Stratum(Cardinality(Full(c))) = k}
         /\ Detecting(InStratum(pairs, k)) = InStratum(pairs, k)
BY DEF InStratum, Detecting

SharedOut(s) ==
  LET pairs == Paired(s)
      parts == [k \in Strata |-> InStratum(pairs, k)]
  IN  \A i \in {1, 2} :
        /\ ChangeRecall(s, pairs)[i] = Total([k \in Strata |-> ChangeRecall(s, parts[k])[i]])
        /\ Micro(s, pairs)[i] = Total([k \in Strata |-> Micro(s, parts[k])[i]])

LEMMA SharedOutAre ==
  ASSUME ScoresInv, NEW s PROVE SharedOut(s)
<1>. DEFINE pairs == Paired(s)
            det == Detecting(pairs)
            parts == [k \in Strata |-> InStratum(pairs, k)]
            g == [c \in det |-> Stratum(Cardinality(Full(c)))]
            hit == {c \in det : Hits(c, s) # {}}
            hits == [c \in det |-> Cardinality(Hits(c, s))]
            sizes == [c \in det |-> Cardinality(Full(c))]
<1>1. IsFiniteSet(det) /\ (\A c \in det : g[c] \in Strata) /\ det \subseteq DOMAIN commitOf
  BY DetectingIs
<1>2. ASSUME NEW k \in Strata
      PROVE  parts[k] = {c \in det : g[c] = k} /\ Detecting(parts[k]) = parts[k]
  BY StrataAre
<1>3. ChangeRecall(s, pairs)[1] = Total([k \in Strata |-> ChangeRecall(s, parts[k])[1]])
  <2>1. IsFiniteSet(hit) /\ \A c \in hit : g[c] \in Strata
    BY <1>1, FS_Subset
  <2>2. \A k \in Strata : ChangeRecall(s, parts[k])[1] = Cardinality({c \in hit : g[c] = k})
    <3>1. ASSUME NEW k \in Strata
          PROVE  {c \in Detecting(parts[k]) : Hits(c, s) # {}} = {c \in hit : g[c] = k}
      <4>. HIDE DEF g, parts, det
      <4>. QED  BY <1>2
    <3>. HIDE DEF g, parts, hit
    <3>. QED  BY <3>1 DEF ChangeRecall
  <2>3. ChangeRecall(s, pairs)[1] = Cardinality(hit)
    BY DEF ChangeRecall
  <2>. HIDE DEF g, parts, hit
  <2>4. Cardinality(hit) = Total([k \in Strata |-> Cardinality({c \in hit : g[c] = k})])
    BY <2>1, CardByStratum
  <2>5. [k \in Strata |-> ChangeRecall(s, parts[k])[1]] = [k \in Strata |-> Cardinality({c \in hit : g[c] = k})]
    BY <2>2
  <2>. QED  BY <2>3, <2>4, <2>5
<1>4. ChangeRecall(s, pairs)[2] = Total([k \in Strata |-> ChangeRecall(s, parts[k])[2]])
  <2>2. \A k \in Strata : ChangeRecall(s, parts[k])[2] = Cardinality({c \in det : g[c] = k})
    <3>. HIDE DEF g, parts, det
    <3>. QED  BY <1>2 DEF ChangeRecall
  <2>3. ChangeRecall(s, pairs)[2] = Cardinality(det)
    BY DEF ChangeRecall
  <2>. HIDE DEF g, parts, det
  <2>4. Cardinality(det) = Total([k \in Strata |-> Cardinality({c \in det : g[c] = k})])
    BY <1>1, CardByStratum
  <2>5. [k \in Strata |-> ChangeRecall(s, parts[k])[2]] = [k \in Strata |-> Cardinality({c \in det : g[c] = k})]
    BY <2>2
  <2>. QED  BY <2>3, <2>4, <2>5
<1>5. Micro(s, pairs)[1] = Total([k \in Strata |-> Micro(s, parts[k])[1]])
  <2>1. Summable(hits) /\ DOMAIN hits = det
    <3>1. \A c \in det : Cardinality(Hits(c, s)) \in Nat
      BY <1>1, HitsAre
    <3>. QED  BY <1>1, <3>1 DEF Summable
  <2>2. \A k \in Strata : Micro(s, parts[k])[1] = Total([x \in {y \in DOMAIN hits : g[y] = k} |-> hits[x]])
    <3>1. ASSUME NEW k \in Strata
          PROVE  [c \in Detecting(parts[k]) |-> Cardinality(Hits(c, s))] = [x \in {y \in DOMAIN hits : g[y] = k} |-> hits[x]]
      <4>1. Detecting(parts[k]) = {y \in DOMAIN hits : g[y] = k}
        <5>. HIDE DEF g, parts, det
        <5>. QED  BY <1>2, <2>1
      <4>2. \A x \in {y \in DOMAIN hits : g[y] = k} : hits[x] = Cardinality(Hits(x, s))
        OBVIOUS
      <4>. HIDE DEF g, parts, hits
      <4>. QED  BY <4>1, <4>2
    <3>. HIDE DEF g, parts, hits
    <3>. QED  BY <3>1 DEF Micro
  <2>3. Micro(s, pairs)[1] = Total(hits)
    BY DEF Micro
  <2>. HIDE DEF g, parts, hits
  <2>4. Total(hits) = Total([k \in Strata |-> Total([x \in {y \in DOMAIN hits : g[y] = k} |-> hits[x]])])
    BY <1>1, <2>1, TotalByStratum
  <2>5. [k \in Strata |-> Micro(s, parts[k])[1]] = [k \in Strata |-> Total([x \in {y \in DOMAIN hits : g[y] = k} |-> hits[x]])]
    BY <2>2
  <2>. QED  BY <2>3, <2>4, <2>5
<1>6. Micro(s, pairs)[2] = Total([k \in Strata |-> Micro(s, parts[k])[2]])
  <2>1. Summable(sizes) /\ DOMAIN sizes = det
    <3>1. \A c \in det : Cardinality(Full(c)) \in Nat
      BY <1>1, CommitsAre
    <3>. QED  BY <1>1, <3>1 DEF Summable
  <2>2. \A k \in Strata : Micro(s, parts[k])[2] = Total([x \in {y \in DOMAIN sizes : g[y] = k} |-> sizes[x]])
    <3>1. ASSUME NEW k \in Strata
          PROVE  [c \in Detecting(parts[k]) |-> Cardinality(Full(c))] = [x \in {y \in DOMAIN sizes : g[y] = k} |-> sizes[x]]
      <4>1. Detecting(parts[k]) = {y \in DOMAIN sizes : g[y] = k}
        <5>. HIDE DEF g, parts, det
        <5>. QED  BY <1>2, <2>1
      <4>2. \A x \in {y \in DOMAIN sizes : g[y] = k} : sizes[x] = Cardinality(Full(x))
        OBVIOUS
      <4>. HIDE DEF g, parts, sizes
      <4>. QED  BY <4>1, <4>2
    <3>. HIDE DEF g, parts, sizes
    <3>. QED  BY <3>1 DEF Micro
  <2>3. Micro(s, pairs)[2] = Total(sizes)
    BY DEF Micro
  <2>. HIDE DEF g, parts, sizes
  <2>4. Total(sizes) = Total([k \in Strata |-> Total([x \in {y \in DOMAIN sizes : g[y] = k} |-> sizes[x]])])
    BY <1>1, <2>1, TotalByStratum
  <2>5. [k \in Strata |-> Micro(s, parts[k])[2]] = [k \in Strata |-> Total([x \in {y \in DOMAIN sizes : g[y] = k} |-> sizes[x]])]
    BY <2>2
  <2>. QED  BY <2>3, <2>4, <2>5
<1>. QED  BY <1>3, <1>4, <1>5, <1>6 DEF SharedOut

\* A part of each commit's failures is no more than something of each.
LEMMA MacroIsLess ==
  ASSUME ScoresInv, NEW s
  PROVE  /\ Macro(s, Paired(s))[1] <= ChangeRecall(s, Paired(s))[1] * Scale
         /\ ChangeRecall(s, Paired(s))[1] <= Micro(s, Paired(s))[1]
<1>. DEFINE det == Detecting(Paired(s))
            hit == {c \in det : Hits(c, s) # {}}
            hits == [c \in det |-> Cardinality(Hits(c, s))]
            share == [c \in det |-> (Cardinality(Hits(c, s)) * Scale) \div Cardinality(Full(c))]
<1>1. /\ IsFiniteSet(det) /\ det \subseteq DOMAIN commitOf
      /\ \A c \in det : Cardinality(Full(c)) \in Nat /\ Cardinality(Full(c)) # 0
  BY DetectingIs
<1>2. \A c \in det : /\ Cardinality(Hits(c, s)) \in Nat /\ Cardinality(Hits(c, s)) <= Cardinality(Full(c))
                     /\ (Cardinality(Hits(c, s)) = 0 <=> Hits(c, s) = {})
  BY <1>1, HitsAre
<1>3. Scale \in Nat
  BY ScoresParameters
<1>4. ASSUME NEW c \in det PROVE share[c] \in Nat /\ share[c] <= Scale /\ (c \notin hit => share[c] = 0)
  <2>. DEFINE h == Cardinality(Hits(c, s))
              f == Cardinality(Full(c))
  <2>1. h \in Nat /\ f \in Nat /\ f # 0 /\ h <= f /\ (c \notin hit => h = 0)
    BY <1>1, <1>2
  <2>2. share[c] = (h * Scale) \div f
    OBVIOUS
  <2>. HIDE DEF share, h, f, hit
  <2>. QED  BY <1>3, <2>1, <2>2, ShareOfScale
<1>5. Summable(share) /\ DOMAIN share = det
  <2>1. DOMAIN share = det
    OBVIOUS
  <2>. HIDE DEF share, det
  <2>. QED  BY <1>1, <1>4, <2>1 DEF Summable
<1>6. Summable(hits) /\ DOMAIN hits = det /\ \A c \in hit : hits[c] # 0
  BY <1>1, <1>2 DEF Summable
<1>7. hit \subseteq det
  OBVIOUS
<1>8. /\ Macro(s, Paired(s))[1] = Total(share) /\ ChangeRecall(s, Paired(s))[1] = Cardinality(hit)
      /\ Micro(s, Paired(s))[1] = Total(hits)
  BY DEF Macro, ChangeRecall, Micro
<1>. HIDE DEF share, hits, hit, det
<1>9. Total(share) <= Cardinality(hit) * Scale
  BY <1>3, <1>4, <1>5, <1>7, TotalWithin
<1>10. Cardinality(hit) <= Total(hits)
  BY <1>6, <1>7, TotalAtLeast
<1>. QED  BY <1>8, <1>9, <1>10

LEMMA StrataShareOutNow ==
  ASSUME ScoresInv PROVE StrataShareOut
BY SharedOutAre, MacroIsLess DEF StrataShareOut, SharedOut

-----------------------------------------------------------------------------
(* Cost *)

LEMMA TotalOfPart ==
  ASSUME NEW n, NEW T, Summable(n), T \subseteq DOMAIN n
  PROVE  /\ Total([x \in T |-> n[x]]) \in Nat /\ Total(n) \in Nat
         /\ Total([x \in T |-> n[x]]) <= Total(n)
<1>. DEFINE m == [x \in T |-> n[x]]
<1>1. DOMAIN m = T /\ \A x \in T : m[x] = n[x]
  OBVIOUS
<1>. HIDE DEF m
<1>2. Summable(m)
  BY <1>1, FS_Subset DEF Summable
<1>3. Grains(m) \subseteq Grains(n)
  <2>1. ASSUME NEW e \in Grains(m) PROVE e \in Grains(n)
    <3>1. e = <<e[1], e[2]>> /\ e[1] \in T /\ e[2] \in 1..n[e[1]]
      BY <1>1, GrainsAre
    <3>2. <<e[1], e[2]>> \in Grains(n)
      BY <3>1, GrainsAre
    <3>. QED  BY <3>1, <3>2
  <2>. QED  BY <2>1
<1>4. IsFiniteSet(Grains(n)) /\ Total(n) = Cardinality(Grains(n)) /\ Total(m) = Cardinality(Grains(m))
  BY TotalIs, GrainsAre
<1>5. Total(m) <= Total(n) /\ Total(m) \in Nat /\ Total(n) \in Nat
  BY <1>2, <1>3, <1>4, TotalIs, FS_Subset
<1>. QED  BY <1>5 DEF m

\* What an arm is charged for, tests or time, is at most the suite's.
LEMMA ChargesAre ==
  ASSUME ScoresInv, NEW s
  PROVE  AtMostOne(SelectionRatio(s, Paired(s))) /\ AtMostOne(DurationFraction(s, Paired(s)))
<1>. DEFINE pairs == Paired(s)
            picked == [c \in pairs |-> Cardinality(answers[<<c, s>>])]
            all == [c \in pairs |-> Cardinality(commitOf[c].all)]
            took == [c \in pairs |-> DurationOf(answers[<<c, s>>])]
            suite == [c \in pairs |-> DurationOf(commitOf[c].all)]
<1>1. IsFiniteSet(pairs)
  BY PairsAre
<1>2. ASSUME NEW c \in pairs
      PROVE  /\ Cardinality(answers[<<c, s>>]) \in Nat /\ Cardinality(commitOf[c].all) \in Nat
             /\ Cardinality(answers[<<c, s>>]) <= Cardinality(commitOf[c].all)
             /\ DurationOf(answers[<<c, s>>]) \in Nat /\ DurationOf(commitOf[c].all) \in Nat
             /\ DurationOf(answers[<<c, s>>]) <= DurationOf(commitOf[c].all)
  <2>. DEFINE T == answers[<<c, s>>]
              S == commitOf[c].all
              n == [t \in S |-> Duration[t]]
  <2>1. T \subseteq S /\ c \in DOMAIN commitOf
    BY PairsAre
  <2>2. IsFiniteSet(S) /\ \A t \in S : Duration[t] \in Nat
    BY <2>1, CommitsAre
  <2>. HIDE DEF T, S
  <2>3. IsFiniteSet(T) /\ Cardinality(T) \in Nat /\ Cardinality(S) \in Nat /\ Cardinality(T) <= Cardinality(S)
    BY <2>1, <2>2, FS_Subset, FS_CardinalityType
  <2>4. Summable(n) /\ DOMAIN n = S /\ [t \in T |-> n[t]] = [t \in T |-> Duration[t]]
    BY <2>1, <2>2 DEF Summable
  <2>5. DurationOf(S) = Total(n) /\ DurationOf(T) = Total([t \in T |-> n[t]])
    BY <2>4 DEF DurationOf
  <2>. HIDE DEF n
  <2>6. DurationOf(T) \in Nat /\ DurationOf(S) \in Nat /\ DurationOf(T) <= DurationOf(S)
    BY <2>1, <2>4, <2>5, TotalOfPart
  <2>. QED  BY <2>3, <2>6 DEF T, S
<1>3. /\ DOMAIN picked = pairs /\ DOMAIN all = pairs /\ DOMAIN took = pairs /\ DOMAIN suite = pairs
      /\ \A c \in pairs : picked[c] \in Nat /\ all[c] \in Nat /\ picked[c] <= all[c]
      /\ \A c \in pairs : took[c] \in Nat /\ suite[c] \in Nat /\ took[c] <= suite[c]
  BY <1>2
<1>4. /\ SelectionRatio(s, pairs) = <<Total(picked), Total(all)>>
      /\ DurationFraction(s, pairs) = <<Total(took), Total(suite)>>
  BY DEF SelectionRatio, DurationFraction
<1>. HIDE DEF picked, all, took, suite, pairs
<1>5. Summable(picked) /\ Summable(all) /\ Summable(took) /\ Summable(suite)
  BY <1>1, <1>3 DEF Summable
<1>6. Total(picked) \in Nat /\ Total(picked) <= Total(all)
  BY <1>3, <1>5, TotalUpTo, TotalIs
<1>7. Total(took) \in Nat /\ Total(took) <= Total(suite)
  BY <1>3, <1>5, TotalUpTo, TotalIs
<1>8. AtMostOne(SelectionRatio(s, pairs)) /\ AtMostOne(DurationFraction(s, pairs))
  BY <1>4, <1>6, <1>7 DEF AtMostOne
<1>. QED  BY <1>8 DEF pairs

LEMMA GivingUpCostsAllNow ==
  ASSUME ScoresInv PROVE GivingUpCostsAll
<1>1. ASSUME NEW s, EscalationRate(s)[1] = EscalationRate(s)[2], NEW c \in Paired(s)
      PROVE  answers[<<c, s>>] = commitOf[c].all
  <2>. DEFINE up == {k \in gaveUp : k[2] = s}
              of == {k \in DOMAIN answers : k[2] = s}
  <2>1. IsFiniteSet(DOMAIN answers) /\ gaveUp \subseteq DOMAIN answers
    BY DEF ScoresInv, AnswersInv
  <2>2. IsFiniteSet(of) /\ up \subseteq of
    BY <2>1, FS_Subset
  <2>3. Cardinality(up) = Cardinality(of)
    BY <1>1 DEF EscalationRate
  <2>4. up = of
    <3>. HIDE DEF up, of
    <3>. QED  BY <2>2, <2>3, FS_Subset
  <2>5. <<c, s>> \in of
    BY PairsAre
  <2>6. <<c, s>> \in gaveUp
    BY <2>4, <2>5
  <2>7. \A k \in gaveUp : answers[k] = commitOf[k[1]].all
    BY DEF ScoresInv, AnswersInv
  <2>8. <<c, s>>[1] = c
    OBVIOUS
  <2>. QED  BY <2>6, <2>7, <2>8
<1>2. ASSUME NEW s, EscalationRate(s)[1] = EscalationRate(s)[2]
      PROVE  /\ SelectionRatio(s, Paired(s))[1] = SelectionRatio(s, Paired(s))[2]
             /\ \A c \in Paired(s) : Hits(c, s) = Full(c) \cap commitOf[c].all
  <2>1. \A c \in Paired(s) : answers[<<c, s>>] = commitOf[c].all
    BY <1>1, <1>2
  <2>2. [c \in Paired(s) |-> Cardinality(answers[<<c, s>>])] = [c \in Paired(s) |-> Cardinality(commitOf[c].all)]
    BY <2>1
  <2>. QED  BY <2>1, <2>2 DEF SelectionRatio, Hits
<1>. QED  BY <1>2, ChargesAre DEF GivingUpCostsAll

-----------------------------------------------------------------------------
(* Percentiles *)

LEMMA PercentileIsATimeNow ==
  ASSUME ScoresInv PROVE PercentileIsATime
<1>. SUFFICES ASSUME samples # <<>>, NEW q \in {1, 50, 95, 100}
              PROVE  /\ Percentile(q) \in Elements(samples)
                     /\ 100 * Cardinality({i \in DOMAIN samples : samples[i] <= Percentile(q)}) >= q * Len(samples)
                     /\ 100 * Cardinality({i \in DOMAIN samples : samples[i] < Percentile(q)}) < q * Len(samples)
  BY DEF PercentileIsATime
<1>. DEFINE n == Len(samples)
            r == Rank(q)
            k == IF (IF r > 1 THEN r ELSE 1) < n THEN (IF r > 1 THEN r ELSE 1) ELSE n
            p == samples[k]
            upTo == {i \in DOMAIN samples : samples[i] <= p}
            below == {i \in DOMAIN samples : samples[i] < p}
<1>1. samples \in Seq(Nat) /\ \A i, h \in DOMAIN samples : i <= h => samples[i] <= samples[h]
  BY DEF ScoresInv, SamplesInv
<1>2. n \in Nat /\ n # 0 /\ DOMAIN samples = 1..n /\ \A i \in 1..n : samples[i] \in Nat
  BY <1>1
<1>3. Percentile(q) = p
  BY DEF Percentile
<1>4. r = (q * n + 99) \div 100
  BY DEF Rank
<1>. HIDE DEF n, r
<1>5. r \in Nat /\ 100 * r >= q * n /\ 100 * r <= q * n + 99
  <2>1. CASE q = 1
    BY <1>2, <1>4, <2>1
  <2>2. CASE q = 50
    BY <1>2, <1>4, <2>2
  <2>3. CASE q = 95
    BY <1>2, <1>4, <2>3
  <2>4. CASE q = 100
    BY <1>2, <1>4, <2>4
  <2>. QED  BY <2>1, <2>2, <2>3, <2>4
<1>6. k \in 1..n /\ 100 * k >= q * n /\ 100 * (k - 1) < q * n
  <2>1. CASE q = 1
    BY <1>2, <1>5, <2>1
  <2>2. CASE q = 50
    BY <1>2, <1>5, <2>2
  <2>3. CASE q = 95
    BY <1>2, <1>5, <2>3
  <2>4. CASE q = 100
    BY <1>2, <1>5, <2>4
  <2>. QED  BY <2>1, <2>2, <2>3, <2>4
<1>. HIDE DEF k
<1>7. 1..k \subseteq upTo /\ below \subseteq 1..(k - 1)
  <2>1. ASSUME NEW i \in 1..k PROVE i \in upTo
    BY <1>1, <1>2, <1>6
  <2>2. ASSUME NEW i \in below PROVE i \in 1..(k - 1)
    <3>1. i \in 1..n /\ ~ (samples[k] <= samples[i])
      BY <1>2, <1>6
    <3>2. ~ (k <= i)
      BY <1>1, <1>2, <1>6, <3>1
    <3>. QED  BY <1>2, <1>6, <3>1, <3>2
  <2>. QED  BY <2>1, <2>2
<1>8. /\ IsFiniteSet(1..n) /\ IsFiniteSet(1..(k - 1)) /\ Cardinality(1..k) = k /\ Cardinality(1..(k - 1)) = k - 1
  <2>1. k \in Nat /\ k - 1 \in Nat /\ 1 \in Int
    BY <1>2, <1>6
  <2>2. IsFiniteSet(1..n)
    BY <1>2, FS_Interval
  <2>3. Cardinality(1..k) = k
    BY <1>2, <1>6, FS_Interval
  <2>4. IsFiniteSet(1..(k - 1)) /\ Cardinality(1..(k - 1)) = k - 1
    <3>. DEFINE h == k - 1
    <3>1. h \in Nat
      BY <2>1
    <3>. HIDE DEF h
    <3>2. IsFiniteSet(1..h) /\ Cardinality(1..h) = IF 1 > h THEN 0 ELSE h - 1 + 1
      BY <3>1, FS_Interval
    <3>3. Cardinality(1..h) = h
      BY <3>1, <3>2
    <3>. QED  BY <3>2, <3>3 DEF h
  <2>. QED  BY <2>2, <2>3, <2>4
<1>9. Cardinality(upTo) \in Nat /\ k <= Cardinality(upTo)
  <2>1. upTo \subseteq 1..n
    BY <1>2
  <2>. HIDE DEF upTo
  <2>2. IsFiniteSet(upTo)
    BY <1>8, <2>1, FS_Subset
  <2>3. Cardinality(1..k) <= Cardinality(upTo)
    BY <1>7, <2>2, FS_Subset
  <2>. QED  BY <1>8, <2>2, <2>3, FS_CardinalityType
<1>10. Cardinality(below) \in Nat /\ Cardinality(below) <= k - 1
  <2>. HIDE DEF below
  <2>. DEFINE I == 1..(k - 1)
  <2>1. below \subseteq I /\ IsFiniteSet(I) /\ Cardinality(I) = k - 1
    BY <1>7, <1>8
  <2>. HIDE DEF I
  <2>2. IsFiniteSet(below) /\ Cardinality(below) <= Cardinality(I)
    BY <2>1, FS_Subset
  <2>. QED  BY <2>1, <2>2, FS_CardinalityType
<1>11. p \in Elements(samples)
  BY <1>2, <1>6 DEF Elements
<1>. DEFINE a == Cardinality(upTo)
            b == Cardinality(below)
            m == q * n
<1>12. m \in Nat
  BY <1>2
<1>. HIDE DEF p, upTo, below, m
<1>13. 100 * a >= m
  <2>1. a \in Nat /\ k <= a /\ 100 * k >= m
    BY <1>6, <1>9 DEF m
  <2>. HIDE DEF a
  <2>. QED  BY <1>6, <1>12, <2>1
<1>14. 100 * b < m
  <2>1. b \in Nat /\ b <= k - 1 /\ 100 * (k - 1) < m
    BY <1>6, <1>10 DEF m
  <2>. HIDE DEF b
  <2>. QED  BY <1>6, <1>12, <2>1
<1>. QED  BY <1>3, <1>11, <1>13, <1>14 DEF n, m, upTo, below

-----------------------------------------------------------------------------
(* Uncovered reports *)

LEMMA SilenceIsNoSignalNow ==
  ASSUME ScoresInv PROVE SilenceIsNoSignal
<1>. DEFINE fired == Fired(DOMAIN reports)
            wrong == {c \in fired : CoveredHits(reports[c]) = Count(reports[c])}
            hits == [c \in fired |-> CoveredHits(reports[c])]
            count == [c \in fired |-> Count(reports[c])]
<1>1. /\ IsFiniteSet(DOMAIN commitOf) /\ DOMAIN reports \subseteq DOMAIN commitOf
      /\ \A c \in DOMAIN reports : reports[c] \in Uncovered
  BY ScoresParameters, FS_Subset DEF ScoresInv, CommitsInv, ReportsInv
<1>2. fired \subseteq DOMAIN reports /\ IsFiniteSet(fired)
  <2>1. fired \subseteq DOMAIN reports
    BY DEF Fired
  <2>. HIDE DEF fired
  <2>. QED  BY <1>1, <2>1, FS_Subset
<1>3. ASSUME NEW c \in fired
      PROVE  /\ hits[c] \in Nat /\ count[c] \in Nat /\ hits[c] <= count[c] /\ count[c] # 0
             /\ hits[c] = CoveredHits(reports[c]) /\ count[c] = Count(reports[c])
  <2>. DEFINE R == reports[c].reported
              H == R \cap reports[c].truth
  <2>1. IsFiniteSet(R) /\ H \subseteq R
    BY <1>1, <1>2, ScoresParameters
  <2>. HIDE DEF R, H
  <2>2. Cardinality(H) \in Nat /\ Cardinality(R) \in Nat /\ Cardinality(H) <= Cardinality(R)
    BY <2>1, FS_Subset, FS_CardinalityType
  <2>3. hits[c] = CoveredHits(reports[c]) /\ count[c] = Count(reports[c])
    OBVIOUS
  <2>4. CoveredHits(reports[c]) = Cardinality(H) /\ Count(reports[c]) = Cardinality(R)
    BY DEF CoveredHits, Count, R, H
  <2>5. Count(reports[c]) > 0
    BY DEF Fired
  <2>. HIDE DEF hits, count
  <2>. QED  BY <2>2, <2>3, <2>4, <2>5
<1>4. DOMAIN hits = fired /\ DOMAIN count = fired
  OBVIOUS
<1>5. /\ ChangeFalse = <<Cardinality(wrong), Cardinality(fired)>>
      /\ LineFalse = <<Total(hits), Total(count)>>
      /\ FireRate = <<Cardinality(fired), Cardinality(DOMAIN commitOf)>>
  BY DEF ChangeFalse, LineFalse, FireRate
<1>6. wrong = {c \in fired : hits[c] = count[c]}
  <2>. HIDE DEF hits, count
  <2>. QED  BY <1>3
<1>. HIDE DEF fired, wrong, hits, count
<1>7. Summable(hits) /\ Summable(count)
  BY <1>2, <1>3, <1>4 DEF Summable
<1>8. wrong \subseteq fired /\ IsFiniteSet(wrong)
  BY <1>2, <1>6, FS_Subset
<1>9. Total(count) = 0 <=> Cardinality(fired) = 0
  <2>1. Total(count) = 0 <=> fired = {}
    BY <1>3, <1>4, <1>7, TotalIsNone
  <2>. QED  BY <1>2, <2>1, FS_EmptySet
<1>10. Cardinality(wrong) > 0 => Total(hits) > 0
  <2>1. Cardinality(wrong) > 0 => wrong # {}
    BY FS_EmptySet
  <2>2. wrong # {} => Total(hits) # 0
    BY <1>3, <1>4, <1>6, <1>7, TotalIsNone
  <2>3. Total(hits) \in Nat
    BY <1>7, TotalIs
  <2>. QED  BY <2>1, <2>2, <2>3
<1>11. Cardinality(wrong) = Cardinality(fired) <=> Total(hits) = Total(count)
  <2>1. Cardinality(wrong) = Cardinality(fired) <=> wrong = fired
    BY <1>2, <1>8, FS_Subset
  <2>2. wrong = fired <=> \A c \in fired : hits[c] = count[c]
    BY <1>6
  <2>3. Total(hits) = Total(count) => \A c \in fired : hits[c] = count[c]
    BY <1>3, <1>4, <1>7, TotalUpTo
  <2>4. (\A c \in fired : hits[c] = count[c]) => Total(hits) = Total(count)
    <3>1. ASSUME \A c \in fired : hits[c] = count[c] PROVE Total(hits) = Total(count)
      <4>1. Total(hits) <= Total(count) /\ Total(count) <= Total(hits)
        BY <1>3, <1>4, <1>7, <3>1, TotalUpTo
      <4>2. Total(hits) \in Nat /\ Total(count) \in Nat
        BY <1>7, TotalIs
      <4>. QED  BY <4>1, <4>2
    <3>. QED  BY <3>1
  <2>. QED  BY <2>1, <2>2, <2>3, <2>4
<1>12. AtMostOne(FireRate)
  <2>1. Cardinality(fired) \in Nat /\ Cardinality(fired) <= Cardinality(DOMAIN commitOf)
    BY <1>1, <1>2, FS_Subset, FS_CardinalityType
  <2>. QED  BY <1>5, <2>1 DEF AtMostOne
<1>. QED  BY <1>5, <1>9, <1>10, <1>11, <1>12 DEF SilenceIsNoSignal

-----------------------------------------------------------------------------
(* The derived arm *)

\* The test files a changed path stands for.
StandsFor(c, p) == IF p \in CollectedFiles(c) THEN {p} ELSE TestFor(c, p)

LEMMA StandsForOne ==
  ASSUME ScoresInv, NEW c, NEW p, c \in DOMAIN commitOf, p \in commitOf[c].changed
  PROVE  \A x, y \in StandsFor(c, p) : x = y
<1>. DEFINE named == Correspondents[p]
            collected == {i \in DOMAIN named : named[i] \in CollectedFiles(c)}
            first == {k \in collected : \A h \in collected : k <= h}
<1>1. commitOf[c] \in Truths
  BY DEF ScoresInv, CommitsInv
<1>2. named \in Seq(Elements(named))
  BY <1>1, ScoresParameters
<1>. HIDE DEF named
<1>3. collected \subseteq Nat
  BY <1>2
<1>. HIDE DEF collected
<1>4. \A i, k \in first : i = k
  <2>1. ASSUME NEW i \in first, NEW k \in first PROVE i = k
    <3>1. i \in Nat /\ k \in Nat
      BY <1>3
    <3>2. i <= k /\ k <= i
      OBVIOUS
    <3>. QED  BY <3>1, <3>2
  <2>. QED  BY <2>1
<1>5. TestFor(c, p) = {named[i] : i \in first}
  BY DEF TestFor, collected, named
<1>. HIDE DEF first
<1>. QED  BY <1>4, <1>5 DEF StandsFor

LEMMA StaticIsDerivedNow ==
  ASSUME ScoresInv PROVE StaticIsDerived
<1>. SUFFICES ASSUME NEW c \in DOMAIN commitOf, <<c, "static">> \in DOMAIN answers
              PROVE  LET static == answers[<<c, "static">>]
                     IN  /\ answers[<<c, Level2>>] \subseteq static /\ static \subseteq commitOf[c].all
                         /\ Cardinality({t[1] : t \in static \ answers[<<c, Level2>>]})
                              <= Cardinality(commitOf[c].changed)
                         /\ Derivable => Derived[<<c, "static">>] = static
  BY DEF StaticIsDerived
<1>. DEFINE static == answers[<<c, "static">>]
            P == commitOf[c].changed
            F == {t[1] : t \in static \ answers[<<c, Level2>>]}
            g == [f \in F |-> CHOOSE p \in P : f \in StandsFor(c, p)]
<1>1. static = Level1(c) \cup answers[<<c, Level2>>]
  BY DEF ScoresInv, StaticInv, Static
<1>2. static \subseteq commitOf[c].all
  <2>1. \A k \in DOMAIN answers : answers[k] \subseteq commitOf[k[1]].all
    BY DEF ScoresInv, AnswersInv
  <2>2. <<c, "static">>[1] = c
    OBVIOUS
  <2>. QED  BY <2>1, <2>2
<1>3. Level1(c) = {t \in commitOf[c].all : t[1] \in UNION {StandsFor(c, p) : p \in P}}
  BY DEF Level1, StandsFor
<1>4. \A f \in F : \E p \in P : f \in StandsFor(c, p)
  <2>. HIDE DEF static
  <2>. QED  BY <1>1, <1>3
<1>5. IsFiniteSet(P)
  BY CommitsAre
<1>6. \A p \in P : \A x, y \in StandsFor(c, p) : x = y
  BY StandsForOne
<1>. HIDE DEF F, P
<1>7. \A f \in F : g[f] \in P /\ f \in StandsFor(c, g[f])
  BY <1>4
<1>8. g \in [F -> P]
  BY <1>7
<1>. HIDE DEF g
<1>9. g \in Injection(F, P)
  BY <1>6, <1>7, <1>8 DEF Injection, IsInjective
<1>10. Cardinality(F) <= Cardinality(P)
  BY <1>5, <1>9, FS_Injection
<1>11. Derived[<<c, "static">>] = Static(c)
  BY DEF Derived
<1>. QED  BY <1>1, <1>2, <1>10, <1>11 DEF F, P, Static

\* For any records, in any order, of any tests, times and changed paths: each
\* score is a share of what it says it is a share of.
THEOREM ScoresAreSharesAlways == ScoresSpec => []ScoresAreShares
<1>1. ScoresInit => ScoresInv
  BY ScoresStart
<1>2. ScoresInv /\ [ScoresNext]_scoreVars => ScoresInv'
  BY ScoresStep
<1>3. ScoresInv => ScoresAreShares
  BY StrataShareOutNow, GivingUpCostsAllNow, PercentileIsATimeNow, SilenceIsNoSignalNow,
     StaticIsDerivedNow DEF ScoresAreShares
<1>. QED  BY <1>1, <1>2, <1>3, PTL DEF ScoresSpec
===============================================================================
