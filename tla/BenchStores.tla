----------------------------- MODULE BenchStores -----------------------------
(***************************************************************************)
(* What the replay benchmark keeps between processes beside its JSON       *)
(* entries: a directory artifact of the cache (cache.py), the virtualenv a *)
(* repository's suite runs in (envsetup.py), and the check that a machine  *)
(* has no cache at all (coldcache.py).  Every process may be killed        *)
(* between two steps, in the middle of a removal or of a copy too.         *)
(***************************************************************************)
EXTENDS Naturals, Sequences, FiniteSets, Sentinels

CONSTANTS
  Writers,      \* processes that store the artifact
  Payloads,     \* what a strategy's state may be
  Recipes,      \* digest -> [python, install]: a corpus entry's recipe
  Plugins,      \* the harness's own installs, a sequence of <<package, version>>
  MaxKills, MaxStores, MaxProvisions

VARIABLES
  \* the artifact: payload directory and marker, and each writer's progress
  payload, marker, wpc, staged, stores,
  \* the virtualenv: what is installed, its stamp, and the provisioner's progress
  site, stamp, ppc, recipe, left, handed, provisions,
  \* the two cache roots: RTDD_BENCH_CACHE as set, files per directory, the verdict
  setting, home, found, verdict,
  kills

artifactVars == <<payload, marker, wpc, staged, stores>>
venvVars == <<site, stamp, ppc, recipe, left, handed, provisions>>
coldVars == <<setting, home, found, verdict>>
storeVars == <<artifactVars, venvVars, coldVars, kills>>

\* A payload some of whose files are gone, or not there yet.
Partial == "partial"
-----------------------------------------------------------------------------
(* Cache.store_artifact: the marker goes first and comes last.             *)

Store(w, v) ==
  /\ wpc[w] = "idle" /\ stores < MaxStores
  /\ marker' = FALSE
  /\ staged' = [staged EXCEPT ![w] = v] /\ wpc' = [wpc EXCEPT ![w] = "staged"]
  /\ stores' = stores + 1
  /\ UNCHANGED <<payload, venvVars, coldVars, kills>>

\* rmtree of the entry that is there, file by file, if one is.
RemoveOld(w) ==
  /\ wpc[w] = "staged" /\ payload # None
  /\ payload' = Partial /\ wpc' = [wpc EXCEPT ![w] = "removing"]
  /\ UNCHANGED <<marker, staged, stores, venvVars, coldVars, kills>>

Removed(w) ==
  /\ wpc[w] = "removing"
  /\ payload' = None /\ wpc' = [wpc EXCEPT ![w] = "removed"]
  /\ UNCHANGED <<marker, staged, stores, venvVars, coldVars, kills>>

\* The copy is renamed into place, which fails if another's is there by now;
\* then the marker is written.
Place(w) ==
  /\ wpc[w] = "removed" \/ (wpc[w] = "staged" /\ payload = None)
  /\ payload' = IF payload = None THEN staged[w] ELSE payload
  /\ wpc' = [wpc EXCEPT ![w] = IF payload = None THEN "placed" ELSE "idle"]
  /\ UNCHANGED <<marker, staged, stores, venvVars, coldVars, kills>>

Mark(w) ==
  /\ wpc[w] = "placed"
  /\ marker' = TRUE /\ wpc' = [wpc EXCEPT ![w] = "idle"]
  /\ UNCHANGED <<payload, staged, stores, venvVars, coldVars, kills>>

\* artifact and restore_artifact: a miss unless both are there.
Readable == marker /\ payload # None

KillWriter(w) ==
  /\ wpc[w] # "idle" /\ kills < MaxKills
  /\ kills' = kills + 1 /\ wpc' = [wpc EXCEPT ![w] = "idle"]
  /\ UNCHANGED <<payload, marker, staged, stores, venvVars, coldVars>>
-----------------------------------------------------------------------------
(* provision: the venv is reused if its stamp carries the recipe's digest, *)
(* and is otherwise cleared and built again, the stamp last.               *)
Pins(seq) == {seq[k] : k \in DOMAIN seq}
AllPins == Pins(Plugins) \cup UNION {Pins(Recipes[d].install) : d \in DOMAIN Recipes}
ASSUME InstallsAreSequences ==
  /\ Plugins \in Seq(AllPins)
  /\ \A d \in DOMAIN Recipes : Recipes[d].install \in Seq(AllPins)

Package == {i[1] : i \in AllPins}
Empty == [p \in Package |-> None]

\* Installing a package replaces the version that is there.
Installed(at, seq) == [p \in Package |->
  LET of == {k \in DOMAIN seq : seq[k][1] = p}
  IN  IF of = {} THEN at[p] ELSE seq[CHOOSE k \in of : \A m \in of : m <= k][2]]

\* The harness's plugins first, so that the corpus's own pins survive them.
Installs(d) == Plugins \o Recipes[d].install

\* _check: only `uv pip install`, of which nothing is run otherwise.
Allowed(d) == Recipes[d].allowed

Provision(d, force) ==
  /\ ppc = "idle" /\ provisions < MaxProvisions
  /\ provisions' = provisions + 1 /\ recipe' = d
  /\ \/ /\ ~force /\ stamp = d \* reused
        /\ handed' = d
        /\ UNCHANGED <<site, stamp, ppc, left>>
     \/ /\ force \/ stamp # d
        /\ Allowed(d) /\ ppc' = "clear" /\ handed' = None
        /\ UNCHANGED <<site, stamp, left>>
     \/ /\ force \/ stamp # d
        /\ ~Allowed(d) /\ handed' = None \* EnvError
        /\ UNCHANGED <<site, stamp, ppc, left>>
  /\ UNCHANGED <<artifactVars, coldVars, kills>>

\* `uv venv --clear`: the stamp is in the directory that is cleared.
ClearOver ==
  /\ ppc = "clear" /\ ppc' = "install" /\ left' = Installs(recipe)
  /\ UNCHANGED <<site, stamp, recipe, handed, provisions, artifactVars, coldVars, kills>>
Clear ==
  /\ ppc = "clear" /\ ppc' = "install" /\ left' = Installs(recipe)
  /\ site' = Empty /\ stamp' = None
  /\ UNCHANGED <<recipe, handed, provisions, artifactVars, coldVars, kills>>

InstallOne ==
  /\ ppc = "install" /\ left # <<>>
  /\ site' = Installed(site, <<Head(left)>>) /\ left' = Tail(left)
  /\ UNCHANGED <<stamp, ppc, recipe, handed, provisions, artifactVars, coldVars, kills>>

\* An install that fails is an EnvError: no stamp is written.
InstallFails ==
  /\ ppc = "install" /\ left # <<>> /\ kills < MaxKills
  /\ ppc' = "idle" /\ kills' = kills + 1
  /\ UNCHANGED <<site, stamp, recipe, left, handed, provisions, artifactVars, coldVars>>

Stamp ==
  /\ ppc = "install" /\ left = <<>>
  /\ stamp' = recipe /\ handed' = recipe /\ ppc' = "idle"
  /\ UNCHANGED <<site, recipe, left, provisions, artifactVars, coldVars, kills>>

KillProvision ==
  /\ ppc # "idle" /\ kills < MaxKills
  /\ kills' = kills + 1 /\ ppc' = "idle"
  /\ UNCHANGED <<site, stamp, recipe, left, handed, provisions, artifactVars, coldVars>>
-----------------------------------------------------------------------------
(* The two roots.  RTDD_BENCH_CACHE moves the first and only the first;    *)
(* empty means unset, in both.                                             *)
Dirs == {"bench/cache", "durable", "home1/.cache", "home2/.cache"}
Settings == {None, "", "durable"}
ReplayRoot(s) == IF s \in {None, ""} THEN "bench/cache" ELSE s
DriverRoot(h) == IF h = 1 THEN "home1/.cache" ELSE "home2/.cache"

ASSUME NoneIsNoVerdict == None \notin {"cold", "refused"}

\* findings: the probe refuses when a root it resolves has a file under it.
Cold(s, h) == found[ReplayRoot(s)] = 0 /\ found[DriverRoot(h)] = 0

Configure(s, h) ==
  /\ setting' = s /\ home' = h /\ verdict' = None
  /\ UNCHANGED <<found, artifactVars, venvVars, kills>>
Fill(d) ==
  /\ found[d] = 0
  /\ found' = [found EXCEPT ![d] = 1] /\ verdict' = None
  /\ UNCHANGED <<setting, home, artifactVars, venvVars, kills>>
Wipe(d) ==
  /\ found[d] # 0
  /\ found' = [found EXCEPT ![d] = 0]
  /\ UNCHANGED <<setting, home, verdict, artifactVars, venvVars, kills>>
ProbeCold ==
  /\ verdict' = IF Cold(setting, home) THEN "cold" ELSE "refused"
  /\ UNCHANGED <<setting, home, found, artifactVars, venvVars, kills>>

\* What the gates open: replay.cli's CACHE and run_arm's CACHE_ROOT.
ReplayCache == IF setting \in {None, ""} THEN "bench/cache" ELSE setting
DriverCache == IF home = 1 THEN "home1/.cache" ELSE "home2/.cache"
-----------------------------------------------------------------------------
StoresInit ==
  /\ payload = None /\ marker = FALSE /\ wpc = [w \in Writers |-> "idle"]
  /\ staged = [w \in Writers |-> None] /\ stores = 0
  /\ site = Empty /\ stamp = None /\ ppc = "idle" /\ recipe = None
  /\ left = <<>> /\ handed = None /\ provisions = 0
  /\ setting = None /\ home = 1 /\ found = [d \in Dirs |-> 0] /\ verdict = None
  /\ kills = 0

ArtifactNext ==
  \/ \E w \in Writers : \/ \E v \in Payloads : Store(w, v)
                        \/ RemoveOld(w) \/ Removed(w) \/ Place(w) \/ Mark(w) \/ KillWriter(w)
VenvNext ==
  \/ \E d \in DOMAIN Recipes, force \in BOOLEAN : Provision(d, force)
  \/ Clear \/ InstallOne \/ InstallFails \/ Stamp \/ KillProvision
ColdNext ==
  \/ \E s \in Settings, h \in {1, 2} : Configure(s, h)
  \/ \E d \in Dirs : Fill(d) \/ Wipe(d)
  \/ ProbeCold

StoresSpec == StoresInit /\ [][ArtifactNext \/ VenvNext \/ ColdNext]_storeVars

StoresTypeOK ==
  /\ payload \in Payloads \cup {None, Partial} /\ marker \in BOOLEAN
  /\ staged \in [Writers -> Payloads \cup {None}]
  /\ site \in [Package -> {i[2] : i \in AllPins} \cup {None}]
  /\ stamp \in DOMAIN Recipes \cup {None} /\ found \in [Dirs -> {0, 1}]

(* What is read back is whole, wherever a process that stored it died: an  *)
(* entry is never half-valid.  (cache.py:12-16)                            *)
NeverHalfValid == Readable => payload \in Payloads

(* An interpreter that is handed out is the recipe's: nothing of an older  *)
(* recipe is left in it, and the corpus's pins won over the harness's.     *)
(* (envsetup.py:14-20, 143-148)                                            *)
HandedIsTheRecipes ==
  handed # None /\ ppc = "idle" =>
    site = Installed(Installed(Empty, Plugins), Recipes[handed].install)

(* A machine said to be cold has nothing a gate could read instead of      *)
(* measuring.  (coldcache.py:9-13)                                         *)
ColdIsCold == verdict = "cold" => found[ReplayCache] = 0 /\ found[DriverCache] = 0

(* What a run takes from the stores it shares with others, and from the    *)
(* runs that died, is whole or is not there.                               *)
StoresAreWhole == NeverHalfValid /\ HandedIsTheRecipes /\ ColdIsCold
=============================================================================
