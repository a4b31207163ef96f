----------------------------- MODULE ReplayRepo -----------------------------
(***************************************************************************)
(* The replay benchmark's driver: bench/replay/replay.py with the cache it *)
(* keeps (cache.py's JSON entries) and the suites it runs (runner.py).  It *)
(* walks a repository's last commits, each in two variants, and records    *)
(* what the whole suite and every selection strategy say of each.          *)
(*                                                                         *)
(* A process may be killed between any two steps.  What it had recorded is *)
(* lost; the cache and the worktree it was in stay on disk.                *)
(***************************************************************************)
EXTENDS Naturals, Sequences, FiniteSets, Sentinels

CONSTANTS
  NPoints,    \* commits 1..NPoints are replayed, each over the one before
  Tests,
  Given,      \* the strategies asked for, in the order they were named
  Configs,    \* digests of run configurations (the rtdd under test is part)
  Worlds,     \* what running things in this repository may answer
  WallEvery,  \* every how many-th commit is timed; 0 for none
  MaxDeaths, MaxRuns

\* A mapping with a value more, or another one.
With(f, x, v) == [y \in {x} \cup DOMAIN f |-> IF y = x THEN v ELSE f[y]]

Commit == 0..NPoints
Cycle == {"natural", "probe"} \X (1..NPoints)
\* What a worktree may hold: a commit, or a commit's tests over its parent.
Tree == ({"at"} \X Commit) \cup ({"probe"} \X (1..NPoints))
VARIABLES
  world,      \* never changes: the history and its suites
  config, run, deaths,
  step, n, j,   \* where the process is: step, cycle number, strategy number
  cache,      \* on disk: <<config, key>> -> value
  dirs,       \* on disk: the cycles that have a worktree
  tree,       \* what that worktree holds, and the state strategies left in it
  onPath,     \* the worktree's source is first on PYTHONPATH
  cyc,        \* the cycle's locals
  out,        \* what this process has recorded
  published   \* what each finished process wrote under results/

replayVars == <<world, config, run, deaths, step, n, j, cache, dirs, tree, onPath,
                cyc, out, published>>
-----------------------------------------------------------------------------
\* strategy_order: a strategy that answers from another's comes after it.
Alphabet == <<"importgraph", "lf", "path", "testmon", "xdist">>
StrategyOrderAsGiven(ids) == ids
StrategyOrder(ids) ==
  LET Only(i) == SelectSeq(ids, LAMBDA x : x = i)
      named == {ids[i] : i \in DOMAIN ids}
  IN  Only("rtdd") \o Only("rtdd-r12") \o SelectSeq(Alphabet, LAMBDA x : x \in named)
        \o Only("random") \o Only("full")

Order == StrategyOrder(Given)
Strategy == {Order[i] : i \in DOMAIN Order}

\* Strategies are named; commits are there to replay.
ASSUME ReplayParameters ==
  /\ NPoints \in Nat \ {0} /\ WallEvery \in Nat /\ IsFiniteSet(Tests)
  /\ Order \in Seq(Strategy) /\ Order # <<>>

\* The rtdd under test has some configuration; the bounds are numbers.
ASSUME RunsAreBounded == Configs # {} /\ MaxRuns \in Nat /\ MaxDeaths \in Nat

NeedsParentState == {"rtdd", "lf"}

\* The i-th turn of the two loops.
CycleAtLate(i) == <<IF i % 2 = 1 THEN "natural" ELSE "probe", (i + 2) \div 2>>
CycleAt(i) == <<IF i % 2 = 1 THEN "natural" ELSE "probe", (i + 1) \div 2>>
c == CycleAt(n)
Base(cy) == IF cy[1] = "natural" THEN cy[2] - 1 ELSE cy[2]
\* What is in the worktree once the child's half is written over the base.
Materialised(cy) == IF cy[1] = "natural" THEN <<"at", cy[2]>> ELSE cy

\* A suite imports the source that comes first: the worktree's, if it is on
\* the path, and the clone's otherwise, which is at the newest commit.
ImportedFromClone == <<"at", NPoints>>
Imported == IF onPath THEN tree.at ELSE ImportedFromClone
Reds(t) == {x \in Tests : world.suite[t][x] = "red"}
Collects(t) == {x \in Tests : world.suite[t][x] # None}
Runs(t) == t \notin world.exits

\* Some tests fail only in the company of the whole suite.
FailingIn(t, sel) == {x \in sel : x \in Reds(t) /\ (sel = Collects(t) \/ x \notin world.masked)}
-----------------------------------------------------------------------------
(* Cache.key, get_json, put_json (a temporary file renamed into place) and *)
(* json_or_build: an entry of this configuration is read, else built and   *)
(* stored.  What is stored says in which process it was measured.          *)
KeyUnsalted(parts) == <<"any", parts>>
Key(parts) == <<config, parts>>
Hit(parts) == Key(parts) \in DOMAIN cache
Value(parts, built) == IF Hit(parts) THEN cache[Key(parts)] ELSE built
PutJson(parts, built) == cache' = IF Hit(parts) THEN cache ELSE With(cache, Key(parts), built)

Measured(failing) == [failing |-> failing, at |-> run]
\* cached_run: a time read back from the cache is nobody's time now.
Timing(parts) == IF Hit(parts) THEN None ELSE run

NoLocals == [pre |-> {}, base |-> {}, all |-> {}, truth |-> {}, full |-> None,
             picked |-> [s \in {} |-> {}]]
NoTree == [at |-> <<"at", 0>>, graph |-> None, failed |-> None]
NoOut == [commits |-> {}, answers |-> {}, walls |-> {}, skipped |-> {}]

ReplayInit ==
  /\ world \in Worlds
  /\ config = CHOOSE k \in Configs : TRUE
  /\ run = 0 /\ deaths = 0 /\ step = "idle" /\ n = 0 /\ j = 0
  /\ cache = [k \in {} |-> {}]
  /\ dirs = {} /\ tree = NoTree /\ onPath = FALSE
  /\ cyc = NoLocals /\ out = NoOut /\ published = <<>>

disk == <<cache, dirs>>
still == <<world, config, run, deaths, published>>

\* `replay` is run, under one configuration or another.
StartReplay ==
  /\ step = "idle" /\ run < MaxRuns
  /\ config' \in Configs
  /\ run' = run + 1 /\ step' = "add" /\ n' = 1 /\ j' = 1
  /\ out' = NoOut /\ cyc' = NoLocals
  /\ UNCHANGED <<world, deaths, disk, tree, onPath, published>>

\* add_worktree, and the worktree's source in front of PYTHONPATH.
AddTree ==
  /\ step = "add" /\ c \notin dirs
  /\ dirs' = dirs \cup {c}
  /\ tree' = [NoTree EXCEPT !.at = <<"at", Base(c)>>]
  /\ onPath' = TRUE /\ step' = "clean"
  /\ UNCHANGED <<still, n, j, cache, cyc, out>>

\* Whatever ends a cycle, `finally` is next.
Skip(reason) ==
  /\ out' = [out EXCEPT !.skipped = @ \cup {<<c, reason>>}]
  /\ step' = "finally"

\* git refuses a directory that is there.  The error is caught nowhere, but
\* the directory is removed on the way out.
Blocked ==
  /\ step = "add" /\ c \in dirs
  /\ dirs' = dirs \ {c} /\ step' = "idle"
  /\ UNCHANGED <<still, n, j, cache, tree, onPath, cyc, out>>

\* clean_tree_failures
Clean ==
  /\ step = "clean"
  /\ LET k == <<"clean", Base(c)>>
         got == Value(k, Measured(Reds(Imported)))
     IN \/ /\ Hit(k) \/ Runs(Imported)
           /\ PutJson(k, Measured(Reds(Imported)))
           /\ cyc' = [cyc EXCEPT !.pre = got.failing]
           /\ step' = "collect-base" /\ UNCHANGED out
        \/ /\ ~Hit(k) /\ ~Runs(Imported)
           /\ Skip("no-tests-collected") /\ UNCHANGED <<cache, cyc>>
  /\ UNCHANGED <<still, n, j, dirs, tree, onPath>>

CollectBase ==
  /\ step = "collect-base"
  /\ PutJson(<<"collect-base", Base(c)>>, Collects(Imported))
  /\ cyc' = [cyc EXCEPT !.base = Value(<<"collect-base", Base(c)>>, Collects(Imported))]
  /\ step' = "prepare" /\ j' = 1
  /\ UNCHANGED <<still, n, dirs, tree, onPath, out>>

(* _prepare_state for every strategy that answers from the base tree, in   *)
(* order: restored from the cache, or built here and stored.               *)
StateOf(sid) == IF sid = "rtdd" THEN Base(c) ELSE Reds(Imported)
Prepare ==
  /\ step = "prepare" /\ j <= Len(Order) /\ Order[j] \in NeedsParentState
  /\ LET sid == Order[j]
         k == <<"state", Base(c), sid>>
         put == IF sid = "rtdd" THEN [tree EXCEPT !.graph = Value(k, StateOf(sid))]
                                ELSE [tree EXCEPT !.failed = Value(k, StateOf(sid))]
     IN \/ /\ Hit(k) \/ sid # "rtdd" \/ Base(c) \notin world.refuses
           /\ PutJson(k, StateOf(sid)) /\ tree' = put /\ j' = j + 1
           /\ UNCHANGED <<step, out>>
        \/ /\ ~Hit(k) /\ sid = "rtdd" /\ Base(c) \in world.refuses
           /\ Skip("parent-state-unavailable") /\ UNCHANGED <<cache, tree, j>>
  /\ UNCHANGED <<still, n, dirs, onPath, cyc>>

NoState ==
  /\ step = "prepare" /\ j <= Len(Order) /\ Order[j] \notin NeedsParentState
  /\ j' = j + 1
  /\ UNCHANGED <<still, step, n, disk, tree, onPath, cyc, out>>

Materialise ==
  /\ step = "prepare" /\ j > Len(Order)
  /\ tree' = [tree EXCEPT !.at = Materialised(c)]
  /\ step' = "collect"
  /\ UNCHANGED <<still, n, j, disk, onPath, cyc, out>>

\* _cached_collect, a skip of the cycle when it finds nothing.
Collect ==
  /\ step = "collect"
  /\ LET k == <<"collect", c>>
         all == Value(k, Collects(Imported))
     IN /\ PutJson(k, Collects(Imported))
        /\ cyc' = [cyc EXCEPT !.all = all]
        /\ \/ all = {} /\ Skip("collect-error-or-empty")
           \/ all # {} /\ step' = "truth" /\ UNCHANGED out
  /\ UNCHANGED <<still, n, j, dirs, tree, onPath>>

\* The whole suite, once; what fails beyond the base's own failures is F_full.
FullDelta(failing) == failing \ cyc.pre
Truth ==
  /\ step = "truth"
  /\ LET k == <<"full", c>>
         got == Value(k, Measured(Reds(Imported)))
     IN \/ /\ Hit(k) \/ Runs(Imported)
           /\ PutJson(k, Measured(Reds(Imported)))
           /\ cyc' = [cyc EXCEPT !.truth = FullDelta(got.failing), !.full = Timing(k)]
           /\ out' = [out EXCEPT !.commits = @ \cup {<<c, cyc.all, FullDelta(got.failing)>>}]
           /\ step' = "select" /\ j' = 1
        \/ /\ ~Hit(k) /\ ~Runs(Imported)
           /\ Skip("no-tests-collected") /\ UNCHANGED <<cache, cyc, j>>
  /\ UNCHANGED <<still, n, dirs, tree, onPath>>

\* A seeded sample: always the same one of its size.
Sample(k, all) == CHOOSE s \in SUBSET all : Cardinality(s) = k
Smaller(a, b) == IF a < b THEN a ELSE b

\* What a strategy answers in this worktree, all ids collected here.
AnswerOf(sid) ==
  CASE sid = "rtdd" -> IF tree.graph = Base(c) THEN world.linked[config][c] \cap cyc.all ELSE {}
    [] sid = "lf" -> IF tree.failed \cap cyc.all # {} THEN tree.failed \cap cyc.all ELSE cyc.all
    [] sid = "random" -> Sample(Smaller(Cardinality(cyc.picked["rtdd"]), Cardinality(cyc.all)), cyc.all)
    [] OTHER -> cyc.all

\* Timed only if the commit is one of the sample.
Timed == WallEvery # 0 /\ (c[2] - 1) % WallEvery = 0
After == IF Timed THEN "wall" ELSE "finally"

\* _cached_selection, and its size for those that come after.  `random` with
\* no peer's size raises: the command line refuses a list without the peer,
\* and the order puts it first.
Select ==
  /\ step = "select"
  /\ LET sid == Order[j]
         k == <<"select", c, sid>>
         tests == Value(k, AnswerOf(sid))
     IN /\ Hit(k) \/ sid # "random" \/ "rtdd" \in DOMAIN cyc.picked
        /\ PutJson(k, AnswerOf(sid))
        /\ cyc' = [cyc EXCEPT !.picked = With(@, sid, tests)]
        /\ out' = [out EXCEPT !.answers = @ \cup {<<c, sid, tests>>}]
  /\ IF j < Len(Order) THEN j' = j + 1 /\ UNCHANGED step ELSE j' = 1 /\ step' = After
  /\ UNCHANGED <<still, n, dirs, tree, onPath>>

\* isolation_violation
Violates(failing, sel) == failing \ cyc.pre # (cyc.truth \cap sel) \ cyc.pre

\* The picked tests are really run, and not run at all when there are none.
\* xdist's flags are in its key; the other strategies have none.
Wall ==
  /\ step = "wall"
  /\ LET sid == Order[j]
         sel == cyc.picked[sid]
         k == <<"subset", c, sid, sel>>
         built == Measured(FailingIn(Imported, sel))
         got == Value(k, built)
     IN \/ /\ Hit(k) \/ sel = {} \/ <<c, sid>> \notin world.unrunnable
           /\ PutJson(k, built)
           /\ out' = [out EXCEPT !.walls = @ \cup {[cycle |-> c, sid |-> sid, full |-> cyc.full,
                        subset |-> Timing(k), isolation |-> Violates(got.failing, sel)]}]
           /\ IF j < Len(Order) THEN j' = j + 1 /\ UNCHANGED step ELSE j' = 1 /\ step' = "finally"
        \/ /\ ~Hit(k) /\ sel # {} /\ <<c, sid>> \in world.unrunnable
           /\ Skip("no-tests-collected") /\ UNCHANGED <<cache, j>>
  /\ UNCHANGED <<still, n, dirs, tree, onPath, cyc>>

\* PYTHONPATH is put back, the worktree removed, and the walk goes on.
Finally ==
  /\ step = "finally"
  /\ onPath' = FALSE /\ dirs' = dirs \ {c} /\ cyc' = NoLocals /\ j' = 1
  /\ IF n < 2 * NPoints THEN n' = n + 1 /\ step' = "add" ELSE step' = "publish" /\ UNCHANGED n
  /\ UNCHANGED <<still, cache, tree, out>>

Publish ==
  /\ step = "publish"
  /\ published' = Append(published, [config |-> config, out |-> out])
  /\ step' = "idle"
  /\ UNCHANGED <<world, config, run, deaths, n, j, disk, tree, onPath, cyc, out>>

Die ==
  /\ step # "idle" /\ deaths < MaxDeaths
  /\ deaths' = deaths + 1 /\ step' = "idle" /\ onPath' = FALSE
  /\ out' = NoOut /\ cyc' = NoLocals
  /\ UNCHANGED <<world, config, run, n, j, disk, tree, published>>

ReplayStep ==
  \/ AddTree \/ Blocked \/ Clean \/ CollectBase \/ Prepare \/ NoState \/ Materialise
  \/ Collect \/ Truth \/ Select \/ Wall \/ Finally \/ Publish

ReplayNext == StartReplay \/ ReplayStep \/ Die

\* A process runs on; one that ended or died is started again, by hand.
ReplaySpec == ReplayInit /\ [][ReplayNext]_replayVars
                /\ WF_replayVars(ReplayStep) /\ WF_replayVars(StartReplay)
-----------------------------------------------------------------------------
(* Types of what outlives a step. *)
ReplayTypeOK ==
  /\ config \in Configs /\ run \in 0..MaxRuns /\ deaths \in 0..MaxDeaths
  /\ n \in 0..(2 * NPoints) /\ j \in 0..(Len(Order) + 1)
  /\ dirs \subseteq Cycle /\ onPath \in BOOLEAN
  /\ tree.at \in Tree /\ tree.graph \in Commit \cup {None}
  /\ tree.failed = None \/ tree.failed \subseteq Tests
  /\ cyc.pre \subseteq Tests /\ cyc.all \subseteq Tests /\ cyc.truth \subseteq Tests
  /\ DOMAIN cyc.picked \subseteq Strategy

\* What a process with no cache and no deaths would record.
TrueFull(cy) == Reds(Materialised(cy)) \ Reds(<<"at", Base(cy)>>)
TrueAnswer(cy, sid, k) ==
  LET all == Collects(Materialised(cy))
      failed == Reds(<<"at", Base(cy)>>) \cap all
      linked == world.linked[k][cy] \cap all
  IN CASE sid = "rtdd" -> linked
       [] sid = "lf" -> IF failed # {} THEN failed ELSE all
       [] sid = "random" -> Sample(Cardinality(linked), all)
       [] OTHER -> all

(* Whatever was killed before, whatever the cache holds, of this or of     *)
(* another configuration: what a process records is what the commits and   *)
(* its own rtdd say.  (cache.py:3-10, replay.py:9-15)                      *)
RecordsAreTrue ==
  /\ \A r \in out.commits : r[2] = Collects(Materialised(r[1])) /\ r[3] = TrueFull(r[1])
  /\ \A a \in out.answers : a[3] = TrueAnswer(a[1], a[2], config)

(* A time that is published was taken by the process that publishes it,    *)
(* on the machine whose name it carries.  (replay.py:527-533)              *)
TimingsAreThisRuns ==
  \A w \in out.walls : {w.full, w.subset} \subseteq {None, run}

(* A test that fails only among all the others is what the isolation flag  *)
(* reports, and nothing else is: not a failure the base had already.       *)
IsolationIsMasking ==
  \A w \in out.walls :
    LET sel == TrueAnswer(w.cycle, w.sid, config)
    IN  w.isolation <=> (/\ sel # Collects(Materialised(w.cycle))
                         /\ sel \cap TrueFull(w.cycle) \cap world.masked # {})

(* A commit that cannot be replayed is data, not an abort: what is         *)
(* published accounts for every cycle.  (replay.py:13-14)                  *)
EveryCycleAccounted ==
  \A i \in DOMAIN published : \A cy \in Cycle :
    \/ \E r \in published[i].out.commits : r[1] = cy
    \/ \E s \in published[i].out.skipped : s[1] = cy

(* A killed process leaves its worktree, which stops the next one; the one *)
(* after that gets through.                                                *)
SomeRunPublishes == <>(published # <<>>)

(* Run again under one configuration, over a cache that is cold, warm or   *)
(* half filled, the benchmark writes the same records; only the times of   *)
(* cached runs are missing.  (bench/results/README.md:49-50)               *)
Bare(w) == [cycle |-> w.cycle, sid |-> w.sid, isolation |-> w.isolation]
Untimed(o) == [o EXCEPT !.walls = {Bare(w) : w \in @}]
RerunsAgree ==
  \A a, b \in DOMAIN published :
    published[a].config = published[b].config =>
      Untimed(published[a].out) = Untimed(published[b].out)

(* A run is what it says: its records are true, its times its own, nothing *)
(* is left out, and one repeated over the same cache says the same.        *)
ReplayIsTrue ==
  /\ RecordsAreTrue /\ TimingsAreThisRuns /\ IsolationIsMasking
  /\ EveryCycleAccounted /\ RerunsAgree
=============================================================================
