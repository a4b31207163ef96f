----------------------------- MODULE ReplayProofs -----------------------------
(***************************************************************************)
(* Proofs about ReplayRepo, for every history, every list of strategies,   *)
(* any number of commits, processes, configurations and deaths; and about  *)
(* Results, which keeps what they measured.                                *)
(*                                                                         *)
(* The cache is what carries one process' work to the next, so the first   *)
(* invariant is that every entry has what its key says, under the          *)
(* configuration in the key: whoever reads it gets what it would have      *)
(* built.  It is kept because a process measures only in a worktree that   *)
(* holds what the key names.  A guard that looks for an entry before it    *)
(* runs a suite then answers as the suite would, cached or not, and the    *)
(* records at each step are exactly those of the cycles that are past and  *)
(* of the part of this one that is done: the second invariant.             *)
(*                                                                         *)
(* A command writes the files of bench/results one by one, and between two *)
(* of them a row holds two runs.  So the invariant of Results speaks of    *)
(* what will be there in the end, through the writes still to come: it is  *)
(* set when a command begins, no write changes it, and a kill takes the    *)
(* directories that were still to be written out of it.                    *)
(*                                                                         *)
(* At the end, both benchmarks together: the types of each of their parts. *)
(***************************************************************************)
EXTENDS MCBench, BenchProofs

\* What the commits and the rtdd of configuration k say of a cycle.
BaseTree(cy) == <<"at", Base(cy)>>
HasState(cy) == "rtdd" \in Strategy => Base(cy) \notin world.refuses
Replayable(cy) ==
  /\ Runs(BaseTree(cy)) /\ HasState(cy)
  /\ Collects(Materialised(cy)) # {} /\ Runs(Materialised(cy))
Reason(cy) ==
  IF Runs(BaseTree(cy)) /\ ~HasState(cy) THEN "parent-state-unavailable"
  ELSE IF Runs(BaseTree(cy)) /\ Collects(Materialised(cy)) = {} THEN "collect-error-or-empty"
  ELSE "no-tests-collected"
TimedCycle(cy) == WallEvery # 0 /\ (cy[2] - 1) % WallEvery = 0

\* The i-th strategy's tests cannot be run, which ends the cycle.
Stops(cy, i, k) ==
  TrueAnswer(cy, Order[i], k) # {} /\ <<cy, Order[i]>> \in world.unrunnable
Masks(cy, picks) ==
  picks # Collects(Materialised(cy)) /\ picks \cap TrueFull(cy) \cap world.masked # {}
BareWall(cy, sid, k) ==
  [cycle |-> cy, sid |-> sid, isolation |-> Masks(cy, TrueAnswer(cy, sid, k))]

\* All that is recorded of a cycle, without its times.
CommitsOf(cy) ==
  IF Replayable(cy) THEN {<<cy, Collects(Materialised(cy)), TrueFull(cy)>>} ELSE {}
AnswersOf(cy, k) ==
  IF Replayable(cy) THEN {<<cy, s, TrueAnswer(cy, s, k)>> : s \in Strategy} ELSE {}
Walled(cy, k) == {i \in DOMAIN Order : \A h \in 1..i : ~Stops(cy, h, k)}
WallsOf(cy, k) ==
  IF Replayable(cy) /\ TimedCycle(cy) THEN {BareWall(cy, Order[i], k) : i \in Walled(cy, k)} ELSE {}
SkipsOf(cy, k) ==
  IF Replayable(cy) /\ (TimedCycle(cy) => \A i \in DOMAIN Order : ~Stops(cy, i, k)) THEN {}
  ELSE {<<cy, Reason(cy)>>}
AllCommits(cs) == UNION {CommitsOf(x) : x \in cs}
AllAnswers(cs, k) == UNION {AnswersOf(x, k) : x \in cs}
AllWalls(cs, k) == UNION {WallsOf(x, k) : x \in cs}
AllSkips(cs, k) == UNION {SkipsOf(x, k) : x \in cs}

(* The history does not change, and what it says does not either.          *)
LEMMA HistoryStays ==
  ASSUME world' = world
  PROVE  /\ \A t : Reds(t)' = Reds(t) /\ Collects(t)' = Collects(t) /\ (Runs(t)' <=> Runs(t))
         /\ \A t, picks : FailingIn(t, picks)' = FailingIn(t, picks)
         /\ \A cy : TrueFull(cy)' = TrueFull(cy) /\ (HasState(cy)' <=> HasState(cy))
         /\ \A cy, s, k : TrueAnswer(cy, s, k)' = TrueAnswer(cy, s, k)
         /\ \A cy, i, k : Stops(cy, i, k)' <=> Stops(cy, i, k)
         /\ \A cy, picks : Masks(cy, picks)' <=> Masks(cy, picks)
         /\ \A cy : Replayable(cy)' <=> Replayable(cy)
<1>1. \A t : Reds(t)' = Reds(t) /\ Collects(t)' = Collects(t) /\ (Runs(t)' <=> Runs(t))
  BY DEF Reds, Collects, Runs
<1>2. \A t, picks : FailingIn(t, picks)' = FailingIn(t, picks) BY <1>1 DEF FailingIn
<1>3. \A cy : TrueFull(cy)' = TrueFull(cy) /\ (HasState(cy)' <=> HasState(cy))
  BY <1>1 DEF TrueFull, HasState
<1>4. \A cy, s, k : TrueAnswer(cy, s, k)' = TrueAnswer(cy, s, k) BY <1>1 DEF TrueAnswer
<1>5. \A cy, i, k : Stops(cy, i, k)' <=> Stops(cy, i, k) BY <1>4 DEF Stops
<1>6. \A cy, picks : Masks(cy, picks)' <=> Masks(cy, picks) BY <1>1, <1>3 DEF Masks
<1>7. \A cy : Replayable(cy)' <=> Replayable(cy) BY <1>1, <1>3 DEF Replayable
<1> QED BY <1>1, <1>2, <1>3, <1>4, <1>5, <1>6, <1>7

LEMMA RecordsStay ==
  ASSUME world' = world
  PROVE  /\ \A cy : CommitsOf(cy)' = CommitsOf(cy)
         /\ \A cy, k : /\ AnswersOf(cy, k)' = AnswersOf(cy, k)
                       /\ WallsOf(cy, k)' = WallsOf(cy, k)
                       /\ SkipsOf(cy, k)' = SkipsOf(cy, k)
         /\ \A cs : AllCommits(cs)' = AllCommits(cs)
         /\ \A cs, k : /\ AllAnswers(cs, k)' = AllAnswers(cs, k)
                       /\ AllWalls(cs, k)' = AllWalls(cs, k)
                       /\ AllSkips(cs, k)' = AllSkips(cs, k)
<1>1. \A cy : CommitsOf(cy)' = CommitsOf(cy) BY HistoryStays DEF CommitsOf
<1>2. \A cy, k : AnswersOf(cy, k)' = AnswersOf(cy, k) BY HistoryStays DEF AnswersOf
<1>3. \A cy, k : WallsOf(cy, k)' = WallsOf(cy, k)
  <2>1. \A cy, s, k : BareWall(cy, s, k)' = BareWall(cy, s, k) BY HistoryStays DEF BareWall, Masks
  <2>2. \A cy, k : Walled(cy, k)' = Walled(cy, k) BY HistoryStays DEF Walled
  <2> QED BY <2>1, <2>2, HistoryStays DEF WallsOf, TimedCycle
<1>4. \A cy : Reason(cy)' = Reason(cy) BY HistoryStays DEF Reason
<1>5. \A cy, k : SkipsOf(cy, k)' = SkipsOf(cy, k) BY <1>4, HistoryStays DEF SkipsOf, TimedCycle
<1>6. \A cs : AllCommits(cs)' = AllCommits(cs) BY <1>1 DEF AllCommits
<1>7. \A cs, k : AllAnswers(cs, k)' = AllAnswers(cs, k) BY <1>2 DEF AllAnswers
<1>8. \A cs, k : AllWalls(cs, k)' = AllWalls(cs, k) BY <1>3 DEF AllWalls
<1>9. \A cs, k : AllSkips(cs, k)' = AllSkips(cs, k) BY <1>5 DEF AllSkips
<1> QED BY <1>1, <1>2, <1>3, <1>5, <1>6, <1>7, <1>8, <1>9
-----------------------------------------------------------------------------
(* The turns of the two loops are the cycles, each once.                   *)
LEMMA TurnsAreCycles ==
  /\ \A i \in 1..(2 * NPoints) : CycleAt(i) \in Cycle
  /\ \A cy \in Cycle : \E i \in 1..(2 * NPoints) : CycleAt(i) = cy
<1> USE ReplayParameters
<1>1. ASSUME NEW i \in 1..(2 * NPoints) PROVE CycleAt(i) \in Cycle
  <2>1. (i + 1) \div 2 \in 1..NPoints BY SMT
  <2> QED BY <2>1 DEF CycleAt, Cycle
<1>2. ASSUME NEW cy \in Cycle PROVE \E i \in 1..(2 * NPoints) : CycleAt(i) = cy
  <2>1. cy = <<cy[1], cy[2]>> /\ cy[1] \in {"natural", "probe"} /\ cy[2] \in 1..NPoints BY DEF Cycle
  <2>2. CASE cy[1] = "natural"
    <3>1. /\ 2 * cy[2] - 1 \in 1..(2 * NPoints) /\ (2 * cy[2] - 1) % 2 = 1
          /\ (2 * cy[2] - 1 + 1) \div 2 = cy[2]
      BY <2>1, SMT
    <3>2. CycleAt(2 * cy[2] - 1) = cy BY <2>1, <2>2, <3>1 DEF CycleAt
    <3> QED BY <3>1, <3>2
  <2>3. CASE cy[1] = "probe"
    <3>1. 2 * cy[2] \in 1..(2 * NPoints) /\ (2 * cy[2]) % 2 # 1 /\ (2 * cy[2] + 1) \div 2 = cy[2]
      BY <2>1, SMT
    <3>2. CycleAt(2 * cy[2]) = cy BY <2>1, <2>3, <3>1 DEF CycleAt
    <3> QED BY <3>1, <3>2
  <2> QED BY <2>1, <2>2, <2>3
<1> QED BY <1>1, <1>2

LEMMA WithAt ==
  ASSUME NEW f, NEW x, NEW v
  PROVE  /\ DOMAIN With(f, x, v) = {x} \cup DOMAIN f
         /\ With(f, x, v)[x] = v
         /\ \A y \in DOMAIN f : y # x => With(f, x, v)[y] = f[y]
BY DEF With

\* The process' records, field by field.
IsOut(o) == o = [commits |-> o.commits, answers |-> o.answers, walls |-> o.walls,
                 skipped |-> o.skipped]
IsTree(t) == t = [at |-> t.at, graph |-> t.graph, failed |-> t.failed]
IsCyc(l) == l = [pre |-> l.pre, base |-> l.base, all |-> l.all, truth |-> l.truth,
                 full |-> l.full, picked |-> l.picked]
-----------------------------------------------------------------------------
(* The cache.                                                              *)
IsEntry(k, parts, v) ==
  /\ parts[1] = "clean" =>
       v.failing = Reds(<<"at", parts[2]>>) /\ Runs(<<"at", parts[2]>>)
  /\ parts[1] = "state" =>
       /\ parts[3] = "rtdd" => v = parts[2] /\ parts[2] \notin world.refuses
       /\ parts[3] # "rtdd" => v = Reds(<<"at", parts[2]>>)
  /\ parts[1] = "collect" => v = Collects(Materialised(parts[2]))
  /\ parts[1] = "full" =>
       v.failing = Reds(Materialised(parts[2])) /\ Runs(Materialised(parts[2]))
  /\ parts[1] = "select" => v = TrueAnswer(parts[2], parts[3], k)
  /\ parts[1] = "subset" =>
       /\ v.failing = FailingIn(Materialised(parts[2]), parts[4])
       /\ parts[4] = {} \/ <<parts[2], parts[3]>> \notin world.unrunnable

CacheIsTrue == \A key \in DOMAIN cache : IsEntry(key[1], key[2], cache[key])

LEMMA EntriesStay ==
  ASSUME world' = world
  PROVE  \A k, parts, v : IsEntry(k, parts, v)' <=> IsEntry(k, parts, v)
BY HistoryStays DEF IsEntry

\* Read or built, it is what the key says.
LEMMA ValueIsTrue ==
  ASSUME CacheIsTrue, NEW parts, NEW built, Hit(parts) \/ IsEntry(config, parts, built)
  PROVE  IsEntry(config, parts, Value(parts, built))
<1>1. CASE Hit(parts)
  <2>1. Key(parts) \in DOMAIN cache /\ Key(parts)[1] = config /\ Key(parts)[2] = parts
    BY <1>1 DEF Hit, Key
  <2>2. IsEntry(config, parts, cache[Key(parts)]) BY <2>1 DEF CacheIsTrue
  <2> QED BY <1>1, <2>2 DEF Value
<1>2. CASE ~Hit(parts) BY <1>2 DEF Value
<1> QED BY <1>1, <1>2

LEMMA PutIsTrue ==
  ASSUME CacheIsTrue, world' = world, NEW parts, NEW built, PutJson(parts, built),
         Hit(parts) \/ IsEntry(config, parts, built)
  PROVE  CacheIsTrue'
<1>1. CASE Hit(parts)
  <2>1. cache' = cache BY <1>1 DEF PutJson
  <2> QED BY <2>1, EntriesStay DEF CacheIsTrue
<1>2. CASE ~Hit(parts)
  <2>1. cache' = With(cache, Key(parts), built) BY <1>2 DEF PutJson
  <2>2. /\ DOMAIN cache' = {Key(parts)} \cup DOMAIN cache /\ cache'[Key(parts)] = built
        /\ \A key \in DOMAIN cache : key # Key(parts) => cache'[key] = cache[key]
    <3> DEFINE k == Key(parts)
    <3>1. cache' = With(cache, k, built) BY <2>1
    <3> HIDE DEF k
    <3>2. /\ DOMAIN cache' = {k} \cup DOMAIN cache /\ cache'[k] = built
          /\ \A key \in DOMAIN cache : key # k => cache'[key] = cache[key]
      BY <3>1 DEF With
    <3> QED BY <3>2 DEF k
  <2>3. Key(parts)[1] = config /\ Key(parts)[2] = parts BY DEF Key
  <2>4. ASSUME NEW key \in DOMAIN cache' PROVE IsEntry(key[1], key[2], cache'[key])
    <3>1. CASE key = Key(parts) BY <1>2, <2>2, <2>3, <3>1
    <3>2. CASE key # Key(parts) BY <2>2, <3>2 DEF CacheIsTrue
    <3> QED BY <3>1, <3>2
  <2> QED BY <2>4, EntriesStay DEF CacheIsTrue
<1> QED BY <1>1, <1>2
-----------------------------------------------------------------------------
(* Where a process is, what it measures in, and what it knows of its cycle. *)
Loading == {"clean", "collect-base", "prepare"}
Measuring == {"collect", "truth", "select", "wall"}

Placed ==
  /\ step \in Loading \cup Measuring \cup {"idle", "add", "finally", "publish"}
  /\ step # "idle" => n \in 1..(2 * NPoints)
  /\ step = "publish" => n = 2 * NPoints
  /\ step = "prepare" => j \in 1..(Len(Order) + 1)
  /\ step \in {"select", "wall"} => j \in 1..Len(Order)
  /\ step \in Loading \cup {"add", "collect", "truth"} => DOMAIN cyc.picked = {}
  /\ IsTree(tree) /\ IsCyc(cyc) /\ IsOut(out)

InTree ==
  /\ step \in Loading \cup Measuring => onPath
  /\ step \in Loading => tree.at = BaseTree(c)
  /\ step \in Measuring => tree.at = Materialised(c)

\* What a strategy that answers from the parent finds in the worktree.
Prepared(sid) ==
  /\ sid = "rtdd" => tree.graph = Base(c) /\ Base(c) \notin world.refuses
  /\ sid = "lf" => tree.failed = Reds(BaseTree(c))
Ready(upTo) == \A i \in 1..upTo : Prepared(Order[i])

Known ==
  /\ step \in (Loading \ {"clean"}) \cup Measuring => cyc.pre = Reds(BaseTree(c)) /\ Runs(BaseTree(c))
  /\ step = "prepare" => Ready(j - 1)
  /\ step \in Measuring => Ready(Len(Order))
  /\ step \in Measuring \ {"collect"} => cyc.all = Collects(Materialised(c)) /\ cyc.all # {}
  /\ step \in {"select", "wall"} =>
       /\ cyc.truth = TrueFull(c) /\ cyc.full \in {None, run} /\ Runs(Materialised(c))
       /\ \A s \in DOMAIN cyc.picked : cyc.picked[s] = TrueAnswer(c, s, config)
  /\ step = "select" => \A i \in 1..(j - 1) : Order[i] \in DOMAIN cyc.picked
  /\ step = "wall" =>
       /\ TimedCycle(c)
       /\ \A i \in 1..Len(Order) : Order[i] \in DOMAIN cyc.picked
       /\ \A h \in 1..(j - 1) : ~Stops(c, h, config)

(* What is recorded: of the cycles that are past all there is, of this one *)
(* what the steps behind have said.                                        *)
Past == {CycleAt(i) : i \in (IF step = "publish" THEN 1..n ELSE 1..(n - 1))}
NowCommits == IF step \in {"select", "wall", "finally"} THEN CommitsOf(c) ELSE {}
NowAnswers ==
  IF step = "select" THEN {<<c, Order[i], TrueAnswer(c, Order[i], config)>> : i \in 1..(j - 1)}
  ELSE IF step \in {"wall", "finally"} THEN AnswersOf(c, config) ELSE {}
NowWalls ==
  IF step = "wall" THEN {BareWall(c, Order[i], config) : i \in 1..(j - 1)}
  ELSE IF step = "finally" THEN WallsOf(c, config) ELSE {}
NowSkips == IF step = "finally" THEN SkipsOf(c, config) ELSE {}
BareWalls(o) == {Bare(w) : w \in o.walls}

Exact ==
  step # "idle" =>
    /\ out.commits = AllCommits(Past) \cup NowCommits
    /\ out.answers = AllAnswers(Past, config) \cup NowAnswers
    /\ BareWalls(out) = AllWalls(Past, config) \cup NowWalls
    /\ out.skipped = AllSkips(Past, config) \cup NowSkips

Sound == RecordsAreTrue /\ TimingsAreThisRuns /\ IsolationIsMasking

IsWhole(p) ==
  /\ IsOut(p.out)
  /\ p.out.commits = AllCommits(Cycle)
  /\ p.out.answers = AllAnswers(Cycle, p.config)
  /\ BareWalls(p.out) = AllWalls(Cycle, p.config)
  /\ p.out.skipped = AllSkips(Cycle, p.config)
PublishedWhole ==
  \E S : published \in Seq(S) /\ \A i \in 1..Len(published) : IsWhole(published[i])

Walk == Placed /\ InTree /\ Known
ReplayInv == CacheIsTrue /\ Walk /\ Exact /\ Sound /\ PublishedWhole

LEMMA OrderIsSeq ==
  /\ Len(Order) \in Nat \ {0} /\ DOMAIN Order = 1..Len(Order)
  /\ Strategy = {Order[i] : i \in 1..Len(Order)}
<1> DEFINE m == Len(Order)
<1>1. Order \in Seq(Strategy) /\ Order # <<>> BY ReplayParameters
<1>2. m \in Nat /\ DOMAIN Order = 1..m BY <1>1
<1>3. m # 0 BY <1>1
<1> QED BY <1>2, <1>3 DEF Strategy

\* What a cycle's records are built from does not change while it lasts.
LEMMA WithinACycle ==
  ASSUME Exact, world' = world, config' = config, n' = n, step \notin {"idle", "publish"},
         step' # "publish", NEW dc, NEW da, NEW dw, NEW ds,
         out'.commits = out.commits \cup dc, NowCommits' = NowCommits \cup dc,
         out'.answers = out.answers \cup da, NowAnswers' = NowAnswers \cup da,
         BareWalls(out') = BareWalls(out) \cup dw, NowWalls' = NowWalls \cup dw,
         out'.skipped = out.skipped \cup ds, NowSkips' = NowSkips \cup ds
  PROVE  Exact'
<1>1. Past' = Past BY DEF Past, CycleAt
<1>2. /\ AllCommits(Past)' = AllCommits(Past) /\ AllAnswers(Past, config)' = AllAnswers(Past, config)
      /\ AllWalls(Past, config)' = AllWalls(Past, config)
      /\ AllSkips(Past, config)' = AllSkips(Past, config)
  BY <1>1, RecordsStay
<1> QED BY <1>2 DEF Exact, BareWalls, Bare
-----------------------------------------------------------------------------
LEMMA ReplayStarts == ReplayInit => ReplayInv
<1> SUFFICES ASSUME ReplayInit PROVE ReplayInv OBVIOUS
<1>1. CacheIsTrue BY DEF ReplayInit, CacheIsTrue
<1>2. Walk BY DEF ReplayInit, Walk, Placed, InTree, Known, Loading, Measuring, IsTree, IsCyc, IsOut,
              NoTree, NoLocals, NoOut
<1>3. Exact BY DEF ReplayInit, Exact
<1>4. Sound BY DEF ReplayInit, Sound, RecordsAreTrue, TimingsAreThisRuns, IsolationIsMasking, NoOut
<1>5. PublishedWhole
  <2>1. published = <<>> BY DEF ReplayInit
  <2> QED BY <2>1 DEF PublishedWhole
<1> QED BY <1>1, <1>2, <1>3, <1>4, <1>5 DEF ReplayInv

(* What a step does not touch stays as it was.                             *)
LEMMA CacheStays ==
  ASSUME CacheIsTrue, world' = world, cache' = cache
  PROVE  CacheIsTrue'
BY EntriesStay DEF CacheIsTrue

LEMMA SoundStays ==
  ASSUME Sound, world' = world, config' = config, run' = run,
         out'.commits = out.commits, out'.answers = out.answers, out'.walls = out.walls
  PROVE  Sound'
<1>1. RecordsAreTrue' BY HistoryStays DEF Sound, RecordsAreTrue
<1>2. TimingsAreThisRuns' BY DEF Sound, TimingsAreThisRuns
<1>3. IsolationIsMasking' BY HistoryStays DEF Sound, IsolationIsMasking
<1> QED BY <1>1, <1>2, <1>3 DEF Sound

LEMMA PublishedStays ==
  ASSUME PublishedWhole, world' = world, published' = published
  PROVE  PublishedWhole'
<1>1. PICK S : published \in Seq(S) /\ \A i \in 1..Len(published) : IsWhole(published[i])
  BY DEF PublishedWhole
<1>2. \A p : IsWhole(p)' <=> IsWhole(p) BY RecordsStay DEF IsWhole, IsOut, BareWalls, Bare
<1> QED BY <1>1, <1>2 DEF PublishedWhole

(* A step that records nothing of the cycle it is in.                      *)
LEMMA NothingRecorded ==
  ASSUME Exact, Sound, world' = world, config' = config, run' = run, n' = n, out' = out,
         step \notin {"idle", "publish"}, step' # "publish",
         NowCommits' = NowCommits, NowAnswers' = NowAnswers, NowWalls' = NowWalls,
         NowSkips' = NowSkips
  PROVE  Exact' /\ Sound'
<1>1. Sound' BY SoundStays
<1>2. /\ out'.commits = out.commits \cup {} /\ out'.answers = out.answers \cup {}
      /\ BareWalls(out') = BareWalls(out) \cup {} /\ out'.skipped = out.skipped \cup {}
  OBVIOUS
<1>3. /\ NowCommits' = NowCommits \cup {} /\ NowAnswers' = NowAnswers \cup {}
      /\ NowWalls' = NowWalls \cup {} /\ NowSkips' = NowSkips \cup {}
  OBVIOUS
<1>4. Exact' BY <1>2, <1>3, WithinACycle
<1> QED BY <1>1, <1>4

\* A skip is recorded with the reason the commits give.
LEMMA SkipIsRecorded ==
  ASSUME NEW reason, Skip(reason), reason = Reason(c), IsOut(out),
         Exact, Sound, world' = world, config' = config, run' = run, n' = n,
         step \notin {"idle", "publish", "finally"},
         NowCommits = CommitsOf(c), NowAnswers = AnswersOf(c, config),
         NowWalls = WallsOf(c, config), SkipsOf(c, config) = {<<c, Reason(c)>>}
  PROVE  Exact' /\ Sound' /\ IsOut(out') /\ step' = "finally"
<1>1. /\ step' = "finally"
      /\ out' = [out EXCEPT !.skipped = @ \cup {<<c, reason>>}] BY DEF Skip
<1>2. out' = [commits |-> out.commits, answers |-> out.answers, walls |-> out.walls,
              skipped |-> out.skipped \cup {<<c, reason>>}]
  BY <1>1 DEF IsOut
<1>3. IsOut(out') BY <1>2 DEF IsOut
<1>4. Sound' BY <1>2, SoundStays
<1>5. c' = c BY DEF CycleAt, c
<1>6. /\ NowCommits' = NowCommits \cup {} /\ NowAnswers' = NowAnswers \cup {}
      /\ NowWalls' = NowWalls \cup {} /\ NowSkips' = NowSkips \cup {<<c, reason>>}
  BY <1>1, <1>5, RecordsStay DEF NowCommits, NowAnswers, NowWalls, NowSkips
<1>7. /\ out'.commits = out.commits \cup {} /\ out'.answers = out.answers \cup {}
      /\ BareWalls(out') = BareWalls(out) \cup {}
      /\ out'.skipped = out.skipped \cup {<<c, reason>>}
  BY <1>2 DEF BareWalls
<1>8. Exact' BY <1>1, <1>6, <1>7, WithinACycle
<1> QED BY <1>1, <1>3, <1>4, <1>8

\* A cycle that cannot be replayed has no records but the reason.
LEMMA NotReplayed ==
  ASSUME NEW cy, NEW k, ~Replayable(cy)
  PROVE  /\ CommitsOf(cy) = {} /\ AnswersOf(cy, k) = {} /\ WallsOf(cy, k) = {}
         /\ SkipsOf(cy, k) = {<<cy, Reason(cy)>>}
BY DEF CommitsOf, AnswersOf, WallsOf, SkipsOf
-----------------------------------------------------------------------------
LEMMA StartReplayKeeps == ReplayInv /\ StartReplay => ReplayInv'
<1> SUFFICES ASSUME ReplayInv, StartReplay PROVE ReplayInv' OBVIOUS
<1>1. CacheIsTrue' BY CacheStays DEF ReplayInv, StartReplay, disk
<1>2. PublishedWhole' BY PublishedStays DEF ReplayInv, StartReplay
<1>3. /\ step' = "add" /\ n' = 1 /\ j' = 1 /\ out' = NoOut /\ cyc' = NoLocals /\ tree' = tree
      /\ world' = world
  BY DEF StartReplay
<1>4. Walk'
  <2>1. 1 \in 1..(2 * NPoints) BY ReplayParameters
  <2>2. IsTree(tree) BY DEF ReplayInv, Walk, Placed
  <2>3. Placed' BY <1>3, <2>1, <2>2 DEF Placed, IsTree, IsCyc, IsOut, NoLocals, NoOut, Loading, Measuring
  <2>4. InTree' /\ Known' BY <1>3 DEF InTree, Known, Loading, Measuring
  <2> QED BY <2>3, <2>4 DEF Walk
<1>5. Exact'
  <2>1. Past' = {} BY <1>3 DEF Past
  <2>2. /\ AllCommits({})' = {} /\ AllAnswers({}, config)' = {}
        /\ AllWalls({}, config)' = {} /\ AllSkips({}, config)' = {}
    BY DEF AllCommits, AllAnswers, AllWalls, AllSkips
  <2>3. NowCommits' = {} /\ NowAnswers' = {} /\ NowWalls' = {} /\ NowSkips' = {}
    BY <1>3 DEF NowCommits, NowAnswers, NowWalls, NowSkips
  <2>4. /\ out'.commits = {} /\ out'.answers = {} /\ BareWalls(out') = {} /\ out'.skipped = {}
    BY <1>3 DEF NoOut, BareWalls
  <2> QED BY <2>1, <2>2, <2>3, <2>4 DEF Exact, BareWalls, Bare
<1>6. Sound'
  BY <1>3 DEF NoOut, Sound, RecordsAreTrue, TimingsAreThisRuns, IsolationIsMasking
<1> QED BY <1>1, <1>2, <1>4, <1>5, <1>6 DEF ReplayInv

\* A process that stops, or is killed, leaves the cache and what is written.
LEMMA StopKeeps ==
  ASSUME ReplayInv, world' = world, cache' = cache, published' = published, step' = "idle", Sound',
         IsTree(tree'), IsCyc(cyc'), IsOut(out')
  PROVE  ReplayInv'
<1>1. CacheIsTrue' BY CacheStays DEF ReplayInv
<1>2. PublishedWhole' BY PublishedStays DEF ReplayInv
<1>3. Walk' BY DEF Walk, Placed, InTree, Known, Loading, Measuring, IsTree, IsCyc, IsOut
<1>4. Exact' BY DEF Exact
<1> QED BY <1>1, <1>2, <1>3, <1>4 DEF ReplayInv

LEMMA DieKeeps == ReplayInv /\ Die => ReplayInv'
<1> SUFFICES ASSUME ReplayInv, Die PROVE ReplayInv' OBVIOUS
<1>1. Sound'
  BY DEF Die, NoOut, Sound, RecordsAreTrue, TimingsAreThisRuns, IsolationIsMasking
<1>2. IsTree(tree') /\ IsCyc(cyc') /\ IsOut(out')
  BY DEF Die, ReplayInv, Walk, Placed, IsTree, IsCyc, IsOut, NoOut, NoLocals
<1> QED BY <1>1, <1>2, StopKeeps DEF Die, disk

LEMMA BlockedKeeps == ReplayInv /\ Blocked => ReplayInv'
<1> SUFFICES ASSUME ReplayInv, Blocked PROVE ReplayInv' OBVIOUS
<1>1. Sound' BY SoundStays DEF ReplayInv, Blocked, still
<1>2. IsTree(tree') /\ IsCyc(cyc') /\ IsOut(out') BY DEF Blocked, ReplayInv, Walk, Placed
<1> QED BY <1>1, <1>2, StopKeeps DEF Blocked, still

LEMMA PublishKeeps == ReplayInv /\ Publish => ReplayInv'
<1> SUFFICES ASSUME ReplayInv, Publish PROVE ReplayInv' OBVIOUS
<1> USE DEF Publish, disk
<1>1. CacheIsTrue' BY CacheStays DEF ReplayInv
<1>2. Sound' BY SoundStays DEF ReplayInv
<1>3. Walk' BY DEF ReplayInv, Walk, Placed, InTree, Known, Loading, Measuring, IsTree, IsCyc, IsOut
<1>4. Exact' BY DEF Exact
<1>5. Past = Cycle
  <2>1. Past = {CycleAt(i) : i \in 1..(2 * NPoints)} BY DEF Past, ReplayInv, Walk, Placed
  <2> QED BY <2>1, TurnsAreCycles
<1>6. NowCommits = {} /\ NowAnswers = {} /\ NowWalls = {} /\ NowSkips = {}
  BY DEF NowCommits, NowAnswers, NowWalls, NowSkips
<1> DEFINE p == [config |-> config, out |-> out]
<1>7. IsWhole(p) BY <1>5, <1>6 DEF ReplayInv, Exact, IsWhole, Walk, Placed
<1>8. PublishedWhole'
  <2>1. PICK S : published \in Seq(S) /\ \A i \in 1..Len(published) : IsWhole(published[i])
    BY DEF PublishedWhole, ReplayInv
  <2>2. \A q : IsWhole(q)' <=> IsWhole(q) BY RecordsStay DEF IsWhole, IsOut, BareWalls, Bare
  <2>3. published' = Append(published, p) OBVIOUS
  <2> HIDE DEF p
  <2>4. published' \in Seq(S \cup {p})
    <3>1. published \in Seq(S \cup {p}) BY <2>1
    <3> QED BY <2>3, <3>1
  <2>5. \A i \in 1..Len(published') : IsWhole(published'[i]) BY <1>7, <2>1, <2>3
  <2> QED BY <2>2, <2>4, <2>5 DEF PublishedWhole
<1> QED BY <1>1, <1>2, <1>3, <1>4, <1>8 DEF ReplayInv
-----------------------------------------------------------------------------
LEMMA AddTreeKeeps == ReplayInv /\ AddTree => ReplayInv'
<1> SUFFICES ASSUME ReplayInv, AddTree PROVE ReplayInv' OBVIOUS
<1> USE DEF AddTree, still
<1>1. CacheIsTrue' BY CacheStays DEF ReplayInv
<1>2. PublishedWhole' BY PublishedStays DEF ReplayInv
<1>3. tree' = [at |-> <<"at", Base(c)>>, graph |-> None, failed |-> None] BY DEF NoTree
<1>4. c' = c BY DEF c, CycleAt
<1>5. Walk'
  <2>1. Placed' BY <1>3 DEF ReplayInv, Walk, Placed, Loading, Measuring, IsTree, IsCyc, IsOut
  <2>2. InTree' BY <1>3, <1>4 DEF InTree, Loading, Measuring, BaseTree
  <2>3. Known' BY DEF Known, Loading, Measuring
  <2> QED BY <2>1, <2>2, <2>3 DEF Walk
<1>6. NowCommits' = NowCommits /\ NowAnswers' = NowAnswers /\ NowWalls' = NowWalls /\ NowSkips' = NowSkips
  BY DEF NowCommits, NowAnswers, NowWalls, NowSkips
<1>7. Exact' /\ Sound' BY <1>6, NothingRecorded DEF ReplayInv
<1> QED BY <1>1, <1>2, <1>5, <1>7 DEF ReplayInv

\* After a skip only the place is known.
LEMMA SkipKeeps ==
  ASSUME ReplayInv, world' = world, published' = published, n' = n, config' = config,
         CacheIsTrue', Exact', Sound', step \notin {"idle", "publish"}, step' = "finally",
         IsTree(tree'), IsCyc(cyc'), IsOut(out')
  PROVE  ReplayInv'
<1>1. PublishedWhole' BY PublishedStays DEF ReplayInv
<1>2. Walk' BY DEF ReplayInv, Walk, Placed, InTree, Known, Loading, Measuring, IsTree, IsCyc, IsOut
<1> QED BY <1>1, <1>2 DEF ReplayInv

LEMMA CleanKeeps == ReplayInv /\ Clean => ReplayInv'
<1> SUFFICES ASSUME ReplayInv, Clean PROVE ReplayInv' OBVIOUS
<1> DEFINE k == <<"clean", Base(c)>>
           built == Measured(Reds(Imported))
           got == Value(k, built)
<1>1. /\ step = "clean" /\ UNCHANGED <<world, config, run, deaths, published, n, j, dirs, tree, onPath>>
      /\ \/ /\ Hit(k) \/ Runs(Imported)
            /\ PutJson(k, built) /\ cyc' = [cyc EXCEPT !.pre = got.failing]
            /\ step' = "collect-base" /\ UNCHANGED out
         \/ /\ ~Hit(k) /\ ~Runs(Imported)
            /\ Skip("no-tests-collected") /\ UNCHANGED <<cache, cyc>>
  BY DEF Clean, still
<1>2. Imported = BaseTree(c) BY <1>1 DEF ReplayInv, Walk, InTree, Loading, Imported
<1>3. BaseTree(c) = <<"at", Base(c)>> /\ c' = c BY <1>1 DEF BaseTree, c, CycleAt
<1>4. CASE (Hit(k) \/ Runs(Imported)) /\ PutJson(k, built) /\ step' = "collect-base"
             /\ cyc' = [cyc EXCEPT !.pre = got.failing] /\ UNCHANGED out
  <2>1. Hit(k) \/ IsEntry(config, k, built) BY <1>2, <1>3, <1>4 DEF IsEntry, Measured
  <2>2. CacheIsTrue' BY <1>1, <1>4, <2>1, PutIsTrue DEF ReplayInv
  <2>3. IsEntry(config, k, got) BY <2>1, ValueIsTrue DEF ReplayInv
  <2>4. got.failing = Reds(BaseTree(c)) /\ Runs(BaseTree(c)) BY <1>3, <2>3 DEF IsEntry
  <2>5. cyc' = [pre |-> got.failing, base |-> cyc.base, all |-> cyc.all, truth |-> cyc.truth,
                full |-> cyc.full, picked |-> cyc.picked]
    BY <1>4 DEF ReplayInv, Walk, Placed, IsCyc
  <2>6. PublishedWhole' BY <1>1, PublishedStays DEF ReplayInv
  <2>7. Walk'
    <3>1. Placed' BY <1>1, <1>4, <2>5 DEF ReplayInv, Walk, Placed, Loading, Measuring, IsTree, IsCyc, IsOut
    <3>2. InTree' BY <1>1, <1>3, <1>4 DEF ReplayInv, Walk, InTree, Loading, Measuring, BaseTree
    <3>3. (cyc.pre = Reds(BaseTree(c)) /\ Runs(BaseTree(c)))' BY <1>1, <1>3, <2>4, <2>5, HistoryStays DEF BaseTree
    <3>4. Known' BY <1>4, <3>3 DEF Known, Loading, Measuring
    <3> QED BY <3>1, <3>2, <3>4 DEF Walk
  <2>8. /\ NowCommits' = NowCommits /\ NowAnswers' = NowAnswers /\ NowWalls' = NowWalls
        /\ NowSkips' = NowSkips
    BY <1>1, <1>4 DEF NowCommits, NowAnswers, NowWalls, NowSkips
  <2>9. Exact' /\ Sound' BY <1>1, <1>4, <2>8, NothingRecorded DEF ReplayInv
  <2> QED BY <2>2, <2>6, <2>7, <2>9 DEF ReplayInv
<1>5. CASE ~Hit(k) /\ ~Runs(Imported) /\ Skip("no-tests-collected") /\ UNCHANGED <<cache, cyc>>
  <2>1. ~Replayable(c) /\ Reason(c) = "no-tests-collected" BY <1>2, <1>5 DEF Replayable, Reason
  <2>2. /\ NowCommits = CommitsOf(c) /\ NowAnswers = AnswersOf(c, config)
        /\ NowWalls = WallsOf(c, config)
    BY <1>1, <2>1, NotReplayed DEF NowCommits, NowAnswers, NowWalls
  <2>3. Exact' /\ Sound' /\ IsOut(out') /\ step' = "finally"
    BY <1>1, <1>5, <2>1, <2>2, NotReplayed, SkipIsRecorded DEF ReplayInv, Walk, Placed
  <2>4. CacheIsTrue' BY <1>1, <1>5, CacheStays DEF ReplayInv
  <2> QED BY <1>1, <1>5, <2>3, <2>4, SkipKeeps DEF ReplayInv, Walk, Placed
<1> QED BY <1>1, <1>4, <1>5
LEMMA CollectBaseKeeps == ReplayInv /\ CollectBase => ReplayInv'
<1> SUFFICES ASSUME ReplayInv, CollectBase PROVE ReplayInv' OBVIOUS
<1> DEFINE k == <<"collect-base", Base(c)>>
           built == Collects(Imported)
           got == Value(k, built)
<1>1. /\ step = "collect-base" /\ UNCHANGED <<world, config, run, deaths, published, n, dirs, tree, onPath, out>>
      /\ PutJson(k, built) /\ step' = "prepare" /\ j' = 1
      /\ cyc' = [cyc EXCEPT !.base = got]
  BY DEF CollectBase, still
<1>2. c' = c BY <1>1 DEF c, CycleAt
<1>3. IsEntry(config, k, built) BY DEF IsEntry
<1>4. CacheIsTrue' BY <1>1, <1>3, PutIsTrue DEF ReplayInv
<1>5. PublishedWhole' BY <1>1, PublishedStays DEF ReplayInv
<1> HIDE DEF k, built, got
<1>6. cyc' = [pre |-> cyc.pre, base |-> got, all |-> cyc.all, truth |-> cyc.truth,
              full |-> cyc.full, picked |-> cyc.picked]
  BY <1>1 DEF ReplayInv, Walk, Placed, IsCyc
<1>7. Walk'
  <2>1. 1 \in 1..(Len(Order) + 1) BY OrderIsSeq
  <2>2. Placed' BY <1>1, <1>6, <2>1 DEF ReplayInv, Walk, Placed, Loading, Measuring, IsTree, IsCyc, IsOut
  <2>3. InTree' BY <1>1, <1>2 DEF ReplayInv, Walk, InTree, Loading, Measuring, BaseTree
  <2>4. cyc.pre = Reds(BaseTree(c)) /\ Runs(BaseTree(c)) BY <1>1 DEF ReplayInv, Walk, Known, Loading
  <2>5. (cyc.pre = Reds(BaseTree(c)) /\ Runs(BaseTree(c)))'
    BY <1>1, <1>2, <1>6, <2>4, HistoryStays DEF BaseTree
  <2>6. Ready(j - 1)' BY <1>1 DEF Ready
  <2>7. Known' BY <1>1, <2>5, <2>6 DEF Known, Loading, Measuring
  <2> QED BY <2>2, <2>3, <2>7 DEF Walk
<1>8. NowCommits' = NowCommits /\ NowAnswers' = NowAnswers /\ NowWalls' = NowWalls /\ NowSkips' = NowSkips
  BY <1>1 DEF NowCommits, NowAnswers, NowWalls, NowSkips
<1>9. Exact' /\ Sound' BY <1>1, <1>8, NothingRecorded DEF ReplayInv
<1> QED BY <1>4, <1>5, <1>7, <1>9 DEF ReplayInv

\* What was prepared stays so while the rest of the state is added.
LEMMA PreparedStays ==
  ASSUME world' = world, n' = n, NEW i,
         Order[i] = "rtdd" => tree'.graph = tree.graph, Order[i] = "lf" => tree'.failed = tree.failed,
         Prepared(Order[i])
  PROVE  Prepared(Order[i])'
<1>1. c' = c BY DEF c, CycleAt
<1> QED BY <1>1, HistoryStays DEF Prepared, BaseTree

LEMMA PrepareKeeps == ReplayInv /\ Prepare => ReplayInv'
<1> SUFFICES ASSUME ReplayInv, Prepare PROVE ReplayInv' OBVIOUS
<1> DEFINE sid == Order[j]
           k == <<"state", Base(c), sid>>
           built == StateOf(sid)
           got == Value(k, built)
           put == IF sid = "rtdd" THEN [tree EXCEPT !.graph = got] ELSE [tree EXCEPT !.failed = got]
<1>1. /\ step = "prepare" /\ j <= Len(Order) /\ sid \in NeedsParentState
      /\ UNCHANGED <<world, config, run, deaths, published, n, dirs, onPath, cyc>>
      /\ \/ /\ Hit(k) \/ sid # "rtdd" \/ Base(c) \notin world.refuses
            /\ PutJson(k, built) /\ tree' = put /\ j' = j + 1 /\ UNCHANGED <<step, out>>
         \/ /\ ~Hit(k) /\ sid = "rtdd" /\ Base(c) \in world.refuses
            /\ Skip("parent-state-unavailable") /\ UNCHANGED <<cache, tree, j>>
  BY DEF Prepare, still
<1>2. Imported = <<"at", Base(c)>> /\ BaseTree(c) = <<"at", Base(c)>>
  BY <1>1 DEF ReplayInv, Walk, InTree, Loading, Imported, BaseTree
<1>3. c' = c BY <1>1 DEF c, CycleAt
<1>4. j \in 1..Len(Order) BY <1>1, OrderIsSeq DEF ReplayInv, Walk, Placed
<1>5. Known /\ Placed /\ InTree BY DEF ReplayInv, Walk
<1>6. CASE (Hit(k) \/ sid # "rtdd" \/ Base(c) \notin world.refuses) /\ PutJson(k, built)
             /\ tree' = put /\ j' = j + 1 /\ UNCHANGED <<step, out>>
  <2>1. Hit(k) \/ IsEntry(config, k, built) BY <1>2, <1>6 DEF IsEntry, StateOf
  <2>2. CacheIsTrue' BY <1>1, <1>6, <2>1, PutIsTrue DEF ReplayInv
  <2>3. IsEntry(config, k, got) BY <2>1, ValueIsTrue DEF ReplayInv
  <2>4. /\ sid = "rtdd" => got = Base(c) /\ Base(c) \notin world.refuses
        /\ sid # "rtdd" => got = Reds(BaseTree(c))
    BY <1>2, <2>3 DEF IsEntry
  <2> HIDE DEF got
  <2>5. tree' = [at |-> tree.at, graph |-> IF sid = "rtdd" THEN got ELSE tree.graph,
                 failed |-> IF sid = "rtdd" THEN tree.failed ELSE got]
    BY <1>5, <1>6 DEF Placed, IsTree
  <2>6. ASSUME NEW i, Order[i] = sid PROVE Prepared(Order[i])'
    <3>1. sid = "rtdd" => tree'.graph = Base(c)' /\ Base(c)' \notin world'.refuses
      BY <1>1, <1>3, <2>4, <2>5
    <3>2. sid = "lf" => tree'.failed = Reds(BaseTree(c))'
      <4>1. Reds(BaseTree(c))' = Reds(BaseTree(c)) BY <1>1, <1>3, HistoryStays DEF BaseTree
      <4> QED BY <2>4, <2>5, <4>1
    <3> QED BY <2>6, <3>1, <3>2 DEF Prepared
  <2>7. ASSUME NEW i \in 1..(j - 1) PROVE Prepared(Order[i])'
    <3>1. Prepared(Order[i]) BY <1>1, <1>5 DEF Known, Ready
    <3>2. CASE Order[i] = sid BY <2>6, <3>2
    <3>3. CASE Order[i] # sid
      <4>1. Order[i] = "rtdd" => tree'.graph = tree.graph BY <1>1, <2>5, <3>3 DEF NeedsParentState
      <4>2. Order[i] = "lf" => tree'.failed = tree.failed BY <1>1, <2>5, <3>3 DEF NeedsParentState
      <4> QED BY <1>1, <3>1, <4>1, <4>2, PreparedStays
    <3> QED BY <3>2, <3>3
  <2>8. Ready(j - 1)'
    <3>1. \A i \in 1..j : Prepared(Order[i])' BY <1>4, <2>6, <2>7
    <3>2. (j - 1)' = j BY <1>4, <1>6
    <3> QED BY <3>1, <3>2 DEF Ready
  <2>9. Walk'
    <3>1. j + 1 \in 1..(Len(Order) + 1) BY <1>4
    <3>2. Placed' BY <1>1, <1>5, <1>6, <2>5, <3>1 DEF Placed, Loading, Measuring, IsTree, IsCyc, IsOut
    <3>3. InTree' BY <1>1, <1>3, <1>5, <1>6, <2>5 DEF InTree, Loading, Measuring, BaseTree
    <3>4. (cyc.pre = Reds(BaseTree(c)) /\ Runs(BaseTree(c)))'
      BY <1>1, <1>3, <1>5, HistoryStays DEF BaseTree, Known, Loading
    <3>5. Known' BY <1>1, <1>6, <2>8, <3>4 DEF Known, Loading, Measuring
    <3> QED BY <3>2, <3>3, <3>5 DEF Walk
  <2>10. /\ NowCommits' = NowCommits /\ NowAnswers' = NowAnswers /\ NowWalls' = NowWalls
         /\ NowSkips' = NowSkips
    BY <1>1, <1>6 DEF NowCommits, NowAnswers, NowWalls, NowSkips
  <2>11. Exact' /\ Sound' BY <1>1, <1>6, <2>10, NothingRecorded DEF ReplayInv
  <2>12. PublishedWhole' BY <1>1, PublishedStays DEF ReplayInv
  <2> QED BY <2>2, <2>9, <2>11, <2>12 DEF ReplayInv
<1>7. CASE ~Hit(k) /\ sid = "rtdd" /\ Base(c) \in world.refuses
             /\ Skip("parent-state-unavailable") /\ UNCHANGED <<cache, tree, j>>
  <2>1. "rtdd" \in Strategy BY <1>4, <1>7, OrderIsSeq
  <2>2. Runs(BaseTree(c)) /\ ~HasState(c) BY <1>1, <1>5, <1>7, <2>1 DEF Known, Loading, HasState
  <2>3. ~Replayable(c) /\ Reason(c) = "parent-state-unavailable" BY <2>2 DEF Replayable, Reason
  <2>4. /\ NowCommits = CommitsOf(c) /\ NowAnswers = AnswersOf(c, config)
        /\ NowWalls = WallsOf(c, config)
    BY <1>1, <2>3, NotReplayed DEF NowCommits, NowAnswers, NowWalls
  <2>5. Exact' /\ Sound' /\ IsOut(out') /\ step' = "finally"
    BY <1>1, <1>5, <1>7, <2>3, <2>4, NotReplayed, SkipIsRecorded DEF ReplayInv, Placed
  <2>6. CacheIsTrue' BY <1>1, <1>7, CacheStays DEF ReplayInv
  <2> QED BY <1>1, <1>5, <1>7, <2>5, <2>6, SkipKeeps DEF Placed
<1> QED BY <1>1, <1>6, <1>7

LEMMA NoStateKeeps == ReplayInv /\ NoState => ReplayInv'
<1> SUFFICES ASSUME ReplayInv, NoState PROVE ReplayInv' OBVIOUS
<1> USE DEF NoState, still, disk
<1>1. CacheIsTrue' BY CacheStays DEF ReplayInv
<1>2. PublishedWhole' BY PublishedStays DEF ReplayInv
<1>3. c' = c BY DEF c, CycleAt
<1>4. Known /\ Placed /\ InTree BY DEF ReplayInv, Walk
<1>5. j \in 1..Len(Order) BY <1>4, OrderIsSeq DEF Placed
<1>6. Walk'
  <2>1. ASSUME NEW i \in 1..j PROVE Prepared(Order[i])
    <3>1. CASE i = j BY <3>1 DEF Prepared, NeedsParentState
    <3>2. CASE i \in 1..(j - 1) BY <1>4, <3>2 DEF Known, Ready
    <3> QED BY <1>5, <3>1, <3>2
  <2>2. \A i \in 1..j : Prepared(Order[i])' BY <2>1, PreparedStays
  <2>3. Ready(j - 1)'
    <3>1. (j - 1)' = j BY <1>5
    <3> QED BY <2>2, <3>1 DEF Ready
  <2>4. Placed' BY <1>4, <1>5 DEF Placed, Loading, Measuring, IsTree, IsCyc, IsOut
  <2>5. InTree' BY <1>3, <1>4 DEF InTree, Loading, Measuring, BaseTree
  <2>6. (cyc.pre = Reds(BaseTree(c)) /\ Runs(BaseTree(c)))'
    BY <1>3, <1>4, HistoryStays DEF BaseTree, Known, Loading
  <2>7. Known' BY <2>3, <2>6 DEF Known, Loading, Measuring
  <2> QED BY <2>4, <2>5, <2>7 DEF Walk
<1>7. NowCommits' = NowCommits /\ NowAnswers' = NowAnswers /\ NowWalls' = NowWalls /\ NowSkips' = NowSkips
  BY DEF NowCommits, NowAnswers, NowWalls, NowSkips
<1>8. Exact' /\ Sound' BY <1>7, NothingRecorded DEF ReplayInv
<1> QED BY <1>1, <1>2, <1>6, <1>8 DEF ReplayInv

LEMMA MaterialiseKeeps == ReplayInv /\ Materialise => ReplayInv'
<1> SUFFICES ASSUME ReplayInv, Materialise PROVE ReplayInv' OBVIOUS
<1> USE DEF Materialise, still, disk
<1>1. CacheIsTrue' BY CacheStays DEF ReplayInv
<1>2. PublishedWhole' BY PublishedStays DEF ReplayInv
<1>3. c' = c BY DEF c, CycleAt
<1>4. Known /\ Placed /\ InTree BY DEF ReplayInv, Walk
<1>5. tree' = [at |-> Materialised(c), graph |-> tree.graph, failed |-> tree.failed]
  BY <1>4 DEF Placed, IsTree
<1>6. Walk'
  <2>1. ASSUME NEW i \in 1..Len(Order) PROVE Prepared(Order[i])'
    <3>1. i \in 1..(j - 1) BY <1>4, OrderIsSeq DEF Placed
    <3>2. Prepared(Order[i]) BY <1>4, <3>1 DEF Known, Ready
    <3> QED BY <1>5, <3>2, PreparedStays
  <2>2. Ready(Len(Order))' BY <2>1 DEF Ready
  <2>3. Placed' BY <1>4, <1>5 DEF Placed, Loading, Measuring, IsTree, IsCyc, IsOut
  <2>4. InTree' BY <1>3, <1>4, <1>5 DEF InTree, Loading, Measuring, Materialised
  <2>5. (cyc.pre = Reds(BaseTree(c)) /\ Runs(BaseTree(c)))'
    BY <1>3, <1>4, HistoryStays DEF BaseTree, Known, Loading
  <2>6. Known' BY <2>2, <2>5 DEF Known, Loading, Measuring
  <2> QED BY <2>3, <2>4, <2>6 DEF Walk
<1>7. NowCommits' = NowCommits /\ NowAnswers' = NowAnswers /\ NowWalls' = NowWalls /\ NowSkips' = NowSkips
  BY DEF NowCommits, NowAnswers, NowWalls, NowSkips
<1>8. Exact' /\ Sound' BY <1>7, NothingRecorded DEF ReplayInv
<1> QED BY <1>1, <1>2, <1>6, <1>8 DEF ReplayInv
LEMMA ReadyHasState == Ready(Len(Order)) => HasState(c)
BY OrderIsSeq DEF Ready, Prepared, HasState

LEMMA CollectKeeps == ReplayInv /\ Collect => ReplayInv'
<1> SUFFICES ASSUME ReplayInv, Collect PROVE ReplayInv' OBVIOUS
<1> DEFINE k == <<"collect", c>>
           built == Collects(Imported)
           got == Value(k, built)
<1>1. /\ step = "collect" /\ UNCHANGED <<world, config, run, deaths, published, n, j, dirs, tree, onPath>>
      /\ PutJson(k, built) /\ cyc' = [cyc EXCEPT !.all = got]
      /\ \/ got = {} /\ Skip("collect-error-or-empty")
         \/ got # {} /\ step' = "truth" /\ UNCHANGED out
  BY DEF Collect, still
<1>2. c' = c BY <1>1 DEF c, CycleAt
<1>3. Known /\ Placed /\ InTree BY DEF ReplayInv, Walk
<1>4. Imported = Materialised(c) BY <1>1, <1>3 DEF InTree, Measuring, Imported
<1>5. IsEntry(config, k, built) BY <1>4 DEF IsEntry
<1>6. CacheIsTrue' BY <1>1, <1>5, PutIsTrue DEF ReplayInv
<1>7. got = Collects(Materialised(c))
  <2>1. IsEntry(config, k, got) BY <1>5, ValueIsTrue DEF ReplayInv
  <2> QED BY <2>1 DEF IsEntry
<1> HIDE DEF k, built, got
<1>8. cyc' = [pre |-> cyc.pre, base |-> cyc.base, all |-> got, truth |-> cyc.truth,
              full |-> cyc.full, picked |-> cyc.picked]
  BY <1>1, <1>3 DEF Placed, IsCyc
<1>9. Runs(BaseTree(c)) /\ HasState(c) BY <1>1, <1>3, ReadyHasState DEF Known, Measuring
<1>10. CASE got = {} /\ Skip("collect-error-or-empty")
  <2>1. ~Replayable(c) /\ Reason(c) = "collect-error-or-empty" BY <1>7, <1>9, <1>10 DEF Replayable, Reason
  <2>2. /\ NowCommits = CommitsOf(c) /\ NowAnswers = AnswersOf(c, config)
        /\ NowWalls = WallsOf(c, config)
    BY <1>1, <2>1, NotReplayed DEF NowCommits, NowAnswers, NowWalls
  <2>3. Exact' /\ Sound' /\ IsOut(out') /\ step' = "finally"
    BY <1>1, <1>3, <1>10, <2>1, <2>2, NotReplayed, SkipIsRecorded DEF ReplayInv, Placed
  <2>4. IsCyc(cyc') BY <1>8 DEF IsCyc
  <2> QED BY <1>1, <1>3, <1>6, <2>3, <2>4, SkipKeeps DEF Placed
<1>11. CASE got # {} /\ step' = "truth" /\ UNCHANGED out
  <2>1. Placed' BY <1>1, <1>3, <1>8, <1>11 DEF Placed, Loading, Measuring, IsTree, IsCyc, IsOut
  <2>2. InTree' BY <1>1, <1>2, <1>3, <1>11 DEF InTree, Loading, Measuring, Materialised
  <2>3. (cyc.pre = Reds(BaseTree(c)) /\ Runs(BaseTree(c)))'
    BY <1>1, <1>2, <1>3, <1>8, HistoryStays DEF BaseTree, Known, Measuring
  <2>4. Ready(Len(Order))' BY <1>1, <1>3, PreparedStays DEF Ready, Known, Measuring
  <2>5. (cyc.all = Collects(Materialised(c)) /\ cyc.all # {})'
    <3>1. cyc'.all = got /\ Materialised(c)' = Materialised(c) BY <1>2, <1>8 DEF Materialised
    <3> QED BY <1>1, <1>7, <1>11, <3>1, HistoryStays
  <2>6. Known' BY <1>11, <2>3, <2>4, <2>5 DEF Known, Loading, Measuring
  <2>7. /\ NowCommits' = NowCommits /\ NowAnswers' = NowAnswers /\ NowWalls' = NowWalls
        /\ NowSkips' = NowSkips
    BY <1>1, <1>11 DEF NowCommits, NowAnswers, NowWalls, NowSkips
  <2>8. Exact' /\ Sound' BY <1>1, <1>11, <2>7, NothingRecorded DEF ReplayInv
  <2>9. PublishedWhole' BY <1>1, PublishedStays DEF ReplayInv
  <2> QED BY <1>6, <2>1, <2>2, <2>6, <2>8, <2>9 DEF ReplayInv, Walk
<1> QED BY <1>1, <1>10, <1>11

LEMMA TruthKeeps == ReplayInv /\ Truth => ReplayInv'
<1> SUFFICES ASSUME ReplayInv, Truth PROVE ReplayInv' OBVIOUS
<1> DEFINE k == <<"full", c>>
           built == Measured(Reds(Imported))
           got == Value(k, built)
           delta == FullDelta(got.failing)
<1>1. /\ step = "truth" /\ UNCHANGED <<world, config, run, deaths, published, n, dirs, tree, onPath>>
      /\ \/ /\ Hit(k) \/ Runs(Imported)
            /\ PutJson(k, built)
            /\ cyc' = [cyc EXCEPT !.truth = delta, !.full = Timing(k)]
            /\ out' = [out EXCEPT !.commits = @ \cup {<<c, cyc.all, delta>>}]
            /\ step' = "select" /\ j' = 1
         \/ /\ ~Hit(k) /\ ~Runs(Imported)
            /\ Skip("no-tests-collected") /\ UNCHANGED <<cache, cyc, j>>
  BY DEF Truth, still
<1>2. c' = c BY <1>1 DEF c, CycleAt
<1>3. Known /\ Placed /\ InTree BY DEF ReplayInv, Walk
<1>4. Imported = Materialised(c) BY <1>1, <1>3 DEF InTree, Measuring, Imported
<1>5. Runs(BaseTree(c)) /\ HasState(c) /\ cyc.pre = Reds(BaseTree(c))
      /\ cyc.all = Collects(Materialised(c)) /\ cyc.all # {}
  BY <1>1, <1>3, ReadyHasState DEF Known, Measuring
<1>6. CASE /\ Hit(k) \/ Runs(Imported)
           /\ PutJson(k, built)
           /\ cyc' = [cyc EXCEPT !.truth = delta, !.full = Timing(k)]
           /\ out' = [out EXCEPT !.commits = @ \cup {<<c, cyc.all, delta>>}]
           /\ step' = "select" /\ j' = 1
  <2>1. Hit(k) \/ IsEntry(config, k, built) BY <1>4, <1>6 DEF IsEntry, Measured
  <2>2. CacheIsTrue' BY <1>1, <1>6, <2>1, PutIsTrue DEF ReplayInv
  <2>3. IsEntry(config, k, got) BY <2>1, ValueIsTrue DEF ReplayInv
  <2>4. got.failing = Reds(Materialised(c)) /\ Runs(Materialised(c)) BY <2>3 DEF IsEntry
  <2>5. delta = TrueFull(c) BY <1>5, <2>4 DEF FullDelta, TrueFull, BaseTree
  <2>6. Timing(k) \in {None, run} BY DEF Timing
  <2> HIDE DEF k, built, got, delta
  <2>7. cyc' = [pre |-> cyc.pre, base |-> cyc.base, all |-> cyc.all, truth |-> delta,
                full |-> Timing(k), picked |-> cyc.picked]
    BY <1>3, <1>6 DEF Placed, IsCyc
  <2>8. out' = [commits |-> out.commits \cup {<<c, cyc.all, delta>>}, answers |-> out.answers,
                walls |-> out.walls, skipped |-> out.skipped]
    BY <1>3, <1>6 DEF Placed, IsOut
  <2>9. Replayable(c) BY <1>5, <2>4 DEF Replayable
  <2>10. Walk'
    <3>1. 1 \in 1..Len(Order) BY OrderIsSeq
    <3>2. Placed' BY <1>1, <1>3, <1>6, <2>7, <2>8, <3>1 DEF Placed, Loading, Measuring, IsTree, IsCyc, IsOut
    <3>3. InTree' BY <1>1, <1>2, <1>3, <1>6 DEF InTree, Loading, Measuring, Materialised
    <3>4. (cyc.pre = Reds(BaseTree(c)) /\ Runs(BaseTree(c)))'
      BY <1>1, <1>2, <1>5, <2>7, HistoryStays DEF BaseTree
    <3>5. Ready(Len(Order))' BY <1>1, <1>3, PreparedStays DEF Ready, Known, Measuring
    <3>6. Materialised(c)' = Materialised(c) BY <1>2 DEF Materialised
    <3>7. (cyc.all = Collects(Materialised(c)) /\ cyc.all # {})' BY <1>1, <1>5, <2>7, <3>6, HistoryStays
    <3>8. (cyc.truth = TrueFull(c) /\ cyc.full \in {None, run} /\ Runs(Materialised(c)))'
      BY <1>1, <1>2, <2>4, <2>5, <2>6, <2>7, <3>6, HistoryStays
    <3>9. DOMAIN cyc'.picked = {} BY <1>1, <1>3, <2>7 DEF Placed
    <3>10. Known' BY <1>6, <3>4, <3>5, <3>7, <3>8, <3>9 DEF Known, Loading, Measuring
    <3> QED BY <3>2, <3>3, <3>10 DEF Walk
  <2>11. CommitsOf(c) = {<<c, cyc.all, delta>>} BY <1>5, <2>5, <2>9 DEF CommitsOf
  <2>12. Exact'
    <3>1. /\ NowCommits' = NowCommits \cup {<<c, cyc.all, delta>>} /\ NowAnswers' = NowAnswers \cup {}
          /\ NowWalls' = NowWalls \cup {} /\ NowSkips' = NowSkips \cup {}
      <4>1. CommitsOf(c)' = CommitsOf(c) BY <1>1, <1>2, RecordsStay
      <4> QED BY <1>1, <1>6, <2>11, <4>1 DEF NowCommits, NowAnswers, NowWalls, NowSkips
    <3>2. /\ out'.commits = out.commits \cup {<<c, cyc.all, delta>>}
          /\ out'.answers = out.answers \cup {} /\ BareWalls(out') = BareWalls(out) \cup {}
          /\ out'.skipped = out.skipped \cup {}
      BY <2>8 DEF BareWalls
    <3> QED BY <1>1, <1>6, <3>1, <3>2, WithinACycle DEF ReplayInv
  <2>13. Sound'
    <3>1. \A r \in out'.commits : r[2] = Collects(Materialised(r[1])) /\ r[3] = TrueFull(r[1])
      BY <1>5, <2>5, <2>8 DEF ReplayInv, Sound, RecordsAreTrue
    <3>2. RecordsAreTrue' BY <1>1, <2>8, <3>1, HistoryStays DEF ReplayInv, Sound, RecordsAreTrue
    <3>3. TimingsAreThisRuns' BY <1>1, <2>8 DEF ReplayInv, Sound, TimingsAreThisRuns
    <3>4. IsolationIsMasking' BY <1>1, <2>8, HistoryStays DEF ReplayInv, Sound, IsolationIsMasking
    <3> QED BY <3>2, <3>3, <3>4 DEF Sound
  <2>14. PublishedWhole' BY <1>1, PublishedStays DEF ReplayInv
  <2> QED BY <2>2, <2>10, <2>12, <2>13, <2>14 DEF ReplayInv
<1>7. CASE ~Hit(k) /\ ~Runs(Imported) /\ Skip("no-tests-collected") /\ UNCHANGED <<cache, cyc, j>>
  <2>1. ~Replayable(c) /\ Reason(c) = "no-tests-collected" BY <1>4, <1>5, <1>7 DEF Replayable, Reason
  <2>2. /\ NowCommits = CommitsOf(c) /\ NowAnswers = AnswersOf(c, config)
        /\ NowWalls = WallsOf(c, config)
    BY <1>1, <2>1, NotReplayed DEF NowCommits, NowAnswers, NowWalls
  <2>3. Exact' /\ Sound' /\ IsOut(out') /\ step' = "finally"
    BY <1>1, <1>3, <1>7, <2>1, <2>2, NotReplayed, SkipIsRecorded DEF ReplayInv, Placed
  <2>4. CacheIsTrue' BY <1>1, <1>7, CacheStays DEF ReplayInv
  <2> QED BY <1>1, <1>3, <1>7, <2>3, <2>4, SkipKeeps DEF Placed
<1> QED BY <1>1, <1>6, <1>7
(* A strategy that is asked answers as the commits and its rtdd say: the   *)
(* state it finds is the parent's, and `random` comes after its peer.      *)
LEMMA AnswerIsTrue ==
  ASSUME NEW sid, Prepared(sid), cyc.all = Collects(Materialised(c)),
         \A s \in DOMAIN cyc.picked : cyc.picked[s] = TrueAnswer(c, s, config),
         sid # "random" \/ "rtdd" \in DOMAIN cyc.picked
  PROVE  AnswerOf(sid) = TrueAnswer(c, sid, config)
<1>1. CASE sid = "rtdd" BY <1>1 DEF AnswerOf, TrueAnswer, Prepared
<1>2. CASE sid = "lf" BY <1>2 DEF AnswerOf, TrueAnswer, Prepared, BaseTree
<1>3. CASE sid = "random"
  <2> DEFINE all == Collects(Materialised(c))
             linked == world.linked[config][c] \cap all
  <2>1. cyc.picked["rtdd"] = linked BY <1>3 DEF TrueAnswer
  <2>2. IsFiniteSet(all) BY ReplayParameters, FS_Subset DEF Collects
  <2>3. Cardinality(linked) <= Cardinality(all) /\ IsFiniteSet(linked) BY <2>2, FS_Subset
  <2>4. Cardinality(linked) \in Nat /\ Cardinality(all) \in Nat BY <2>2, <2>3, FS_CardinalityType
  <2>5. Smaller(Cardinality(linked), Cardinality(all)) = Cardinality(linked)
    BY <2>3, <2>4 DEF Smaller
  <2>6. AnswerOf(sid) = Sample(Smaller(Cardinality(linked), Cardinality(all)), all)
    BY <1>3, <2>1 DEF AnswerOf
  <2>7. TrueAnswer(c, sid, config) = Sample(Cardinality(linked), all) BY <1>3 DEF TrueAnswer
  <2> QED BY <2>5, <2>6, <2>7
<1>4. CASE sid \notin {"rtdd", "lf", "random"} BY <1>4 DEF AnswerOf, TrueAnswer
<1> QED BY <1>1, <1>2, <1>3, <1>4

LEMMA AnswersAreAll ==
  ASSUME NEW cy, NEW k, Replayable(cy)
  PROVE  AnswersOf(cy, k) = {<<cy, Order[i], TrueAnswer(cy, Order[i], k)>> : i \in 1..Len(Order)}
BY OrderIsSeq DEF AnswersOf

\* After the last strategy the cycle is timed or done.
LEMMA UntimedIsDone ==
  ASSUME NEW cy, NEW k, Replayable(cy), ~TimedCycle(cy)
  PROVE  WallsOf(cy, k) = {} /\ SkipsOf(cy, k) = {}
BY DEF WallsOf, SkipsOf

LEMMA SelectKeeps == ReplayInv /\ Select => ReplayInv'
<1> SUFFICES ASSUME ReplayInv, Select PROVE ReplayInv' OBVIOUS
<1> DEFINE sid == Order[j]
           k == <<"select", c, sid>>
           built == AnswerOf(sid)
           tests == Value(k, built)
<1>1. /\ step = "select" /\ UNCHANGED <<world, config, run, deaths, published, n, dirs, tree, onPath>>
      /\ Hit(k) \/ sid # "random" \/ "rtdd" \in DOMAIN cyc.picked
      /\ PutJson(k, built)
      /\ cyc' = [cyc EXCEPT !.picked = With(@, sid, tests)]
      /\ out' = [out EXCEPT !.answers = @ \cup {<<c, sid, tests>>}]
      /\ \/ j < Len(Order) /\ j' = j + 1 /\ step' = "select"
         \/ ~(j < Len(Order)) /\ j' = 1 /\ step' = After
  BY DEF Select, still
<1>2. c' = c BY <1>1 DEF c, CycleAt
<1>3. Known /\ Placed /\ InTree BY DEF ReplayInv, Walk
<1>4. j \in 1..Len(Order) BY <1>1, <1>3 DEF Placed
<1>5. /\ Runs(BaseTree(c)) /\ cyc.pre = Reds(BaseTree(c)) /\ Ready(Len(Order))
      /\ cyc.all = Collects(Materialised(c)) /\ cyc.all # {}
      /\ cyc.truth = TrueFull(c) /\ cyc.full \in {None, run} /\ Runs(Materialised(c))
      /\ \A s \in DOMAIN cyc.picked : cyc.picked[s] = TrueAnswer(c, s, config)
      /\ \A i \in 1..(j - 1) : Order[i] \in DOMAIN cyc.picked
  BY <1>1, <1>3 DEF Known, Measuring
<1>6. Replayable(c) BY <1>5, ReadyHasState DEF Replayable
<1>7. Prepared(sid) BY <1>4, <1>5 DEF Ready
<1>8. Hit(k) \/ IsEntry(config, k, built) BY <1>1, <1>5, <1>7, AnswerIsTrue DEF IsEntry
<1>9. CacheIsTrue' BY <1>1, <1>8, PutIsTrue DEF ReplayInv
<1>10. tests = TrueAnswer(c, sid, config)
  <2>1. IsEntry(config, k, tests) BY <1>8, ValueIsTrue DEF ReplayInv
  <2> QED BY <2>1 DEF IsEntry
<1> HIDE DEF k, built, tests
<1>11. cyc' = [pre |-> cyc.pre, base |-> cyc.base, all |-> cyc.all, truth |-> cyc.truth,
               full |-> cyc.full, picked |-> With(cyc.picked, sid, tests)]
  BY <1>1, <1>3 DEF Placed, IsCyc
<1>12. out' = [commits |-> out.commits, answers |-> out.answers \cup {<<c, sid, tests>>},
               walls |-> out.walls, skipped |-> out.skipped]
  BY <1>1, <1>3 DEF Placed, IsOut
<1>13. CASE \/ step' = "select" /\ j < Len(Order) /\ j' = j + 1
            \/ step' = "wall" /\ j = Len(Order) /\ j' = 1 /\ TimedCycle(c)
            \/ step' = "finally" /\ j = Len(Order) /\ j' = 1 /\ ~TimedCycle(c)
  <2>1. DOMAIN cyc'.picked = {sid} \cup DOMAIN cyc.picked /\ cyc'.picked[sid] = tests
        /\ \A s \in DOMAIN cyc.picked : s # sid => cyc'.picked[s] = cyc.picked[s]
    BY <1>11 DEF With
  <2>2. \A s \in DOMAIN cyc'.picked : cyc'.picked[s] = TrueAnswer(c, s, config)
    BY <1>5, <1>10, <2>1
  <2>3. (\A s \in DOMAIN cyc.picked : cyc.picked[s] = TrueAnswer(c, s, config))'
    BY <1>1, <1>2, <2>2, HistoryStays
  <2>4. \A i \in 1..j : Order[i] \in DOMAIN cyc'.picked
    <3>1. ASSUME NEW i \in 1..j PROVE Order[i] \in DOMAIN cyc'.picked
      <4>1. CASE i = j BY <2>1, <4>1
      <4>2. CASE i # j
        <5>1. i \in 1..(j - 1) BY <1>4, <4>2
        <5> QED BY <1>5, <2>1, <5>1
      <4> QED BY <4>1, <4>2
    <3> QED BY <3>1
  <2>5. Placed'
    <3>1. j < Len(Order) => j + 1 \in 1..Len(Order) BY <1>4
    <3>2. 1 \in 1..Len(Order) BY OrderIsSeq
    <3> QED BY <1>1, <1>3, <1>11, <1>12, <1>13, <3>1, <3>2 DEF Placed, Loading, Measuring, IsTree, IsCyc, IsOut
  <2>6. InTree' BY <1>1, <1>2, <1>3, <1>13 DEF InTree, Loading, Measuring, Materialised
  <2>7. Known'
    <3>1. (cyc.pre = Reds(BaseTree(c)) /\ Runs(BaseTree(c)))'
      BY <1>1, <1>2, <1>5, <1>11, HistoryStays DEF BaseTree
    <3>2. Ready(Len(Order))' BY <1>1, <1>5, PreparedStays DEF Ready
    <3>3. Materialised(c)' = Materialised(c) BY <1>2 DEF Materialised
    <3>4. (cyc.all = Collects(Materialised(c)) /\ cyc.all # {})' BY <1>1, <1>5, <1>11, <3>3, HistoryStays
    <3>5. (cyc.truth = TrueFull(c) /\ cyc.full \in {None, run} /\ Runs(Materialised(c)))'
      BY <1>1, <1>2, <1>5, <1>11, <3>3, HistoryStays
    <3>6. step' = "select" => \A i \in 1..(j' - 1) : Order[i] \in DOMAIN cyc'.picked
      BY <1>4, <1>13, <2>4
    <3>7. step' = "wall" => /\ TimedCycle(c)'
                            /\ \A i \in 1..Len(Order) : Order[i] \in DOMAIN cyc'.picked
                            /\ \A h \in 1..(j' - 1) : ~Stops(c, h, config)'
      <4>1. TimedCycle(c)' <=> TimedCycle(c) BY <1>2 DEF TimedCycle
      <4> QED BY <1>13, <2>4, <4>1
    <3> QED BY <1>13, <2>3, <3>1, <3>2, <3>4, <3>5, <3>6, <3>7 DEF Known, Loading, Measuring
  <2>8. Exact'
    <3> DEFINE a == <<c, sid, tests>>
    <3>1. /\ CommitsOf(c)' = CommitsOf(c) /\ AnswersOf(c, config)' = AnswersOf(c, config)
          /\ WallsOf(c, config)' = WallsOf(c, config) /\ SkipsOf(c, config)' = SkipsOf(c, config)
      BY <1>1, <1>2, RecordsStay
    <3>2. NowAnswers \cup {a} = {<<c, Order[i], TrueAnswer(c, Order[i], config)>> : i \in 1..j}
      <4> DEFINE f(i) == <<c, Order[i], TrueAnswer(c, Order[i], config)>>
      <4>1. NowAnswers = {f(i) : i \in 1..(j - 1)} BY <1>1 DEF NowAnswers
      <4>2. a = f(j) BY <1>10
      <4>3. 1..j = (1..(j - 1)) \cup {j} BY <1>4
      <4> HIDE DEF a, f
      <4>4. NowAnswers \cup {a} = {f(i) : i \in 1..j} BY <4>1, <4>2, <4>3
      <4> QED BY <4>4 DEF f
    <3>3. NowAnswers' = NowAnswers \cup {a}
      <4>1. CASE step' = "select"
        <5>1. \A i : TrueAnswer(c, Order[i], config)' = TrueAnswer(c, Order[i], config)
          BY <1>1, <1>2, HistoryStays
        <5>2. j' - 1 = j BY <1>4, <1>13, <4>1
        <5> QED BY <1>2, <3>2, <4>1, <5>1, <5>2 DEF NowAnswers
      <4>2. CASE step' \in {"wall", "finally"}
        <5>1. NowAnswers' = AnswersOf(c, config) BY <3>1, <4>2 DEF NowAnswers
        <5>2. j = Len(Order) BY <1>13, <4>2
        <5> QED BY <1>6, <3>2, <5>1, <5>2, AnswersAreAll
      <4> QED BY <1>13, <4>1, <4>2
    <3>4. NowCommits' = NowCommits \cup {}
      BY <1>1, <1>13, <3>1 DEF NowCommits
    <3>5. NowWalls' = NowWalls \cup {}
      BY <1>1, <1>6, <1>13, <3>1, UntimedIsDone DEF NowWalls
    <3>6. NowSkips' = NowSkips \cup {}
      BY <1>1, <1>6, <1>13, <3>1, UntimedIsDone DEF NowSkips
    <3>7. /\ out'.commits = out.commits \cup {} /\ out'.answers = out.answers \cup {a}
          /\ BareWalls(out') = BareWalls(out) \cup {} /\ out'.skipped = out.skipped \cup {}
      BY <1>12 DEF BareWalls
    <3> HIDE DEF a
    <3> QED BY <1>1, <1>13, <3>3, <3>4, <3>5, <3>6, <3>7, WithinACycle DEF ReplayInv
  <2>9. Sound'
    <3>1. \A b \in out'.answers : b[3] = TrueAnswer(b[1], b[2], config)
      BY <1>10, <1>12 DEF ReplayInv, Sound, RecordsAreTrue
    <3>2. RecordsAreTrue' BY <1>1, <1>12, <3>1, HistoryStays DEF ReplayInv, Sound, RecordsAreTrue
    <3>3. TimingsAreThisRuns' BY <1>1, <1>12 DEF ReplayInv, Sound, TimingsAreThisRuns
    <3>4. IsolationIsMasking' BY <1>1, <1>12, HistoryStays DEF ReplayInv, Sound, IsolationIsMasking
    <3> QED BY <3>2, <3>3, <3>4 DEF Sound
  <2>10. PublishedWhole' BY <1>1, PublishedStays DEF ReplayInv
  <2> QED BY <1>9, <2>5, <2>6, <2>7, <2>8, <2>9, <2>10 DEF ReplayInv, Walk
<1>14. After = IF TimedCycle(c) THEN "wall" ELSE "finally" BY DEF After, Timed, TimedCycle
<1>15. ~(j < Len(Order)) => j = Len(Order)
  <2> DEFINE m == Len(Order)
  <2>1. m \in Nat /\ j \in 1..m BY <1>4, OrderIsSeq
  <2> HIDE DEF m
  <2>2. ~(j < m) => j = m BY <2>1
  <2> QED BY <2>2 DEF m
<1> QED BY <1>1, <1>13, <1>14, <1>15
\* What fails in a selection, and did not in the whole suite or the parent.
LEMMA ViolationIsMasking ==
  ASSUME NEW picks, cyc.pre = Reds(BaseTree(c)), cyc.truth = TrueFull(c)
  PROVE  Violates(FailingIn(Materialised(c), picks), picks) = Masks(c, picks)
<1>1. ASSUME picks = Collects(Materialised(c))
      PROVE  FailingIn(Materialised(c), picks) \ cyc.pre = (cyc.truth \cap picks) \ cyc.pre
  BY <1>1 DEF FailingIn, TrueFull, BaseTree
<1>2. ASSUME picks # Collects(Materialised(c)), NEW x \in picks \cap TrueFull(c) \cap world.masked
      PROVE  x \in (cyc.truth \cap picks) \ cyc.pre /\ x \notin FailingIn(Materialised(c), picks)
  BY <1>2 DEF FailingIn, TrueFull, BaseTree
<1>3. ASSUME picks \cap TrueFull(c) \cap world.masked = {}
      PROVE  FailingIn(Materialised(c), picks) \ cyc.pre = (cyc.truth \cap picks) \ cyc.pre
  BY <1>3 DEF FailingIn, TrueFull, BaseTree, Reds
<1>4. Violates(FailingIn(Materialised(c), picks), picks) <=> Masks(c, picks)
  BY <1>1, <1>2, <1>3 DEF Violates, Masks
<1> QED BY <1>4 DEF Violates, Masks

\* Timed to the end, every strategy has its time and nothing is skipped.
LEMMA TimedToTheEnd ==
  ASSUME NEW cy, NEW k, Replayable(cy), TimedCycle(cy), \A h \in 1..Len(Order) : ~Stops(cy, h, k)
  PROVE  /\ WallsOf(cy, k) = {BareWall(cy, Order[i], k) : i \in 1..Len(Order)}
         /\ SkipsOf(cy, k) = {}
<1>1. DOMAIN Order = 1..Len(Order) /\ Len(Order) \in Nat BY OrderIsSeq
<1>2. ASSUME NEW i \in 1..Len(Order) PROVE \A h \in 1..i : ~Stops(cy, h, k)
  <2>1. \A h \in 1..i : h \in 1..Len(Order) BY <1>1
  <2> QED BY <2>1
<1>3. Walled(cy, k) = 1..Len(Order) BY <1>1, <1>2 DEF Walled
<1> QED BY <1>1, <1>3 DEF WallsOf, SkipsOf

\* Stopped at one, those before it have their times.
LEMMA StoppedAtOne ==
  ASSUME NEW cy, NEW k, NEW i \in 1..Len(Order), Replayable(cy), TimedCycle(cy),
         \A h \in 1..(i - 1) : ~Stops(cy, h, k), Stops(cy, i, k)
  PROVE  /\ WallsOf(cy, k) = {BareWall(cy, Order[h], k) : h \in 1..(i - 1)}
         /\ SkipsOf(cy, k) = {<<cy, "no-tests-collected">>}
<1>1. DOMAIN Order = 1..Len(Order) /\ Len(Order) \in Nat /\ i \in Nat BY OrderIsSeq
<1>2. ASSUME NEW m \in 1..(i - 1) PROVE m \in DOMAIN Order /\ \A h \in 1..m : ~Stops(cy, h, k)
  <2>1. m \in 1..Len(Order) /\ \A h \in 1..m : h \in 1..(i - 1) BY <1>1
  <2> QED BY <1>1, <2>1
<1>3. ASSUME NEW m \in DOMAIN Order, \A h \in 1..m : ~Stops(cy, h, k) PROVE m \in 1..(i - 1)
  <2>1. m \in 1..Len(Order) /\ i \notin 1..m BY <1>1, <1>3
  <2> QED BY <1>1, <2>1
<1>4. Walled(cy, k) = 1..(i - 1) BY <1>2, <1>3 DEF Walled
<1>5. Reason(cy) = "no-tests-collected" BY DEF Replayable, Reason
<1> QED BY <1>1, <1>4, <1>5 DEF WallsOf, SkipsOf

LEMMA WallKeeps == ReplayInv /\ Wall => ReplayInv'
<1> SUFFICES ASSUME ReplayInv, Wall PROVE ReplayInv' OBVIOUS
<1> DEFINE sid == Order[j]
           picks == cyc.picked[sid]
           k == <<"subset", c, sid, picks>>
           built == Measured(FailingIn(Imported, picks))
           got == Value(k, built)
           w == [cycle |-> c, sid |-> sid, full |-> cyc.full, subset |-> Timing(k),
                 isolation |-> Violates(got.failing, picks)]
<1>1. /\ step = "wall"
      /\ UNCHANGED <<world, config, run, deaths, published, n, dirs, tree, onPath, cyc>>
      /\ \/ /\ Hit(k) \/ picks = {} \/ <<c, sid>> \notin world.unrunnable
            /\ PutJson(k, built)
            /\ out' = [out EXCEPT !.walls = @ \cup {w}]
            /\ \/ j < Len(Order) /\ j' = j + 1 /\ step' = "wall"
               \/ ~(j < Len(Order)) /\ j' = 1 /\ step' = "finally"
         \/ /\ ~Hit(k) /\ picks # {} /\ <<c, sid>> \in world.unrunnable
            /\ Skip("no-tests-collected") /\ UNCHANGED <<cache, j>>
  BY DEF Wall, still
<1>2. c' = c BY <1>1 DEF c, CycleAt
<1>3. Known /\ Placed /\ InTree BY DEF ReplayInv, Walk
<1>4. Imported = Materialised(c) BY <1>1, <1>3 DEF InTree, Measuring, Imported
<1>5. j \in 1..Len(Order) BY <1>1, <1>3 DEF Placed
<1>6. /\ Runs(BaseTree(c)) /\ cyc.pre = Reds(BaseTree(c)) /\ Ready(Len(Order))
      /\ cyc.all = Collects(Materialised(c)) /\ cyc.all # {}
      /\ cyc.truth = TrueFull(c) /\ cyc.full \in {None, run} /\ Runs(Materialised(c))
      /\ \A s \in DOMAIN cyc.picked : cyc.picked[s] = TrueAnswer(c, s, config)
      /\ TimedCycle(c) /\ \A i \in 1..Len(Order) : Order[i] \in DOMAIN cyc.picked
      /\ \A h \in 1..(j - 1) : ~Stops(c, h, config)
  BY <1>1, <1>3 DEF Known, Measuring
<1>7. Replayable(c) BY <1>6, ReadyHasState DEF Replayable
<1>8. picks = TrueAnswer(c, sid, config) BY <1>5, <1>6
<1>9. CASE /\ Hit(k) \/ picks = {} \/ <<c, sid>> \notin world.unrunnable
           /\ PutJson(k, built)
           /\ out' = [out EXCEPT !.walls = @ \cup {w}]
           /\ \/ j < Len(Order) /\ j' = j + 1 /\ step' = "wall"
              \/ ~(j < Len(Order)) /\ j' = 1 /\ step' = "finally"
  <2>1. Hit(k) \/ IsEntry(config, k, built) BY <1>4, <1>9 DEF IsEntry, Measured
  <2>2. CacheIsTrue' BY <1>1, <1>9, <2>1, PutIsTrue DEF ReplayInv
  <2>3. IsEntry(config, k, got) BY <2>1, ValueIsTrue DEF ReplayInv
  <2>4. /\ got.failing = FailingIn(Materialised(c), picks)
        /\ picks = {} \/ <<c, sid>> \notin world.unrunnable
    BY <2>3 DEF IsEntry
  <2>5. ~Stops(c, j, config) BY <1>8, <2>4 DEF Stops
  <2>6. w.isolation = Masks(c, picks) BY <1>6, <2>4, ViolationIsMasking
  <2>7. w.cycle = c /\ w.sid = sid /\ w.full \in {None, run} /\ w.subset \in {None, run}
    BY <1>6 DEF Timing
  <2>8. Bare(w) = BareWall(c, sid, config)
    <3>1. Bare(w) = [cycle |-> c, sid |-> sid, isolation |-> Violates(got.failing, picks)]
      BY DEF Bare
    <3> QED BY <1>8, <2>6, <3>1 DEF BareWall
  <2> HIDE DEF w
  <2>9. out' = [commits |-> out.commits, answers |-> out.answers, walls |-> out.walls \cup {w},
                skipped |-> out.skipped]
    BY <1>3, <1>9 DEF Placed, IsOut
  <2>10. ~(j < Len(Order)) => j = Len(Order)
    <3> DEFINE m == Len(Order)
    <3>1. m \in Nat /\ j \in 1..m BY <1>5, OrderIsSeq
    <3> HIDE DEF m
    <3>2. ~(j < m) => j = m BY <3>1
    <3> QED BY <3>2 DEF m
  <2>11. \A h \in 1..j : ~Stops(c, h, config)
    <3>1. ASSUME NEW h \in 1..j PROVE ~Stops(c, h, config)
      <4>1. CASE h = j BY <2>5, <4>1
      <4>2. CASE h # j
        <5>1. h \in 1..(j - 1) BY <1>5, <4>2
        <5> QED BY <1>6, <5>1
      <4> QED BY <4>1, <4>2
    <3> QED BY <3>1
  <2>12. Walk'
    <3>11. step' = "wall" => j' \in 1..Len(Order) BY <1>5, <1>9
    <3>1. Placed' BY <1>1, <1>3, <1>9, <2>9, <3>11 DEF Placed, Loading, Measuring, IsTree, IsCyc, IsOut
    <3>2. InTree' BY <1>1, <1>2, <1>3, <1>9 DEF InTree, Loading, Measuring, Materialised
    <3>3. (cyc.pre = Reds(BaseTree(c)) /\ Runs(BaseTree(c)))'
      BY <1>1, <1>2, <1>6, HistoryStays DEF BaseTree
    <3>4. Ready(Len(Order))' BY <1>1, <1>6, PreparedStays DEF Ready
    <3>5. Materialised(c)' = Materialised(c) BY <1>2 DEF Materialised
    <3>6. (cyc.all = Collects(Materialised(c)) /\ cyc.all # {})' BY <1>1, <1>6, <3>5, HistoryStays
    <3>7. (cyc.truth = TrueFull(c) /\ cyc.full \in {None, run} /\ Runs(Materialised(c)))'
      BY <1>1, <1>2, <1>6, <3>5, HistoryStays
    <3>8. (\A s \in DOMAIN cyc.picked : cyc.picked[s] = TrueAnswer(c, s, config))'
      BY <1>1, <1>2, <1>6, HistoryStays
    <3>9. step' = "wall" => /\ TimedCycle(c)'
                            /\ \A i \in 1..Len(Order) : Order[i] \in DOMAIN cyc'.picked
                            /\ \A h \in 1..(j' - 1) : ~Stops(c, h, config)'
      <4>1. TimedCycle(c)' <=> TimedCycle(c) BY <1>2 DEF TimedCycle
      <4>2. \A h : Stops(c, h, config)' <=> Stops(c, h, config) BY <1>1, <1>2, HistoryStays
      <4>3. step' = "wall" => j' - 1 = j BY <1>5, <1>9
      <4> QED BY <1>1, <1>6, <2>11, <4>1, <4>2, <4>3
    <3>10. Known' BY <1>9, <3>3, <3>4, <3>6, <3>7, <3>8, <3>9 DEF Known, Loading, Measuring
    <3> QED BY <3>1, <3>2, <3>10 DEF Walk
  <2>13. Exact'
    <3> DEFINE b == BareWall(c, sid, config)
               f(i) == BareWall(c, Order[i], config)
    <3>1. /\ CommitsOf(c)' = CommitsOf(c) /\ AnswersOf(c, config)' = AnswersOf(c, config)
          /\ WallsOf(c, config)' = WallsOf(c, config) /\ SkipsOf(c, config)' = SkipsOf(c, config)
      BY <1>1, <1>2, RecordsStay
    <3>2. NowWalls \cup {b} = {f(i) : i \in 1..j}
      <4>1. NowWalls = {f(i) : i \in 1..(j - 1)} BY <1>1 DEF NowWalls
      <4>2. 1..j = (1..(j - 1)) \cup {j} /\ b = f(j) BY <1>5
      <4> HIDE DEF b, f
      <4> QED BY <4>1, <4>2
    <3>3. NowWalls' = NowWalls \cup {b} /\ NowSkips' = NowSkips \cup {}
      <4>1. CASE step' = "wall"
        <5>1. \A i : BareWall(c, Order[i], config)' = BareWall(c, Order[i], config)
          BY <1>1, <1>2, HistoryStays DEF BareWall, Masks
        <5>2. j' - 1 = j BY <1>5, <1>9, <4>1
        <5> QED BY <1>1, <3>2, <4>1, <5>1, <5>2 DEF NowWalls, NowSkips
      <4>2. CASE step' = "finally"
        <5>1. j = Len(Order) BY <1>9, <2>10, <4>2
        <5>2. WallsOf(c, config) = {f(i) : i \in 1..j} /\ SkipsOf(c, config) = {}
          BY <1>6, <1>7, <2>11, <5>1, TimedToTheEnd
        <5> QED BY <1>1, <3>1, <3>2, <4>2, <5>2 DEF NowWalls, NowSkips
      <4> QED BY <1>9, <4>1, <4>2
    <3>4. NowCommits' = NowCommits \cup {} /\ NowAnswers' = NowAnswers \cup {}
      BY <1>1, <1>9, <3>1 DEF NowCommits, NowAnswers
    <3>5. /\ out'.commits = out.commits \cup {} /\ out'.answers = out.answers \cup {}
          /\ BareWalls(out') = BareWalls(out) \cup {b} /\ out'.skipped = out.skipped \cup {}
      BY <2>8, <2>9 DEF BareWalls
    <3> HIDE DEF b
    <3> QED BY <1>1, <1>9, <3>3, <3>4, <3>5, WithinACycle DEF ReplayInv
  <2>14. Sound'
    <3>1. RecordsAreTrue' BY <1>1, <2>9, HistoryStays DEF ReplayInv, Sound, RecordsAreTrue
    <3>2. TimingsAreThisRuns' BY <1>1, <2>7, <2>9 DEF ReplayInv, Sound, TimingsAreThisRuns
    <3>3. \A v \in out'.walls :
            v.isolation <=> Masks(v.cycle, TrueAnswer(v.cycle, v.sid, config))
      <4>1. \A v \in out.walls : v.isolation <=> Masks(v.cycle, TrueAnswer(v.cycle, v.sid, config))
        BY DEF ReplayInv, Sound, IsolationIsMasking, Masks
      <4>2. w.isolation <=> Masks(w.cycle, TrueAnswer(w.cycle, w.sid, config))
        BY <1>8, <2>6, <2>7
      <4> QED BY <2>9, <4>1, <4>2
    <3>4. (\A v \in out.walls :
             v.isolation <=> Masks(v.cycle, TrueAnswer(v.cycle, v.sid, config)))'
      BY <1>1, <3>3, HistoryStays
    <3>5. IsolationIsMasking' BY <3>4 DEF IsolationIsMasking, Masks
    <3> QED BY <3>1, <3>2, <3>5 DEF Sound
  <2>15. PublishedWhole' BY <1>1, PublishedStays DEF ReplayInv
  <2> QED BY <2>2, <2>12, <2>13, <2>14, <2>15 DEF ReplayInv
<1>10. CASE ~Hit(k) /\ picks # {} /\ <<c, sid>> \in world.unrunnable
              /\ Skip("no-tests-collected") /\ UNCHANGED <<cache, j>>
  <2>1. Stops(c, j, config) BY <1>8, <1>10 DEF Stops
  <2>2. /\ WallsOf(c, config) = {BareWall(c, Order[h], config) : h \in 1..(j - 1)}
        /\ SkipsOf(c, config) = {<<c, "no-tests-collected">>}
    BY <1>5, <1>6, <1>7, <2>1, StoppedAtOne
  <2>3. Reason(c) = "no-tests-collected" BY <1>7 DEF Replayable, Reason
  <2>4. /\ NowCommits = CommitsOf(c) /\ NowAnswers = AnswersOf(c, config)
        /\ NowWalls = WallsOf(c, config)
    BY <1>1, <2>2 DEF NowCommits, NowAnswers, NowWalls
  <2>5. Exact' /\ Sound' /\ IsOut(out') /\ step' = "finally"
    BY <1>1, <1>3, <1>10, <2>2, <2>3, <2>4, SkipIsRecorded DEF ReplayInv, Placed
  <2>6. CacheIsTrue' BY <1>1, <1>10, CacheStays DEF ReplayInv
  <2> QED BY <1>1, <1>3, <1>10, <2>5, <2>6, SkipKeeps DEF Placed
<1> QED BY <1>1, <1>9, <1>10

LEMMA FinallyKeeps == ReplayInv /\ Finally => ReplayInv'
<1> SUFFICES ASSUME ReplayInv, Finally PROVE ReplayInv' OBVIOUS
<1>1. /\ step = "finally" /\ UNCHANGED <<world, config, run, deaths, published, cache, tree, out>>
      /\ cyc' = NoLocals
      /\ \/ n < 2 * NPoints /\ n' = n + 1 /\ step' = "add"
         \/ ~(n < 2 * NPoints) /\ step' = "publish" /\ n' = n
  BY DEF Finally, still
<1>2. CacheIsTrue' BY <1>1, CacheStays DEF ReplayInv
<1>3. PublishedWhole' BY <1>1, PublishedStays DEF ReplayInv
<1>4. Sound' BY <1>1, SoundStays DEF ReplayInv
<1>5. Placed BY DEF ReplayInv, Walk
<1>6. n \in 1..(2 * NPoints) /\ 2 * NPoints \in Nat BY <1>1, <1>5, ReplayParameters DEF Placed
<1>7. Walk'
  <2>1. n' \in 1..(2 * NPoints) /\ (step' = "publish" => n' = 2 * NPoints) BY <1>1, <1>6
  <2>2. Placed' BY <1>1, <1>5, <2>1 DEF Placed, NoLocals, Loading, Measuring, IsTree, IsCyc, IsOut
  <2>3. InTree' /\ Known' BY <1>1 DEF InTree, Known, Loading, Measuring
  <2> QED BY <2>2, <2>3 DEF Walk
<1>8. Exact'
  <2>1. Past' = Past \cup {c}
    <3>1. Past = {CycleAt(i) : i \in 1..(n - 1)} BY <1>1 DEF Past
    <3>2. Past' = {CycleAt(i) : i \in 1..n}
      <4>1. \A i : CycleAt(i)' = CycleAt(i) BY DEF CycleAt
      <4>2. CASE step' = "publish" BY <1>1, <4>1, <4>2 DEF Past
      <4>3. CASE step' = "add"
        <5>1. n' - 1 = n BY <1>1, <1>6, <4>3
        <5> QED BY <4>1, <4>3, <5>1 DEF Past
      <4> QED BY <1>1, <4>2, <4>3
    <3>3. 1..n = (1..(n - 1)) \cup {n} BY <1>6
    <3> QED BY <3>1, <3>2, <3>3 DEF c
  <2>2. /\ AllCommits(Past)' = AllCommits(Past \cup {c})
        /\ AllAnswers(Past, config)' = AllAnswers(Past \cup {c}, config)
        /\ AllWalls(Past, config)' = AllWalls(Past \cup {c}, config)
        /\ AllSkips(Past, config)' = AllSkips(Past \cup {c}, config)
    BY <1>1, <2>1, RecordsStay
  <2>3. /\ out.commits = AllCommits(Past \cup {c})
        /\ out.answers = AllAnswers(Past \cup {c}, config)
        /\ BareWalls(out) = AllWalls(Past \cup {c}, config)
        /\ out.skipped = AllSkips(Past \cup {c}, config)
    <3>1. /\ AllCommits(Past \cup {c}) = AllCommits(Past) \cup CommitsOf(c)
          /\ AllAnswers(Past \cup {c}, config) = AllAnswers(Past, config) \cup AnswersOf(c, config)
          /\ AllWalls(Past \cup {c}, config) = AllWalls(Past, config) \cup WallsOf(c, config)
          /\ AllSkips(Past \cup {c}, config) = AllSkips(Past, config) \cup SkipsOf(c, config)
      BY DEF AllCommits, AllAnswers, AllWalls, AllSkips
    <3>2. /\ NowCommits = CommitsOf(c) /\ NowAnswers = AnswersOf(c, config)
          /\ NowWalls = WallsOf(c, config) /\ NowSkips = SkipsOf(c, config)
      BY <1>1 DEF NowCommits, NowAnswers, NowWalls, NowSkips
    <3> QED BY <1>1, <3>1, <3>2 DEF ReplayInv, Exact
  <2>4. NowCommits' = {} /\ NowAnswers' = {} /\ NowWalls' = {} /\ NowSkips' = {}
    BY <1>1 DEF NowCommits, NowAnswers, NowWalls, NowSkips
  <2>5. BareWalls(out)' = BareWalls(out) BY <1>1 DEF BareWalls, Bare
  <2> QED BY <1>1, <2>2, <2>3, <2>4, <2>5 DEF Exact
<1> QED BY <1>2, <1>3, <1>4, <1>7, <1>8 DEF ReplayInv

LEMMA StutterKeeps == ReplayInv /\ UNCHANGED replayVars => ReplayInv'
<1> SUFFICES ASSUME ReplayInv, UNCHANGED replayVars PROVE ReplayInv' OBVIOUS
<1> USE DEF replayVars
<1>1. CacheIsTrue' /\ Sound' /\ PublishedWhole' BY CacheStays, SoundStays, PublishedStays DEF ReplayInv
<1>2. c' = c BY DEF c, CycleAt
<1>3. Known /\ Placed /\ InTree BY DEF ReplayInv, Walk
<1>4. Walk'
  <2>1. Placed' BY <1>3 DEF Placed, Loading, Measuring, IsTree, IsCyc, IsOut
  <2>2. BaseTree(c)' = BaseTree(c) /\ Materialised(c)' = Materialised(c) BY <1>2 DEF BaseTree, Materialised
  <2>3. InTree' BY <1>3, <2>2 DEF InTree, Loading, Measuring
  <2>4. \A i : Prepared(Order[i]) => Prepared(Order[i])' BY PreparedStays
  <2>5. \A m : Ready(m) => Ready(m)' BY <2>4 DEF Ready
  <2>6. TimedCycle(c)' <=> TimedCycle(c) BY <1>2 DEF TimedCycle
  <2>7. Known' BY <1>2, <1>3, <2>2, <2>5, <2>6, HistoryStays DEF Known, Loading, Measuring
  <2> QED BY <2>1, <2>3, <2>7 DEF Walk
<1>5. Exact'
  <2>1. /\ CommitsOf(c)' = CommitsOf(c) /\ AnswersOf(c, config)' = AnswersOf(c, config)
        /\ WallsOf(c, config)' = WallsOf(c, config) /\ SkipsOf(c, config)' = SkipsOf(c, config)
    BY <1>2, RecordsStay
  <2>2. \A i : /\ TrueAnswer(c, Order[i], config)' = TrueAnswer(c, Order[i], config)
               /\ BareWall(c, Order[i], config)' = BareWall(c, Order[i], config)
    BY <1>2, HistoryStays DEF BareWall, Masks
  <2>3. /\ NowCommits' = NowCommits /\ NowAnswers' = NowAnswers /\ NowWalls' = NowWalls
        /\ NowSkips' = NowSkips
    BY <1>2, <2>1, <2>2 DEF NowCommits, NowAnswers, NowWalls, NowSkips
  <2>4. Past' = Past BY DEF Past, CycleAt
  <2>5. /\ AllCommits(Past)' = AllCommits(Past) /\ AllAnswers(Past, config)' = AllAnswers(Past, config)
        /\ AllWalls(Past, config)' = AllWalls(Past, config)
        /\ AllSkips(Past, config)' = AllSkips(Past, config)
    BY <2>4, RecordsStay
  <2>6. BareWalls(out)' = BareWalls(out) BY DEF BareWalls, Bare
  <2> QED BY <2>3, <2>5, <2>6 DEF ReplayInv, Exact
<1> QED BY <1>1, <1>4, <1>5 DEF ReplayInv
LEMMA StepKeeps == ReplayInv /\ [ReplayNext]_replayVars => ReplayInv'
<1> SUFFICES ASSUME ReplayInv, [ReplayNext]_replayVars PROVE ReplayInv' OBVIOUS
<1>1. CASE StartReplay BY <1>1, StartReplayKeeps
<1>2. CASE AddTree BY <1>2, AddTreeKeeps
<1>3. CASE Blocked BY <1>3, BlockedKeeps
<1>4. CASE Clean BY <1>4, CleanKeeps
<1>5. CASE CollectBase BY <1>5, CollectBaseKeeps
<1>6. CASE Prepare BY <1>6, PrepareKeeps
<1>7. CASE NoState BY <1>7, NoStateKeeps
<1>8. CASE Materialise BY <1>8, MaterialiseKeeps
<1>9. CASE Collect BY <1>9, CollectKeeps
<1>10. CASE Truth BY <1>10, TruthKeeps
<1>11. CASE Select BY <1>11, SelectKeeps
<1>12. CASE Wall BY <1>12, WallKeeps
<1>13. CASE Finally BY <1>13, FinallyKeeps
<1>14. CASE Publish BY <1>14, PublishKeeps
<1>15. CASE Die BY <1>15, DieKeeps
<1>16. CASE UNCHANGED replayVars BY <1>16, StutterKeeps
<1> QED
  BY <1>1, <1>2, <1>3, <1>4, <1>5, <1>6, <1>7, <1>8, <1>9, <1>10, <1>11, <1>12, <1>13, <1>14,
     <1>15, <1>16 DEF ReplayNext, ReplayStep
-----------------------------------------------------------------------------
\* What is written whole leaves no cycle out, and is the same every time.
LEMMA WholeIsTrue == PublishedWhole => EveryCycleAccounted /\ RerunsAgree
<1> SUFFICES ASSUME PublishedWhole PROVE EveryCycleAccounted /\ RerunsAgree OBVIOUS
<1>1. PICK S : published \in Seq(S) /\ \A i \in 1..Len(published) : IsWhole(published[i])
  BY DEF PublishedWhole
<1>2. \A i \in DOMAIN published : IsWhole(published[i]) BY <1>1
<1>3. EveryCycleAccounted
  <2>1. ASSUME NEW i \in DOMAIN published, NEW cy \in Cycle
        PROVE  \/ \E r \in published[i].out.commits : r[1] = cy
               \/ \E s \in published[i].out.skipped : s[1] = cy
    <3> DEFINE k == published[i].config
    <3>1. CASE Replayable(cy)
      <4>1. <<cy, Collects(Materialised(cy)), TrueFull(cy)>> \in AllCommits(Cycle)
        BY <3>1 DEF AllCommits, CommitsOf
      <4> QED BY <1>2, <4>1 DEF IsWhole
    <3>2. CASE ~Replayable(cy)
      <4>1. <<cy, Reason(cy)>> \in AllSkips(Cycle, k) BY <3>2 DEF AllSkips, SkipsOf
      <4> QED BY <1>2, <4>1 DEF IsWhole
    <3> QED BY <3>1, <3>2
  <2> QED BY <2>1 DEF EveryCycleAccounted
<1>4. RerunsAgree
  <2>1. ASSUME NEW p, IsWhole(p)
        PROVE  Untimed(p.out) = [commits |-> AllCommits(Cycle), answers |-> AllAnswers(Cycle, p.config),
                                 walls |-> AllWalls(Cycle, p.config),
                                 skipped |-> AllSkips(Cycle, p.config)]
    <3>1. Untimed(p.out) = [p.out EXCEPT !.walls = BareWalls(p.out)]
      BY DEF Untimed, BareWalls, Bare
    <3> QED BY <2>1, <3>1 DEF IsWhole, IsOut
  <2> QED BY <1>2, <2>1 DEF RerunsAgree
<1> QED BY <1>3, <1>4

(* Whatever was killed before and whatever the cache holds: a process      *)
(* records what the commits and its own rtdd say, with times of its own,   *)
(* no published run leaves a cycle out, and two runs of one configuration  *)
(* publish the same.  (cache.py:3-10, replay.py:9-15, replay.py:527-533)   *)
THEOREM ReplayIsTrueAlways == ReplaySpec => []ReplayIsTrue
<1>1. ReplayInv => ReplayIsTrue BY WholeIsTrue DEF ReplayInv, Sound, ReplayIsTrue
<1> QED BY <1>1, ReplayStarts, StepKeeps, PTL DEF ReplaySpec
-----------------------------------------------------------------------------
(* The types of what outlives a step.  What a process reads it may have    *)
(* read from the cache, so they rest on every entry being what its key     *)
(* says.                                                                   *)
LEMMA TreesAreTyped ==
  ASSUME NEW cy \in Cycle
  PROVE  Base(cy) \in Commit /\ Materialised(cy) \in Tree /\ <<"at", Base(cy)>> \in Tree
<1>1. cy = <<cy[1], cy[2]>> /\ cy[1] \in {"natural", "probe"} /\ cy[2] \in 1..NPoints
  BY DEF Cycle
<1>2. Base(cy) \in Commit
  BY <1>1, ReplayParameters DEF Base, Commit
<1>3. Materialised(cy) \in Tree
  <2>1. CASE cy[1] = "natural"
    BY <1>1, <2>1, ReplayParameters DEF Materialised, Tree, Commit
  <2>2. CASE cy[1] = "probe"
    BY <1>1, <2>2 DEF Materialised, Tree
  <2>. QED  BY <1>1, <2>1, <2>2
<1>. QED  BY <1>2, <1>3 DEF Tree

LEMMA InACycle ==
  ASSUME ReplayInv, step # "idle"
  PROVE  n \in 1..(2 * NPoints) /\ c \in Cycle
BY TurnsAreCycles DEF ReplayInv, Walk, Placed, c

\* Where a process is, in the walk and in its disk.
AtTyped ==
  /\ config \in Configs /\ run \in 0..MaxRuns /\ deaths \in 0..MaxDeaths
  /\ n \in 0..(2 * NPoints) /\ j \in 0..(Len(Order) + 1)
  /\ dirs \subseteq Cycle /\ onPath \in BOOLEAN
TreeTyped ==
  /\ tree.at \in Tree /\ tree.graph \in Commit \cup {None}
  /\ tree.failed = None \/ tree.failed \subseteq Tests
CycTyped ==
  /\ cyc.pre \subseteq Tests /\ cyc.all \subseteq Tests /\ cyc.truth \subseteq Tests
  /\ DOMAIN cyc.picked \subseteq Strategy

LEMMA TypesAtFirst ==
  ASSUME ReplayInit PROVE AtTyped /\ TreeTyped /\ CycTyped
<1>1. AtTyped
  <2>1. (CHOOSE k \in Configs : TRUE) \in Configs
    BY RunsAreBounded
  <2>2. 0 \in 0..(2 * NPoints) /\ 0 \in 0..(Len(Order) + 1) /\ 0 \in 0..MaxRuns /\ 0 \in 0..MaxDeaths
    BY RunsAreBounded, ReplayParameters, OrderIsSeq
  <2>. QED  BY <2>1, <2>2 DEF ReplayInit, AtTyped
<1>2. TreeTyped
  BY ReplayParameters DEF ReplayInit, TreeTyped, NoTree, Tree, Commit
<1>3. CycTyped
  BY DEF ReplayInit, CycTyped, NoLocals
<1>. QED  BY <1>1, <1>2, <1>3

LEMMA AtKept ==
  ASSUME ReplayInv, AtTyped, ReplayNext PROVE AtTyped'
<1>. USE DEF AtTyped, still, disk
<1>1. Len(Order) \in Nat /\ NPoints \in Nat \ {0} /\ MaxRuns \in Nat /\ MaxDeaths \in Nat
  BY OrderIsSeq, ReplayParameters, RunsAreBounded
<1>2. CASE StartReplay
  BY <1>1, <1>2 DEF StartReplay
<1>3. CASE AddTree
  BY <1>3, InACycle DEF AddTree
<1>4. CASE Blocked
  BY <1>4 DEF Blocked
<1>5. CASE Clean
  BY <1>5 DEF Clean
<1>6. CASE CollectBase
  BY <1>1, <1>6 DEF CollectBase
<1>7. CASE Prepare
  <2>1. j' \in 0..(Len(Order) + 1)
    BY <1>1, <1>7 DEF Prepare
  <2>. QED  BY <1>7, <2>1 DEF Prepare
<1>8. CASE NoState
  BY <1>1, <1>8 DEF NoState
<1>9. CASE Materialise
  BY <1>9 DEF Materialise
<1>10. CASE Collect
  BY <1>10 DEF Collect
<1>11. CASE Truth
  <2>1. j' \in 0..(Len(Order) + 1)
    BY <1>1, <1>11 DEF Truth
  <2>. QED  BY <1>11, <2>1 DEF Truth
<1>12. CASE Select
  <2>1. j' \in 0..(Len(Order) + 1)
    BY <1>1, <1>12 DEF Select
  <2>. QED  BY <1>12, <2>1 DEF Select
<1>13. CASE Wall
  <2>1. j' \in 0..(Len(Order) + 1)
    BY <1>1, <1>13 DEF Wall
  <2>. QED  BY <1>13, <2>1 DEF Wall
<1>14. CASE Finally
  <2>1. n' \in 0..(2 * NPoints) /\ j' \in 0..(Len(Order) + 1)
    BY <1>1, <1>14 DEF Finally
  <2>. QED  BY <1>14, <2>1 DEF Finally
<1>15. CASE Publish
  BY <1>15 DEF Publish
<1>16. CASE Die
  <2>1. deaths' \in 0..MaxDeaths
    BY <1>1, <1>16 DEF Die
  <2>2. UNCHANGED <<config, run, n, j, dirs>> /\ onPath' = FALSE
    BY <1>16 DEF Die
  <2>. QED  BY <2>1, <2>2
<1>. QED
  BY <1>2, <1>3, <1>4, <1>5, <1>6, <1>7, <1>8, <1>9, <1>10, <1>11, <1>12, <1>13, <1>14, <1>15, <1>16
     DEF ReplayNext, ReplayStep

LEMMA TreeKept ==
  ASSUME ReplayInv, TreeTyped, ReplayNext PROVE TreeTyped'
<1>0. IsTree(tree)
  BY DEF ReplayInv, Walk, Placed
<1>1. CASE AddTree
  <2>1. tree' = [at |-> <<"at", Base(c)>>, graph |-> None, failed |-> None]
    BY <1>1 DEF AddTree, NoTree
  <2>2. c \in Cycle
    BY <1>1, InACycle DEF AddTree
  <2>. QED  BY <2>1, <2>2, TreesAreTyped DEF TreeTyped
<1>2. CASE Materialise
  <2>1. tree' = [at |-> Materialised(c), graph |-> tree.graph, failed |-> tree.failed]
    BY <1>0, <1>2 DEF Materialise, IsTree
  <2>2. c \in Cycle
    BY <1>2, InACycle DEF Materialise
  <2>. QED  BY <2>1, <2>2, TreesAreTyped DEF TreeTyped
<1>3. CASE Prepare
  <2>. DEFINE sid == Order[j]
              k == <<"state", Base(c), sid>>
              read == Value(k, StateOf(sid))
  <2>1. step = "prepare" /\ c \in Cycle /\ sid \in NeedsParentState
    BY <1>3, InACycle DEF Prepare
  <2>2. Imported = BaseTree(c)
    BY <2>1 DEF ReplayInv, Walk, InTree, Loading, Imported
  <2>3. CASE tree' = tree
    BY <2>3 DEF TreeTyped
  <2>4. CASE /\ Hit(k) \/ sid # "rtdd" \/ Base(c) \notin world.refuses
             /\ tree' = IF sid = "rtdd" THEN [tree EXCEPT !.graph = read] ELSE [tree EXCEPT !.failed = read]
    <3>1. Hit(k) \/ IsEntry(config, k, StateOf(sid))
      BY <2>2, <2>4 DEF IsEntry, StateOf, BaseTree
    <3>2. IsEntry(config, k, read)
      BY <3>1, ValueIsTrue DEF ReplayInv
    <3>3. (sid = "rtdd" => read = Base(c)) /\ (sid # "rtdd" => read = Reds(<<"at", Base(c)>>))
      BY <3>2 DEF IsEntry
    <3>4. Base(c) \in Commit /\ Reds(<<"at", Base(c)>>) \subseteq Tests
      BY <2>1, TreesAreTyped DEF Reds
    <3>5. tree' = IF sid = "rtdd" THEN [at |-> tree.at, graph |-> read, failed |-> tree.failed]
                  ELSE [at |-> tree.at, graph |-> tree.graph, failed |-> read]
      BY <1>0, <2>4 DEF IsTree
    <3>. QED  BY <3>3, <3>4, <3>5 DEF TreeTyped
  <2>. QED  BY <1>3, <2>3, <2>4 DEF Prepare
<1>4. CASE tree' = tree
  BY <1>4 DEF TreeTyped
<1>. QED
  BY <1>1, <1>2, <1>3, <1>4 DEF ReplayNext, ReplayStep, StartReplay, Blocked, Clean, CollectBase, NoState,
     Collect, Truth, Select, Wall, Finally, Publish, Die

LEMMA CycKept ==
  ASSUME ReplayInv, ReplayInv', CycTyped, ReplayNext PROVE CycTyped'
<1>0. IsCyc(cyc) /\ (\A t : Reds(t)' \subseteq Tests /\ Collects(t)' \subseteq Tests)
  BY DEF ReplayInv, Walk, Placed, Reds, Collects
<1>1. CASE Clean
  <2>1. CASE cyc' = cyc
    BY <2>1 DEF CycTyped
  <2>2. ASSUME NEW v, cyc' = [cyc EXCEPT !.pre = v], step' = "collect-base" PROVE CycTyped'
    <3>1. cyc'.pre \subseteq Tests
      BY <1>0, <2>2 DEF ReplayInv, Walk, Known, Loading
    <3>2. cyc' = [pre |-> v, base |-> cyc.base, all |-> cyc.all, truth |-> cyc.truth,
                  full |-> cyc.full, picked |-> cyc.picked]
      BY <1>0, <2>2 DEF IsCyc
    <3>. QED  BY <3>1, <3>2 DEF CycTyped
  <2>. QED  BY <1>1, <2>1, <2>2 DEF Clean
<1>2. CASE CollectBase
  <2>1. cyc' = [cyc EXCEPT !.base = Value(<<"collect-base", Base(c)>>, Collects(Imported))]
    BY <1>2 DEF CollectBase
  <2>2. cyc'.pre = cyc.pre /\ cyc'.all = cyc.all /\ cyc'.truth = cyc.truth /\ cyc'.picked = cyc.picked
    BY <1>0, <2>1 DEF IsCyc
  <2>. QED  BY <2>2 DEF CycTyped
<1>3. CASE Collect
  <2>. DEFINE k == <<"collect", c>>
              all == Value(k, Collects(Imported))
  <2>1. step = "collect" /\ cyc' = [cyc EXCEPT !.all = all]
    BY <1>3 DEF Collect
  <2>2. Imported = Materialised(c)
    BY <2>1 DEF ReplayInv, Walk, InTree, Measuring, Imported
  <2>3. IsEntry(config, k, Collects(Imported))
    BY <2>2 DEF IsEntry
  <2>4. IsEntry(config, k, all)
    BY <2>3, ValueIsTrue DEF ReplayInv
  <2>5. all \subseteq Tests
    BY <2>4 DEF IsEntry, Collects
  <2>6. cyc' = [pre |-> cyc.pre, base |-> cyc.base, all |-> all, truth |-> cyc.truth,
                full |-> cyc.full, picked |-> cyc.picked]
    BY <1>0, <2>1 DEF IsCyc
  <2>. QED  BY <2>5, <2>6 DEF CycTyped
<1>4. CASE Truth
  <2>1. CASE cyc' = cyc
    BY <2>1 DEF CycTyped
  <2>2. ASSUME NEW v, NEW w, cyc' = [cyc EXCEPT !.truth = v, !.full = w], step' = "select" PROVE CycTyped'
    <3>1. cyc'.truth \subseteq Tests
      BY <1>0, <2>2 DEF ReplayInv, Walk, Known, Measuring, TrueFull, Reds
    <3>2. cyc' = [pre |-> cyc.pre, base |-> cyc.base, all |-> cyc.all, truth |-> v,
                  full |-> w, picked |-> cyc.picked]
      BY <1>0, <2>2 DEF IsCyc
    <3>. QED  BY <3>1, <3>2 DEF CycTyped
  <2>. QED  BY <1>4, <2>1, <2>2 DEF Truth
<1>5. CASE Select
  <2>. DEFINE sid == Order[j]
              tests == Value(<<"select", c, sid>>, AnswerOf(sid))
  <2>1. step = "select" /\ cyc' = [cyc EXCEPT !.picked = With(@, sid, tests)]
    BY <1>5 DEF Select
  <2>2. sid \in Strategy
    BY <2>1, OrderIsSeq DEF ReplayInv, Walk, Placed
  <2>3. cyc' = [pre |-> cyc.pre, base |-> cyc.base, all |-> cyc.all, truth |-> cyc.truth,
                full |-> cyc.full, picked |-> With(cyc.picked, sid, tests)]
    BY <1>0, <2>1 DEF IsCyc
  <2>4. DOMAIN With(cyc.picked, sid, tests) = {sid} \cup DOMAIN cyc.picked
    BY WithAt
  <2>. QED  BY <2>2, <2>3, <2>4 DEF CycTyped
<1>6. CASE cyc' = NoLocals
  BY <1>6 DEF CycTyped, NoLocals
<1>7. CASE cyc' = cyc
  BY <1>7 DEF CycTyped
<1>. QED
  BY <1>1, <1>2, <1>3, <1>4, <1>5, <1>6, <1>7 DEF ReplayNext, ReplayStep, StartReplay, AddTree, Blocked,
     Prepare, NoState, Materialise, Wall, Finally, Publish, Die

(* A process is in the walk, its worktree holds a tree of the history and  *)
(* the state of one, and what it knows of the suite is of the suite's      *)
(* tests, cached or measured.  (replay.py:295-470)                         *)
LEMMA ReplayKeepsTypes == ReplayInit /\ [][ReplayNext]_replayVars => []ReplayTypeOK
<1>. DEFINE Inv == ReplayInv /\ AtTyped /\ TreeTyped /\ CycTyped
<1>1. ReplayInit => Inv
  BY ReplayStarts, TypesAtFirst
<1>2. Inv /\ [ReplayNext]_replayVars => Inv'
  <2>1. ReplayInv /\ [ReplayNext]_replayVars => ReplayInv'
    BY StepKeeps
  <2>2. CASE UNCHANGED replayVars
    BY <2>1, <2>2 DEF replayVars, AtTyped, TreeTyped, CycTyped
  <2>. QED  BY <2>1, <2>2, AtKept, TreeKept, CycKept
<1>3. Inv => ReplayTypeOK
  BY DEF AtTyped, TreeTyped, CycTyped, ReplayTypeOK
<1>. QED  BY <1>1, <1>2, <1>3, PTL
-----------------------------------------------------------------------------
(* What will be there once the running command has written all it is about *)
(* to write; while nothing is cut short that never changes.                *)
At(sh, d) == IF d \in DOMAIN sh THEN sh[d] ELSE NoResults
Pending(td, d, f) == \E i \in DOMAIN td : td[i][1] = d /\ td[i][2] = f
Due(td, d, f) == CHOOSE v : \E i \in DOMAIN td : td[i] = <<d, f, v>>
InTheEnd(sh, td, d, f) == IF Pending(td, d, f) THEN Due(td, d, f) ELSE At(sh, d)[f]

\* Two writes of one file write the same.
Agree(td) ==
  \A i, k \in DOMAIN td : td[i][1] = td[k][1] /\ td[i][2] = td[k][2] => td[i][3] = td[k][3]

LegalDir(d) == Len(d) > 1 => d[1] \notin Admitted
PublishedAt(rn, d, r) ==
  Len(d) = 1 /\ d[1] \in Admitted =>
    rn[r].row = d[1] /\ rn[r].selection = "recent" /\ rn[r].label = ""
FitsRun(rn, d, f, v) ==
  /\ f = "commits" =>
       v \in CommitRecords /\ v.run \in DOMAIN rn /\ PublishedAt(rn, d, v.run) /\ d # Top
  /\ f = "summary" => v \in Summaries
  /\ f = "page" /\ d = Top => DOMAIN v \subseteq Admitted /\ DOMAIN v # {}
  /\ f \in {"config", "drift"} => v \in DOMAIN rn
Stored(rn, d, f, v) == v \in {None, HalfWritten} \/ FitsRun(rn, d, f, v)

IsSeq(td) == \E S : td \in Seq(S)
IsJob(rn, w) ==
  /\ w = <<w[1], w[2], w[3]>> /\ w[2] \in File
  /\ LegalDir(w[1]) /\ \A row \in Dropped : w[1] # <<row>>
  /\ FitsRun(rn, w[1], w[2], w[3])
TodoIs(rn, td) == IsSeq(td) /\ Agree(td) /\ \A i \in DOMAIN td : IsJob(rn, td[i])
IsShelf(sh) ==
  /\ sh = [d \in DOMAIN sh |-> sh[d]]
  /\ \A d \in DOMAIN sh : sh[d] = [f \in File |-> sh[d][f]]
ShelvesAre(rn, sh) ==
  /\ IsShelf(sh)
  /\ \A d \in DOMAIN sh : LegalDir(d) /\ \A f \in File : Stored(rn, d, f, sh[d][f])
DroppedStay(sh) ==
  \A row \in Dropped :
    <<row>> \in DOMAIN sh /\ sh[<<row>>].commits = RecordsOf(1, 0) /\ sh[<<row>>].config = 1

\* CommitRecords, summary, page and config of one whole run.
OfOneRun(rec, s, p, g) ==
  rec # None =>
    /\ rec \in CommitRecords /\ rec.whole /\ g = rec.run
    /\ s \in Summaries /\ p = s /\ s.of.run = rec.run /\ s.config = rec.run /\ s.skipped = rec.run
RowIs(sh, td, d) ==
  OfOneRun(InTheEnd(sh, td, d, "commits"), InTheEnd(sh, td, d, "summary"),
           InTheEnd(sh, td, d, "page"), InTheEnd(sh, td, d, "config"))

\* What a command that ends well will have done.
Weighed(sh, td) ==
  LET agg == InTheEnd(sh, td, Top, "page")
  IN  \A row \in Admitted :
        IF InTheEnd(sh, td, <<row>>, "summary") = None THEN row \notin DOMAIN agg
        ELSE agg[row] = InTheEnd(sh, td, <<row>>, "summary")
DerivedAll(sh, td) ==
  \A row \in Admitted :
    LET rec == InTheEnd(sh, td, <<row>>, "commits")
    IN  rec # None => rec # HalfWritten /\ rec.derived = 1
RebuiltAll(sh, td) ==
  \A row \in Admitted :
    LET s == InTheEnd(sh, td, <<row>>, "summary")
    IN  InTheEnd(sh, td, <<row>>, "commits") # None =>
          /\ s \notin {None, HalfWritten} /\ s.of = InTheEnd(sh, td, <<row>>, "commits")
          /\ s.config = InTheEnd(sh, td, <<row>>, "config")
Does(cmd, sh, td) ==
  /\ cmd = "report" => Weighed(sh, td)
  /\ cmd = "derive" => DerivedAll(sh, td)
  /\ cmd = "rebuild" => RebuiltAll(sh, td)

ResultsInv ==
  /\ \E S : ran \in Seq(S)
  /\ TodoIs(ran, todo) /\ ShelvesAre(ran, shelves) /\ DroppedStay(shelves)
  /\ \A d : d \notin spoiled => RowIs(shelves, todo, d)
  /\ code = "ok" => Does(command, shelves, todo)
  /\ code \in {"ok", "guard", "crash", "killed"}

-----------------------------------------------------------------------------
(* Writing one file *)

PutIn(sh, d, f, v) ==
  [e \in DOMAIN sh \cup {d} |-> IF e = d THEN [At(sh, d) EXCEPT ![f] = v] ELSE sh[e]]

\* p is sh but for v in d's file f.
Puts(sh, d, f, v, p) ==
  /\ IsShelf(p) /\ DOMAIN p = DOMAIN sh \cup {d}
  /\ \A g \in File : At(p, d)[g] = IF g = f THEN v ELSE At(sh, d)[g]
  /\ \A e : e # d => At(p, e) = At(sh, e)

LEMMA PutIs ==
  ASSUME NEW sh, NEW d, NEW f, NEW v, IsShelf(sh), f \in File
  PROVE  Puts(sh, d, f, v, PutIn(sh, d, f, v))
<1>. DEFINE p == PutIn(sh, d, f, v)
            h == At(sh, d)
            new == [h EXCEPT ![f] = v]
<1>1. h = [g \in File |-> h[g]]
  BY DEF At, NoResults, IsShelf
<1>2. new = [g \in File |-> IF g = f THEN v ELSE h[g]]
  <2>. HIDE DEF h
  <2>. QED  BY <1>1
<1>3. /\ p = [e \in DOMAIN sh \cup {d} |-> IF e = d THEN new ELSE sh[e]]
      /\ DOMAIN p = DOMAIN sh \cup {d}
  BY DEF PutIn
<1>. HIDE DEF h, new, p
<1>4. p[d] = new /\ \A e \in DOMAIN sh : e # d => p[e] = sh[e]
  BY <1>3
<1>5. At(p, d) = new
  BY <1>3, <1>4 DEF At
<1>6. \A e : e # d => At(p, e) = At(sh, e)
  BY <1>3, <1>4 DEF At
<1>7. \A e \in DOMAIN p : p[e] = [g \in File |-> p[e][g]]
  <2>1. new = [g \in File |-> new[g]]
    BY <1>2
  <2>. QED  BY <1>3, <1>4, <2>1 DEF IsShelf
<1>8. p = [e \in DOMAIN p |-> p[e]]
  BY <1>3
<1>9. \A g \in File : new[g] = IF g = f THEN v ELSE h[g]
  BY <1>2
<1>. QED  BY <1>3, <1>5, <1>6, <1>7, <1>8, <1>9 DEF IsShelf, Puts, p, h

LEMMA PutKeeps ==
  ASSUME NEW rn, NEW sh, NEW d, NEW f, NEW v,
         ShelvesAre(rn, sh), DroppedStay(sh), f \in File, LegalDir(d),
         \A row \in Dropped : d # <<row>>, Stored(rn, d, f, v)
  PROVE  ShelvesAre(rn, PutIn(sh, d, f, v)) /\ DroppedStay(PutIn(sh, d, f, v))
<1>. DEFINE p == PutIn(sh, d, f, v)
<1>1. Puts(sh, d, f, v, p)
  <2>1. IsShelf(sh)
    BY DEF ShelvesAre
  <2>. QED  BY <2>1, PutIs
<1>. HIDE DEF p
<1>2. \A e \in DOMAIN sh : e # d => p[e] = sh[e]
  BY <1>1 DEF At, Puts
<1>3. \A g \in File : p[d][g] = IF g = f THEN v ELSE At(sh, d)[g]
  BY <1>1 DEF At, Puts
<1>4. ASSUME NEW g \in File PROVE Stored(rn, d, g, p[d][g])
  <2>1. Stored(rn, d, g, At(sh, d)[g])
    <3>1. CASE d \in DOMAIN sh
      BY <3>1 DEF At, ShelvesAre
    <3>2. CASE d \notin DOMAIN sh
      BY <3>2 DEF At, NoResults, Stored
    <3>. QED  BY <3>1, <3>2
  <2>. QED  BY <1>3, <2>1
<1>5. ShelvesAre(rn, p)
  BY <1>1, <1>2, <1>4 DEF ShelvesAre, Puts
<1>6. DroppedStay(p)
  BY <1>1, <1>2 DEF DroppedStay, Puts
<1>. QED  BY <1>5, <1>6 DEF p

LEMMA NothingPending ==
  ASSUME NEW sh, NEW d, NEW f PROVE InTheEnd(sh, <<>>, d, f) = At(sh, d)[f]
BY DEF InTheEnd, Pending

LEMMA DueIs ==
  ASSUME NEW sh, NEW td, NEW d, NEW f, NEW v, NEW i,
         Agree(td), i \in DOMAIN td, td[i] = <<d, f, v>>
  PROVE  InTheEnd(sh, td, d, f) = v
<1>1. Pending(td, d, f)
  BY DEF Pending
<1>2. ASSUME NEW u, NEW k \in DOMAIN td, td[k] = <<d, f, u>> PROVE u = v
  <2>1. td[k][1] = td[i][1] /\ td[k][2] = td[i][2] /\ td[k][3] = u /\ td[i][3] = v
    BY <1>2
  <2>. QED  BY <2>1 DEF Agree
<1>3. Due(td, d, f) = v
  BY <1>2 DEF Due
<1>. QED  BY <1>1, <1>3 DEF InTheEnd

\* Writing the next file changes nothing of what will be there.
LEMMA WritingIsDue ==
  ASSUME NEW rn, NEW sh, NEW td, TodoIs(rn, td), ShelvesAre(rn, sh), DroppedStay(sh), td # <<>>,
         NEW sh2, sh2 = PutIn(sh, td[1][1], td[1][2], td[1][3])
  PROVE  /\ TodoIs(rn, Tail(td)) /\ ShelvesAre(rn, sh2) /\ DroppedStay(sh2)
         /\ \A d, f : f \in File => InTheEnd(sh2, Tail(td), d, f) = InTheEnd(sh, td, d, f)
<1>. DEFINE t2 == Tail(td)
            d1 == td[1][1]
            f1 == td[1][2]
            v1 == td[1][3]
<1>1. PICK S : td \in Seq(S)
  BY DEF TodoIs, IsSeq
<1>2. /\ t2 \in Seq(S) /\ 1 \in DOMAIN td
      /\ \A i \in DOMAIN t2 : i + 1 \in DOMAIN td /\ t2[i] = td[i + 1]
      /\ \A i \in DOMAIN td : i = 1 \/ (i - 1 \in DOMAIN t2 /\ td[i] = t2[i - 1])
  BY <1>1
<1>. HIDE DEF t2
<1>3. TodoIs(rn, t2)
  <2>1. Agree(t2)
    <3>. SUFFICES ASSUME NEW i \in DOMAIN t2, NEW k \in DOMAIN t2,
                         t2[i][1] = t2[k][1], t2[i][2] = t2[k][2]
                  PROVE  t2[i][3] = t2[k][3]
      BY DEF Agree
    <3>1. i + 1 \in DOMAIN td /\ k + 1 \in DOMAIN td /\ t2[i] = td[i + 1] /\ t2[k] = td[k + 1]
      BY <1>2
    <3>. QED  BY <3>1 DEF TodoIs, Agree
  <2>2. \A i \in DOMAIN t2 : IsJob(rn, t2[i])
    BY <1>2 DEF TodoIs
  <2>. QED  BY <1>2, <2>1, <2>2 DEF TodoIs, IsSeq
<1>4. /\ IsJob(rn, td[1]) /\ f1 \in File /\ LegalDir(d1) /\ Stored(rn, d1, f1, v1)
      /\ \A row \in Dropped : d1 # <<row>>
  BY <1>2 DEF TodoIs, IsJob, Stored
<1>5. ShelvesAre(rn, sh2) /\ DroppedStay(sh2)
  <2>. HIDE DEF d1, f1, v1
  <2>. QED  BY <1>4, PutKeeps DEF d1, f1, v1
<1>7. Puts(sh, d1, f1, v1, sh2)
  <2>1. IsShelf(sh)
    BY DEF ShelvesAre
  <2>. QED  BY <1>4, <2>1, PutIs
<1>6. ASSUME NEW d, NEW f \in File PROVE InTheEnd(sh2, t2, d, f) = InTheEnd(sh, td, d, f)
  <2>1. CASE Pending(t2, d, f)
    <3>1. PICK i \in DOMAIN t2 : t2[i][1] = d /\ t2[i][2] = f
      BY <2>1 DEF Pending
    <3>2. InTheEnd(sh2, t2, d, f) = t2[i][3]
      <4>1. t2[i] = <<d, f, t2[i][3]>> /\ Agree(t2)
        BY <1>3, <3>1 DEF TodoIs, IsJob
      <4>. QED  BY <4>1, DueIs
    <3>3. InTheEnd(sh, td, d, f) = td[i + 1][3]
      <4>1. i + 1 \in DOMAIN td /\ td[i + 1] = <<d, f, td[i + 1][3]>> /\ Agree(td)
        BY <1>2, <3>1 DEF TodoIs, IsJob
      <4>. QED  BY <4>1, DueIs
    <3>. QED  BY <1>2, <3>1, <3>2, <3>3
  <2>2. CASE ~ Pending(t2, d, f) /\ d = d1 /\ f = f1
    <3>1. InTheEnd(sh, td, d, f) = v1
      <4>1. 1 \in DOMAIN td /\ td[1] = <<d, f, v1>> /\ Agree(td)
        BY <1>2, <2>2 DEF TodoIs, IsJob
      <4>. QED  BY <4>1, DueIs
    <3>2. At(sh2, d)[f] = v1
      BY <1>7, <2>2 DEF Puts
    <3>. QED  BY <2>2, <3>1, <3>2 DEF InTheEnd
  <2>3. CASE ~ Pending(t2, d, f) /\ ~ (d = d1 /\ f = f1)
    <3>1. ~ Pending(td, d, f)
      BY <1>2, <2>3 DEF Pending
    <3>2. At(sh2, d)[f] = At(sh, d)[f]
      BY <1>7, <2>3 DEF Puts
    <3>. QED  BY <2>3, <3>1, <3>2 DEF InTheEnd
  <2>. QED  BY <2>1, <2>2, <2>3
<1>. QED  BY <1>3, <1>5, <1>6 DEF t2

\* What is there depends on what is written only.
LEMMA SameAfter ==
  ASSUME NEW sh, NEW td, NEW sh2, NEW td2,
         \A d, f : f \in File => InTheEnd(sh2, td2, d, f) = InTheEnd(sh, td, d, f)
  PROVE  /\ \A d : RowIs(sh, td, d) => RowIs(sh2, td2, d)
         /\ \A cmd : Does(cmd, sh, td) => Does(cmd, sh2, td2)
<1>1. \A d : /\ InTheEnd(sh2, td2, d, "commits") = InTheEnd(sh, td, d, "commits")
             /\ InTheEnd(sh2, td2, d, "summary") = InTheEnd(sh, td, d, "summary")
             /\ InTheEnd(sh2, td2, d, "page") = InTheEnd(sh, td, d, "page")
             /\ InTheEnd(sh2, td2, d, "config") = InTheEnd(sh, td, d, "config")
  BY DEF File
<1>2. \A d : RowIs(sh, td, d) => RowIs(sh2, td2, d)
  BY <1>1 DEF RowIs
<1>3. ASSUME NEW cmd, Does(cmd, sh, td) PROVE Does(cmd, sh2, td2)
  <2>1. ASSUME cmd = "report" PROVE Weighed(sh2, td2)
    BY <1>1, <1>3, <2>1 DEF Does, Weighed
  <2>2. ASSUME cmd = "derive" PROVE DerivedAll(sh2, td2)
    BY <1>1, <1>3, <2>2 DEF Does, DerivedAll
  <2>3. ASSUME cmd = "rebuild" PROVE RebuiltAll(sh2, td2)
    BY <1>1, <1>3, <2>3 DEF Does, RebuiltAll
  <2>. QED  BY <2>1, <2>2, <2>3 DEF Does
<1>. QED  BY <1>2, <1>3

LEMMA WriteNextKeeps == ResultsInv /\ WriteNext => ResultsInv'
<1>. SUFFICES ASSUME ResultsInv, WriteNext PROVE ResultsInv'
  OBVIOUS
<1>1. /\ todo # <<>> /\ shelves' = PutIn(shelves, todo[1][1], todo[1][2], todo[1][3])
      /\ todo' = Tail(todo)
      /\ ran' = ran /\ command' = command /\ code' = code /\ spoiled' = spoiled
  BY DEF WriteNext, Put, PutIn, Here, At
<1>2. TodoIs(ran, todo) /\ ShelvesAre(ran, shelves) /\ DroppedStay(shelves)
  BY DEF ResultsInv
<1>3. /\ TodoIs(ran, todo') /\ ShelvesAre(ran, shelves') /\ DroppedStay(shelves')
      /\ \A d, f : f \in File => InTheEnd(shelves', todo', d, f) = InTheEnd(shelves, todo, d, f)
  BY <1>1, <1>2, WritingIsDue
<1>4. /\ \A d : RowIs(shelves, todo, d) => RowIs(shelves', todo', d)
      /\ \A cmd : Does(cmd, shelves, todo) => Does(cmd, shelves', todo')
  BY <1>3, SameAfter
<1>. QED  BY <1>1, <1>3, <1>4 DEF ResultsInv

LEMMA KilledKeeps == ResultsInv /\ Killed => ResultsInv'
<1>. SUFFICES ASSUME ResultsInv, Killed PROVE ResultsInv'
  OBVIOUS
<1>. DEFINE d1 == todo[1][1]
            f1 == todo[1][2]
            v1 == todo[1][3]
<1>1. /\ todo # <<>> /\ todo' = <<>> /\ code' = "killed"
      /\ ran' = ran /\ command' = command
      /\ spoiled' = spoiled \cup {todo[i][1] : i \in DOMAIN todo}
      /\ \/ shelves' = shelves
         \/ \E v \in LeftOf(f1, v1) : shelves' = PutIn(shelves, d1, f1, v)
  BY DEF Killed, Put, PutIn, Here, At
<1>2. /\ TodoIs(ran, todo) /\ ShelvesAre(ran, shelves) /\ DroppedStay(shelves)
      /\ IsShelf(shelves)
  BY DEF ResultsInv, ShelvesAre
<1>3. 1 \in DOMAIN todo
  BY <1>1, <1>2 DEF TodoIs, IsSeq
<1>4. IsJob(ran, todo[1])
  BY <1>2, <1>3 DEF TodoIs
<1>5. ASSUME NEW v \in LeftOf(f1, v1) PROVE Stored(ran, d1, f1, v)
  <2>1. CASE v = HalfWritten
    BY <2>1 DEF Stored
  <2>2. CASE f1 = "commits" /\ v = [v1 EXCEPT !.whole = FALSE]
    <3>1. v1 \in CommitRecords /\ v1.run \in DOMAIN ran /\ PublishedAt(ran, d1, v1.run) /\ d1 # Top
      BY <1>4, <2>2 DEF IsJob, FitsRun
    <3>2. v \in CommitRecords /\ v.run = v1.run
      BY <2>2, <3>1 DEF CommitRecords
    <3>. QED  BY <2>2, <3>1, <3>2 DEF Stored, FitsRun
  <2>. QED  BY <2>1, <2>2 DEF LeftOf
<1>6. /\ ShelvesAre(ran, shelves') /\ DroppedStay(shelves')
      /\ \A d : d # d1 => At(shelves', d) = At(shelves, d)
  <2>1. CASE shelves' = shelves
    BY <1>2, <2>1
  <2>2. ASSUME NEW v \in LeftOf(f1, v1), shelves' = PutIn(shelves, d1, f1, v)
        PROVE  /\ ShelvesAre(ran, shelves') /\ DroppedStay(shelves')
               /\ \A d : d # d1 => At(shelves', d) = At(shelves, d)
    <3>1. /\ f1 \in File /\ LegalDir(d1) /\ Stored(ran, d1, f1, v)
          /\ \A row \in Dropped : d1 # <<row>>
      BY <1>4, <1>5 DEF IsJob
    <3>. HIDE DEF d1, f1, v1
    <3>2. ShelvesAre(ran, shelves') /\ DroppedStay(shelves')
      BY <1>2, <2>2, <3>1, PutKeeps
    <3>3. Puts(shelves, d1, f1, v, shelves')
      BY <1>2, <2>2, <3>1, PutIs
    <3>. QED  BY <3>2, <3>3 DEF Puts
  <2>. QED  BY <1>1, <2>1, <2>2
<1>7. ASSUME NEW d, d \notin spoiled' PROVE RowIs(shelves', todo', d)
  <2>1. /\ d \notin spoiled /\ d # d1 /\ \A i \in DOMAIN todo : todo[i][1] # d
    BY <1>1, <1>3, <1>7
  <2>2. \A f : ~ Pending(todo, d, f) /\ ~ Pending(todo', d, f)
    BY <1>1, <2>1 DEF Pending
  <2>3. \A f : InTheEnd(shelves', todo', d, f) = InTheEnd(shelves, todo, d, f)
    BY <1>6, <2>1, <2>2 DEF InTheEnd
  <2>4. RowIs(shelves, todo, d)
    BY <2>1 DEF ResultsInv
  <2>. QED  BY <2>3, <2>4 DEF RowIs
<1>8. TodoIs(ran', todo')
  BY <1>1 DEF TodoIs, Agree, IsSeq
<1>. QED  BY <1>1, <1>6, <1>7, <1>8 DEF ResultsInv

-----------------------------------------------------------------------------
(* Commands begin when nothing is left to write *)

\* Runs are added, none is changed.
MoreRuns(rn, rn2) == DOMAIN rn \subseteq DOMAIN rn2 /\ \A r \in DOMAIN rn : rn2[r] = rn[r]

LEMMA MoreRunsKeep ==
  ASSUME NEW rn, NEW rn2, NEW sh, MoreRuns(rn, rn2), ShelvesAre(rn, sh)
  PROVE  ShelvesAre(rn2, sh)
<1>1. ASSUME NEW d, NEW f, NEW v, FitsRun(rn, d, f, v) PROVE FitsRun(rn2, d, f, v)
  BY <1>1 DEF FitsRun, MoreRuns, PublishedAt
<1>2. \A d, f, v : Stored(rn, d, f, v) => Stored(rn2, d, f, v)
  BY <1>1 DEF Stored
<1>. QED  BY <1>2 DEF ShelvesAre

\* What a command that begins leaves alone of a directory it writes in.
LEMMA UntouchedIs ==
  ASSUME NEW sh, NEW td, NEW d, NEW f, ~ Pending(td, d, f)
  PROVE  InTheEnd(sh, td, d, f) = InTheEnd(sh, <<>>, d, f)
BY DEF InTheEnd, Pending

LEMMA UntouchedRow ==
  ASSUME NEW sh, NEW td, NEW d, \A f : ~ Pending(td, d, f), RowIs(sh, <<>>, d)
  PROVE  RowIs(sh, td, d)
<1>1. \A f : InTheEnd(sh, td, d, f) = InTheEnd(sh, <<>>, d, f)
  BY UntouchedIs
<1>. QED  BY <1>1 DEF RowIs

LEMMA NoneIsLeft ==
  ASSUME NEW x PROVE <<>> \o <<x>> = <<x>> /\ <<x>> \o <<>> = <<x>>
<1>1. <<x>> \in Seq({x})
  OBVIOUS
<1>. QED  BY <1>1, ConcatEmptySeq

LEMMA NoneAfterNone == <<>> \o <<>> = <<>>
<1>1. <<>> \in Seq({})
  OBVIOUS
<1>. QED  BY <1>1, ConcatEmptySeq

LEMMA OneAfterOne ==
  ASSUME NEW x, NEW y PROVE <<x>> \o <<y>> = <<x, y>>
<1>. DEFINE S == {x, y}
            z == <<x>> \o <<y>>
<1>1. <<x>> \in Seq(S) /\ <<y>> \in Seq(S) /\ Len(<<x>>) = 1 /\ Len(<<y>>) = 1
  OBVIOUS
<1>2. Len(z) = 2 /\ z \in Seq(S) /\ z[1] = x /\ z[2] = y
  BY <1>1, ConcatProperties
<1>3. <<x, y>> \in Seq(S) /\ Len(<<x, y>>) = 2 /\ <<x, y>>[1] = x /\ <<x, y>>[2] = y
  OBVIOUS
<1>4. \A i \in 1..2 : z[i] = <<x, y>>[i]
  BY <1>2, <1>3
<1>. HIDE DEF z
<1>. QED  BY <1>2, <1>3, <1>4, SeqEqual DEF z

LEMMA OneAfterTwo ==
  ASSUME NEW x, NEW y, NEW z PROVE <<x, y>> \o <<z>> = <<x, y, z>>
<1>. DEFINE S == {x, y, z}
            w == <<x, y>> \o <<z>>
<1>1. <<x, y>> \in Seq(S) /\ <<z>> \in Seq(S) /\ Len(<<x, y>>) = 2 /\ Len(<<z>>) = 1
  OBVIOUS
<1>2. Len(w) = 3 /\ w \in Seq(S) /\ w[1] = x /\ w[2] = y /\ w[3] = z
  BY <1>1, ConcatProperties
<1>3. /\ <<x, y, z>> \in Seq(S) /\ Len(<<x, y, z>>) = 3
      /\ <<x, y, z>>[1] = x /\ <<x, y, z>>[2] = y /\ <<x, y, z>>[3] = z
  OBVIOUS
<1>4. \A i \in 1..3 : w[i] = <<x, y, z>>[i]
  BY <1>2, <1>3
<1>. HIDE DEF w
<1>. QED  BY <1>2, <1>3, <1>4, SeqEqual DEF w

LEMMA DirIs ==
  ASSUME NEW row, NEW selection, NEW label, NEW d,
         row \in Admitted, selection \in Selections \cup {"recent"}, LabelAllowed(label),
         d = DirFor(row, selection, label)
  PROVE  /\ LegalDir(d) /\ d # Top /\ \A r \in Dropped : d # <<r>>
         /\ Len(d) = 1 => d[1] = row /\ selection = "recent" /\ label = ""
<1>1. CASE label = "" /\ selection = "recent"
  <2>1. d = <<row>>
    <3>1. d = (<<>> \o <<>>) \o <<row>>
      BY <1>1 DEF DirFor
    <3>. QED  BY <3>1, NoneAfterNone, NoneIsLeft
  <2>2. Len(d) = 1 /\ d[1] = row /\ d # Top
    BY <2>1 DEF Top
  <2>3. \A r \in Dropped : d # <<r>>
    BY <2>1 DEF Dropped
  <2>4. LegalDir(d)
    BY <2>2 DEF LegalDir
  <2>. QED  BY <1>1, <2>2, <2>3, <2>4
<1>2. CASE label = "" /\ selection # "recent"
  <2>1. d = <<selection, row>>
    <3>1. d = (<<>> \o <<selection>>) \o <<row>>
      BY <1>2 DEF DirFor
    <3>. QED  BY <3>1, NoneIsLeft, OneAfterOne
  <2>2. Len(d) = 2 /\ d[1] = selection /\ d # Top /\ \A r \in Dropped : d # <<r>>
    BY <2>1 DEF Top
  <2>3. selection \notin Admitted
    BY <1>2, RowsAreDirectories
  <2>. QED  BY <2>2, <2>3 DEF LegalDir
<1>3. CASE label # "" /\ selection = "recent"
  <2>1. d = <<label, row>>
    <3>1. d = (<<label>> \o <<>>) \o <<row>>
      BY <1>3 DEF DirFor
    <3>. QED  BY <3>1, NoneIsLeft, OneAfterOne
  <2>2. Len(d) = 2 /\ d[1] = label /\ d # Top /\ \A r \in Dropped : d # <<r>>
    BY <2>1 DEF Top
  <2>. QED  BY <2>2 DEF LegalDir, LabelAllowed
<1>4. CASE label # "" /\ selection # "recent"
  <2>1. d = <<label, selection, row>>
    <3>1. d = (<<label>> \o <<selection>>) \o <<row>>
      BY <1>4 DEF DirFor
    <3>2. <<label>> \o <<selection>> = <<label, selection>>
      BY OneAfterOne
    <3>. QED  BY <3>1, <3>2, OneAfterTwo
  <2>2. Len(d) = 3 /\ d[1] = label /\ d # Top /\ \A r \in Dropped : d # <<r>>
    BY <2>1 DEF Top
  <2>. QED  BY <2>2 DEF LegalDir, LabelAllowed
<1>. QED  BY <1>1, <1>2, <1>3, <1>4

LEMMA RowDirIs ==
  ASSUME NEW row \in Admitted
  PROVE  LegalDir(<<row>>) /\ <<row>> # Top /\ \A r \in Dropped : <<row>> # <<r>>
BY DEF LegalDir, Top, Dropped

LEMMA ReplayKeeps ==
  ASSUME ResultsInv, NEW row \in Admitted, NEW s \in Selections \cup {"recent"}, NEW label,
         NEW linked, Replay(row, s, label, linked)
  PROVE  ResultsInv'
<1>. DEFINE d == DirFor(row, s, label)
            r == Len(ran) + 1
            new == [row |-> row, selection |-> s, label |-> label, linked |-> linked]
            rec == RecordsOf(r, 0)
            m == Summary(rec, r, r)
<1>1. /\ todo = <<>> /\ command' = "replay" /\ shelves' = shelves
      /\ TodoIs(ran, todo) /\ ShelvesAre(ran, shelves) /\ DroppedStay(shelves)
      /\ \A e : e \notin spoiled => RowIs(shelves, <<>>, e)
  BY DEF Replay, Begin, ResultsInv
<1>2. CASE ~ LabelAllowed(label)
  <2>1. code' = "guard" /\ ran' = ran /\ todo' = todo /\ spoiled' = spoiled
    BY <1>2 DEF Replay
  <2>. QED  BY <1>1, <2>1 DEF ResultsInv
<1>3. CASE LabelAllowed(label)
  <2>1. /\ code' = "ok" /\ ran' = Append(ran, new) /\ todo' = ReplayWrites(d, r)
        /\ spoiled' = spoiled \ {d}
    BY <1>3 DEF Replay
  <2>2. PICK S : ran \in Seq(S)
    BY DEF ResultsInv
  <2>3. /\ ran' \in Seq(S \cup {new}) /\ r \in Nat /\ r \in DOMAIN ran' /\ ran'[r] = new
        /\ MoreRuns(ran, ran')
    BY <2>1, <2>2 DEF MoreRuns
  <2>4. /\ LegalDir(d) /\ d # Top /\ \A e \in Dropped : d # <<e>>
        /\ Len(d) = 1 => d[1] = row /\ s = "recent" /\ label = ""
    <3>1. d = DirFor(row, s, label)
      OBVIOUS
    <3>. HIDE DEF d
    <3>. QED  BY <1>3, <3>1, DirIs
  <2>. HIDE DEF r, d
  <2>5. rec \in CommitRecords /\ rec.run = r /\ rec.whole /\ rec # None
    <3>1. rec \in CommitRecords /\ rec.run = r /\ rec.whole
      BY <2>3 DEF CommitRecords, RecordsOf
    <3>. HIDE DEF rec
    <3>. QED  BY <3>1, NoFileIsAValue
  <2>6. m \in Summaries /\ m.of = rec /\ m.config = r /\ m.skipped = r
    BY <2>3, <2>5 DEF Summaries, Summary
  <2>. HIDE DEF rec, m
  <2>7. PublishedAt(ran', d, r)
    <3>1. ran'[r].row = row /\ ran'[r].selection = s /\ ran'[r].label = label
      BY <2>3
    <3>. QED  BY <2>4, <3>1 DEF PublishedAt
  <2>. HIDE DEF new
  <2>8. todo' = <<<<d, "commits", rec>>, <<d, "summary", m>>, <<d, "page", m>>, <<d, "config", r>>>>
    BY <2>1 DEF ReplayWrites, Saved, rec, m
  <2>9. /\ DOMAIN todo' = 1..4 /\ todo'[1] = <<d, "commits", rec>> /\ todo'[2] = <<d, "summary", m>>
        /\ todo'[3] = <<d, "page", m>> /\ todo'[4] = <<d, "config", r>>
    BY <2>8
  <2>10. IsSeq(todo')
    <3>. DEFINE T == {<<d, "commits", rec>>, <<d, "summary", m>>, <<d, "page", m>>,
                      <<d, "config", r>>}
    <3>1. todo' \in Seq(T)
      BY <2>8
    <3>. QED  BY <3>1 DEF IsSeq
  <2>11. \A i \in 1..4 : IsJob(ran', todo'[i])
    <3>1. IsJob(ran', <<d, "commits", rec>>)
      BY <2>3, <2>4, <2>5, <2>7 DEF IsJob, File, FitsRun
    <3>2. IsJob(ran', <<d, "summary", m>>)
      BY <2>4, <2>6 DEF IsJob, File, FitsRun
    <3>3. IsJob(ran', <<d, "page", m>>)
      BY <2>4 DEF IsJob, File, FitsRun
    <3>4. IsJob(ran', <<d, "config", r>>)
      BY <2>3, <2>4 DEF IsJob, File, FitsRun
    <3>. QED  BY <2>9, <3>1, <3>2, <3>3, <3>4
  <2>12. Agree(todo')
    BY <2>9 DEF Agree
  <2>13. TodoIs(ran', todo')
    BY <2>9, <2>10, <2>11, <2>12 DEF TodoIs
  <2>14. ShelvesAre(ran', shelves') /\ DroppedStay(shelves')
    BY <1>1, <2>3, MoreRunsKeep
  <2>15. RowIs(shelves', todo', d)
    <3>1. /\ InTheEnd(shelves', todo', d, "commits") = rec
          /\ InTheEnd(shelves', todo', d, "summary") = m
          /\ InTheEnd(shelves', todo', d, "page") = m /\ InTheEnd(shelves', todo', d, "config") = r
      <4>1. 1 \in DOMAIN todo' /\ 2 \in DOMAIN todo' /\ 3 \in DOMAIN todo' /\ 4 \in DOMAIN todo'
        BY <2>9
      <4>. QED  BY <2>9, <2>12, <4>1, DueIs
    <3>2. OfOneRun(rec, m, m, r)
      BY <2>5, <2>6 DEF OfOneRun
    <3>. QED  BY <3>1, <3>2 DEF RowIs
  <2>16. ASSUME NEW e, e \notin spoiled' PROVE RowIs(shelves', todo', e)
    <3>1. CASE e = d
      BY <2>15, <3>1
    <3>2. CASE e # d
      <4>1. e \notin spoiled
        BY <2>1, <2>16, <3>2
      <4>2. \A f : ~ Pending(todo', e, f)
        BY <2>9, <3>2 DEF Pending
      <4>3. RowIs(shelves', <<>>, e)
        BY <1>1, <4>1
      <4>. QED  BY <4>2, <4>3, UntouchedRow
    <3>. QED  BY <3>1, <3>2
  <2>17. Does(command', shelves', todo')
    BY <1>1 DEF Does
  <2>. QED  BY <1>1, <2>1, <2>3, <2>13, <2>14, <2>16, <2>17 DEF ResultsInv
<1>. QED  BY <1>2, <1>3

LEMMA SessionKeeps ==
  ASSUME ResultsInv, NEW row \in Admitted, Session(row) PROVE ResultsInv'
<1>. DEFINE d == <<row>>
            r == Len(ran) + 1
            new == [row |-> row, selection |-> "drift", label |-> "", linked |-> FALSE]
            g == At(shelves, d).config
<1>1. /\ todo = <<>> /\ command' = "session" /\ shelves' = shelves /\ spoiled' = spoiled
      /\ code' = "ok" /\ ran' = Append(ran, new)
      /\ ShelvesAre(ran, shelves) /\ DroppedStay(shelves)
      /\ \A e : e \notin spoiled => RowIs(shelves, <<>>, e)
  BY DEF Session, Begin, ResultsInv
<1>2. PICK S : ran \in Seq(S)
  BY DEF ResultsInv
<1>3. ran' \in Seq(S \cup {new}) /\ r \in Nat /\ r \in DOMAIN ran' /\ MoreRuns(ran, ran')
  <2>. HIDE DEF new
  <2>1. ran \in Seq(S \cup {new}) /\ new \in S \cup {new}
    BY <1>2
  <2>. QED  BY <1>1, <2>1 DEF MoreRuns
<1>4. LegalDir(d) /\ d # Top /\ \A e \in Dropped : d # <<e>>
  BY RowDirIs
<1>5. todo' = IF g = None THEN <<<<d, "drift", r>>, <<d, "config", r>>>> ELSE <<<<d, "drift", r>>>>
  <2>1. todo' = <<<<d, "drift", r>>>> \o (IF g = None THEN <<<<d, "config", r>>>> ELSE <<>>)
    BY DEF Session, SessionWrites, Saved, Here, At
  <2>. HIDE DEF d, r, g
  <2>2. <<<<d, "drift", r>>>> \in Seq({<<d, "drift", r>>})
    OBVIOUS
  <2>. QED  BY <2>1, <2>2, OneAfterOne, ConcatEmptySeq
<1>. HIDE DEF r, d, new, g
<1>6. IsJob(ran', <<d, "drift", r>>) /\ IsJob(ran', <<d, "config", r>>)
  BY <1>3, <1>4 DEF IsJob, File, FitsRun
<1>7. /\ TodoIs(ran', todo') /\ \A i \in DOMAIN todo' : todo'[i][1] = d
      /\ \A f : Pending(todo', d, f) => f = "drift" \/ (f = "config" /\ g = None)
  <2>1. CASE g = None
    <3>1. DOMAIN todo' = 1..2 /\ todo'[1] = <<d, "drift", r>> /\ todo'[2] = <<d, "config", r>>
      BY <1>5, <2>1
    <3>2. IsSeq(todo')
      <4>1. todo' \in Seq({<<d, "drift", r>>, <<d, "config", r>>})
        BY <1>5, <2>1
      <4>. QED  BY <4>1 DEF IsSeq
    <3>3. Agree(todo')
      BY <3>1 DEF Agree
    <3>4. \A i \in DOMAIN todo' : IsJob(ran', todo'[i]) /\ todo'[i][1] = d
      BY <1>6, <3>1
    <3>. QED  BY <2>1, <3>1, <3>2, <3>3, <3>4 DEF TodoIs, Pending
  <2>2. CASE g # None
    <3>1. DOMAIN todo' = 1..1 /\ todo'[1] = <<d, "drift", r>>
      BY <1>5, <2>2
    <3>2. IsSeq(todo')
      <4>1. todo' \in Seq({<<d, "drift", r>>})
        BY <1>5, <2>2
      <4>. QED  BY <4>1 DEF IsSeq
    <3>3. Agree(todo')
      BY <3>1 DEF Agree
    <3>4. \A i \in DOMAIN todo' : IsJob(ran', todo'[i]) /\ todo'[i][1] = d
      BY <1>6, <3>1
    <3>. QED  BY <2>2, <3>1, <3>2, <3>3, <3>4 DEF TodoIs, Pending
  <2>. QED  BY <2>1, <2>2
<1>8. ASSUME NEW e, e \notin spoiled' PROVE RowIs(shelves', todo', e)
  <2>1. RowIs(shelves, <<>>, e)
    BY <1>1, <1>8
  <2>2. CASE e # d
    <3>1. \A f : ~ Pending(todo', e, f)
      BY <1>7, <2>2 DEF Pending
    <3>. QED  BY <1>1, <2>1, <3>1, UntouchedRow
  <2>3. CASE e = d
    <3>1. /\ InTheEnd(shelves, todo', e, "commits") = InTheEnd(shelves, <<>>, e, "commits")
          /\ InTheEnd(shelves, todo', e, "summary") = InTheEnd(shelves, <<>>, e, "summary")
          /\ InTheEnd(shelves, todo', e, "page") = InTheEnd(shelves, <<>>, e, "page")
      <4>1. /\ ~ Pending(todo', e, "commits") /\ ~ Pending(todo', e, "summary")
            /\ ~ Pending(todo', e, "page")
        BY <1>7, <2>3
      <4>. QED  BY <4>1, UntouchedIs
    <3>2. CASE InTheEnd(shelves, <<>>, e, "commits") = None
      BY <1>1, <3>1, <3>2 DEF RowIs, OfOneRun
    <3>3. CASE InTheEnd(shelves, <<>>, e, "commits") # None
      <4>1. InTheEnd(shelves, <<>>, e, "config") \in Nat
        BY <2>1, <3>3 DEF RowIs, OfOneRun, CommitRecords
      <4>2. InTheEnd(shelves, <<>>, e, "config") = g
        BY <2>3, NothingPending DEF g
      <4>3. ~ Pending(todo', e, "config")
        BY <1>7, <2>3, <4>1, <4>2, NoFileIsAValue
      <4>4. InTheEnd(shelves, todo', e, "config") = InTheEnd(shelves, <<>>, e, "config")
        BY <4>3, UntouchedIs
      <4>. QED  BY <1>1, <2>1, <3>1, <4>4 DEF RowIs
    <3>. QED  BY <3>2, <3>3
  <2>. QED  BY <2>2, <2>3
<1>9. ShelvesAre(ran', shelves') /\ DroppedStay(shelves')
  BY <1>1, <1>3, MoreRunsKeep
<1>10. Does(command', shelves', todo')
  BY <1>1 DEF Does
<1>. QED  BY <1>1, <1>3, <1>7, <1>8, <1>9, <1>10 DEF ResultsInv

-----------------------------------------------------------------------------
(* The commands over all rows *)

LEMMA OfItsElements ==
  ASSUME NEW s, NEW T, IsSeq(s), Elements(s) \subseteq T PROVE s \in Seq(T)
<1>1. PICK S : s \in Seq(S)
  BY DEF IsSeq
<1>2. \A i \in 1..Len(s) : s[i] \in T
  BY <1>1 DEF Elements
<1>3. Len(s) \in Nat /\ s = [i \in 1..Len(s) |-> s[i]]
  BY <1>1
<1>4. [i \in 1..Len(s) |-> s[i]] \in Seq(T)
  BY <1>2, <1>3
<1>. QED  BY <1>3, <1>4

\* What is written is what the rows that were reached have to write; a
\* command that ends well reached them all.
LEMMA OverRowsIs ==
  ASSUME NEW name, NEW one, OverRows(name, one),
         \A i \in Visited : IsSeq(one[i].writes) /\ one[i].code \in {"ok", "guard", "crash"}
  PROVE  /\ todo = <<>> /\ command' = name /\ IsSeq(todo') /\ code' \in {"ok", "guard", "crash"}
         /\ shelves' = shelves /\ ran' = ran /\ spoiled' = spoiled
         /\ \A w \in Elements(todo') : \E i \in Visited : /\ w \in Elements(one[i].writes)
                                                         /\ Elements(one[i].writes) \subseteq Elements(todo')
         /\ code' = "ok" => \A i \in Visited : /\ one[i].code = "ok"
                                               /\ Elements(one[i].writes) \subseteq Elements(todo')
<1>. DEFINE stops == {i \in Visited : one[i].code # "ok"}
            reached == {i \in Visited : \A first \in stops : i <= first}
            parts == [i \in DOMAIN Rows |-> IF i \in reached THEN one[i].writes ELSE <<>>]
            T == UNION {Elements(one[i].writes) : i \in Visited}
<1>1. /\ todo = <<>> /\ command' = name /\ todo' = Joined(parts)
      /\ \/ \E i \in stops \cap reached : code' = one[i].code
         \/ stops = {} /\ code' = IF Visited = {} THEN "guard" ELSE "ok"
      /\ shelves' = shelves /\ ran' = ran /\ spoiled' = spoiled
  BY DEF OverRows, Begin
<1>2. reached \subseteq Visited /\ stops \subseteq Visited /\ Visited \subseteq DOMAIN Rows
  BY DEF Visited
<1>3. \A i \in reached : one[i].writes \in Seq(T)
  <2>1. \A i \in reached : IsSeq(one[i].writes) /\ Elements(one[i].writes) \subseteq T
    BY <1>2
  <2>. HIDE DEF T, reached
  <2>. QED  BY <2>1, OfItsElements
<1>4. code' = "ok" => stops = {}
  BY <1>1
<1>5. code' \in {"ok", "guard", "crash"}
  BY <1>1, <1>2
<1>6. stops = {} => reached = Visited
  OBVIOUS
<1>7. \A i \in Visited : i \notin stops => one[i].code = "ok"
  OBVIOUS
<1>. HIDE DEF T, reached, stops
<1>8. parts \in Seq(Seq(T)) /\ DOMAIN parts = DOMAIN Rows
  <2>1. Rows \in Seq(STRING)
    BY RowsAreDirectories
  <2>2. Len(Rows) \in Nat /\ DOMAIN Rows = 1..Len(Rows) /\ <<>> \in Seq(T)
    BY <2>1
  <2>3. \A i \in DOMAIN Rows : (IF i \in reached THEN one[i].writes ELSE <<>>) \in Seq(T)
    BY <1>3, <2>2
  <2>. QED  BY <2>2, <2>3
<1>9. \A i \in DOMAIN Rows : parts[i] = IF i \in reached THEN one[i].writes ELSE <<>>
  OBVIOUS
<1>. HIDE DEF parts
<1>10. /\ todo' \in Seq(T)
       /\ Elements(todo') = UNION {Elements(parts[i]) : i \in DOMAIN parts}
  BY <1>1, <1>8, JoinedElements
<1>11. ASSUME NEW w \in Elements(todo')
       PROVE  \E i \in Visited : /\ w \in Elements(one[i].writes)
                                 /\ Elements(one[i].writes) \subseteq Elements(todo')
  <2>1. PICK i \in DOMAIN parts : w \in Elements(parts[i])
    BY <1>10
  <2>2. i \in reached
    <3>1. Elements(<<>>) = {}
      BY DEF Elements
    <3>. QED  BY <1>8, <1>9, <2>1, <3>1
  <2>3. Elements(parts[i]) \subseteq Elements(todo')
    BY <1>10, <2>1
  <2>. QED  BY <1>2, <1>8, <1>9, <2>1, <2>2, <2>3
<1>12. ASSUME code' = "ok", NEW i \in Visited
       PROVE  one[i].code = "ok" /\ Elements(one[i].writes) \subseteq Elements(todo')
  <2>1. i \in reached /\ i \in DOMAIN parts /\ one[i].code = "ok"
    BY <1>2, <1>4, <1>6, <1>7, <1>8, <1>12
  <2>2. Elements(parts[i]) \subseteq Elements(todo')
    BY <1>10, <2>1
  <2>. QED  BY <1>8, <1>9, <2>1, <2>2
<1>13. IsSeq(todo')
  BY <1>10 DEF IsSeq
<1>. QED  BY <1>1, <1>5, <1>11, <1>12, <1>13

LEMMA VisitedIs ==
  /\ \A i \in Visited : Rows[i] \in Admitted /\ At(shelves, <<Rows[i]>>).commits # None
  /\ \A row \in Admitted : At(shelves, <<row>>).commits # None => \E i \in Visited : Rows[i] = row
BY RowsAreDirectories DEF Visited, Here, At

LEMMA StoredIs ==
  ASSUME NEW rn, NEW sh, NEW d, NEW f, ShelvesAre(rn, sh), f \in File
  PROVE  Stored(rn, d, f, At(sh, d)[f])
<1>1. CASE d \in DOMAIN sh
  BY <1>1 DEF At, ShelvesAre
<1>2. CASE d \notin DOMAIN sh
  BY <1>2 DEF At, NoResults, Stored
<1>. QED  BY <1>1, <1>2

LEMMA OneWrite ==
  ASSUME NEW w PROVE IsSeq(<<w>>) /\ Elements(<<w>>) = {w}
<1>1. <<w>> \in Seq({w}) /\ DOMAIN <<w>> = 1..1 /\ <<w>>[1] = w
  OBVIOUS
<1>2. Elements(<<w>>) = {w}
  BY <1>1 DEF Elements
<1>. QED  BY <1>1, <1>2 DEF IsSeq

LEMMA NoWrite == IsSeq(<<>>) /\ Elements(<<>>) = {}
<1>1. <<>> \in Seq({})
  OBVIOUS
<1>. QED  BY <1>1 DEF IsSeq, Elements

LEMMA TwoWrites ==
  ASSUME NEW w, NEW x PROVE IsSeq(<<w, x>>) /\ Elements(<<w, x>>) = {w, x}
<1>1. <<w, x>> \in Seq({w, x}) /\ DOMAIN <<w, x>> = 1..2 /\ <<w, x>>[1] = w /\ <<w, x>>[2] = x
  OBVIOUS
<1>2. Elements(<<w, x>>) = {w, x}
  BY <1>1 DEF Elements
<1>. QED  BY <1>1, <1>2 DEF IsSeq

\* A row's records with the derived arm.
WithArm(rec) == [rec EXCEPT !.derived = 1]

LEMMA DeriveRowIs ==
  ASSUME NEW row, NEW rec, rec = At(shelves, <<row>>).commits
  PROVE  \/ /\ DeriveRow(row).code = "ok" /\ rec # HalfWritten
            /\ DeriveRow(row).writes = <<<<<<row>>, "commits", WithArm(rec)>>>>
         \/ DeriveRow(row).code \in {"guard", "crash"} /\ DeriveRow(row).writes = <<>>
BY DEF DeriveRow, Stop, Writes, Saved, WithArm, Here, At

LEMMA DeriveLeaves ==
  ASSUME ResultsInv, Derive PROVE ResultsInv'
<1>. DEFINE one == [i \in Visited |-> DeriveRow(Rows[i])]
            C(row) == At(shelves, <<row>>).commits
            W(row) == <<<<row>>, "commits", WithArm(C(row))>>
<1>1. /\ TodoIs(ran, todo) /\ ShelvesAre(ran, shelves) /\ DroppedStay(shelves)
      /\ \A e : e \notin spoiled => RowIs(shelves, todo, e)
      /\ \E S : ran \in Seq(S)
  BY DEF ResultsInv
<1>2. ASSUME NEW i \in Visited
      PROVE  /\ Rows[i] \in Admitted /\ C(Rows[i]) # None
             /\ IsSeq(one[i].writes) /\ one[i].code \in {"ok", "guard", "crash"}
             /\ \A w \in Elements(one[i].writes) : w = W(Rows[i]) /\ C(Rows[i]) # HalfWritten
             /\ one[i].code = "ok" =>
                  C(Rows[i]) # HalfWritten /\ W(Rows[i]) \in Elements(one[i].writes)
  <2>1. Rows[i] \in Admitted /\ C(Rows[i]) # None
    BY VisitedIs
  <2>2. one[i] = DeriveRow(Rows[i])
    OBVIOUS
  <2>. HIDE DEF one
  <2>3. \/ /\ one[i].code = "ok" /\ C(Rows[i]) # HalfWritten /\ one[i].writes = <<W(Rows[i])>>
        \/ one[i].code \in {"guard", "crash"} /\ one[i].writes = <<>>
    BY <2>2, DeriveRowIs
  <2>4. /\ IsSeq(<<W(Rows[i])>>) /\ Elements(<<W(Rows[i])>>) = {W(Rows[i])}
        /\ IsSeq(<<>>) /\ Elements(<<>>) = {}
    BY OneWrite, NoWrite
  <2>. HIDE DEF W, C
  <2>. QED  BY <2>1, <2>3, <2>4
<1>3. /\ todo = <<>> /\ command' = "derive" /\ IsSeq(todo') /\ code' \in {"ok", "guard", "crash"}
      /\ shelves' = shelves /\ ran' = ran /\ spoiled' = spoiled
      /\ \A w \in Elements(todo') : \E i \in Visited : w \in Elements(one[i].writes)
      /\ code' = "ok" => \A i \in Visited : /\ one[i].code = "ok"
                                            /\ Elements(one[i].writes) \subseteq Elements(todo')
  <2>1. OverRows("derive", one)
    BY DEF Derive
  <2>. HIDE DEF one
  <2>. QED  BY <1>2, <2>1, OverRowsIs
<1>. HIDE DEF one
<1>4. \A w \in Elements(todo') : \E row \in Admitted : w = W(row) /\ C(row) \notin {None, HalfWritten}
  <2>. HIDE DEF W, C
  <2>. QED  BY <1>2, <1>3
<1>5. code' = "ok" =>
        \A row \in Admitted : C(row) # None => C(row) # HalfWritten /\ W(row) \in Elements(todo')
  <2>. HIDE DEF W
  <2>1. \A row \in Admitted : C(row) # None => \E i \in Visited : Rows[i] = row
    BY VisitedIs
  <2>. HIDE DEF C
  <2>. QED  BY <1>2, <1>3, <2>1
<1>6. ASSUME NEW row \in Admitted, C(row) \notin {None, HalfWritten}
      PROVE  /\ C(row) \in CommitRecords /\ C(row).run \in DOMAIN ran
             /\ PublishedAt(ran, <<row>>, C(row).run)
             /\ WithArm(C(row)) \in CommitRecords /\ WithArm(C(row)).run = C(row).run
             /\ WithArm(C(row)).whole = C(row).whole /\ WithArm(C(row)).derived = 1
             /\ WithArm(C(row)) \notin {None, HalfWritten}
  <2>1. Stored(ran, <<row>>, "commits", C(row))
    BY <1>1, StoredIs DEF File
  <2>2. C(row) \in CommitRecords /\ C(row).run \in DOMAIN ran /\ PublishedAt(ran, <<row>>, C(row).run)
    BY <1>6, <2>1 DEF Stored, FitsRun
  <2>3. /\ WithArm(C(row)) \in CommitRecords /\ WithArm(C(row)).run = C(row).run
        /\ WithArm(C(row)).whole = C(row).whole /\ WithArm(C(row)).derived = 1
    <3>. HIDE DEF C
    <3>. QED  BY <2>2 DEF WithArm, CommitRecords
  <2>4. WithArm(C(row)) \notin {None, HalfWritten}
    <3>. HIDE DEF C
    <3>. QED  BY <2>3, NoFileIsAValue
  <2>. QED  BY <2>2, <2>3, <2>4
<1>7. \A k \in DOMAIN todo' :
        \E row \in Admitted : todo'[k] = W(row) /\ C(row) \notin {None, HalfWritten}
  BY <1>4 DEF Elements
<1>. HIDE DEF C
<1>8. TodoIs(ran, todo')
  <2>1. ASSUME NEW k \in DOMAIN todo' PROVE IsJob(ran, todo'[k])
    <3>1. PICK row \in Admitted : todo'[k] = W(row) /\ C(row) \notin {None, HalfWritten}
      BY <1>7
    <3>2. LegalDir(<<row>>) /\ <<row>> # Top /\ \A r \in Dropped : <<row>> # <<r>>
      BY RowDirIs
    <3>3. FitsRun(ran, <<row>>, "commits", WithArm(C(row)))
      BY <1>6, <3>1, <3>2 DEF FitsRun
    <3>. QED  BY <3>1, <3>2, <3>3 DEF IsJob, File
  <2>2. Agree(todo')
    <3>1. ASSUME NEW i \in DOMAIN todo', NEW k \in DOMAIN todo', todo'[i][1] = todo'[k][1]
          PROVE  todo'[i][3] = todo'[k][3]
      <4>1. PICK r1 \in Admitted : todo'[i] = W(r1)
        BY <1>7
      <4>2. PICK r2 \in Admitted : todo'[k] = W(r2)
        BY <1>7
      <4>3. <<r1>>[1] = <<r2>>[1]
        BY <3>1, <4>1, <4>2
      <4>. QED  BY <4>1, <4>2, <4>3
    <3>. QED  BY <3>1 DEF Agree
  <2>. QED  BY <1>3, <2>1, <2>2 DEF TodoIs
<1>9. ASSUME NEW e, NEW f, Pending(todo', e, f)
      PROVE  \E row \in Admitted : /\ e = <<row>> /\ f = "commits" /\ C(row) \notin {None, HalfWritten}
                                   /\ W(row) \in Elements(todo')
  <2>1. PICK k \in DOMAIN todo' : todo'[k][1] = e /\ todo'[k][2] = f
    BY <1>9 DEF Pending
  <2>2. PICK row \in Admitted : todo'[k] = W(row) /\ C(row) \notin {None, HalfWritten}
    BY <1>7
  <2>3. W(row) \in Elements(todo')
    BY <2>2 DEF Elements
  <2>. QED  BY <2>1, <2>2, <2>3
<1>10. ASSUME NEW row, W(row) \in Elements(todo')
       PROVE  InTheEnd(shelves, todo', <<row>>, "commits") = WithArm(C(row))
  <2>1. PICK k \in DOMAIN todo' : todo'[k] = W(row)
    BY <1>10 DEF Elements
  <2>2. Agree(todo')
    BY <1>8 DEF TodoIs
  <2>. QED  BY <2>1, <2>2, DueIs
<1>11. ASSUME NEW e, e \notin spoiled' PROVE RowIs(shelves, todo', e)
  <2>0. RowIs(shelves, <<>>, e)
    BY <1>1, <1>3, <1>11
  <2>1. CASE \A f : ~ Pending(todo', e, f)
    BY <2>0, <2>1, UntouchedRow
  <2>2. ASSUME NEW f0, Pending(todo', e, f0) PROVE RowIs(shelves, todo', e)
    <3>1. PICK row \in Admitted : /\ e = <<row>> /\ C(row) \notin {None, HalfWritten}
                                  /\ W(row) \in Elements(todo')
      BY <1>9, <2>2
    <3>2. ASSUME NEW f, f # "commits", Pending(todo', e, f) PROVE FALSE
      <4>. HIDE DEF W
      <4>. QED  BY <1>9, <3>2
    <3>3. /\ InTheEnd(shelves, todo', e, "summary") = InTheEnd(shelves, <<>>, e, "summary")
          /\ InTheEnd(shelves, todo', e, "page") = InTheEnd(shelves, <<>>, e, "page")
          /\ InTheEnd(shelves, todo', e, "config") = InTheEnd(shelves, <<>>, e, "config")
      <4>1. /\ ~ Pending(todo', e, "summary") /\ ~ Pending(todo', e, "page")
            /\ ~ Pending(todo', e, "config")
        BY <3>2
      <4>. QED  BY <4>1, UntouchedIs
    <3>4. InTheEnd(shelves, <<>>, e, "commits") = C(row)
      BY <3>1, NothingPending DEF C
    <3>5. InTheEnd(shelves, todo', e, "commits") = WithArm(C(row))
      BY <1>10, <3>1
    <3>6. /\ WithArm(C(row)) \in CommitRecords /\ WithArm(C(row)).run = C(row).run
          /\ WithArm(C(row)).whole = C(row).whole
      BY <1>6, <3>1
    <3>. QED  BY <2>0, <3>1, <3>3, <3>4, <3>5, <3>6 DEF RowIs, OfOneRun
  <2>. QED  BY <2>1, <2>2
<1>12. ASSUME code' = "ok" PROVE Does(command', shelves, todo')
  <2>1. ASSUME NEW row \in Admitted, InTheEnd(shelves, todo', <<row>>, "commits") # None
        PROVE  /\ InTheEnd(shelves, todo', <<row>>, "commits") # HalfWritten
               /\ InTheEnd(shelves, todo', <<row>>, "commits").derived = 1
    <3>1. CASE C(row) = None
      <4>1. Pending(todo', <<row>>, "commits")
        <5>1. InTheEnd(shelves, <<>>, <<row>>, "commits") = C(row)
          BY NothingPending DEF C
        <5>. QED  BY <2>1, <3>1, <5>1, UntouchedIs
      <4>2. PICK r \in Admitted : <<row>> = <<r>> /\ C(r) # None
        <5>. HIDE DEF W
        <5>. QED  BY <1>9, <4>1
      <4>3. <<row>>[1] = <<r>>[1]
        BY <4>2
      <4>. QED  BY <3>1, <4>2, <4>3
    <3>2. CASE C(row) # None
      <4>1. C(row) # HalfWritten /\ W(row) \in Elements(todo')
        BY <1>5, <1>12, <3>2
      <4>2. InTheEnd(shelves, todo', <<row>>, "commits") = WithArm(C(row))
        BY <1>10, <4>1
      <4>. QED  BY <1>6, <3>2, <4>1, <4>2
    <3>. QED  BY <3>1, <3>2
  <2>. QED  BY <1>3, <2>1 DEF Does, DerivedAll
<1>. QED  BY <1>1, <1>3, <1>8, <1>11, <1>12 DEF ResultsInv

\* The summary of a row's records under its config.
Rebuilt(h) ==
  Summary(h.commits, h.config, IF h.summary = None THEN None ELSE h.summary.skipped)
Unbroken(h) == h.config # None /\ HalfWritten \notin {h.commits, h.config, h.summary}

LEMMA RebuildRowIs ==
  ASSUME NEW row, NEW h, h = At(shelves, <<row>>)
  PROVE  \/ /\ RebuildRow(row).code = "ok" /\ Unbroken(h)
            /\ RebuildRow(row).writes =
                 <<<<<<row>>, "summary", Rebuilt(h)>>, <<<<row>>, "page", Rebuilt(h)>>>>
         \/ RebuildRow(row).code \in {"guard", "crash"} /\ RebuildRow(row).writes = <<>>
BY DEF RebuildRow, Stop, Writes, Saved, Rebuilt, Unbroken, Here, At

LEMMA RebuildKeeps ==
  ASSUME ResultsInv, Rebuild PROVE ResultsInv'
<1>. DEFINE one == [i \in Visited |-> RebuildRow(Rows[i])]
            H(row) == At(shelves, <<row>>)
            N(row) == Rebuilt(H(row))
            S1(row) == <<<<row>>, "summary", N(row)>>
            P1(row) == <<<<row>>, "page", N(row)>>
            Fine(row) == H(row).commits # None /\ Unbroken(H(row))
<1>1. /\ TodoIs(ran, todo) /\ ShelvesAre(ran, shelves) /\ DroppedStay(shelves)
      /\ \A e : e \notin spoiled => RowIs(shelves, todo, e)
      /\ \E S : ran \in Seq(S)
  BY DEF ResultsInv
<1>2. ASSUME NEW i \in Visited
      PROVE  /\ Rows[i] \in Admitted /\ H(Rows[i]).commits # None
             /\ IsSeq(one[i].writes) /\ one[i].code \in {"ok", "guard", "crash"}
             /\ \A w \in Elements(one[i].writes) :
                  /\ w \in {S1(Rows[i]), P1(Rows[i])} /\ Fine(Rows[i])
                  /\ Elements(one[i].writes) = {S1(Rows[i]), P1(Rows[i])}
             /\ one[i].code = "ok" => /\ Fine(Rows[i])
                                      /\ Elements(one[i].writes) = {S1(Rows[i]), P1(Rows[i])}
  <2>1. Rows[i] \in Admitted /\ H(Rows[i]).commits # None
    BY VisitedIs
  <2>2. one[i] = RebuildRow(Rows[i])
    OBVIOUS
  <2>. HIDE DEF one
  <2>3. \/ /\ one[i].code = "ok" /\ Unbroken(H(Rows[i]))
           /\ one[i].writes = <<S1(Rows[i]), P1(Rows[i])>>
        \/ one[i].code \in {"guard", "crash"} /\ one[i].writes = <<>>
    BY <2>2, RebuildRowIs
  <2>4. /\ IsSeq(<<S1(Rows[i]), P1(Rows[i])>>)
        /\ Elements(<<S1(Rows[i]), P1(Rows[i])>>) = {S1(Rows[i]), P1(Rows[i])}
        /\ IsSeq(<<>>) /\ Elements(<<>>) = {}
    BY TwoWrites, NoWrite
  <2>5. Unbroken(H(Rows[i])) => Fine(Rows[i])
    BY <2>1
  <2>. HIDE DEF S1, P1, H, Fine
  <2>. QED  BY <2>1, <2>3, <2>4, <2>5
<1>3. /\ todo = <<>> /\ command' = "rebuild" /\ IsSeq(todo') /\ code' \in {"ok", "guard", "crash"}
      /\ shelves' = shelves /\ ran' = ran /\ spoiled' = spoiled
      /\ \A w \in Elements(todo') : \E i \in Visited : /\ w \in Elements(one[i].writes)
                                                      /\ Elements(one[i].writes) \subseteq Elements(todo')
      /\ code' = "ok" => \A i \in Visited : /\ one[i].code = "ok"
                                            /\ Elements(one[i].writes) \subseteq Elements(todo')
  <2>1. OverRows("rebuild", one)
    BY DEF Rebuild
  <2>. HIDE DEF one
  <2>. QED  BY <1>2, <2>1, OverRowsIs
<1>. HIDE DEF one
<1>4. \A w \in Elements(todo') :
        \E row \in Admitted : /\ w \in {S1(row), P1(row)} /\ Fine(row)
                              /\ {S1(row), P1(row)} \subseteq Elements(todo')
  <2>. HIDE DEF S1, P1, H, Fine
  <2>. QED  BY <1>2, <1>3
<1>5. code' = "ok" =>
        \A row \in Admitted :
          H(row).commits # None =>
            Fine(row) /\ S1(row) \in Elements(todo') /\ P1(row) \in Elements(todo')
  <2>. HIDE DEF S1, P1, Fine
  <2>1. \A row \in Admitted : H(row).commits # None => \E i \in Visited : Rows[i] = row
    BY VisitedIs
  <2>. HIDE DEF H
  <2>. QED  BY <1>2, <1>3, <2>1
<1>6. ASSUME NEW row \in Admitted, Fine(row)
      PROVE  /\ N(row) \in Summaries /\ N(row) \notin {None, HalfWritten}
             /\ N(row).of = H(row).commits /\ N(row).config = H(row).config
             /\ H(row).summary \in Summaries => N(row).skipped = H(row).summary.skipped
  <2>1. /\ Stored(ran, <<row>>, "commits", H(row).commits)
        /\ Stored(ran, <<row>>, "summary", H(row).summary)
        /\ Stored(ran, <<row>>, "config", H(row).config)
    BY <1>1, StoredIs DEF File
  <2>2. /\ H(row).commits \in CommitRecords /\ H(row).config \in DOMAIN ran
        /\ H(row).summary = None \/ H(row).summary \in Summaries
    BY <1>6, <2>1 DEF Stored, FitsRun, Unbroken
  <2>3. H(row).config \in Nat
    <3>1. PICK S : ran \in Seq(S)
      BY <1>1
    <3>. QED  BY <2>2, <3>1
  <2>. HIDE DEF H
  <2>4. /\ N(row) \in Summaries
        /\ N(row).of = H(row).commits /\ N(row).config = H(row).config
        /\ H(row).summary # None => N(row).skipped = H(row).summary.skipped
    BY <2>2, <2>3 DEF Rebuilt, Summary, Summaries
  <2>. HIDE DEF N
  <2>. QED  BY <2>4, NoFileIsAValue
<1>. HIDE DEF H, N, Fine
<1>7. \A k \in DOMAIN todo' :
        \E row \in Admitted : /\ todo'[k] \in {S1(row), P1(row)} /\ Fine(row)
                              /\ {S1(row), P1(row)} \subseteq Elements(todo')
  BY <1>4 DEF Elements
<1>8. TodoIs(ran, todo')
  <2>1. ASSUME NEW k \in DOMAIN todo' PROVE IsJob(ran, todo'[k])
    <3>1. PICK row \in Admitted : todo'[k] \in {S1(row), P1(row)} /\ Fine(row)
      BY <1>7
    <3>2. LegalDir(<<row>>) /\ <<row>> # Top /\ \A r \in Dropped : <<row>> # <<r>>
      BY RowDirIs
    <3>3. FitsRun(ran, <<row>>, "summary", N(row)) /\ FitsRun(ran, <<row>>, "page", N(row))
      BY <1>6, <3>1, <3>2 DEF FitsRun
    <3>4. IsJob(ran, S1(row)) /\ IsJob(ran, P1(row))
      BY <3>2, <3>3 DEF IsJob, File
    <3>. QED  BY <3>1, <3>4
  <2>2. Agree(todo')
    <3>1. ASSUME NEW i \in DOMAIN todo', NEW k \in DOMAIN todo', todo'[i][1] = todo'[k][1]
          PROVE  todo'[i][3] = todo'[k][3]
      <4>1. PICK r1 \in Admitted : todo'[i] \in {S1(r1), P1(r1)}
        BY <1>7
      <4>2. PICK r2 \in Admitted : todo'[k] \in {S1(r2), P1(r2)}
        BY <1>7
      <4>3. /\ todo'[i][1] = <<r1>> /\ todo'[i][3] = N(r1)
            /\ todo'[k][1] = <<r2>> /\ todo'[k][3] = N(r2)
        BY <4>1, <4>2
      <4>4. <<r1>>[1] = <<r2>>[1]
        BY <3>1, <4>3
      <4>. QED  BY <4>3, <4>4
    <3>. QED  BY <3>1 DEF Agree
  <2>3. IsSeq(todo')
    BY <1>3
  <2>. QED  BY <2>1, <2>2, <2>3 DEF TodoIs
<1>9. ASSUME NEW e, NEW f, Pending(todo', e, f)
      PROVE  \E row \in Admitted : /\ e = <<row>> /\ f \in {"summary", "page"} /\ Fine(row)
                                   /\ {S1(row), P1(row)} \subseteq Elements(todo')
  <2>1. PICK k \in DOMAIN todo' : todo'[k][1] = e /\ todo'[k][2] = f
    BY <1>9 DEF Pending
  <2>2. PICK row \in Admitted : /\ todo'[k] \in {S1(row), P1(row)} /\ Fine(row)
                                /\ {S1(row), P1(row)} \subseteq Elements(todo')
    BY <1>7
  <2>3. e = <<row>> /\ f \in {"summary", "page"}
    BY <2>1, <2>2
  <2>. QED  BY <2>2, <2>3
<1>10. ASSUME NEW row, {S1(row), P1(row)} \subseteq Elements(todo')
       PROVE  /\ InTheEnd(shelves, todo', <<row>>, "summary") = N(row)
              /\ InTheEnd(shelves, todo', <<row>>, "page") = N(row)
  <2>1. PICK i \in DOMAIN todo' : todo'[i] = S1(row)
    BY <1>10 DEF Elements
  <2>2. PICK k \in DOMAIN todo' : todo'[k] = P1(row)
    BY <1>10 DEF Elements
  <2>3. Agree(todo')
    BY <1>8 DEF TodoIs
  <2>. QED  BY <2>1, <2>2, <2>3, DueIs
<1>. HIDE DEF S1, P1
<1>11. ASSUME NEW e, NEW f, f \notin {"summary", "page"}
       PROVE  InTheEnd(shelves, todo', e, f) = InTheEnd(shelves, <<>>, e, f)
  <2>1. ~ Pending(todo', e, f)
    BY <1>9, <1>11
  <2>. QED  BY <2>1, UntouchedIs
<1>12. \A row, f : InTheEnd(shelves, <<>>, <<row>>, f) = H(row)[f]
  BY NothingPending DEF H
<1>13. ASSUME NEW e, e \notin spoiled' PROVE RowIs(shelves, todo', e)
  <2>0. RowIs(shelves, <<>>, e)
    BY <1>1, <1>3, <1>13
  <2>1. CASE \A f : ~ Pending(todo', e, f)
    BY <2>0, <2>1, UntouchedRow
  <2>2. ASSUME NEW f0, Pending(todo', e, f0) PROVE RowIs(shelves, todo', e)
    <3>1. PICK row \in Admitted : /\ e = <<row>> /\ Fine(row)
                                  /\ {S1(row), P1(row)} \subseteq Elements(todo')
      BY <1>9, <2>2
    <3>2. /\ InTheEnd(shelves, todo', e, "commits") = H(row).commits
          /\ InTheEnd(shelves, todo', e, "config") = H(row).config
          /\ InTheEnd(shelves, todo', e, "summary") = N(row)
          /\ InTheEnd(shelves, todo', e, "page") = N(row)
      BY <1>10, <1>11, <1>12, <3>1
    <3>3. OfOneRun(H(row).commits, H(row).summary, H(row).page, H(row).config)
      BY <1>12, <2>0, <3>1 DEF RowIs
    <3>4. H(row).commits # None
      BY <3>1 DEF Fine
    <3>5. /\ H(row).commits \in CommitRecords /\ H(row).commits.whole
          /\ H(row).config = H(row).commits.run
          /\ H(row).summary \in Summaries /\ H(row).summary.skipped = H(row).commits.run
      BY <3>3, <3>4 DEF OfOneRun
    <3>6. /\ N(row) \in Summaries /\ N(row).of = H(row).commits /\ N(row).config = H(row).config
          /\ N(row).skipped = H(row).summary.skipped
      BY <1>6, <3>1, <3>5
    <3>7. OfOneRun(H(row).commits, N(row), N(row), H(row).config)
      BY <3>5, <3>6 DEF OfOneRun
    <3>. QED  BY <3>2, <3>7 DEF RowIs
  <2>. QED  BY <2>1, <2>2
<1>14. ASSUME code' = "ok" PROVE Does(command', shelves, todo')
  <2>1. ASSUME NEW row \in Admitted, InTheEnd(shelves, todo', <<row>>, "commits") # None
        PROVE  LET s == InTheEnd(shelves, todo', <<row>>, "summary")
               IN  /\ s \notin {None, HalfWritten}
                   /\ s.of = InTheEnd(shelves, todo', <<row>>, "commits")
                   /\ s.config = InTheEnd(shelves, todo', <<row>>, "config")
    <3>1. /\ InTheEnd(shelves, todo', <<row>>, "commits") = H(row).commits
          /\ InTheEnd(shelves, todo', <<row>>, "config") = H(row).config
      BY <1>11, <1>12
    <3>2. Fine(row) /\ {S1(row), P1(row)} \subseteq Elements(todo')
      BY <1>5, <1>14, <2>1, <3>1
    <3>3. InTheEnd(shelves, todo', <<row>>, "summary") = N(row)
      BY <1>10, <3>2
    <3>4. /\ N(row) \notin {None, HalfWritten}
          /\ N(row).of = H(row).commits /\ N(row).config = H(row).config
      BY <1>6, <3>2
    <3>. QED  BY <3>1, <3>3, <3>4
  <2>. QED  BY <1>3, <2>1 DEF Does, RebuiltAll
<1>. QED  BY <1>1, <1>3, <1>8, <1>13, <1>14 DEF ResultsInv

LEMMA ReportKeeps ==
  ASSUME ResultsInv, Report PROVE ResultsInv'
<1>1. /\ TodoIs(ran, todo) /\ ShelvesAre(ran, shelves) /\ DroppedStay(shelves)
      /\ \A e : e \notin spoiled => RowIs(shelves, todo, e)
      /\ \E S : ran \in Seq(S)
  BY DEF ResultsInv
<1>2. /\ todo = <<>> /\ command' = "report"
      /\ shelves' = shelves /\ ran' = ran /\ spoiled' = spoiled
      /\ \/ code' \in {"crash", "guard"} /\ todo' = <<>>
         \/ code' = "ok" /\ todo' = <<<<Top, "page", AggregateOf>>>> /\ Weighs # {}
  BY DEF Report, Begin, Saved
<1>3. CASE code' # "ok"
  BY <1>1, <1>2, <1>3 DEF ResultsInv
<1>4. CASE code' = "ok"
  <2>1. todo' = <<<<Top, "page", AggregateOf>>>> /\ Weighs # {}
    BY <1>2, <1>4
  <2>2. DOMAIN AggregateOf = Weighs /\ Weighs \subseteq Admitted
    BY DEF AggregateOf, Weighs
  <2>3. \A row \in Admitted :
          IF At(shelves, <<row>>).summary = None THEN row \notin DOMAIN AggregateOf
          ELSE AggregateOf[row] = At(shelves, <<row>>).summary
    BY DEF AggregateOf, Weighs, Here, At
  <2>. DEFINE agg == AggregateOf
  <2>4. DOMAIN agg = Weighs
    BY <2>2
  <2>. HIDE DEF agg
  <2>5. /\ DOMAIN todo' = 1..1 /\ todo'[1] = <<Top, "page", agg>>
        /\ todo' \in Seq({<<Top, "page", agg>>})
    BY <2>1 DEF agg
  <2>6. TodoIs(ran, todo')
    <3>1. IsJob(ran, <<Top, "page", agg>>)
      BY <2>1, <2>2, <2>4 DEF IsJob, FitsRun, LegalDir, Top, File
    <3>2. Agree(todo')
      BY <2>5 DEF Agree
    <3>3. \A i \in DOMAIN todo' : IsJob(ran, todo'[i])
      BY <2>5, <3>1
    <3>. QED  BY <2>5, <3>2, <3>3 DEF TodoIs, IsSeq
  <2>7. \A e, f : Pending(todo', e, f) => e = Top /\ f = "page"
    BY <2>5 DEF Pending
  <2>8. InTheEnd(shelves, todo', Top, "page") = agg
    <3>1. Agree(todo') /\ 1 \in DOMAIN todo' /\ todo'[1] = <<Top, "page", agg>>
      BY <2>5, <2>6 DEF TodoIs
    <3>. QED  BY <3>1, DueIs
  <2>9. ASSUME NEW e, e \notin spoiled' PROVE RowIs(shelves, todo', e)
    <3>1. RowIs(shelves, <<>>, e)
      BY <1>1, <1>2, <2>9
    <3>2. CASE e # Top
      <4>1. \A f : ~ Pending(todo', e, f)
        BY <2>7, <3>2
      <4>. QED  BY <3>1, <4>1, UntouchedRow
    <3>3. CASE e = Top
      <4>1. InTheEnd(shelves, todo', e, "commits") = InTheEnd(shelves, <<>>, e, "commits")
        BY <2>7, UntouchedIs
      <4>2. InTheEnd(shelves, <<>>, e, "commits") = At(shelves, Top).commits
        BY <3>3, NothingPending
      <4>3. Stored(ran, Top, "commits", At(shelves, Top).commits)
        BY <1>1, StoredIs DEF File
      <4>4. At(shelves, Top).commits \in {None, HalfWritten}
        BY <4>3 DEF Stored, FitsRun
      <4>5. At(shelves, Top).commits = None
        BY <3>1, <4>2, <4>4, NoFileIsAValue DEF RowIs, OfOneRun
      <4>. QED  BY <4>1, <4>2, <4>5 DEF RowIs, OfOneRun
    <3>. QED  BY <3>2, <3>3
  <2>10. Weighed(shelves, todo')
    <3>1. ASSUME NEW row \in Admitted
          PROVE  InTheEnd(shelves, todo', <<row>>, "summary") = At(shelves, <<row>>).summary
      <4>1. ~ Pending(todo', <<row>>, "summary")
        BY <2>7
      <4>. QED  BY <4>1 DEF InTheEnd
    <3>. QED  BY <2>3, <2>8, <3>1 DEF Weighed, agg
  <2>11. Does(command', shelves, todo')
    BY <1>2, <2>10 DEF Does
  <2>. QED  BY <1>1, <1>2, <1>4, <2>6, <2>9, <2>11 DEF ResultsInv
<1>. QED  BY <1>3, <1>4
-----------------------------------------------------------------------------
LEMMA InitHasResultsInv == ResultsInit => ResultsInv
<1>. SUFFICES ASSUME ResultsInit PROVE ResultsInv
  OBVIOUS
<1>. DEFINE s == Summary(RecordsOf(1, 0), 1, 1)
            h == [f \in File |-> CASE f = "commits" -> RecordsOf(1, 0) [] f = "summary" -> s
                                   [] f = "page" -> s [] f = "config" -> 1 [] OTHER -> None]
<1>1. /\ todo = <<>> /\ code = "ok" /\ command = "none"
      /\ ran = <<[row |-> "old", selection |-> "recent", label |-> "", linked |-> TRUE]>>
  BY DEF ResultsInit
<1>2. shelves = [d \in {<<row>> : row \in Dropped} |-> h]
  <2>1. [NoResults EXCEPT !.commits = RecordsOf(1, 0), !.summary = s, !.page = s, !.config = 1] = h
    <3>. HIDE DEF s
    <3>. QED  BY DEF NoResults, File
  <2>. QED  BY <2>1 DEF ResultsInit
<1>3. /\ h = [f \in File |-> h[f]] /\ h.commits = RecordsOf(1, 0) /\ h.summary = s /\ h.page = s
      /\ h.config = 1 /\ h.drift = None
  <2>. HIDE DEF s
  <2>. QED  BY DEF File
<1>. HIDE DEF h
<1>4. ran \in Seq({ran[1]}) /\ DOMAIN ran = 1..1
  <2>. DEFINE x == [row |-> "old", selection |-> "recent", label |-> "", linked |-> TRUE]
  <2>1. ran = <<x>>
    BY <1>1
  <2>. HIDE DEF x
  <2>. QED  BY <2>1
<1>5. \E S : ran \in Seq(S)
  BY <1>4
<1>6. TodoIs(ran, todo)
  <2>1. todo = <<>> /\ IsSeq(todo) /\ Elements(todo) = {}
    BY <1>1, NoWrite
  <2>2. DOMAIN todo = {}
    BY <2>1 DEF Elements
  <2>. QED  BY <2>1, <2>2 DEF TodoIs, Agree
<1>7. /\ RecordsOf(1, 0) \in CommitRecords /\ RecordsOf(1, 0).run = 1 /\ RecordsOf(1, 0).whole
      /\ s \in Summaries /\ s.of.run = 1 /\ s.config = 1 /\ s.skipped = 1
  BY DEF RecordsOf, CommitRecords, Summary, Summaries
<1>. HIDE DEF s
<1>8. ASSUME NEW row \in Dropped
      PROVE  /\ LegalDir(<<row>>) /\ <<row>> # Top /\ PublishedAt(ran, <<row>>, 1)
  BY DEF Dropped, LegalDir, Top, PublishedAt
<1>9. ASSUME NEW row \in Dropped, NEW f \in File PROVE Stored(ran, <<row>>, f, h[f])
  BY <1>3, <1>4, <1>7, <1>8 DEF Stored, FitsRun, File
<1>10. ShelvesAre(ran, shelves)
  BY <1>2, <1>3, <1>8, <1>9 DEF ShelvesAre, IsShelf
<1>11. DroppedStay(shelves)
  BY <1>2, <1>3 DEF DroppedStay
<1>12. ASSUME NEW d PROVE RowIs(shelves, todo, d)
  <2>1. CASE d \in DOMAIN shelves
    <3>1. At(shelves, d) = h
      BY <1>2, <2>1 DEF At
    <3>2. \A f : InTheEnd(shelves, todo, d, f) = h[f]
      BY <1>1, <3>1, NothingPending
    <3>3. OfOneRun(h.commits, h.summary, h.page, h.config)
      BY <1>3, <1>7 DEF OfOneRun
    <3>. QED  BY <3>2, <3>3 DEF RowIs
  <2>2. CASE d \notin DOMAIN shelves
    <3>1. At(shelves, d).commits = None
      BY <2>2 DEF At, NoResults, File
    <3>2. InTheEnd(shelves, todo, d, "commits") = None
      BY <1>1, <3>1, NothingPending
    <3>. QED  BY <3>2 DEF RowIs, OfOneRun
  <2>. QED  BY <2>1, <2>2
<1>13. Does(command, shelves, todo)
  BY <1>1 DEF Does
<1>. QED  BY <1>1, <1>5, <1>6, <1>10, <1>11, <1>12, <1>13 DEF ResultsInv

LEMMA ResultsStepKeeps == ResultsInv /\ [ResultsNext]_resultVars => ResultsInv'
<1>. SUFFICES ASSUME ResultsInv, [ResultsNext]_resultVars PROVE ResultsInv'
  OBVIOUS
<1>1. ASSUME NEW row \in Admitted, NEW picks \in Selections \cup {"recent"},
             NEW label \in Labels, NEW linked \in BOOLEAN, Replay(row, picks, label, linked)
      PROVE  ResultsInv'
  BY <1>1, ReplayKeeps
<1>2. ASSUME NEW row \in Admitted, Session(row) PROVE ResultsInv'
  BY <1>2, SessionKeeps
<1>3. CASE Derive
  BY <1>3, DeriveLeaves
<1>4. CASE Rebuild
  BY <1>4, RebuildKeeps
<1>5. CASE Report
  BY <1>5, ReportKeeps
<1>6. CASE WriteNext
  BY <1>6, WriteNextKeeps
<1>7. CASE Killed
  BY <1>7, KilledKeeps
<1>8. CASE UNCHANGED resultVars
  <2>1. /\ shelves' = shelves /\ ran' = ran /\ todo' = todo /\ command' = command
        /\ code' = code /\ spoiled' = spoiled
    BY <1>8 DEF resultVars
  <2>. QED  BY <2>1 DEF ResultsInv
<1>. QED  BY <1>1, <1>2, <1>3, <1>4, <1>5, <1>6, <1>7, <1>8 DEF ResultsNext

LEMMA ResultsInvMeans ==
  ASSUME ResultsInv PROVE ResultsTypeOK /\ ResultsAreTheRuns
<1>1. /\ TodoIs(ran, todo) /\ ShelvesAre(ran, shelves) /\ DroppedStay(shelves)
      /\ \A d : d \notin spoiled => RowIs(shelves, todo, d)
      /\ code = "ok" => Does(command, shelves, todo)
      /\ code \in {"ok", "guard", "crash", "killed"}
  BY DEF ResultsInv
<1>2. ASSUME NEW d \in DOMAIN shelves
      PROVE  /\ shelves[d].config \in Run \cup {None, HalfWritten}
             /\ shelves[d].drift \in Run \cup {None, HalfWritten}
             /\ shelves[d].commits \notin {None, HalfWritten} =>
                  /\ shelves[d].commits \in CommitRecords /\ shelves[d].commits.run \in Run
                  /\ PublishedAt(ran, d, shelves[d].commits.run)
             /\ LegalDir(d)
  <2>1. LegalDir(d) /\ \A f \in File : Stored(ran, d, f, shelves[d][f])
    BY <1>1 DEF ShelvesAre
  <2>2. /\ Stored(ran, d, "config", shelves[d].config) /\ Stored(ran, d, "drift", shelves[d].drift)
        /\ Stored(ran, d, "commits", shelves[d].commits)
    BY <2>1 DEF File
  <2>. QED  BY <2>1, <2>2 DEF Stored, FitsRun, Run
<1>3. ResultsTypeOK
  BY <1>1, <1>2 DEF ResultsTypeOK
<1>4. ASSUME Idle PROVE \A d, f : InTheEnd(shelves, todo, d, f) = At(shelves, d)[f]
  BY <1>4, NothingPending DEF Idle
<1>5. OneRunPerRow
  <2>1. ASSUME Idle, NEW d \in DOMAIN shelves \ spoiled
        PROVE  OfOneRun(shelves[d].commits, shelves[d].summary, shelves[d].page, shelves[d].config)
    <3>1. RowIs(shelves, todo, d) /\ At(shelves, d) = shelves[d]
      BY <1>1, <2>1 DEF At
    <3>. QED  BY <1>4, <2>1, <3>1 DEF RowIs
  <2>. QED  BY <2>1 DEF OneRunPerRow, OfOneRun
<1>6. PublishedIsTheRule
  BY <1>2 DEF PublishedIsTheRule, LegalDir, PublishedAt
<1>7. DerivedOnce
  <2>1. \A rec \in CommitRecords : rec.derived <= 1
    BY DEF CommitRecords
  <2>. QED  BY <1>1, <1>2, <2>1 DEF DerivedOnce, DroppedStay
<1>8. \A d : Here(d) = At(shelves, d)
  BY DEF Here, At
<1>9. AggregateIsTheCorpus
  <2>1. aggregate = At(shelves, Top).page
    BY <1>8 DEF aggregate
  <2>2. ASSUME aggregate \notin {None, HalfWritten}
        PROVE  DOMAIN aggregate \subseteq Admitted /\ DOMAIN aggregate # {}
    <3>1. Stored(ran, Top, "page", aggregate)
      BY <1>1, <2>1, StoredIs DEF File
    <3>. QED  BY <2>2, <3>1 DEF Stored, FitsRun
  <2>3. ASSUME Idle, command = "report", code = "ok", NEW row \in Admitted
        PROVE  IF Here(<<row>>).summary = None THEN row \notin DOMAIN aggregate
               ELSE aggregate[row] = Here(<<row>>).summary
    <3>1. Weighed(shelves, todo)
      BY <1>1, <2>3 DEF Does
    <3>2. /\ InTheEnd(shelves, todo, Top, "page") = aggregate
          /\ InTheEnd(shelves, todo, <<row>>, "summary") = Here(<<row>>).summary
      BY <1>4, <1>8, <2>1, <2>3
    <3>. QED  BY <3>1, <3>2 DEF Weighed
  <2>. QED  BY <2>2, <2>3 DEF AggregateIsTheCorpus
<1>10. OkIsEveryRow
  <2>1. ASSUME Idle, code = "ok", NEW row \in Admitted, Here(<<row>>).commits # None,
               command = "derive"
        PROVE  Here(<<row>>).commits # HalfWritten /\ Here(<<row>>).commits.derived = 1
    <3>1. DerivedAll(shelves, todo)
      BY <1>1, <2>1 DEF Does
    <3>2. InTheEnd(shelves, todo, <<row>>, "commits") = Here(<<row>>).commits
      BY <1>4, <1>8, <2>1
    <3>. QED  BY <2>1, <3>1, <3>2 DEF DerivedAll
  <2>2. ASSUME Idle, code = "ok", NEW row \in Admitted, Here(<<row>>).commits # None,
               command = "rebuild"
        PROVE  /\ Here(<<row>>).summary \notin {None, HalfWritten}
               /\ Here(<<row>>).summary.of = Here(<<row>>).commits
               /\ Here(<<row>>).summary.config = Here(<<row>>).config
    <3>1. RebuiltAll(shelves, todo)
      BY <1>1, <2>2 DEF Does
    <3>2. /\ InTheEnd(shelves, todo, <<row>>, "commits") = Here(<<row>>).commits
          /\ InTheEnd(shelves, todo, <<row>>, "summary") = Here(<<row>>).summary
          /\ InTheEnd(shelves, todo, <<row>>, "config") = Here(<<row>>).config
      BY <1>4, <1>8, <2>2
    <3>. QED  BY <2>2, <3>1, <3>2 DEF RebuiltAll
  <2>. QED  BY <2>1, <2>2 DEF OkIsEveryRow
<1>. QED  BY <1>3, <1>5, <1>6, <1>7, <1>9, <1>10 DEF ResultsAreTheRuns

(* However many commands ran over bench/results, were refused or were      *)
(* killed, what is published there is of one run of the corpus that is:    *)
(* records, summary and config of a row nobody was killed in agree, and a  *)
(* command that ended well did every row.                                  *)
THEOREM ResultsAreTheRunsAlways == ResultsSpec => [](ResultsTypeOK /\ ResultsAreTheRuns)
<1>1. ResultsSpec => []ResultsInv
  BY InitHasResultsInv, ResultsStepKeeps, PTL DEF ResultsSpec
<1>2. ResultsInv => ResultsTypeOK /\ ResultsAreTheRuns
  BY ResultsInvMeans
<1>. QED  BY <1>1, <1>2, PTL
-----------------------------------------------------------------------------
(* Both benchmarks as a whole: what each part does of its own it does      *)
(* beside the others.                                                      *)
LEMMA BenchIsItsParts ==
  BenchSpec => /\ Spec /\ RegSpec /\ StoresSpec /\ TreeSpec /\ SelSpec /\ OutSpec /\ ResultsSpec
               /\ ReplayInit /\ [][ReplayNext]_replayVars
<1>1. BenchInit => /\ Init /\ RegInit /\ StoresInit /\ TreeInit /\ SelInit /\ OutInit /\ ResultsInit
                   /\ ReplayInit
  BY DEF BenchInit
<1>. USE DEF armsVars, driverVars, tableVars, RestOfDriver, RestOfArms
<1>2. [BenchNext]_benchVars => [Next]_vars /\ [RegNext]_regVars
  BY DEF BenchNext, DriverNext, ReplayWork, ReplayStart, TableNext, ArmsNext, benchVars
<1>3. [BenchNext]_benchVars => [ArtifactNext \/ VenvNext \/ ColdNext]_storeVars /\ [TreeNext]_treeVars
  BY DEF BenchNext, DriverNext, ReplayWork, ReplayStart, TableNext, ArmsNext, benchVars
<1>4. [BenchNext]_benchVars => [SelNext]_selVars /\ [OutNext]_outVars /\ [ResultsNext]_resultVars
  BY DEF BenchNext, DriverNext, ReplayWork, ReplayStart, TableNext, ArmsNext, benchVars
<1>5. [BenchNext]_benchVars => [ReplayNext]_replayVars
  BY DEF BenchNext, DriverNext, ReplayWork, ReplayStart, TableNext, ArmsNext, benchVars, ReplayNext
<1>. QED
  BY <1>1, <1>2, <1>3, <1>4, <1>5, PTL
     DEF BenchSpec, Spec, RegSpec, StoresSpec, TreeSpec, SelSpec, OutSpec, ResultsSpec

(* Whatever is run, killed, collected, scored, signed or published of the  *)
(* two benchmarks, each part keeps its types.                              *)
THEOREM BenchTypeOKAlways == BenchSpec => []BenchTypeOK
<1>1. RegSpec => []RegTypeOK
  BY RegTypeCorrect
<1>2. TreeSpec => []TreeTypeOK
  <2>1. TreeInv => TreeTypeOK
    BY InvGivesTree
  <2>. QED  BY <2>1, TreeInitHolds, TreeStepHolds, PTL DEF TreeSpec
<1>3. SelSpec => []SelTypeOK
  <2>1. SelInv => SelTypeOK
    BY DEF SelInv
  <2>. QED  BY <2>1, SelStarts, SelStep, PTL DEF SelSpec
<1>4. OutSpec => []OutTypeOK
  <2>1. OutInv => OutTypeOK
    BY DEF OutInv, OutTypeOK, Said
  <2>. QED  BY <2>1, OutStarts, OutStep, PTL DEF OutSpec
<1>5. ResultsSpec => []ResultsTypeOK
  BY ResultsAreTheRunsAlways, PTL
<1>6. ReplayInit /\ [][ReplayNext]_replayVars => []ReplayTypeOK
  BY ReplayKeepsTypes
<1>7. BenchTypeOK <=> /\ TypeOK /\ ReplayTypeOK /\ StoresTypeOK /\ TreeTypeOK /\ SelTypeOK
                      /\ OutTypeOK /\ ResultsTypeOK /\ RegTypeOK
  BY DEF BenchTypeOK
<1>. QED
  BY <1>1, <1>2, <1>3, <1>4, <1>5, <1>6, <1>7, Typed, StoresAreTyped, BenchIsItsParts, PTL
=============================================================================
