----------------------------- MODULE Selections -----------------------------
(***************************************************************************)
(* What the strategies of bench/replay/strategies answer for one commit,   *)
(* and validate_selection, which every answer goes through.                *)
(*                                                                         *)
(* A cycle begins in the base tree, where --lf, testmon and rtdd leave the *)
(* state they answer from.  Then the commit lands: tests come, go and are  *)
(* renamed.  Then each strategy is asked, importgraph in as many steps as  *)
(* its worklist has.                                                       *)
(***************************************************************************)
EXTENDS Naturals, Sequences, FiniteSets, Joining

CONSTANTS
  Sources, TestFiles,
  Names, Params,   \* a test is <<file, name, parameters>>
  Bases,           \* what the base tree may collect
  ImportGraphs,    \* and what may import what in it
  Siblings,        \* source -> the test files named after it
  MaxTouches, MaxAsked,
  Nobody, Unreadable  \* no database, and one testmon throws away

ASSUME SelectionParameters ==
  /\ IsFiniteSet(TestFiles \X Names \X Params) /\ MaxAsked \in Nat
  /\ Bases \subseteq SUBSET (TestFiles \X Names \X Params)
  /\ ImportGraphs \subseteq SUBSET ((Sources \cup TestFiles) \X (Sources \cup TestFiles))

VARIABLES
  base, now,       \* the tests collected in the base tree, and now
  failed,          \* .pytest_cache's keys: tests, and files as <<file>>
  database,        \* testmon's: Nobody, Unreadable or the tests it affects
  imports,         \* <<importer, imported>>
  changed, touches,
  phase,
  round1, round2,  \* what `rtdd which` names: <<file, name, nth of that name>>
  offered,         \* what some other strategy answers: tests, <<file>>, inventions
  seen, stack      \* reverse_reachable's

selVars == <<base, now, failed, database, imports, changed, touches, phase,
             round1, round2, offered, seen, stack>>

SourceFiles == Sources \cup TestFiles
TestIds == TestFiles \X Names \X Params
GraphIds == TestFiles \X Names \X (1..2)
FileOf(t) == t[1]
IsFile(s) == Len(s) = 1
Deduped(s) == LeftOut(s, {i \in DOMAIN s : \E k \in 1..(i - 1) : s[k] = s[i]})
InSome(set) == CHOOSE s \in [1..Cardinality(set) -> set] : OnceEach(s) /\ Elements(s) = set
-----------------------------------------------------------------------------
(* The strategies *)
Answered(tests, escalated) == [tests |-> tests, escalated |-> escalated]
Everything == Answered(InSome(now), TRUE)

\* expand_graph_ids: a graph id names all the parametrisations of a test; the
\* `@line` of a second definition of one name is dropped.
TestKey(t) == <<t[1], t[2]>>
NamedBy(g) == InSome({t \in now : TestKey(t) = <<g[1], g[2]>>})
ExpandGraphIds(gs) == Deduped(Joined([i \in DOMAIN gs |-> NamedBy(gs[i])]))

Rtdd == Answered(ExpandGraphIds(round1), FALSE)
RtddRounds12 == Answered(ExpandGraphIds(round1 \o round2), FALSE)

\* read_lastfailed drops whole-file keys; nothing left runs everything.
LastFailed ==
  LET left == {k \in failed : ~IsFile(k) /\ k \in now}
  IN  IF left = {} THEN Everything ELSE Answered(InSome(left), FALSE)

Testmon ==
  IF database \in {Nobody, Unreadable} THEN Everything
  ELSE LET left == database \cap now
       IN  Answered(InSome(left), left = now /\ now # {})

\* A changed test file that collects, and the namesakes of a changed source.
PathHeuristic ==
  LET collected == {FileOf(t) : t \in now}
      picked == (changed \cap TestFiles \cap collected)
                  \cup {f \in collected : \E s \in changed \cap Sources : f \in Siblings[s]}
  IN  Answered(InSome({t \in now : FileOf(t) \in picked}), FALSE)

ImportGraph == Answered(InSome({t \in now : FileOf(t) \in seen}), FALSE)

\* A sample of the peer's size, each test once.
RandomRatio == Answered(SubSeq(InSome(now), 1, Len(Rtdd.tests)), FALSE)
-----------------------------------------------------------------------------
(* validate_selection: files stand for their tests; of the rest a test the *)
(* base had and this tree has not is stale, and any other is refused.      *)
ExpandFileSelectors(tests) ==
  Deduped(Joined([i \in DOMAIN tests |->
    IF IsFile(tests[i]) THEN InSome({t \in now : FileOf(t) = tests[i][1]}) ELSE <<tests[i]>>]))

ValidateStrictly(sel) ==
  LET expanded == ExpandFileSelectors(sel.tests)
      known == LeftOut(expanded, {i \in DOMAIN expanded : expanded[i] \notin now})
  IN  [tests |-> known, stale |-> {}, escalated |-> sel.escalated,
       refused |-> Len(known) < Len(expanded)]
Validate(sel) ==
  LET expanded == ExpandFileSelectors(sel.tests)
      stale == {t \in Elements(expanded) : t \notin now /\ t \in base}
      kept == LeftOut(expanded, {i \in DOMAIN expanded : expanded[i] \in stale})
  IN  [tests |-> kept, stale |-> stale, escalated |-> sel.escalated,
       refused |-> \E t \in Elements(kept) : t \notin now]
-----------------------------------------------------------------------------
SelInit ==
  /\ base \in Bases /\ now = base
  /\ failed = {} /\ database = Nobody /\ imports \in ImportGraphs /\ changed = {} /\ touches = 0
  /\ phase = "base" /\ round1 = <<>> /\ round2 = <<>> /\ offered = <<>>
  /\ seen = {} /\ stack = {}

\* prepare: the suite is run in the base tree; a run that stops at a file
\* that does not load records the file.
PrepareState(f, d) ==
  /\ phase = "base" /\ phase' = "edit"
  /\ failed' = f /\ database' = d
  /\ UNCHANGED <<base, now, imports, changed, touches, round1, round2, offered, seen, stack>>

Edit ==
  /\ phase = "edit" /\ touches < MaxTouches /\ touches' = touches + 1
  /\ UNCHANGED <<base, failed, database, phase, round1, round2, offered, seen, stack>>
EditTest(t) ==
  /\ Edit /\ changed' = changed \cup {FileOf(t)}
  /\ now' = (now \ {t}) \cup ({t} \ now)
  /\ UNCHANGED imports
EditImport(f, g) ==
  /\ Edit /\ f # g /\ changed' = changed \cup {f}
  /\ imports' = (imports \ {<<f, g>>}) \cup ({<<f, g>>} \ imports)
  /\ UNCHANGED now
EditSource(f) ==
  /\ Edit /\ changed' = changed \cup {f} /\ UNCHANGED <<now, imports>>

\* The strategies are asked; importgraph's worklist starts at what changed.
Ask(r1, r2, other) ==
  /\ phase = "edit" /\ phase' = "done"
  /\ round1' = r1 /\ round2' = r2 /\ offered' = other
  /\ UNCHANGED <<base, now, failed, database, imports, changed, touches, seen, stack>>
AskImportGraph ==
  /\ phase = "edit" /\ phase' = "closing"
  /\ seen' = changed /\ stack' = changed
  /\ UNCHANGED <<base, now, failed, database, imports, changed, touches, round1, round2, offered>>

\* reverse_reachable: one module off the stack, its importers onto it.
Visit(m) ==
  /\ phase = "closing" /\ m \in stack
  /\ LET new == {e[1] : e \in {x \in imports : x[2] = m}} \ seen
     IN  seen' = seen \cup new /\ stack' = (stack \ {m}) \cup new
  /\ UNCHANGED <<base, now, failed, database, imports, changed, touches, phase, round1, round2,
                 offered>>

Closed ==
  /\ phase = "closing" /\ stack = {} /\ phase' = "closed"
  /\ UNCHANGED <<base, now, failed, database, imports, changed, touches, round1, round2,
                 offered, seen, stack>>

Unprepared == failed = {} /\ database = Nobody
Asked(set) == UNION {[1..k -> set] : k \in 0..MaxAsked}
SelNext ==
  \/ \E f \in SUBSET base, d \in {Nobody, Unreadable} \cup SUBSET base :
       PrepareState(f, d) \/ \E t \in TestFiles : PrepareState({<<t>>} \cup f, d)
  \/ \E t \in TestIds : EditTest(t)
  \/ \E f, g \in SourceFiles : EditImport(f, g)
  \/ \E f \in Sources : EditSource(f)
  \* No strategy reads another's state, so one at a time has something to say.
  \/ Unprepared /\ AskImportGraph
  \/ \E r1 \in Asked(GraphIds), r2 \in GraphIds : Unprepared /\ Ask(r1, <<r2>>, <<>>)
  \/ \E other \in Asked(TestIds \cup {<<f>> : f \in SourceFiles}) :
       Unprepared /\ Ask(<<>>, <<>>, other)
  \/ Ask(<<>>, <<>>, <<>>)
  \/ \E m \in SourceFiles : Visit(m)
  \/ Closed

SelSpec == SelInit /\ [][SelNext]_selVars
-----------------------------------------------------------------------------
Strategies ==
  IF phase = "closed" THEN {ImportGraph}
  ELSE {Rtdd, RtddRounds12, LastFailed, Testmon, PathHeuristic, RandomRatio, Everything}
HasAnswer == phase \in {"closed", "done"}

SelTypeOK ==
  /\ base \subseteq TestIds /\ now \subseteq TestIds /\ imports \subseteq SourceFiles \X SourceFiles
  /\ seen \subseteq SourceFiles /\ stack \subseteq seen /\ changed \subseteq SourceFiles

(* No strategy of this repository ever stops the walk with an invented id, *)
(* or charges a test twice: whatever the commit did to the tests its state *)
(* names, it picks tests of this tree.  (base.py:116-126)                  *)
PicksAreCollected ==
  HasAnswer => \A s \in Strategies :
    LET v == Validate(s)
    IN  ~v.refused /\ Elements(v.tests) \subseteq now /\ OnceEach(v.tests)

(* Of any answer at all, what is picked is what pytest would run of it in  *)
(* this tree; what it would not is stale if the base had it, refused else. *)
AnswersAreClassified ==
  phase = "done" =>
    LET v == Validate(Answered(offered, FALSE))
        runs == {t \in now : t \in Elements(offered) \/ <<FileOf(t)>> \in Elements(offered)}
        lost == {s \in Elements(offered) : ~IsFile(s)} \ now
    IN  /\ v.stale = lost \cap base
        /\ v.refused <=> lost \ base # {}
        /\ ~v.refused => Elements(v.tests) = runs

(* A graph id picks every parametrisation of the test it names and no      *)
(* other; rounds 1 and 2 pick at least what round 1 picks, first.          *)
GraphIdsNameTests ==
  phase = "done" =>
    /\ Elements(Rtdd.tests) = {t \in now : \E i \in DOMAIN round1 :
                              round1[i][1] = t[1] /\ round1[i][2] = t[2]}
    /\ Rtdd.tests = SubSeq(RtddRounds12.tests, 1, Len(Rtdd.tests))

(* A selection is called an escalation only if it is all there is, and     *)
(* --lf and a lost database never leave a suite unrun.                     *)
EscalationIsTheSuite ==
  HasAnswer =>
    /\ \A s \in Strategies : s.escalated => Elements(s.tests) = now
    /\ now # {} => LastFailed.tests # <<>>
    /\ database \in {Nobody, Unreadable} => Elements(Testmon.tests) = now

(* importgraph picks the tests whose file imports a changed module, at any *)
(* distance, through cycles too, and no others.  (importgraph.py:91-105)   *)
HasImporters(set) == changed \subseteq set /\ \A e \in imports : e[2] \in set => e[1] \in set
ImportsAreClosed ==
  phase = "closed" =>
    Elements(ImportGraph.tests) =
      {t \in now : \A set \in SUBSET SourceFiles : HasImporters(set) => FileOf(t) \in set}

(* Whatever a strategy answers, what is run of it are tests of this tree,  *)
(* all of those it meant and no others.                                    *)
PicksAreRunnable ==
  /\ PicksAreCollected /\ AnswersAreClassified /\ GraphIdsNameTests
  /\ EscalationIsTheSuite /\ ImportsAreClosed
=============================================================================
