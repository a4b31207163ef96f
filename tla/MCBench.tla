------------------------------- MODULE MCBench -------------------------------
(***************************************************************************)
(* The parts of the two benchmarks, each on its own small instance, side   *)
(* by side in one run: `half` says which of them a behaviour is of, and    *)
(* the others stay where they start.                                       *)
(***************************************************************************)
EXTENDS AgentArm, BenchStores, Evaluation, Outcomes, Registration, ReplayRepo, ReplayTree, Results,
        Scores, Selections, TLC

CONSTANTS Unknown

VARIABLE half
VARIABLES asked, arms, score, walls, ci, quiet, page

-----------------------------------------------------------------------------
(* The replayed history: two commits and their probes, two tests.  A suite *)
(* says of each test whether it is red, ok or not there.                   *)
Replayed == {"t1", "t2"}
Digests == {"k1", "k2"}
Suite(at0, at1, at2, probe1, probe2) ==
  LET of == (<<"at", 0>> :> at0) @@ (<<"at", 1>> :> at1) @@ (<<"at", 2>> :> at2)
              @@ (<<"probe", 1>> :> probe1) @@ (<<"probe", 2>> :> probe2)
  IN  [t \in DOMAIN of |-> ("t1" :> of[t][1]) @@ ("t2" :> of[t][2])]
RedRed == <<"red", "red">>
RedOk == <<"red", "ok">>
OkOk == <<"ok", "ok">>
OkRed == <<"ok", "red">>
OkGone == <<"ok", None>>
NoSuite == <<None, None>>
Links(first, second) ==
  ("k1" :> [cy \in {"natural", "probe"} \X (1..2) |-> first])
    @@ ("k2" :> [cy \in {"natural", "probe"} \X (1..2) |-> second])
Histories == {
  [suite |-> Suite(RedOk, RedOk, OkOk, RedRed, OkRed), exits |-> {}, refuses |-> {},
   masked |-> {"t2"}, unrunnable |-> {}, linked |-> Links({"t2"}, {"t1", "t2"})],
  [suite |-> Suite(OkGone, OkRed, OkOk, RedRed, NoSuite), exits |-> {<<"probe", 1>>},
   refuses |-> {0}, masked |-> {}, unrunnable |-> {<<<<"natural", 2>>, "rtdd">>},
   linked |-> Links({"t1"}, {})],
  [suite |-> Suite(OkOk, OkGone, RedRed, OkRed, RedOk), exits |-> {<<"at", 1>>},
   refuses |-> {2}, masked |-> {"t1"}, unrunnable |-> {<<<<"probe", 2>>, "full">>},
   linked |-> Links({"t2"}, {"t1", "t2"})]}

AskedFor == <<"random", "full", "lf", "rtdd">>

(* Three recipes, one of them with a command that is not `uv pip install`. *)
Corpus == [d \in {"old", "new", "shell"} |->
  CASE d = "old" -> [allowed |-> TRUE, install |-> <<<<"lib", 1>>>>]
    [] d = "new" -> [allowed |-> TRUE, install |-> <<<<"pytest", 8>>, <<"app", 1>>>>]
    [] OTHER -> [allowed |-> FALSE, install |-> <<<<"app", 1>>>>]]
Harness == <<<<"pytest", 9>>, <<"cov", 1>>>>

(* One source, two test files, a test with parameters, imports that may be *)
(* a cycle.                                                                *)
CollectedBefore == {{<<"x", "n", 0>>, <<"x", "n", 1>>}, {<<"x", "n", 0>>, <<"y", "n", 0>>}}
ImportedBefore == {{<<"x", "s">>, <<"y", "x">>}, {<<"x", "y">>, <<"y", "x">>, <<"y", "s">>}}
Namesakes == "s" :> {"x"}

(* Three tests in two modules, of which the last id is too long to share a *)
(* batch.                                                                  *)
InOrder == <<<<"x", "a">>, <<"x", "b">>, <<"y", "c">>>>
IdLengths == [t \in {InOrder[i] : i \in DOMAIN InOrder} |-> IF t[2] = "b" THEN 9 ELSE 2]

(* Two cycles over three test files: one detecting, one with nothing to    *)
(* detect, one where a module does not import, one where all is broken.    *)
Scored == {<<"x", "a">>, <<"y", "a">>, <<"z", "a">>}
Walked == {1, 2}
OnlyArm == {"importgraph"}
Recordable == {
  [all |-> Scored, full |-> {<<"x", "a">>}, changed |-> {"s"}],
  [all |-> Scored, full |-> {}, changed |-> {"s", "x"}],
  [all |-> Scored \ {<<"x", "a">>}, full |-> {<<"y", "a">>, <<"x">>}, changed |-> {"s"}],
  [all |-> Scored, full |-> Scored, changed |-> {}]}
Took == [t \in Scored |-> IF t[1] = "x" THEN 5 ELSE 1]
Templates == [p \in {"s", "x"} |-> IF p = "s" THEN <<"x", "y">> ELSE <<>>]
Reportable == {[reported |-> said, truth |-> true] : said \in SUBSET {1, 2}, true \in SUBSET {2}}

(* An arm that wins, draws, loses, cannot be told, or is not run.          *)
Arms3(rtdd, static, path) ==
  ("rtdd" :> rtdd) @@ ("static" :> static) @@ ("path" :> path)
Page == INSTANCE Reports WITH
  Times <- {2, 5}, MaxSamples <- 3,
  Scores <- {Arms3(<<2, 1>>, <<1, 1>>, <<1, 2>>), Arms3(<<2, 2>>, <<0, 0>>, <<1, 1>>),
             Arms3(<<1, Unknown>>, <<2, Unknown>>, <<1, Unknown>>),
             Arms3(<<Unknown, 1>>, <<Unknown, 1>>, <<Unknown, 2>>),
             [a \in {"rtdd", "full"} |-> <<1, 1>>]}

(* Two rows, and one that an older corpus had.                             *)
Directories == <<"a", "b", "old">>

(* A form that is not signed, and two that are but for another floor; two  *)
(* repositories that have evidence and one that has none.                  *)
Form(status, floor) ==
  [status |-> status, filled |-> TRUE, sample |-> <<"i1">>, size |-> 1, floor |-> floor]
Drafts == {Form("DRAFT", 1), Form("SIGNED", 1), Form("SIGNED", 2)}
Frozen == {<<"i1">>, <<"i2">>}
Measures == {("a" :> 1) @@ ("b" :> 2) @@ ("c" :> None)}

(* Two arms over two instances of two tests each to keep green: the one is *)
(* green or red, the other red or its patch does not apply.                *)
Status(red, green) == [applied |-> TRUE, status |-> [failed |-> red, passed |-> green]]
FrozenIds == <<"i1", "i2">>
BothArms == <<"vanilla", "rtdd">>
Attempts == ("vanilla" :> {[patch |-> TRUE, seed |-> None]})
  @@ ("rtdd" :> {[patch |-> TRUE, seed |-> "seeded"], [patch |-> FALSE, seed |-> "failed"]})
KeptTests == [x \in {"i1", "i2"} |-> {"k1", "k2"}]
FixedTests == [x \in {"i1", "i2"} |-> {"f"}]
HarnessSays == ("i1" :> {Status({"k1", "k2"}, {"f"}), Status({}, {"f"})})
  @@ ("i2" :> {Status({"k1", "k2"}, {}), [applied |-> FALSE, status |-> None]})

-----------------------------------------------------------------------------
pageVars == <<asked, arms, score, walls, ci, quiet, page>>
driverVars == <<replayVars, storeVars, treeVars>>
armsVars == <<vars, regVars, evalVars>>
tableVars == <<outVars, scoreVars, pageVars, resultVars>>
benchVars == <<half, armsVars, driverVars, selVars, tableVars>>

Halves == {"arm", "replay", "artifact", "venv", "cold", "history", "pick", "outcome", "score",
           "page", "shelf", "gate", "evaluate"}
BenchInit ==
  /\ half \in Halves
  /\ Init /\ RegInit /\ EvalInit /\ StoresInit /\ TreeInit
  /\ ReplayInit /\ (half # "replay" => world = CHOOSE w \in Histories : TRUE)
  /\ SelInit
  /\ (half # "pick" => Cardinality(imports) = 2 /\ \E t \in base : t[1] = "y")
  /\ OutInit /\ (half # "outcome" => broken = {})
  /\ Page!ReportInit /\ (half # "page" => "full" \in arms /\ asked = <<"probe">> /\ ~ci /\ ~quiet)
  /\ ScoresInit /\ ResultsInit

RestOfDriver == <<armsVars, selVars, tableVars>>
ReplayWork ==
  half = "replay" /\ ReplayStep /\ UNCHANGED <<half, storeVars, treeVars, RestOfDriver>>
ReplayStart ==
  half = "replay" /\ StartReplay /\ UNCHANGED <<half, storeVars, treeVars, RestOfDriver>>
DriverNext ==
  \/ ReplayWork \/ ReplayStart
  \/ half = "replay" /\ Die /\ UNCHANGED <<half, storeVars, treeVars, RestOfDriver>>
  \/ half = "artifact" /\ ArtifactNext /\ UNCHANGED <<half, replayVars, treeVars, RestOfDriver>>
  \/ half = "venv" /\ VenvNext /\ UNCHANGED <<half, replayVars, treeVars, RestOfDriver>>
  \/ half = "cold" /\ ColdNext /\ UNCHANGED <<half, replayVars, treeVars, RestOfDriver>>
  \/ half = "history" /\ TreeNext /\ UNCHANGED <<half, replayVars, storeVars, RestOfDriver>>
TableNext ==
  \/ half = "outcome" /\ OutNext
       /\ UNCHANGED <<half, armsVars, driverVars, selVars, scoreVars, pageVars, resultVars>>
  \/ half = "score" /\ ScoresNext
       /\ UNCHANGED <<half, armsVars, driverVars, selVars, outVars, pageVars, resultVars>>
  \/ half = "page" /\ Page!ReportNext
       /\ UNCHANGED <<half, armsVars, driverVars, selVars, outVars, scoreVars, resultVars>>
  \/ half = "shelf" /\ ResultsNext
       /\ UNCHANGED <<half, armsVars, driverVars, selVars, outVars, scoreVars, pageVars>>
RestOfArms == <<driverVars, selVars, tableVars>>
ArmsNext ==
  \/ half = "arm" /\ Next /\ UNCHANGED <<half, regVars, evalVars, RestOfArms>>
  \/ half = "gate" /\ RegNext /\ UNCHANGED <<half, vars, evalVars, RestOfArms>>
  \/ half = "evaluate" /\ EvalNext /\ UNCHANGED <<half, vars, regVars, RestOfArms>>
BenchNext ==
  \/ half = "pick" /\ SelNext /\ UNCHANGED <<half, armsVars, driverVars, tableVars>>
  \/ DriverNext \/ TableNext \/ ArmsNext

\* A replay runs on; one that ended or died is started again, by hand.
BenchSpec ==
  BenchInit /\ [][BenchNext]_benchVars
    /\ WF_benchVars(ReplayWork) /\ WF_benchVars(ReplayStart)
-----------------------------------------------------------------------------
\* Each part keeps its types.
BenchTypeOK ==
  /\ TypeOK /\ ReplayTypeOK /\ StoresTypeOK /\ TreeTypeOK
  /\ SelTypeOK
  /\ OutTypeOK /\ ResultsTypeOK /\ RegTypeOK

\* ReplayRepo's: some run gets through.
ReplayGetsThrough == half = "replay" => SomeRunPublishes

\* Reports': the page says no more than its numbers, and a rebuild says the
\* same again.
PageHolds == [](half = "page" => Page!PageIsFair) /\ Page!RebuildSaysTheSame
SpreadReallyRan == half = "page" => Page!SpreadReallyRan

\* Evaluation's: the summary is of the whole sample, and no report that was
\* collected is lost.
SummaryHolds == [](half = "evaluate" => SummaryIsTheSample) /\ ReportsOutlive
=============================================================================
