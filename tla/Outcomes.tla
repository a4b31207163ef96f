------------------------------- MODULE Outcomes -------------------------------
(***************************************************************************)
(* From a suite's report log to the failures a commit is scored by:        *)
(* bench/replay/runner.py and what replay.py makes of two runs.            *)
(*                                                                         *)
(* pytest runs in batches small enough for an argument list, and writes    *)
(* what each phase of each test did.  The base tree's run and the commit's *)
(* leave two sets of failures; the second without the first is F_full.     *)
(***************************************************************************)
EXTENDS Naturals, Sequences, FiniteSets, Joining

CONSTANTS
  Listed,     \* the tests in order of their ids, <<module, name>>
  Length,     \* of a test's id, in bytes
  Budget,     \* of an argument list
  Unseen      \* no verdict

Marks == {"pass", "fail", "skip", "error"}
ASSUME OutcomesParameters ==
  /\ Listed \in Seq({<<t[1], t[2]>> : t \in Elements(Listed)}) /\ OnceEach(Listed)
  /\ Length \in [Elements(Listed) -> Nat] /\ Budget \in Nat
  /\ Unseen \notin Marks

VARIABLES
  checkout,   \* "base", "child", then "scored"
  broken,     \* modules that do not import in this tree
  batches,    \* what is left to run, the batch that runs first
  log,        \* its report log
  outcomes,   \* the verdicts of the batches before
  pre,        \* what failed in the base tree
  full,       \* F_full
  did,        \* the phases of each test, as they really went in this tree
  sel         \* the tests a strategy picks

outVars == <<checkout, broken, batches, log, outcomes, pre, full, did, sel>>

TestSet == Elements(Listed)
Modules == {t[1] : t \in TestSet}
\* Under --continue-on-collection-errors the rest of the suite is collected.
Collected == {t \in TestSet : t[1] \notin broken}
Nodes == TestSet \cup {<<m>> : m \in Modules}
NoVerdicts == [x \in Nodes |-> Unseen]
-----------------------------------------------------------------------------
(* chunk: greedily, an id too long for the budget alone in its batch.      *)
Cost(batch) ==
  LET sum[i \in 0..Len(batch)] == IF i = 0 THEN 0 ELSE sum[i - 1] + Length[batch[i]] + 1
  IN  sum[Len(batch)]
Added(parts, t) ==
  IF parts # <<>> /\ Cost(parts[Len(parts)]) + Length[t] + 1 <= Budget
    THEN [parts EXCEPT ![Len(parts)] = Append(@, t)]
    ELSE Append(parts, <<t>>)
Chunk(tests) ==
  LET upTo[i \in 0..Len(tests)] == IF i = 0 THEN <<>> ELSE Added(upTo[i - 1], tests[i])
  IN  upTo[Len(tests)]

\* The whole suite is one batch with no selectors, a selection its chunks.
Batches(tests) == IF tests = <<>> THEN <<Listed>> ELSE Chunk(tests)

(* parse_report_log: the call decides, and a phase around it that fails is *)
(* an error whatever the call said.                                        *)
PhaseStatus == [passed |-> "pass", failed |-> "fail", skipped |-> "skip"]
Seen(status, e) ==
  CASE e.when = "call" -> [status EXCEPT ![e.node] = PhaseStatus[e.outcome]]
    [] e.when \in {"setup", "teardown"} /\ e.outcome = "failed" -> [status EXCEPT ![e.node] = "error"]
    [] e.when = "setup" /\ e.outcome = "skipped" ->
         [status EXCEPT ![e.node] = IF @ = Unseen THEN "skip" ELSE @]
    [] OTHER -> status
Uncollected(e) == e.when = "collect" /\ e.outcome = "failed"
StatusAfter(events) ==
  LET after[i \in 0..Len(events)] == IF i = 0 THEN NoVerdicts ELSE Seen(after[i - 1], events[i])
  IN  after[Len(events)]
Parsed(events) ==
  LET status == StatusAfter(events)
  IN  [x \in Nodes |-> IF status[x] = Unseen /\ \E e \in Elements(events) : e.node = x /\ Uncollected(e)
                       THEN "error" ELSE status[x]]

\* _invoke: the verdicts of the batches in one, the last one of a node.
Merged(before, next) == [x \in Nodes |-> IF next[x] = Unseen THEN before[x] ELSE next[x]]

\* RunResult.failing
FailingAssertions(v) == {x \in Nodes : v[x] = "fail"}
Failing(v) == {x \in Nodes : v[x] \in {"fail", "error"}}
-----------------------------------------------------------------------------
OutInit ==
  /\ checkout = "base" /\ broken \in SUBSET Modules
  /\ batches = Batches(<<>>) /\ log = <<>> /\ outcomes = NoVerdicts
  /\ pre = {} /\ full = {} /\ did = [t \in TestSet |-> {}] /\ sel = {}

Event(node, when, outcome) == [node |-> node, when |-> when, outcome |-> outcome]

\* pytest: a test's phases, the call only after a setup that passed.
RunTest(setup, call, teardown) ==
  LET t == Head(Head(batches))
      calls == IF setup = "passed" THEN <<Event(t, "call", call)>> ELSE <<>>
      phases == <<Event(t, "setup", setup)>> \o calls \o <<Event(t, "teardown", teardown)>>
  IN /\ checkout # "scored" /\ batches # <<>> /\ Head(batches) # <<>> /\ t \in Collected
     /\ setup # "passed" => call = "passed"
     /\ log' = log \o phases /\ did' = [did EXCEPT ![t] = Elements(phases)]
     /\ batches' = <<Tail(Head(batches))>> \o Tail(batches)
     /\ UNCHANGED <<checkout, broken, outcomes, pre, full, sel>>

\* pytest: the module of a test does not import.
NotCollected ==
  /\ checkout # "scored" /\ batches # <<>> /\ Head(batches) # <<>>
  /\ Head(Head(batches)) \notin Collected
  /\ log' = Append(log, Event(<<Head(Head(batches))[1]>>, "collect", "failed"))
  /\ batches' = <<Tail(Head(batches))>> \o Tail(batches)
  /\ UNCHANGED <<checkout, broken, outcomes, pre, full, did, sel>>

EndBatch ==
  /\ batches # <<>> /\ Head(batches) = <<>>
  /\ outcomes' = Merged(outcomes, Parsed(log)) /\ log' = <<>> /\ batches' = Tail(batches)
  /\ UNCHANGED <<checkout, broken, pre, full, did, sel>>

\* clean_tree_failures; then the commit's tree, whose modules may break.
BaseDone(breaks) ==
  /\ checkout = "base" /\ batches = <<>>
  /\ pre' = Failing(outcomes) /\ checkout' = "child" /\ broken' = breaks
  /\ batches' = Batches(<<>>) /\ outcomes' = NoVerdicts
  /\ did' = [t \in TestSet |-> {}]
  /\ UNCHANGED <<log, full, sel>>

\* f_full, and a strategy's pick.
DeltaUnsubtracted == Failing(outcomes)
Delta == Failing(outcomes) \ pre
Score(picked) ==
  /\ checkout = "child" /\ batches = <<>> /\ Collected # {}
  /\ full' = Delta /\ checkout' = "scored" /\ sel' = picked
  /\ UNCHANGED <<broken, batches, log, outcomes, pre, did>>

OutNext ==
  \/ \E setup, call \in {"passed", "failed", "skipped"}, teardown \in {"passed", "failed"} :
       RunTest(setup, call, teardown)
  \/ NotCollected \/ EndBatch
  \/ \E breaks \in SUBSET Modules : BaseDone(breaks)
  \/ \E picked \in SUBSET Collected : Score(picked)

OutSpec == OutInit /\ [][OutNext]_outVars
-----------------------------------------------------------------------------
OutTypeOK ==
  /\ checkout \in {"base", "child", "scored"} /\ broken \subseteq Modules
  /\ outcomes \in [Nodes -> Marks \cup {Unseen}]
  /\ pre \subseteq Nodes /\ full \subseteq Nodes /\ sel \subseteq TestSet

(* A test is scored as a pass only if nothing around it failed: a broken   *)
(* fixture, before or after the call, never passes.  (runner.py:105-106)   *)
PassedAllPhases ==
  batches = <<>> =>
    \A t \in TestSet :
      /\ outcomes[t] = "pass" <=> /\ \E p \in did[t] : p.when = "call" /\ p.outcome = "passed"
                                 /\ ~\E p \in did[t] : p.outcome = "failed"
      /\ t \in Failing(outcomes) <=> \E p \in did[t] : p.outcome = "failed"

(* What is scored is what this commit broke, and all of it: a test red     *)
(* here and not in the base tree, and a module that does not import here   *)
(* and did there, whose tests are then nobody's to pick.                   *)
OnlyNewFailures ==
  checkout = "scored" =>
    /\ full \cap pre = {}
    /\ \A t \in TestSet : t \in full <=> t \notin pre /\ \E p \in did[t] : p.outcome = "failed"
    /\ {x \in full : Len(x) = 1} = {<<m>> : m \in {b \in broken : <<b>> \notin pre}}

(* Batches are the tests in order, none lost, none twice, each within the  *)
(* budget unless it is one test.  (runner.py:150-156)                      *)
BatchesAreTheTests ==
  checkout = "scored" =>
    LET picked == LeftOut(Listed, {i \in DOMAIN Listed : Listed[i] \notin sel})
        parts == Chunk(picked)
    IN  /\ Joined(parts) = picked
        /\ \A i \in DOMAIN parts : Len(parts[i]) = 1 \/ (Len(parts[i]) > 1 /\ Cost(parts[i]) <= Budget)

(* From the log of all batches to the delta, a test is scored for what it  *)
(* did in this tree and not in the one before.                             *)
OutcomesAreTheCommits == PassedAllPhases /\ OnlyNewFailures /\ BatchesAreTheTests
=============================================================================
