------------------------------- MODULE Rounds -------------------------------
(***************************************************************************)
(* `rtdd which`'s selection: from a graph and the changed lines, the tests *)
(* of Round 1 and Round 2 and the changed nodes no test reaches            *)
(* (internal/rounds/rounds.go).                                            *)
(*                                                                         *)
(* One goroutine, but the order of its work is not the graph's: it ranges  *)
(* over Go maps, so it takes the changed nodes and their neighbours in any *)
(* order, and `walk`, which finds the tests of a node through helpers, is  *)
(* memoized across all of them and cut at a helper already being walked.   *)
(* The walk is therefore modelled call by call, with its stack.  The edges *)
(* into a node come sorted by the ID they start from, which says nothing of*)
(* the code, so a walk may take them in any order.                         *)
(*                                                                         *)
(* Which node a changed line belongs to is LineOwners' subject; here a run *)
(* starts from the definitions that own a changed line and the files that  *)
(* have a changed line no definition owns.                                 *)
(***************************************************************************)

EXTENDS Integers, Sequences

CONSTANTS
  Id,         \* node IDs
  Node,       \* the nodes the graph has
  File,
  KindOf,     \* [Id -> Kinds]
  FileOf,     \* [Id -> File]
  RunId,      \* RunnableID: [Id -> what an agent runs the node by]
  WholeFile,  \* WholeFileNode: [File -> Id], in the graph or not
  Module,     \* [File -> Id], the synthetic node of a file's top level
  Repos,      \* the repositories a run may find: the edges a graph may have,
              \* the definitions that may own a changed line and the files
              \* that may have one no definition owns
  MaxDepth,   \* how deep walk can call itself before the stack overflows
  None

\* A node's Kind, IsTest and Helper fields, as far as the rounds tell them
\* apart.
Kinds == {"code", "test", "helper", "file", "module"}

\* Of the five relations the code tells only these two from the rest.
Relations == {"calls", "references", "inherits"}

ASSUME IdsAreTyped ==
  /\ Node \subseteq Id
  /\ KindOf \in [Id -> Kinds] /\ FileOf \in [Id -> File]
  /\ None \notin SUBSET Id

ASSUME SyntheticNodes ==
  /\ WholeFile \in [File -> Id] /\ Module \in [File -> Id]
  /\ \A f \in File :
       /\ KindOf[WholeFile[f]] = "test" /\ FileOf[WholeFile[f]] = f
       /\ KindOf[Module[f]] = "module" /\ FileOf[Module[f]] = f
  /\ \A n \in Node : KindOf[n] # "module"

Edges == [from : Id, to : Id, rel : Relations]

\* No edge of the index ends in a <module>, which only the rounds make, and no
\* line is a file node's or a whole-file node's.
ASSUME ReposAreTyped ==
  \A r \in Repos :
    /\ r.links \subseteq {e \in Edges : KindOf[e.to] # "module"}
    /\ r.editable \subseteq {n \in Node : KindOf[n] # "file"
                                          /\ n # WholeFile[FileOf[n]]}
    /\ r.tops \subseteq File

VARIABLES
  graph,     \* the graph's edges
  owned,     \* the definitions that own a changed line
  top,       \* files with a changed line that no definition owns
  phase,     \* "changed", then "neighbours", then "done"
  pending,   \* nodes this phase has not come to
  owed,      \* the file node testsOfChanged still has to walk
  stack,     \* walk's activations, the innermost last
  tests,     \* walk's memo: key -> tests
  round1, round2, untested

input == <<graph, owned, top>>
vars == <<input, phase, pending, owed, stack, tests,
          round1, round2, untested>>

-----------------------------------------------------------------------------
(* The index, and the changed nodes *)

Defs(f) == {n \in Node : FileOf[n] = f /\ KindOf[n] # "file"}
TestsIn(f) == {n \in Node : FileOf[n] = f /\ KindOf[n] = "test"}
FileNodes(f) == {n \in Node : FileOf[n] = f /\ KindOf[n] = "file"}

\* A changed line in no definition is its file's <module>'s, or its file
\* node's when the file defines nothing.
TopNodes(f) == IF Defs(f) = {} THEN FileNodes(f) ELSE {Module[f]}
ChangedNodes == owned \cup UNION {TopNodes(f) : f \in top}

\* A <module> node is a test when its file has any.
IsTest(n) ==
  \/ KindOf[n] = "test"
  \/ KindOf[n] = "module" /\ TestsIn(FileOf[n]) # {}

\* The edges into a node.  A <module>'s are the calls from other files into
\* any node of its file.
In(n) ==
  IF KindOf[n] = "module"
    THEN {e \in graph : /\ e.rel = "calls"
                        /\ e.to \in Defs(FileOf[n])
                        /\ e.from \in Node => FileOf[e.from] # FileOf[n]}
    ELSE {e \in graph : e.to = n}

Out(n) == {e \in graph : e.from = n}

NeighboursUnknown(n) == {e.to : e \in Out(n)} \cup {e.from : e \in In(n)}
Neighbours(n) ==
  {m \in Node : KindOf[m] # "test"} \cap
    ({e.to : e \in Out(n)} \cup {e.from : e \in In(n)})

-----------------------------------------------------------------------------
(* walk *)

\* walkKey: a node, and whether a references edge may still be followed.
Key == Id \X BOOLEAN
Frame == [key : Key, todo : SUBSET graph, out : SUBSET Id]

\* A references edge is followed once, and only into a file node.
Hop(k) == k[2] /\ KindOf[k[1]] = "file"

\* The lines of a test file that are in no test stand for all its tests.
StandsForTests(n) == KindOf[n] = "file" /\ TestsIn(FileOf[n]) # {}

\* The tests an edge names at once.
EdgeTestsNoTopLevel(e) ==
  IF e.from \in Node /\ KindOf[e.from] = "test" THEN {e.from} ELSE {}

EdgeTests(e) ==
  IF e.from \notin Node THEN {}
  ELSE IF KindOf[e.from] = "test" THEN {e.from}
  ELSE IF StandsForTests(e.from) THEN TestsIn(FileOf[e.from])
  ELSE {}

\* The key an edge into k makes walk call itself with, if any.
EdgeWalk(k, e) ==
  {<<n, Hop(k)>> : n \in {m \in {e.from} \cap Node : KindOf[m] = "helper"}}
  \cup {<<n, FALSE>> : n \in {m \in {e.from} \cap Node :
                                /\ KindOf[m] \notin {"test", "helper"}
                                /\ ~ StandsForTests(m)
                                /\ Hop(k) /\ e.rel = "references"}}

\* A helper without tests is run by running its file.
WithFallback(k, out) ==
  IF KindOf[k[1]] = "helper" /\ out = {} THEN {WholeFile[FileOf[k[1]]]}
  ELSE out

Walking(k) == \E i \in DOMAIN stack : stack[i].key = k

\* walk's first lines: the memo, and the cut of a helper cycle.
NeedsWalkWithoutCut(k) == tests[k] = None
NeedsWalk(k) == tests[k] = None /\ ~ Walking(k)

\* What walk returns at once.
Known(k) == IF tests[k] = None THEN {} ELSE tests[k]

Activation(k) == [key |-> k, todo |-> In(k[1]), out |-> {}]

Depth == Len(stack)
Current == stack[Depth]

\* The tests of a changed node go to Round 1, those of a neighbour to Round 2
\* unless Round 1 has them.
Select(ts) ==
  IF phase = "changed"
    THEN round1' = round1 \cup ts /\ UNCHANGED round2
    ELSE round2' = round2 \cup (ts \ round1) /\ UNCHANGED round1

\* testsOf(n), called by Rounds itself.
TestsOf(n) ==
  IF NeedsWalk(<<n, TRUE>>)
    THEN stack' = <<Activation(<<n, TRUE>>)>> /\ UNCHANGED <<round1, round2>>
    ELSE Select(Known(<<n, TRUE>>)) /\ UNCHANGED stack

-----------------------------------------------------------------------------
(* The steps *)

Idle == stack = <<>> /\ owed = {}

\* The next changed node, in map order: a changed test is its own test.
VisitChanged(c) ==
  /\ phase = "changed" /\ Idle
  /\ c \in pending
  /\ pending' = pending \ {c}
  /\ owed' = FileNodes(FileOf[c]) \ {c}
  /\ TestsOf(c)
  /\ UNCHANGED <<input, phase, tests, untested>>

\* testsOfChanged: a test that names the node's file is its test too.
VisitFileNode(f) ==
  /\ stack = <<>>
  /\ f \in owed
  /\ owed' = owed \ {f}
  /\ TestsOf(f)
  /\ UNCHANGED <<input, phase, pending, tests, untested>>

\* An edge into the node being walked that needs no further walk.
TakeEdge(e) ==
  /\ stack # <<>>
  /\ e \in Current.todo
  /\ \A k \in EdgeWalk(Current.key, e) : ~ NeedsWalk(k)
  /\ stack' = [stack EXCEPT
       ![Depth].todo = @ \ {e},
       ![Depth].out = @ \cup EdgeTests(e)
                        \cup UNION {Known(k) : k \in EdgeWalk(Current.key, e)}]
  /\ UNCHANGED <<input, phase, pending, owed, tests,
                 round1, round2, untested>>

\* An edge that makes walk call itself.
Descend(e, k) ==
  /\ stack # <<>> /\ Depth < MaxDepth
  /\ e \in Current.todo
  /\ k \in EdgeWalk(Current.key, e) /\ NeedsWalk(k)
  /\ stack' = Append([stack EXCEPT ![Depth].todo = @ \ {e}], Activation(k))
  /\ UNCHANGED <<input, phase, pending, owed, tests,
                 round1, round2, untested>>

\* walk returns to the activation that called it, or to Rounds.
Return ==
  /\ stack # <<>>
  /\ Current.todo = {}
  /\ LET out == WithFallback(Current.key, Current.out)
         callers == SubSeq(stack, 1, Depth - 1)
     IN /\ tests' = [tests EXCEPT ![Current.key] = out]
        /\ IF callers = <<>>
             THEN stack' = <<>> /\ Select(out)
             ELSE /\ stack' = [callers EXCEPT ![Depth - 1].out = @ \cup out]
                  /\ UNCHANGED <<round1, round2>>
  /\ UNCHANGED <<input, phase, pending, owed, untested>>

TurnToNeighbours ==
  /\ phase = "changed" /\ Idle /\ pending = {}
  /\ phase' = "neighbours"
  /\ pending' = UNION {Neighbours(c) : c \in ChangedNodes}
  /\ UNCHANGED <<input, owed, stack, tests, round1, round2, untested>>

VisitNeighbour(n) ==
  /\ phase = "neighbours" /\ Idle
  /\ n \in pending
  /\ pending' = pending \ {n}
  /\ TestsOf(n)
  /\ UNCHANGED <<input, phase, owed, tests, untested>>

\* A changed node is untested when neither it, nor its file node, nor a
\* neighbour has a test.
UntestedByNode(c) == ~ IsTest(c) /\ tests[<<c, TRUE>>] = {}

Untested(c) ==
  /\ ~ IsTest(c)
  /\ \A n \in {c} \cup FileNodes(FileOf[c]) \cup Neighbours(c) :
       tests[<<n, TRUE>>] = {}

\* The last loop, and runnable: no runnable id in Round 2 that Round 1 has.
Finish ==
  /\ phase = "neighbours" /\ Idle /\ pending = {}
  /\ phase' = "done"
  /\ untested' = {c \in ChangedNodes : Untested(c)}
  /\ round2' = {t \in round2 : \A u \in round1 : RunId[t] # RunId[u]}
  /\ UNCHANGED <<input, pending, owed, stack, tests, round1>>

-----------------------------------------------------------------------------
(* The specification *)

Init ==
  /\ \E r \in Repos :
       /\ graph \in SUBSET r.links
       /\ owned \in SUBSET r.editable
       /\ top \in SUBSET r.tops
  /\ phase = "changed"
  /\ pending = ChangedNodes
  /\ owed = {}
  /\ stack = <<>>
  /\ tests = [k \in Key |-> None]
  /\ round1 = {c \in owned : KindOf[c] = "test"}
                \cup UNION {TestsIn(f) : f \in top}
  /\ round2 = {}
  /\ untested = {}

Work ==
  \/ \E c \in pending : VisitChanged(c) \/ VisitNeighbour(c)
  \/ \E f \in owed : VisitFileNode(f)
  \/ \E e \in graph :
       \/ TakeEdge(e)
       \/ \E k \in {<<e.from, hop>> : hop \in BOOLEAN} \cap Key :
            Descend(e, k)
  \/ Return
  \/ TurnToNeighbours
  \/ Finish

\* A process that is done, or out of stack, goes no further.
Done == (phase = "done" \/ Depth = MaxDepth) /\ UNCHANGED vars

Next == Work \/ Done

\* The one goroutine never blocks.
Spec == Init /\ [][Next]_vars /\ WF_vars(Work)

-----------------------------------------------------------------------------
(* What the rounds mean (node-graph.md, section 7), without order or memo *)

Helper == {n \in Node : KindOf[n] = "helper"}
HelperCallers(n) == Helper \cap {e.from : e \in In(n)}

\* The helpers that call n, at once or through each other: the least set of
\* them closed under being called.
Behind(n) ==
  {h \in Helper :
     \A S \in SUBSET Helper :
       /\ HelperCallers(n) \subseteq S
       /\ \A g \in S : HelperCallers(g) \subseteq S
       => h \in S}

\* The tests with an edge to n, a test file's lines in no test counting for
\* each of its tests.
Naming(n) ==
  {t \in Node : /\ KindOf[t] = "test"
                /\ \E e \in In(n) :
                     \/ e.from = t
                     \/ e.from \in FileNodes(FileOf[t])}

NamingOrBehind(n) == UNION {Naming(m) : m \in {n} \cup Behind(n)}

\* What references a file node, tests and test files apart.
Loaders(n) ==
  IF KindOf[n] # "file" THEN {}
  ELSE {m \in Node : /\ KindOf[m] \notin {"test", "helper"}
                     /\ ~ (KindOf[m] = "file" /\ TestsIn(FileOf[m]) # {})
                     /\ \E e \in In(n) : e.from = m /\ e.rel = "references"}

\* The tests linked to a node.
Linked(n) == UNION {NamingOrBehind(m) : m \in {n} \cup Loaders(n)}

\* Every helper on a way to n, and n itself.
Ways(n) == UNION {{m} \cup Behind(m) : m \in {n} \cup Loaders(n)}

\* The tests of a changed node, and of its file.
LinkedToChange(c) == UNION {Linked(n) : n \in {c} \cup FileNodes(FileOf[c])}

RunIds(ts) == {RunId[t] : t \in ts}

-----------------------------------------------------------------------------
(* Properties *)

TypeOK ==
  /\ graph \subseteq Edges /\ owned \subseteq Node /\ top \subseteq File
  /\ phase \in {"changed", "neighbours", "done"}
  /\ pending \subseteq Node \cup ChangedNodes /\ owed \subseteq Node
  /\ stack \in Seq(Frame)
  /\ tests \in [Key -> (SUBSET Id) \cup {None}]
  /\ round1 \subseteq Id /\ round2 \subseteq Id /\ untested \subseteq ChangedNodes

\* Round 1 misses no test linked to a changed node, and the two rounds none
\* linked to a neighbour, although the memo keeps what a walk that was cut at
\* a helper cycle had found.
LinkedTestsSelected ==
  phase = "done" => \A c \in ChangedNodes :
    /\ RunIds(LinkedToChange(c)) \subseteq RunIds(round1)
    /\ \A n \in Neighbours(c) :
         RunIds(Linked(n)) \subseteq RunIds(round1 \cup round2)

\* A round runs no test but those linked to its nodes, the changed tests, and
\* the whole file of a helper on the way to one of its nodes.
FilesOnTheWay(n) == {WholeFile[FileOf[h]] : h \in Ways(n) \cap Helper}

SelectedIsLinked ==
  phase = "done" =>
    /\ \A t \in round1 :
         \/ t \in owned \/ FileOf[t] \in top
         \/ \E c \in ChangedNodes : \E n \in {c} \cup FileNodes(FileOf[c]) :
              t \in Linked(n) \cup FilesOnTheWay(n)
    /\ \A t \in round2 : \E c \in ChangedNodes : \E n \in Neighbours(c) :
         t \in Linked(n) \cup FilesOnTheWay(n)

\* A node is called untested only if no test selected in either round is
\* linked to it, to its file or to a neighbour, and every other changed node
\* of the code has something to run.
UntestedIsWhatNothingReaches ==
  phase = "done" => \A c \in ChangedNodes :
    c \in untested <=>
      /\ ~ IsTest(c)
      /\ \A n \in {c} \cup FileNodes(FileOf[c]) \cup Neighbours(c) :
           Linked(n) = {} /\ Ways(n) \cap Helper = {}

\* A test `rtdd explain` shows on a changed node, `rtdd which` puts in Round 1
\* (links.go: LinksOf).
ExplainedTests(n) ==
  UNION {IF KindOf[e.from] = "file" /\ TestsIn(FileOf[e.from]) # {}
           THEN TestsIn(FileOf[e.from])
         ELSE {e.from} \cap {m \in Node : KindOf[m] = "test"} :
           e \in {x \in graph : x.to = n /\ x.from \in Node}}

ExplainedTestsRun ==
  phase = "done" =>
    \A c \in ChangedNodes : ExplainedTests(c) \subseteq round1

\* The walk ends, whatever cycles the helpers' calls form.
Terminates == <>(phase = "done")

\* A whole file no link selects is run for a helper in it that no test reaches
\* ("a helper no test reaches is run by running its whole file",
\* rounds.go:185).
WholeFileOnlyIfUnreached ==
  \A f \in File :
    /\ WholeFile[f] \in round1 \ owned
    /\ f \notin top
    /\ \A c \in ChangedNodes : WholeFile[f] \notin LinkedToChange(c)
    => \E h \in Helper : FileOf[h] = f /\ Linked(h) = {}

\* What is selected, what is called untested and what `rtdd explain` shows
\* agree with the links of the graph, and so with each other
\* (rounds.go:125-302, links.go:27-57).
SelectionIsExact ==
  SelectedIsLinked /\ UntestedIsWhatNothingReaches /\ ExplainedTestsRun
=============================================================================
