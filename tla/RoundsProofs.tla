---------------------------- MODULE RoundsProofs ----------------------------
(***************************************************************************)
(* Round 1 misses no test linked to a changed node, nor do the two rounds  *)
(* miss one linked to a neighbour, for every graph and every order of the  *)
(* work: walk's memo and its cut at helper cycles lose nothing.            *)
(*                                                                         *)
(* The memo of one key can lack tests, so no invariant about what a key's  *)
(* memo holds would do.  What holds is that every test an edge names that  *)
(* some walk has passed is on its way to the rounds, and every key such an *)
(* edge leads to has been walked or is being walked.                       *)
(*                                                                         *)
(* Nor do they select more, or call a node untested that something reaches:*)
(* what a walk has found lies on the way to its node, and only helpers are *)
(* walked within a walk, so no walk but a helper's is cut short and an     *)
(* empty memo means that nothing is there.                                 *)
(***************************************************************************)
EXTENDS Rounds, TLAPS

USE DEF Key

\* What the rounds have, or will be handed by an activation.
Gathered == round1 \cup round2 \cup UNION {stack[i].out : i \in DOMAIN stack}

Seen(k) == tests[k] # None \/ Walking(k)

Passed(k, e) ==
  /\ EdgeTests(e) \subseteq Gathered
  /\ \A j \in EdgeWalk(k, e) : Seen(j)

\* Finish drops from Round 2 what Round 1 runs under the same id, so this
\* holds up to there.
MemoPassed ==
  phase # "done" =>
    \A k \in Key : tests[k] # None => \A e \in In(k[1]) : Passed(k, e)

StackPassed ==
  phase # "done" =>
    \A i \in DOMAIN stack, k \in Key :
      stack[i].key = k =>
        \A e \in In(k[1]) \ stack[i].todo : Passed(k, e)

ChangedSeen ==
  phase = "changed" =>
    /\ round2 = {}
    /\ \A c \in ChangedNodes \ pending :
         /\ Seen(<<c, TRUE>>)
         /\ \A f \in FileNodes(FileOf[c]) \ {c} :
              f \in owed \/ Seen(<<f, TRUE>>)

NeighboursSeen ==
  phase = "neighbours" =>
    /\ owed = {}
    /\ \A c \in ChangedNodes : LinkedToChange(c) \subseteq round1
    /\ \A c \in ChangedNodes : \A n \in Neighbours(c) \ pending :
         Seen(<<n, TRUE>>)

DoneIsIdle == phase = "done" => Idle /\ pending = {}

IInv ==
  /\ TypeOK
  /\ MemoPassed /\ StackPassed
  /\ ChangedSeen /\ NeighboursSeen
  /\ DoneIsIdle /\ LinkedTestsSelected

-----------------------------------------------------------------------------
(* The graph's operators are typed *)

\* In only selects edges of the graph (newIndex).
LEMMA InIsTyped == ASSUME TypeOK, NEW n PROVE In(n) \subseteq graph
BY DEF In

\* An edge joins two IDs and names tests of the graph.
LEMMA EdgeIsTyped ==
  ASSUME TypeOK, NEW e \in graph
  PROVE  e.from \in Id /\ e.to \in Id /\ EdgeTests(e) \subseteq Id
BY IdsAreTyped DEF Edges, TypeOK, EdgeTests, TestsIn

\* The keys an edge leads walk to: a helper, or once a loader of a file node.
LEMMA EdgeWalkIs ==
  ASSUME NEW k, NEW e, NEW j
  PROVE  j \in EdgeWalk(k, e) <=>
           /\ e.from \in Node
           /\ \/ KindOf[e.from] = "helper" /\ j = <<e.from, Hop(k)>>
              \/ /\ KindOf[e.from] \notin {"test", "helper"}
                 /\ ~ StandsForTests(e.from)
                 /\ Hop(k) /\ e.rel = "references"
                 /\ j = <<e.from, FALSE>>
BY DEF EdgeWalk

\* Whether a references edge may be followed is a flag of the key.
LEMMA HopIsBoolean == ASSUME NEW k \in Key PROVE Hop(k) \in BOOLEAN
BY DEF Hop

\* walk calls itself only with keys.
LEMMA EdgeWalkIsTyped ==
  ASSUME NEW k \in Key, NEW e PROVE EdgeWalk(k, e) \subseteq Key
<1> SUFFICES ASSUME NEW j \in EdgeWalk(k, e) PROVE j \in Key
  OBVIOUS
<1>1. e.from \in Id /\ (j = <<e.from, Hop(k)>> \/ j = <<e.from, FALSE>>)
  BY EdgeWalkIs, IdsAreTyped
<1>2. Hop(k) \in BOOLEAN
  BY HopIsBoolean
<1>3. \A a \in Id, b \in BOOLEAN : <<a, b>> \in Key
  OBVIOUS
<1>4. QED
  BY <1>1, <1>2, <1>3, Zenon

\* A changed node is a node of the graph or a <module>.
LEMMA ChangedNodesAreTyped ==
  ASSUME TypeOK PROVE ChangedNodes \subseteq Id
BY IdsAreTyped, SyntheticNodes DEF TypeOK, ChangedNodes, TopNodes, FileNodes

\* The whole file run for an untested helper is a node ID.
LEMMA FallbackIsTyped ==
  ASSUME NEW k \in Key, NEW out \in SUBSET Id
  PROVE  WithFallback(k, out) \in SUBSET Id /\ out \subseteq WithFallback(k, out)
BY IdsAreTyped, SyntheticNodes DEF WithFallback

-----------------------------------------------------------------------------
(* Types *)

\* Replacing an element leaves a sequence of the same set.
LEMMA UpdateIsTyped ==
  ASSUME NEW S, NEW s \in Seq(S), NEW i \in DOMAIN s, NEW x \in S
  PROVE  [s EXCEPT ![i] = x] \in Seq(S)
OBVIOUS

\* A new activation has all the edges of its node to take, and no test.
LEMMA ActivationIs ==
  ASSUME NEW k
  PROVE  /\ Activation(k).key = k /\ Activation(k).todo = In(k[1])
         /\ Activation(k).out = {}
BY DEF Activation

\* walk starts in a typed activation.
LEMMA ActivationIsTyped ==
  ASSUME TypeOK, NEW k \in Key PROVE Activation(k) \in Frame
BY InIsTyped DEF Activation, Frame

\* No step touches the graph or the changed lines, so nothing computed from
\* them moves.
LEMMA InputFixed ==
  ASSUME UNCHANGED input
  PROVE  /\ Frame' = Frame /\ ChangedNodes' = ChangedNodes
         /\ \A n : In(n)' = In(n)
         /\ \A n : Neighbours(n)' = Neighbours(n)
         /\ \A n : LinkedToChange(n)' = LinkedToChange(n)
         /\ \A n : Linked(n)' = Linked(n)
<1>1. /\ Frame' = Frame /\ ChangedNodes' = ChangedNodes
      /\ \A n : In(n)' = In(n)
  BY DEF input, Frame, ChangedNodes, TopNodes, Defs, FileNodes, In
<1>2. \A n : Neighbours(n)' = Neighbours(n)
  BY <1>1 DEF input, Neighbours, Out
<1>3. \A n : Naming(n)' = Naming(n) /\ HelperCallers(n)' = HelperCallers(n)
  BY <1>1 DEF Naming, HelperCallers
<1>4. \A n : Behind(n)' = Behind(n)
  BY <1>3 DEF Behind
<1>5. \A n : Loaders(n)' = Loaders(n)
  BY <1>1 DEF Loaders
<1>6. \A n : NamingOrBehind(n)' = NamingOrBehind(n)
  BY <1>3, <1>4 DEF NamingOrBehind
<1>7. \A n : Linked(n)' = Linked(n)
  BY <1>5, <1>6 DEF Linked
<1>8. \A n : LinkedToChange(n)' = LinkedToChange(n)
  BY <1>7 DEF LinkedToChange
<1>9. QED
  BY <1>1, <1>2, <1>7, <1>8

\* What a phase has yet to come to are IDs.
LEMMA PendingIsTyped ==
  ASSUME TypeOK PROVE pending \subseteq Id /\ owed \subseteq Id
BY ChangedNodesAreTyped, IdsAreTyped DEF TypeOK

\* The innermost activation.
LEMMA CurrentIsTyped ==
  ASSUME TypeOK, stack # <<>>
  PROVE  /\ Depth \in Nat \ {0} /\ Depth \in DOMAIN stack
         /\ DOMAIN stack = 1..Depth
         /\ Current \in Frame
         /\ Current.key \in Key /\ Current.todo \subseteq graph
         /\ Current.out \subseteq Id
<1>1. Depth \in Nat \ {0} /\ DOMAIN stack = 1..Depth
  BY DEF TypeOK, Depth
<1>2. Depth \in DOMAIN stack
  BY <1>1
<1>3. Current \in Frame
  BY <1>1, <1>2 DEF TypeOK, Current
<1>4. QED
  BY <1>1, <1>2, <1>3 DEF Frame

\* testsOf keeps the types, whether it walks or takes the memo.
LEMMA TestsOfIsTyped ==
  ASSUME TypeOK, UNCHANGED input, NEW n \in Id, TestsOf(n)
  PROVE  stack' \in Seq(Frame') /\ (round1 \subseteq Id)' /\ (round2 \subseteq Id)'
<1> DEFINE k == <<n, TRUE>>
<1>1. k \in Key
  OBVIOUS
<1>2. Frame' = Frame
  BY InputFixed
<1>3. CASE NeedsWalk(k)
  <2>1. stack' = <<Activation(k)>> /\ UNCHANGED <<round1, round2>>
    BY <1>3 DEF TestsOf
  <2>2. QED
    BY <2>1, <1>1, <1>2, ActivationIsTyped DEF TypeOK
<1>4. CASE ~ NeedsWalk(k)
  <2>1. UNCHANGED stack /\ Select(Known(k))
    BY <1>4 DEF TestsOf
  <2>2. Known(k) \subseteq Id
    BY <1>1 DEF Known, TypeOK
  <2>3. QED
    BY <2>1, <2>2, <1>2 DEF Select, TypeOK
<1>5. QED
  BY <1>3, <1>4

\* A run starts typed.
LEMMA InitIsTyped == ASSUME Init PROVE TypeOK
<1>1. graph \subseteq Edges /\ owned \subseteq Node /\ top \subseteq File
  BY ReposAreTyped DEF Init
<1>2. round1 \subseteq Id
  BY <1>1, IdsAreTyped DEF Init, TestsIn
<1>3. QED
  BY <1>1, <1>2 DEF Init, TypeOK

\* Every step keeps the types.
LEMMA NextIsTyped == ASSUME TypeOK, [Next]_vars PROVE TypeOK'
<1>1. CASE UNCHANGED vars
  BY <1>1 DEF vars, input, TypeOK, Frame, ChangedNodes, TopNodes, Defs,
              FileNodes
<1>2. ASSUME NEW c \in pending, VisitChanged(c) PROVE TypeOK'
  <2>1. UNCHANGED input /\ TestsOf(c) /\ c \in Id
    BY <1>2, PendingIsTyped DEF VisitChanged
  <2>2. owed' \subseteq Node
    BY <1>2 DEF VisitChanged, FileNodes
  <2>3. QED
    BY <1>2, <2>1, <2>2, InputFixed, TestsOfIsTyped
    DEF VisitChanged, TypeOK, input
<1>3. ASSUME NEW c \in pending, VisitNeighbour(c) PROVE TypeOK'
  <2>1. UNCHANGED input /\ TestsOf(c) /\ c \in Id
    BY <1>3, PendingIsTyped DEF VisitNeighbour
  <2>2. QED
    BY <1>3, <2>1, InputFixed, TestsOfIsTyped
    DEF VisitNeighbour, TypeOK, input
<1>4. ASSUME NEW f \in owed, VisitFileNode(f) PROVE TypeOK'
  <2>1. UNCHANGED input /\ TestsOf(f) /\ f \in Id
    BY <1>4, PendingIsTyped DEF VisitFileNode
  <2>2. QED
    BY <1>4, <2>1, InputFixed, TestsOfIsTyped
    DEF VisitFileNode, TypeOK, input
<1>5. ASSUME NEW e \in graph, TakeEdge(e) PROVE TypeOK'
  <2> DEFINE got == EdgeTests(e)
                      \cup UNION {Known(k) : k \in EdgeWalk(Current.key, e)}
             frame == [Current EXCEPT !.todo = @ \ {e}, !.out = @ \cup got]
  <2>1. UNCHANGED input /\ stack # <<>>
    BY <1>5 DEF TakeEdge
  <2>2. \A k \in Key : Known(k) \subseteq Id
    BY DEF Known, TypeOK
  <2>3. got \subseteq Id
    BY <2>1, <2>2, EdgeIsTyped, EdgeWalkIsTyped, CurrentIsTyped
  <2>4. frame \in Frame
    BY <2>1, <2>3, CurrentIsTyped DEF Frame
  <2>5. stack' = [stack EXCEPT ![Depth] = frame]
    BY <1>5, <2>1, CurrentIsTyped DEF TakeEdge, Current
  <2>6. stack' \in Seq(Frame)
    BY <2>1, <2>4, <2>5, CurrentIsTyped DEF TypeOK
  <2>7. QED
    BY <1>5, <2>1, <2>6, InputFixed DEF TakeEdge, TypeOK, input
<1>6. ASSUME NEW e \in graph, NEW k \in Key, Descend(e, k) PROVE TypeOK'
  <2> DEFINE frame == [Current EXCEPT !.todo = @ \ {e}]
  <2>1. UNCHANGED input /\ stack # <<>>
    BY <1>6 DEF Descend
  <2>2. frame \in Frame
    BY <2>1, CurrentIsTyped DEF Frame
  <2>3. stack' = Append([stack EXCEPT ![Depth] = frame], Activation(k))
    BY <1>6, <2>1, CurrentIsTyped DEF Descend, Current
  <2>4. [stack EXCEPT ![Depth] = frame] \in Seq(Frame)
    BY <2>1, <2>2, CurrentIsTyped DEF TypeOK
  <2>5. stack' \in Seq(Frame)
    BY <2>3, <2>4, ActivationIsTyped
  <2>6. QED
    BY <1>6, <2>1, <2>5, InputFixed DEF Descend, TypeOK, input
<1>7. CASE Return
  <2> DEFINE out == WithFallback(Current.key, Current.out)
             callers == SubSeq(stack, 1, Depth - 1)
  <2>1. UNCHANGED input /\ stack # <<>>
    BY <1>7 DEF Return
  <2>2. out \in SUBSET Id /\ Current.key \in Key
    BY <2>1, FallbackIsTyped, CurrentIsTyped
  <2>3. tests' = [tests EXCEPT ![Current.key] = out]
    BY <1>7 DEF Return
  <2>4. tests' \in [Key -> (SUBSET Id) \cup {None}]
    BY <2>2, <2>3 DEF TypeOK
  <2>5. callers \in Seq(Frame) /\ DOMAIN callers = 1..(Depth - 1)
    BY <2>1, CurrentIsTyped DEF TypeOK
  <2>6. stack' \in Seq(Frame) /\ round1' \subseteq Id /\ round2' \subseteq Id
    <3>1. CASE callers = <<>>
      BY <3>1, <1>7, <2>2 DEF Return, Select, TypeOK
    <3>2. CASE callers # <<>>
      <4> DEFINE frame == [callers[Depth - 1] EXCEPT !.out = @ \cup out]
      <4>1. Depth - 1 \in DOMAIN callers
        BY <3>2, <2>1, <2>5, CurrentIsTyped
      <4>2. callers[Depth - 1] \in Frame
        BY <4>1, <2>5
      <4>3. frame \in Frame
        BY <4>2, <2>2 DEF Frame
      <4>4. stack' = [callers EXCEPT ![Depth - 1] = frame]
        BY <1>7, <3>2, <4>1 DEF Return
      <4>5. stack' \in Seq(Frame)
        BY <4>3, <4>4, <2>5, <4>1, UpdateIsTyped
      <4>6. QED
        BY <4>5, <1>7, <3>2 DEF Return, TypeOK
    <3>3. QED
      BY <3>1, <3>2
  <2>7. QED
    BY <1>7, <2>1, <2>4, <2>6, InputFixed DEF Return, TypeOK, input
<1>8. CASE TurnToNeighbours
  <2>1. pending' \subseteq Node
    BY <1>8 DEF TurnToNeighbours, Neighbours
  <2>2. UNCHANGED input
    BY <1>8 DEF TurnToNeighbours
  <2>3. QED
    BY <1>8, <2>1, <2>2, InputFixed DEF TurnToNeighbours, TypeOK, input
<1>9. CASE Finish
  <2>1. UNCHANGED input
    BY <1>9 DEF Finish
  <2>2. QED
    BY <1>9, <2>1, InputFixed DEF Finish, TypeOK, input
<1>10. QED
  BY <1>1, <1>2, <1>3, <1>4, <1>5, <1>6, <1>7, <1>8, <1>9
  DEF Next, Work, Done

\* The walk keeps its types: it walks only keys of the graph, and puts only
\* node IDs in the rounds and changed nodes among the untested.
THEOREM TypeCorrect == Spec => []TypeOK
<1>1. Init => TypeOK
  BY InitIsTyped
<1>2. TypeOK /\ [Next]_vars => TypeOK'
  BY NextIsTyped
<1>3. QED
  BY <1>1, <1>2, PTL DEF Spec

-----------------------------------------------------------------------------
(* What a walk that has ended has gathered *)

\* With no walk left, the rounds have every test that names a walked node.
LEMMA MemoHasNaming ==
  ASSUME TypeOK, MemoPassed, phase # "done", stack = <<>>,
         NEW k \in Key, tests[k] # None
  PROVE  Naming(k[1]) \subseteq round1 \cup round2
<1> SUFFICES ASSUME NEW t \in Naming(k[1]) PROVE t \in round1 \cup round2
  OBVIOUS
<1>1. PICK e \in In(k[1]) : e.from = t \/ e.from \in FileNodes(FileOf[t])
  BY DEF Naming
<1>2. t \in Node /\ KindOf[t] = "test" /\ t \in TestsIn(FileOf[t])
  BY DEF Naming, TestsIn
<1>3. t \in EdgeTests(e)
  <2>1. CASE e.from = t
    BY <2>1, <1>2 DEF EdgeTests
  <2>2. CASE e.from \in FileNodes(FileOf[t])
    <3>1. /\ e.from \in Node /\ KindOf[e.from] = "file"
          /\ FileOf[e.from] = FileOf[t]
      BY <2>2 DEF FileNodes
    <3>2. StandsForTests(e.from)
      BY <3>1, <1>2 DEF StandsForTests
    <3>3. QED
      BY <3>1, <3>2, <1>2 DEF EdgeTests
  <2>3. QED
    BY <2>1, <2>2, <1>1
<1>4. Passed(k, e)
  BY DEF MemoPassed
<1>5. Gathered = round1 \cup round2
  BY DEF Gathered
<1>6. QED
  BY <1>3, <1>4, <1>5 DEF Passed

\* They have those that name a helper behind it: the helpers that have been
\* walked are closed under being called.
LEMMA MemoHasBehind ==
  ASSUME TypeOK, MemoPassed, phase # "done", stack = <<>>,
         NEW k \in Key, tests[k] # None
  PROVE  NamingOrBehind(k[1]) \subseteq round1 \cup round2
<1> DEFINE S == {h \in Helper : tests[<<h, TRUE>>] # None
                                \/ tests[<<h, FALSE>>] # None}
<1>1. \A j \in Key : Seen(j) <=> tests[j] # None
  BY DEF Seen, Walking
<1>2. ASSUME NEW j \in Key, tests[j] # None
      PROVE  HelperCallers(j[1]) \subseteq S
  <2> SUFFICES ASSUME NEW h \in HelperCallers(j[1]) PROVE h \in S
    OBVIOUS
  <2>1. PICK e \in In(j[1]) : e.from = h
    BY DEF HelperCallers
  <2>2. h \in Helper /\ h \in Node /\ KindOf[h] = "helper"
    BY DEF HelperCallers, Helper
  <2>3. <<h, Hop(j)>> \in EdgeWalk(j, e)
    BY <2>1, <2>2, EdgeWalkIs, Zenon
  <2>4. Passed(j, e)
    BY <1>2 DEF MemoPassed
  <2>5. tests[<<h, Hop(j)>>] # None
    BY <2>3, <2>4, <1>1, EdgeWalkIsTyped DEF Passed
  <2>6. Hop(j) \in BOOLEAN
    BY HopIsBoolean
  <2>7. Hop(j) = TRUE \/ Hop(j) = FALSE
    BY <2>6
  <2>8. QED
    BY <2>2, <2>5, <2>7, Zenon
<1>3. S \in SUBSET Helper
  OBVIOUS
<1>4. \A h \in S : \E j \in Key : j[1] = h /\ tests[j] # None
  <2> SUFFICES ASSUME NEW h \in S
               PROVE  \E j \in Key : j[1] = h /\ tests[j] # None
    OBVIOUS
  <2>1. h \in Id
    BY IdsAreTyped DEF Helper
  <2>2. <<h, TRUE>> \in Key /\ <<h, FALSE>> \in Key
    BY <2>1
  <2>3. QED
    BY <2>2
<1>5. \A h \in S : HelperCallers(h) \subseteq S
  BY <1>2, <1>4
<1>6. Behind(k[1]) \subseteq S
  BY <1>2, <1>3, <1>5 DEF Behind
<1>7. \A h \in S : Naming(h) \subseteq round1 \cup round2
  BY <1>4, MemoHasNaming
<1>8. Naming(k[1]) \subseteq round1 \cup round2
  BY MemoHasNaming
<1>9. QED
  BY <1>6, <1>7, <1>8 DEF NamingOrBehind

\* They have every test linked to it.
LEMMA MemoHasLinked ==
  ASSUME TypeOK, MemoPassed, phase # "done", stack = <<>>,
         NEW n \in Id, tests[<<n, TRUE>>] # None
  PROVE  Linked(n) \subseteq round1 \cup round2
<1> DEFINE k == <<n, TRUE>>
<1>1. k \in Key /\ k[1] = n /\ k[2] = TRUE
  OBVIOUS
<1>2. NamingOrBehind(n) \subseteq round1 \cup round2
  BY <1>1, MemoHasBehind
<1>3. ASSUME NEW m \in Loaders(n)
      PROVE  NamingOrBehind(m) \subseteq round1 \cup round2
  <2>1. /\ KindOf[n] = "file" /\ m \in Node
        /\ KindOf[m] \notin {"test", "helper"} /\ ~ StandsForTests(m)
        /\ \E e \in In(n) : e.from = m /\ e.rel = "references"
    BY DEF Loaders, StandsForTests
  <2>2. PICK e \in In(n) : e.from = m /\ e.rel = "references"
    BY <2>1
  <2>3. Hop(k)
    BY <2>1 DEF Hop
  <2>4. <<m, FALSE>> \in EdgeWalk(k, e)
    BY <2>1, <2>2, <2>3, EdgeWalkIs, Zenon
  <2>5. Passed(k, e)
    BY <1>1, <2>2 DEF MemoPassed
  <2>6. Seen(<<m, FALSE>>)
    BY <2>4, <2>5 DEF Passed
  <2>7. tests[<<m, FALSE>>] # None
    BY <2>6 DEF Seen, Walking
  <2>8. <<m, FALSE>> \in Key
    BY <2>1, IdsAreTyped
  <2>9. QED
    BY <2>7, <2>8, MemoHasBehind
<1>4. QED
  BY <1>2, <1>3 DEF Linked

-----------------------------------------------------------------------------
(* The walk: nothing passed is lost by a step *)

Grows ==
  /\ Gathered \subseteq Gathered'
  /\ \A k \in Key : Seen(k) => Seen(k)'

\* While what is gathered and seen only grows, a passed edge stays passed.
LEMMA PassedStays ==
  ASSUME Grows, NEW k \in Key, NEW e, Passed(k, e) PROVE Passed(k, e)'
<1>1. EdgeWalk(k, e) \subseteq Key
  BY EdgeWalkIsTyped
<1>2. \A j \in EdgeWalk(k, e) : Seen(j)'
  BY <1>1 DEF Passed, Grows
<1>3. EdgeTests(e) \subseteq Gathered'
  BY DEF Passed, Grows
<1>4. QED
  BY <1>2, <1>3 DEF Passed

\* testsOf from an empty stack loses nothing and sees its node.
LEMMA TestsOfKeeps ==
  ASSUME TypeOK, MemoPassed, phase # "done", stack = <<>>,
         UNCHANGED <<input, phase, tests>>, NEW n \in Id, TestsOf(n)
  PROVE  /\ Grows /\ MemoPassed' /\ StackPassed'
         /\ Seen(<<n, TRUE>>)' /\ round1 \subseteq round1'
         /\ phase = "changed" => round2' = round2
<1> DEFINE k == <<n, TRUE>>
<1>1. k \in Key /\ k[1] = n
  OBVIOUS
<1>2. \A j : ~ Walking(j)
  BY DEF Walking
<1>3. Gathered = round1 \cup round2
  BY DEF Gathered
<1>4. /\ Grows /\ Seen(k)' /\ round1 \subseteq round1'
      /\ phase = "changed" => round2' = round2
      /\ \A i \in DOMAIN stack', j \in Key :
           stack'[i].key = j => In(j[1]) \subseteq stack'[i].todo
  <2>1. CASE NeedsWalk(k)
    <3>1. stack' = <<Activation(k)>> /\ UNCHANGED <<round1, round2>>
      BY <2>1 DEF TestsOf
    <3>2. DOMAIN stack' = {1} /\ stack'[1] = Activation(k)
      BY <3>1
    <3>3. stack'[1].key = k /\ stack'[1].todo = In(k[1])
      BY <3>2, ActivationIs
    <3>4. Walking(k)'
      BY <3>2, <3>3 DEF Walking
    <3>5. Grows
      BY <1>2, <1>3, <3>1 DEF Grows, Gathered, Seen
    <3>6. QED
      BY <3>1, <3>2, <3>3, <3>4, <3>5 DEF Seen
  <2>2. CASE ~ NeedsWalk(k)
    <3>1. UNCHANGED stack /\ Select(Known(k))
      BY <2>2 DEF TestsOf
    <3>2. tests[k] # None
      BY <2>2, <1>2 DEF NeedsWalk
    <3>3. round1 \subseteq round1' /\ round2 \subseteq round2'
          /\ (phase = "changed" => round2' = round2)
      BY <3>1 DEF Select
    <3>4. Grows
      BY <1>2, <1>3, <3>1, <3>3 DEF Grows, Gathered, Seen
    <3>5. QED
      BY <3>1, <3>2, <3>3, <3>4 DEF Seen
  <2>3. QED
    BY <2>1, <2>2
<1>5. \A x : In(x)' = In(x)
  BY InputFixed
<1>6. MemoPassed'
  BY <1>4, <1>5, PassedStays DEF MemoPassed
<1>7. StackPassed'
  <2>1. \A i \in DOMAIN stack', j \in Key :
          stack'[i].key = j => In(j[1])' \ stack'[i].todo = {}
    BY <1>4, <1>5
  <2>2. QED
    BY <2>1 DEF StackPassed
<1>8. QED
  BY <1>4, <1>6, <1>7

\* Taking an edge gathers its tests, and what it leads to was seen.
LEMMA TakeEdgeKeeps ==
  ASSUME TypeOK, MemoPassed, StackPassed, phase # "done",
         NEW e \in graph, TakeEdge(e)
  PROVE  Grows /\ MemoPassed' /\ StackPassed'
<1> PICK k \in Key : k = Current.key
  BY CurrentIsTyped DEF TakeEdge
<1>1. /\ stack # <<>> /\ UNCHANGED <<input, phase, tests, round1, round2>>
      /\ e \in Current.todo
      /\ \A j \in EdgeWalk(k, e) : ~ NeedsWalk(j)
  BY DEF TakeEdge
<1>2. /\ DOMAIN stack' = DOMAIN stack
      /\ \A i \in DOMAIN stack :
           /\ stack'[i].key = stack[i].key
           /\ stack[i].out \subseteq stack'[i].out
      /\ \A i \in DOMAIN stack \ {Depth} : stack'[i] = stack[i]
      /\ stack'[Depth].todo = Current.todo \ {e}
      /\ EdgeTests(e) \subseteq stack'[Depth].out
  BY <1>1, CurrentIsTyped DEF TakeEdge, Current, TypeOK, Frame
<1>3. k \in Key /\ Depth \in DOMAIN stack /\ stack[Depth] = Current
  BY <1>1, CurrentIsTyped DEF Current
<1>4. \A j : Walking(j) => Walking(j)'
  BY <1>2 DEF Walking
<1>5. Grows
  BY <1>1, <1>2, <1>4 DEF Grows, Gathered, Seen
<1>6. Passed(k, e)'
  <2>1. \A j \in EdgeWalk(k, e) : Seen(j)
    BY <1>1 DEF NeedsWalk, Seen
  <2>2. \A j \in EdgeWalk(k, e) : Seen(j)'
    BY <2>1, <1>5, <1>3, EdgeWalkIsTyped DEF Grows
  <2>3. EdgeTests(e) \subseteq Gathered'
    BY <1>2, <1>3 DEF Gathered
  <2>4. QED
    BY <2>2, <2>3 DEF Passed
<1>7. \A x : In(x)' = In(x)
  BY <1>1, InputFixed
<1>8. MemoPassed'
  BY <1>1, <1>5, <1>7, PassedStays DEF MemoPassed
<1>9. StackPassed'
  <2> SUFFICES ASSUME NEW i \in DOMAIN stack, NEW j \in Key,
                      stack[i].key = j, NEW d \in In(j[1]) \ stack'[i].todo
               PROVE  Passed(j, d)'
    BY <1>2, <1>7 DEF StackPassed
  <2>1. CASE d \notin stack[i].todo
    BY <2>1, <1>5, PassedStays DEF StackPassed
  <2>2. CASE d \in stack[i].todo
    <3>1. i = Depth /\ d = e
      BY <2>2, <1>2, <1>3
    <3>2. QED
      BY <3>1, <1>3, <1>6
  <2>3. QED
    BY <2>1, <2>2
<1>10. QED
  BY <1>5, <1>8, <1>9

\* An edge that makes walk call itself names no test and leads to one key.
LEMMA DescendingEdge ==
  ASSUME NEW k \in Key, NEW e, NEW j \in EdgeWalk(k, e)
  PROVE  EdgeTests(e) = {} /\ EdgeWalk(k, e) = {j}
<1>1. /\ e.from \in Node /\ KindOf[e.from] # "test"
      /\ ~ StandsForTests(e.from)
  BY EdgeWalkIs DEF StandsForTests
<1>2. EdgeTests(e) = {}
  BY <1>1 DEF EdgeTests
<1>3. ASSUME NEW i \in EdgeWalk(k, e) PROVE i = j
  <2>1. \A x \in EdgeWalk(k, e) :
          x = IF KindOf[e.from] = "helper" THEN <<e.from, Hop(k)>>
              ELSE <<e.from, FALSE>>
    BY EdgeWalkIs, Zenon
  <2>2. QED
    BY <2>1
<1>4. QED
  BY <1>2, <1>3

\* walk calling itself sees the key the edge leads to.
LEMMA DescendKeeps ==
  ASSUME TypeOK, MemoPassed, StackPassed, phase # "done",
         NEW e \in graph, NEW c \in Key, Descend(e, c)
  PROVE  Grows /\ MemoPassed' /\ StackPassed'
<1> PICK k \in Key : k = Current.key
  BY CurrentIsTyped DEF Descend
<1>1. /\ stack # <<>> /\ UNCHANGED <<input, phase, tests, round1, round2>>
      /\ e \in Current.todo /\ c \in EdgeWalk(k, e)
      /\ stack' = Append([stack EXCEPT ![Depth].todo = @ \ {e}], Activation(c))
  BY DEF Descend
<1>2. /\ DOMAIN stack' = DOMAIN stack \cup {Depth + 1}
      /\ Depth + 1 \notin DOMAIN stack
      /\ \A i \in DOMAIN stack :
           /\ stack'[i].key = stack[i].key
           /\ stack'[i].out = stack[i].out
      /\ \A i \in DOMAIN stack \ {Depth} : stack'[i] = stack[i]
      /\ stack'[Depth].todo = Current.todo \ {e}
      /\ stack'[Depth + 1] = Activation(c)
  BY <1>1, CurrentIsTyped DEF Current, TypeOK, Frame
<1>3. /\ Depth \in DOMAIN stack /\ stack[Depth] = Current
      /\ Depth + 1 \in DOMAIN stack'
      /\ stack'[Depth + 1].key = c /\ stack'[Depth + 1].todo = In(c[1])
  BY <1>1, <1>2, CurrentIsTyped, ActivationIs DEF Current
<1>4. \A j : Walking(j) => Walking(j)'
  BY <1>2 DEF Walking
<1>5. Grows
  <2>1. Gathered \subseteq Gathered'
    BY <1>1, <1>2 DEF Gathered
  <2>2. QED
    BY <2>1, <1>1, <1>4 DEF Grows, Seen
<1>6. Passed(k, e)'
  <2>1. Walking(c)'
    BY <1>3 DEF Walking
  <2>2. QED
    BY <2>1, <1>1, DescendingEdge DEF Passed, Seen
<1>7. \A x : In(x)' = In(x)
  BY <1>1, InputFixed
<1>8. MemoPassed'
  BY <1>1, <1>5, <1>7, PassedStays DEF MemoPassed
<1>9. StackPassed'
  <2> SUFFICES ASSUME NEW i \in DOMAIN stack', NEW j \in Key,
                      stack'[i].key = j, NEW d \in In(j[1]) \ stack'[i].todo
               PROVE  Passed(j, d)'
    BY <1>7 DEF StackPassed
  <2>1. CASE i = Depth + 1
    BY <2>1, <1>3
  <2>2. CASE i \in DOMAIN stack /\ d \notin stack[i].todo
    BY <2>2, <1>2, <1>5, PassedStays DEF StackPassed
  <2>3. CASE i \in DOMAIN stack /\ d \in stack[i].todo
    <3>1. i = Depth /\ d = e /\ j = k
      BY <2>3, <1>2, <1>3
    <3>2. QED
      BY <3>1, <1>6
  <2>4. QED
    BY <2>1, <2>2, <2>3, <1>2
<1>10. QED
  BY <1>5, <1>8, <1>9

\* A return hands what the activation gathered to its caller or to a round,
\* and the memo has passed every edge the activation had.
LEMMA ReturnKeeps ==
  ASSUME TypeOK, MemoPassed, StackPassed, phase # "done", Return
  PROVE  /\ Grows /\ MemoPassed' /\ StackPassed' /\ round1 \subseteq round1'
         /\ phase = "changed" => round2' = round2
<1> PICK k \in Key : k = Current.key
  BY CurrentIsTyped DEF Return
<1> DEFINE out == WithFallback(k, Current.out)
           callers == SubSeq(stack, 1, Depth - 1)
<1>1. /\ stack # <<>> /\ UNCHANGED <<input, phase>> /\ Current.todo = {}
      /\ tests' = [tests EXCEPT ![k] = out]
      /\ IF callers = <<>>
           THEN stack' = <<>> /\ Select(out)
           ELSE /\ stack' = [callers EXCEPT ![Depth - 1].out = @ \cup out]
                /\ UNCHANGED <<round1, round2>>
  BY DEF Return
<1>2. out \in SUBSET Id /\ Current.out \subseteq out
  BY <1>1, FallbackIsTyped, CurrentIsTyped
<1>3. /\ Depth \in DOMAIN stack /\ stack[Depth] = Current
      /\ Depth \in Nat \ {0} /\ DOMAIN stack = 1..Depth
  BY <1>1, CurrentIsTyped DEF Current
<1>4. callers \in Seq(Frame) /\ DOMAIN callers = 1..(Depth - 1)
      /\ \A i \in 1..(Depth - 1) : callers[i] = stack[i]
  BY <1>3 DEF TypeOK
<1> HIDE DEF out, callers
<1>5. tests'[k] # None /\ \A j \in Key \ {k} : tests'[j] = tests[j]
  BY <1>1, <1>2, IdsAreTyped DEF TypeOK
<1>6. /\ DOMAIN stack' = 1..(Depth - 1)
      /\ \A i \in 1..(Depth - 1) :
           /\ stack'[i].key = stack[i].key /\ stack'[i].todo = stack[i].todo
           /\ stack[i].out \subseteq stack'[i].out
      /\ round1 \subseteq round1' /\ round2 \subseteq round2'
      /\ phase = "changed" => round2' = round2
      /\ out \subseteq Gathered'
  <2>1. CASE callers = <<>>
    <3>1. Depth - 1 = 0
      BY <2>1, <1>3, <1>4
    <3>2. stack' = <<>> /\ Select(out)
      BY <2>1, <1>1
    <3>3. out \subseteq round1' \cup round2'
      BY <3>2 DEF Select
    <3>4. QED
      BY <3>1, <3>2, <3>3, <1>3 DEF Select, Gathered
  <2>2. CASE callers # <<>>
    <3>1. Depth - 1 \in DOMAIN callers
      BY <2>2, <1>3, <1>4
    <3>2. /\ stack' = [callers EXCEPT ![Depth - 1].out = @ \cup out]
          /\ UNCHANGED <<round1, round2>>
      BY <2>2, <1>1
    <3>3. callers[Depth - 1] \in Frame
      BY <3>1, <1>4
    <3>4. /\ DOMAIN stack' = DOMAIN callers
          /\ \A i \in DOMAIN callers \ {Depth - 1} : stack'[i] = callers[i]
          /\ stack'[Depth - 1] =
               [callers[Depth - 1] EXCEPT !.out = @ \cup out]
      BY <3>1, <3>2, <1>4
    <3>5. /\ stack'[Depth - 1].out = callers[Depth - 1].out \cup out
          /\ stack'[Depth - 1].key = callers[Depth - 1].key
          /\ stack'[Depth - 1].todo = callers[Depth - 1].todo
      BY <3>3, <3>4 DEF Frame
    <3>6. out \subseteq Gathered'
      BY <3>1, <3>4, <3>5 DEF Gathered
    <3>7. QED
      BY <3>2, <3>4, <3>5, <3>6, <1>4
  <2>3. QED
    BY <2>1, <2>2
<1>7. Grows
  <2>1. Gathered \subseteq Gathered'
    <3> SUFFICES ASSUME NEW t \in Gathered PROVE t \in Gathered'
      OBVIOUS
    <3>1. CASE t \in round1 \cup round2
      BY <3>1, <1>6 DEF Gathered
    <3>2. ASSUME NEW i \in DOMAIN stack, t \in stack[i].out
          PROVE  t \in Gathered'
      <4>1. CASE i = Depth
        BY <3>2, <4>1, <1>2, <1>3, <1>6
      <4>2. CASE i # Depth
        <5>1. i \in DOMAIN stack' /\ t \in stack'[i].out
          BY <3>2, <4>2, <1>3, <1>6
        <5>2. QED
          BY <5>1 DEF Gathered
      <4>3. QED
        BY <4>1, <4>2
    <3>3. QED
      BY <3>1, <3>2 DEF Gathered
  <2>2. ASSUME NEW j \in Key, Walking(j) PROVE Seen(j)'
    <3>1. PICK i \in DOMAIN stack : stack[i].key = j
      BY <2>2 DEF Walking
    <3>2. CASE i = Depth
      BY <3>1, <3>2, <1>3, <1>5 DEF Seen
    <3>3. CASE i # Depth
      <4>1. i \in DOMAIN stack' /\ stack'[i].key = j
        BY <3>1, <3>3, <1>3, <1>6
      <4>2. QED
        BY <4>1 DEF Seen, Walking
    <3>4. QED
      BY <3>2, <3>3
  <2>3. QED
    BY <2>1, <2>2, <1>5 DEF Grows, Seen
<1>8. \A x : In(x)' = In(x)
  BY <1>1, InputFixed
<1>9. MemoPassed'
  <2> SUFFICES ASSUME NEW j \in Key, tests'[j] # None, NEW d \in In(j[1])
               PROVE  Passed(j, d)'
    BY <1>8 DEF MemoPassed
  <2>1. CASE j = k
    <3>1. Passed(k, d)
      BY <2>1, <1>1, <1>3 DEF StackPassed
    <3>2. QED
      BY <3>1, <2>1, <1>7, PassedStays
  <2>2. CASE j # k
    <3>1. Passed(j, d)
      BY <2>2, <1>5 DEF MemoPassed
    <3>2. QED
      BY <3>1, <1>7, PassedStays
  <2>3. QED
    BY <2>1, <2>2
<1>10. StackPassed'
  <2> SUFFICES ASSUME NEW i \in DOMAIN stack', NEW j \in Key,
                      stack'[i].key = j, NEW d \in In(j[1]) \ stack'[i].todo
               PROVE  Passed(j, d)'
    BY <1>8 DEF StackPassed
  <2>1. i \in DOMAIN stack /\ stack[i].key = j /\ d \notin stack[i].todo
    BY <1>3, <1>6
  <2>2. Passed(j, d)
    BY <2>1 DEF StackPassed
  <2>3. QED
    BY <2>2, <1>7, PassedStays
<1>11. QED
  BY <1>6, <1>7, <1>9, <1>10

-----------------------------------------------------------------------------
(* The theorem *)

\* A step of the walk, or the start of one, inside a phase.
LEMMA StaysInPhase ==
  ASSUME IInv, UNCHANGED <<input, phase>>, phase # "done",
         Grows, round1 \subseteq round1',
         phase = "changed" => round2' = round2,
         phase = "changed" =>
           \A c \in ChangedNodes \ pending' :
             /\ c \in pending => Seen(<<c, TRUE>>)'
             /\ \A f \in FileNodes(FileOf[c]) \ {c} :
                  \/ f \in owed'
                  \/ c \notin pending /\ f \notin owed
                  \/ Seen(<<f, TRUE>>)',
         phase = "neighbours" => owed' = {},
         phase = "neighbours" =>
           \A c \in ChangedNodes : \A n \in Neighbours(c) \ pending' :
             n \in pending => Seen(<<n, TRUE>>)'
  PROVE  ChangedSeen' /\ NeighboursSeen' /\ DoneIsIdle' /\ LinkedTestsSelected'
<1>1. /\ ChangedNodes' = ChangedNodes
      /\ \A n : Neighbours(n)' = Neighbours(n)
      /\ \A n : LinkedToChange(n)' = LinkedToChange(n)
  BY InputFixed
<1>2. \A n \in Id : Seen(<<n, TRUE>>) => Seen(<<n, TRUE>>)'
  BY DEF Grows
<1>3. ChangedNodes \subseteq Id /\ (\A f : FileNodes(f) \subseteq Id)
      /\ (\A n : Neighbours(n) \subseteq Id)
  BY ChangedNodesAreTyped, IdsAreTyped DEF IInv, FileNodes, Neighbours
<1>4. ChangedSeen'
  <2> SUFFICES ASSUME phase = "changed"
               PROVE  /\ round2' = {}
                      /\ \A c \in ChangedNodes \ pending' :
                           /\ Seen(<<c, TRUE>>)'
                           /\ \A f \in FileNodes(FileOf[c]) \ {c} :
                                f \in owed' \/ Seen(<<f, TRUE>>)'
    BY <1>1 DEF ChangedSeen
  <2>1. round2' = {}
    BY DEF IInv, ChangedSeen
  <2>2. ASSUME NEW c \in ChangedNodes \ pending' PROVE Seen(<<c, TRUE>>)'
    BY <1>2, <1>3 DEF IInv, ChangedSeen
  <2>3. ASSUME NEW c \in ChangedNodes \ pending',
               NEW f \in FileNodes(FileOf[c]) \ {c}
        PROVE  f \in owed' \/ Seen(<<f, TRUE>>)'
    BY <1>2, <1>3 DEF IInv, ChangedSeen
  <2>4. QED
    BY <2>1, <2>2, <2>3
<1>5. NeighboursSeen'
  <2> SUFFICES ASSUME phase = "neighbours"
               PROVE  /\ owed' = {}
                      /\ \A c \in ChangedNodes :
                           LinkedToChange(c) \subseteq round1'
                      /\ \A c \in ChangedNodes :
                           \A n \in Neighbours(c) \ pending' :
                             Seen(<<n, TRUE>>)'
    BY <1>1 DEF NeighboursSeen
  <2>1. QED
    BY <1>2, <1>3 DEF IInv, NeighboursSeen
<1>6. DoneIsIdle' /\ LinkedTestsSelected'
  BY DEF DoneIsIdle, LinkedTestsSelected
<1>7. QED
  BY <1>4, <1>5, <1>6

\* Between two walks, what has been walked has been selected.
LEMMA SeenIsSelected ==
  ASSUME IInv, phase # "done", stack = <<>>, NEW n \in Id, Seen(<<n, TRUE>>)
  PROVE  Linked(n) \subseteq round1 \cup round2
<1>1. tests[<<n, TRUE>>] # None
  BY DEF Seen, Walking
<1>2. QED
  BY <1>1, MemoHasLinked DEF IInv

\* A run starts with nothing passed.
LEMMA IInvHolds == ASSUME Init PROVE IInv
<1>1. TypeOK
  BY InitIsTyped
<1>2. MemoPassed /\ StackPassed
  BY DEF Init, MemoPassed, StackPassed
<1>3. ChangedSeen /\ NeighboursSeen /\ DoneIsIdle /\ LinkedTestsSelected
  BY DEF Init, ChangedSeen, NeighboursSeen, DoneIsIdle, LinkedTestsSelected
<1>4. QED
  BY <1>1, <1>2, <1>3 DEF IInv

\* No step loses a test.
LEMMA IInvKept == ASSUME IInv, [Next]_vars PROVE IInv'
<1>1. TypeOK'
  BY NextIsTyped DEF IInv
<1> USE DEF IInv
<1>2. CASE UNCHANGED vars
  <2>1. UNCHANGED input /\ (\A n : In(n)' = In(n))
        /\ ChangedNodes' = ChangedNodes
        /\ (\A n : LinkedToChange(n)' = LinkedToChange(n))
        /\ (\A n : Neighbours(n)' = Neighbours(n))
        /\ (\A n : Linked(n)' = Linked(n))
    BY <1>2, InputFixed DEF vars
  <2>2. Grows
    BY <1>2 DEF vars, Grows, Gathered, Seen, Walking
  <2>3. MemoPassed' /\ StackPassed'
    BY <1>2, <2>1, <2>2, PassedStays DEF vars, MemoPassed, StackPassed
  <2>4. ChangedSeen' /\ NeighboursSeen'
    <3>1. \A n : Seen(n)' = Seen(n)
      BY <1>2 DEF vars, Seen, Walking
    <3>2. QED
      BY <1>2, <2>1, <3>1 DEF vars, input, ChangedSeen, NeighboursSeen,
         FileNodes
  <2>5. DoneIsIdle' /\ LinkedTestsSelected'
    BY <1>2, <2>1 DEF vars, DoneIsIdle, Idle, LinkedTestsSelected
  <2>6. QED
    BY <1>1, <2>3, <2>4, <2>5
<1>3. ASSUME NEW c \in pending, VisitChanged(c) PROVE IInv'
  <2>1. /\ UNCHANGED <<input, phase, tests>> /\ TestsOf(c) /\ c \in Id
        /\ phase = "changed" /\ stack = <<>> /\ owed = {}
        /\ pending' = pending \ {c}
        /\ owed' = FileNodes(FileOf[c]) \ {c}
    BY <1>3, PendingIsTyped DEF VisitChanged, Idle
  <2>2. /\ Grows /\ MemoPassed' /\ StackPassed'
        /\ Seen(<<c, TRUE>>)' /\ round1 \subseteq round1'
        /\ round2' = round2
    BY <2>1, TestsOfKeeps
  <2>3. QED
    BY <1>1, <2>1, <2>2, StaysInPhase
<1>4. ASSUME NEW c \in pending, VisitNeighbour(c) PROVE IInv'
  <2>1. /\ UNCHANGED <<input, phase, tests, owed>> /\ TestsOf(c) /\ c \in Id
        /\ phase = "neighbours" /\ stack = <<>> /\ owed = {}
        /\ pending' = pending \ {c}
    BY <1>4, PendingIsTyped DEF VisitNeighbour, Idle
  <2>2. /\ Grows /\ MemoPassed' /\ StackPassed'
        /\ Seen(<<c, TRUE>>)' /\ round1 \subseteq round1'
    BY <2>1, TestsOfKeeps
  <2>3. QED
    BY <1>1, <2>1, <2>2, StaysInPhase
<1>5. ASSUME NEW f \in owed, VisitFileNode(f) PROVE IInv'
  <2>1. /\ UNCHANGED <<input, phase, tests, pending>> /\ TestsOf(f)
        /\ f \in Id /\ stack = <<>> /\ owed' = owed \ {f}
    BY <1>5, PendingIsTyped DEF VisitFileNode
  <2>2. phase = "changed"
    BY DEF DoneIsIdle, Idle, NeighboursSeen, TypeOK
  <2>3. /\ Grows /\ MemoPassed' /\ StackPassed'
        /\ Seen(<<f, TRUE>>)' /\ round1 \subseteq round1'
        /\ round2' = round2
    BY <2>1, <2>2, TestsOfKeeps
  <2>4. QED
    BY <1>1, <2>1, <2>2, <2>3, StaysInPhase
<1>6. ASSUME NEW e \in graph, TakeEdge(e) PROVE IInv'
  <2>1. /\ UNCHANGED <<input, phase, pending, owed, round1, round2>>
        /\ phase # "done"
    BY <1>6 DEF TakeEdge, DoneIsIdle, Idle
  <2>2. Grows /\ MemoPassed' /\ StackPassed'
    BY <1>6, <2>1, TakeEdgeKeeps
  <2>3. QED
    BY <1>1, <2>1, <2>2, StaysInPhase DEF NeighboursSeen
<1>7. ASSUME NEW e \in graph, NEW k \in Key, Descend(e, k) PROVE IInv'
  <2>1. /\ UNCHANGED <<input, phase, pending, owed, round1, round2>>
        /\ phase # "done"
    BY <1>7 DEF Descend, DoneIsIdle, Idle
  <2>2. Grows /\ MemoPassed' /\ StackPassed'
    BY <1>7, <2>1, DescendKeeps
  <2>3. QED
    BY <1>1, <2>1, <2>2, StaysInPhase DEF NeighboursSeen
<1>8. CASE Return
  <2>1. UNCHANGED <<input, phase, pending, owed>> /\ phase # "done"
    BY <1>8 DEF Return, DoneIsIdle, Idle
  <2>2. /\ Grows /\ MemoPassed' /\ StackPassed' /\ round1 \subseteq round1'
        /\ phase = "changed" => round2' = round2
    BY <1>8, <2>1, ReturnKeeps
  <2>3. QED
    BY <1>1, <2>1, <2>2, StaysInPhase DEF NeighboursSeen
<1>9. CASE TurnToNeighbours
  <2>1. /\ phase = "changed" /\ phase' = "neighbours"
        /\ stack = <<>> /\ owed = {} /\ pending = {}
        /\ pending' = UNION {Neighbours(c) : c \in ChangedNodes}
        /\ UNCHANGED <<input, owed, stack, tests, round1, round2>>
    BY <1>9 DEF TurnToNeighbours, Idle
  <2>2. Grows
    BY <2>1 DEF Grows, Gathered, Seen, Walking
  <2>3. /\ \A n : In(n)' = In(n)
        /\ ChangedNodes' = ChangedNodes
        /\ \A n : LinkedToChange(n)' = LinkedToChange(n)
        /\ \A n : Neighbours(n)' = Neighbours(n)
    BY <2>1, InputFixed
  <2>4. MemoPassed' /\ StackPassed'
    BY <2>1, <2>2, <2>3, PassedStays DEF MemoPassed, StackPassed
  <2>5. ASSUME NEW c \in ChangedNodes
        PROVE  LinkedToChange(c) \subseteq round1
    <3>1. c \in Id /\ FileNodes(FileOf[c]) \subseteq Id
      BY ChangedNodesAreTyped, IdsAreTyped DEF FileNodes
    <3>2. \A n \in {c} \cup FileNodes(FileOf[c]) : Seen(<<n, TRUE>>)
      BY <2>1 DEF ChangedSeen
    <3>3. \A n \in {c} \cup FileNodes(FileOf[c]) :
            Linked(n) \subseteq round1 \cup round2
      BY <2>1, <3>1, <3>2, SeenIsSelected
    <3>4. round2 = {}
      BY <2>1 DEF ChangedSeen
    <3>5. QED
      BY <3>3, <3>4 DEF LinkedToChange
  <2>6. NeighboursSeen'
    BY <2>1, <2>3, <2>5 DEF NeighboursSeen
  <2>7. ChangedSeen' /\ DoneIsIdle' /\ LinkedTestsSelected'
    BY <2>1 DEF ChangedSeen, DoneIsIdle, LinkedTestsSelected
  <2>8. QED
    BY <1>1, <2>4, <2>6, <2>7
<1>10. CASE Finish
  <2>1. /\ phase = "neighbours" /\ phase' = "done"
        /\ stack = <<>> /\ owed = {} /\ pending = {}
        /\ round2' = {t \in round2 : \A u \in round1 : RunId[t] # RunId[u]}
        /\ UNCHANGED <<input, pending, owed, stack, tests, round1>>
    BY <1>10 DEF Finish, Idle
  <2>2. /\ ChangedNodes' = ChangedNodes
        /\ \A n : LinkedToChange(n)' = LinkedToChange(n)
        /\ \A n : Neighbours(n)' = Neighbours(n)
        /\ \A n : Linked(n)' = Linked(n)
    BY <2>1, InputFixed
  <2>3. RunIds(round1 \cup round2) \subseteq RunIds(round1 \cup round2')
    BY <2>1 DEF RunIds
  <2>4. ASSUME NEW c \in ChangedNodes
        PROVE  /\ RunIds(LinkedToChange(c)) \subseteq RunIds(round1)
               /\ \A n \in Neighbours(c) :
                    RunIds(Linked(n)) \subseteq RunIds(round1 \cup round2')
    <3>1. LinkedToChange(c) \subseteq round1
      BY <2>1 DEF NeighboursSeen
    <3>2. ASSUME NEW n \in Neighbours(c)
          PROVE  Linked(n) \subseteq round1 \cup round2
      <4>1. n \in Id /\ Seen(<<n, TRUE>>)
        BY <2>1, IdsAreTyped DEF NeighboursSeen, Neighbours
      <4>2. QED
        BY <2>1, <4>1, SeenIsSelected
    <3>3. QED
      BY <3>1, <3>2, <2>3 DEF RunIds
  <2>5. LinkedTestsSelected'
    BY <2>1, <2>2, <2>4 DEF LinkedTestsSelected, RunIds
  <2>6. MemoPassed' /\ StackPassed' /\ ChangedSeen' /\ NeighboursSeen'
    BY <2>1 DEF MemoPassed, StackPassed, ChangedSeen, NeighboursSeen
  <2>7. DoneIsIdle'
    BY <2>1 DEF DoneIsIdle, Idle
  <2>8. QED
    BY <1>1, <2>5, <2>6, <2>7
<1>11. QED
  BY <1>2, <1>3, <1>4, <1>5, <1>6, <1>7, <1>8, <1>9, <1>10
  DEF Next, Work, Done

\* For every graph, change and order of the work, Round 1 has every test linked
\* to a changed node and the two rounds every test linked to a neighbour
\* (rounds.go: Rounds, walk).
THEOREM LinkedTestsAreSelected == Spec => []LinkedTestsSelected
<1>1. Init => IInv
  BY IInvHolds
<1>2. IInv /\ [Next]_vars => IInv'
  BY IInvKept
<1>3. IInv => LinkedTestsSelected
  BY DEF IInv
<1>4. QED
  BY <1>1, <1>2, <1>3, PTL DEF Spec

-----------------------------------------------------------------------------
(* What a walk of a key may find *)

\* The nodes a key stands for, and the helpers behind them.
Reach(k) == {k[1]} \cup (IF Hop(k) THEN Loaders(k[1]) ELSE {})
WaysOf(k) == UNION {{m} \cup Behind(m) : m \in Reach(k)}

\* The tests that name nodes, and the files of the helpers among them.
NamingOf(S) == UNION {Naming(m) : m \in S}
FilesOf(S) == {WholeFile[FileOf[h]] : h \in S \cap Helper}

Allowed(k) == NamingOf(WaysOf(k)) \cup FilesOf(WaysOf(k))

\* testsOf may find a node's linked tests and the files on the way to it.
LEMMA AllowedIsLinked ==
  ASSUME NEW n
  PROVE  /\ WaysOf(<<n, TRUE>>) = Ways(n)
         /\ Allowed(<<n, TRUE>>) = Linked(n) \cup FilesOnTheWay(n)
<1> DEFINE k == <<n, TRUE>>
<1>1. k[1] = n /\ k[2] = TRUE
  OBVIOUS
<1>2. Reach(k) = {n} \cup Loaders(n)
  BY <1>1 DEF Reach, Hop, Loaders
<1>3. WaysOf(k) = Ways(n)
  BY <1>2 DEF WaysOf, Ways
<1>4. NamingOf(Ways(n)) = Linked(n)
  BY DEF NamingOf, Ways, Linked, NamingOrBehind
<1>5. FilesOf(Ways(n)) = FilesOnTheWay(n)
  BY DEF FilesOf, FilesOnTheWay
<1>6. QED
  BY <1>3, <1>4, <1>5 DEF Allowed

\* The helpers behind a helper that calls n are behind n.
LEMMA BehindIsClosed ==
  ASSUME NEW n, NEW h \in HelperCallers(n)
  PROVE  {h} \cup Behind(h) \subseteq Behind(n)
<1>1. h \in Helper
  BY DEF HelperCallers
<1>2. h \in Behind(n)
  BY <1>1 DEF Behind
<1>3. Behind(h) \subseteq Behind(n)
  BY DEF Behind
<1>4. QED
  BY <1>2, <1>3

\* A helper only helpers call, or nobody, has none behind it.
LEMMA NoneBehind ==
  ASSUME NEW n, HelperCallers(n) = {} PROVE Behind(n) = {}
BY DEF Behind

\* What an edge leads walk to is on the way to where the edge ends.
LEMMA EdgeStaysOnTheWay ==
  ASSUME NEW k \in Key, NEW e \in In(k[1]), NEW j \in EdgeWalk(k, e)
  PROVE  WaysOf(j) \subseteq WaysOf(k) /\ Allowed(j) \subseteq Allowed(k)
<1>1. k[1] \in Reach(k)
  BY DEF Reach
<1>2. WaysOf(j) \subseteq WaysOf(k)
  <2>1. CASE KindOf[e.from] = "helper" /\ j = <<e.from, Hop(k)>>
    <3>1. e.from \in Helper /\ e.from \in HelperCallers(k[1])
      BY <2>1, EdgeWalkIs DEF Helper, HelperCallers
    <3>2. j[1] = e.from /\ ~ Hop(j)
      BY <2>1 DEF Hop
    <3>3. WaysOf(j) = {e.from} \cup Behind(e.from)
      BY <3>2 DEF WaysOf, Reach
    <3>4. WaysOf(j) \subseteq Behind(k[1])
      BY <3>1, <3>3, BehindIsClosed
    <3>5. QED
      BY <1>1, <3>4 DEF WaysOf
  <2>2. CASE /\ e.from \in Node /\ KindOf[e.from] \notin {"test", "helper"}
             /\ ~ StandsForTests(e.from)
             /\ Hop(k) /\ e.rel = "references" /\ j = <<e.from, FALSE>>
    <3>1. e.from \in Loaders(k[1])
      BY <2>2 DEF Hop, Loaders, StandsForTests
    <3>2. j[1] = e.from /\ ~ Hop(j)
      BY <2>2 DEF Hop
    <3>3. WaysOf(j) = {e.from} \cup Behind(e.from)
      BY <3>2 DEF WaysOf, Reach
    <3>4. e.from \in Reach(k)
      BY <3>1, <2>2 DEF Reach
    <3>5. QED
      BY <3>3, <3>4 DEF WaysOf
  <2>3. QED
    BY <2>1, <2>2, EdgeWalkIs, Zenon
<1>3. QED
  BY <1>2 DEF Allowed, NamingOf, FilesOf

\* The tests an edge names are those that name the node it ends in.
LEMMA EdgeTestsName ==
  ASSUME NEW k, NEW e \in In(k[1])
  PROVE  EdgeTests(e) \subseteq Naming(k[1]) /\ EdgeTests(e) \subseteq Allowed(k)
<1>1. EdgeTests(e) \subseteq Naming(k[1])
  BY DEF EdgeTests, Naming, TestsIn, StandsForTests, FileNodes
<1>2. k[1] \in WaysOf(k)
  BY DEF WaysOf, Reach
<1>3. QED
  BY <1>1, <1>2 DEF Allowed, NamingOf

\* A test that names a node is one an edge into it names.
LEMMA NamingIsEdgeTests ==
  ASSUME NEW n, \A e \in In(n) : EdgeTests(e) = {} PROVE Naming(n) = {}
<1> SUFFICES ASSUME NEW t \in Naming(n) PROVE FALSE
  OBVIOUS
<1>1. PICK e \in In(n) : e.from = t \/ e.from \in FileNodes(FileOf[t])
  BY DEF Naming
<1>2. t \in Node /\ KindOf[t] = "test" /\ t \in TestsIn(FileOf[t])
  BY DEF Naming, TestsIn
<1>3. t \in EdgeTests(e)
  BY <1>1, <1>2 DEF EdgeTests, FileNodes, StandsForTests
<1>4. QED
  BY <1>3

\* A helper's own file is on its way.
LEMMA FallbackIsAllowed ==
  ASSUME NEW k, NEW out, out \subseteq Allowed(k),
         KindOf[k[1]] = "helper" => k[1] \in Node
  PROVE  WithFallback(k, out) \subseteq Allowed(k)
<1>1. k[1] \in WaysOf(k)
  BY DEF WaysOf, Reach
<1>2. CASE KindOf[k[1]] = "helper"
  <2>1. k[1] \in WaysOf(k) \cap Helper
    BY <1>1, <1>2 DEF Helper
  <2>2. WholeFile[FileOf[k[1]]] \in Allowed(k)
    BY <2>1 DEF Allowed, FilesOf
  <2>3. QED
    BY <2>2 DEF WithFallback
<1>3. QED
  BY <1>2 DEF WithFallback

\* No step moves what a walk may find.
LEMMA AllowedFixed ==
  ASSUME UNCHANGED input
  PROVE  /\ \A k : Allowed(k)' = Allowed(k)
         /\ \A n : Ways(n)' = Ways(n)
         /\ \A n : ExplainedTests(n)' = ExplainedTests(n)
<1>1. \A n : In(n)' = In(n)
  BY InputFixed
<1>2. \A n : Naming(n)' = Naming(n) /\ HelperCallers(n)' = HelperCallers(n)
  BY <1>1 DEF Naming, HelperCallers
<1>3. \A n : Behind(n)' = Behind(n)
  BY <1>2 DEF Behind
<1>4. \A n : Loaders(n)' = Loaders(n)
  BY <1>1 DEF Loaders
<1>5. \A k : WaysOf(k)' = WaysOf(k)
  BY <1>3, <1>4 DEF WaysOf, Reach
<1>6. \A k : Allowed(k)' = Allowed(k)
  BY <1>2, <1>5 DEF Allowed, NamingOf, FilesOf
<1>7. \A n : Ways(n)' = Ways(n)
  BY <1>3, <1>4 DEF Ways
<1>8. \A n : ExplainedTests(n)' = ExplainedTests(n)
  BY DEF ExplainedTests, input
<1>9. QED
  BY <1>6, <1>7, <1>8

-----------------------------------------------------------------------------
(* What a step does to the stack *)

\* Taking an edge touches the innermost activation only.
LEMMA TakeEdgeIs ==
  ASSUME TypeOK, NEW e \in graph, TakeEdge(e)
  PROVE  /\ DOMAIN stack' = DOMAIN stack
         /\ \A i \in DOMAIN stack : stack'[i].key = stack[i].key
         /\ \A i \in DOMAIN stack \ {Depth} : stack'[i] = stack[i]
         /\ stack'[Depth].todo = Current.todo \ {e}
         /\ stack'[Depth].out =
              Current.out \cup EdgeTests(e)
                \cup (UNION {Known(k) : k \in EdgeWalk(Current.key, e)})
BY CurrentIsTyped DEF TakeEdge, Current, TypeOK, Frame

\* Descending leaves an edge of the innermost activation and adds another.
LEMMA DescendIs ==
  ASSUME TypeOK, NEW e \in graph, NEW c \in Key, Descend(e, c)
  PROVE  /\ DOMAIN stack' = 1..(Depth + 1)
         /\ \A i \in DOMAIN stack :
              stack'[i].key = stack[i].key /\ stack'[i].out = stack[i].out
         /\ \A i \in DOMAIN stack \ {Depth} : stack'[i] = stack[i]
         /\ stack'[Depth].todo = Current.todo \ {e}
         /\ stack'[Depth + 1] = Activation(c)
<1>1. /\ stack # <<>>
      /\ stack' = Append([stack EXCEPT ![Depth].todo = @ \ {e}], Activation(c))
  BY DEF Descend
<1>2. QED
  BY <1>1, CurrentIsTyped DEF Current, TypeOK, Frame

\* A return fills the memo and drops the innermost activation.
LEMMA ReturnIs ==
  ASSUME TypeOK, Return, NEW out, out = WithFallback(Current.key, Current.out)
  PROVE  /\ out \in SUBSET Id /\ Current.out \subseteq out
         /\ tests'[Current.key] = out
         /\ \A j \in Key \ {Current.key} : tests'[j] = tests[j]
         /\ DOMAIN stack' = 1..(Depth - 1)
         /\ \A i \in 1..(Depth - 1) :
              stack'[i].key = stack[i].key /\ stack'[i].todo = stack[i].todo
         /\ \A i \in 1..(Depth - 1) : i # Depth - 1 => stack'[i] = stack[i]
         /\ Depth = 1 => stack' = <<>> /\ Select(out)
         /\ Depth > 1 => /\ stack'[Depth - 1].out = stack[Depth - 1].out \cup out
                         /\ UNCHANGED <<round1, round2>>
<1> DEFINE callers == SubSeq(stack, 1, Depth - 1)
<1>1. /\ stack # <<>>
      /\ tests' = [tests EXCEPT ![Current.key] = out]
      /\ IF callers = <<>>
           THEN stack' = <<>> /\ Select(out)
           ELSE /\ stack' = [callers EXCEPT ![Depth - 1].out = @ \cup out]
                /\ UNCHANGED <<round1, round2>>
  BY DEF Return
<1>2. /\ Depth \in Nat \ {0} /\ DOMAIN stack = 1..Depth /\ Current.key \in Key
      /\ Current.out \subseteq Id
  BY <1>1, CurrentIsTyped
<1>3. callers \in Seq(Frame) /\ DOMAIN callers = 1..(Depth - 1)
      /\ \A i \in 1..(Depth - 1) : callers[i] = stack[i]
  BY <1>2 DEF TypeOK
<1> HIDE DEF callers
<1>4. out \in SUBSET Id /\ Current.out \subseteq out
  BY <1>2, FallbackIsTyped
<1>5. tests'[Current.key] = out
      /\ \A j \in Key \ {Current.key} : tests'[j] = tests[j]
  BY <1>1, <1>2 DEF TypeOK
<1>6. CASE Depth = 1
  <2>1. callers = <<>>
    BY <1>3, <1>6
  <2>2. QED
    BY <1>1, <1>4, <1>5, <1>6, <2>1
<1>7. CASE Depth > 1
  <2>1. callers # <<>> /\ Depth - 1 \in DOMAIN callers
    BY <1>2, <1>3, <1>7
  <2>2. callers[Depth - 1] \in Frame
    BY <1>3, <2>1
  <2>3. /\ stack' = [callers EXCEPT ![Depth - 1] =
                       [callers[Depth - 1] EXCEPT !.out = @ \cup out]]
        /\ UNCHANGED <<round1, round2>>
    BY <1>1, <2>1
  <2>4. /\ DOMAIN stack' = 1..(Depth - 1)
        /\ \A i \in 1..(Depth - 1) : i # Depth - 1 => stack'[i] = stack[i]
        /\ stack'[Depth - 1] = [callers[Depth - 1] EXCEPT !.out = @ \cup out]
    BY <1>3, <2>1, <2>3
  <2>5. /\ stack'[Depth - 1].out = stack[Depth - 1].out \cup out
        /\ stack'[Depth - 1].key = stack[Depth - 1].key
        /\ stack'[Depth - 1].todo = stack[Depth - 1].todo
    BY <1>3, <2>1, <2>2, <2>4 DEF Frame
  <2>6. QED
    BY <1>4, <1>5, <1>7, <2>3, <2>4, <2>5
<1>8. QED
  BY <1>2, <1>6, <1>7
-----------------------------------------------------------------------------
(* The invariant: what walk has found lies on the way, what it has not     *)
(* found is not there                                                      *)

\* The nodes whose tests the rounds ask for.
ChangeOf == UNION {{c} \cup FileNodes(FileOf[c]) : c \in ChangedNodes}
Near == UNION {Neighbours(c) : c \in ChangedNodes}
Roots == IF phase = "changed" THEN ChangeOf ELSE Near

NoModuleCalled == \A e \in graph : KindOf[e.to] # "module"

\* No memo and no activation has what is not on the way to its node.
WalkBounded ==
  /\ \A k \in Key : tests[k] # None => tests[k] \subseteq Allowed(k)
  /\ \A i \in DOMAIN stack :
       /\ stack[i].out \subseteq Allowed(stack[i].key)
       /\ stack[i].todo \subseteq In(stack[i].key[1])
       /\ KindOf[stack[i].key[1]] = "helper" => stack[i].key[1] \in Node
       /\ i > 1 => Allowed(stack[i].key) \subseteq Allowed(stack[i - 1].key)

\* Only helpers are walked inside a walk, but for a loader of a file node,
\* and none is walked twice: the cut of a cycle is always at a helper.
StackShape ==
  \A i \in DOMAIN stack :
    /\ tests[stack[i].key] = None
    /\ \A j \in DOMAIN stack : stack[j].key = stack[i].key => j = i
    /\ i = 1 => stack[i].key[2]
    /\ i > 1 => \/ KindOf[stack[i].key[1]] = "helper"
                \/ /\ i = 2 /\ ~ stack[i].key[2]
                   /\ KindOf[stack[i - 1].key[1]] = "file"

Nothing(k, e) ==
  EdgeTests(e) = {} /\ \A j \in EdgeWalk(k, e) : tests[j] = {}

\* A memo is empty only where no edge leads to a test or a helper, and so far
\* as an activation has found nothing it has passed none.
EmptyMemo ==
  \A k \in Key : tests[k] = {} =>
    /\ KindOf[k[1]] # "helper"
    /\ \A e \in In(k[1]) : Nothing(k, e)

EmptyStack ==
  \A i \in DOMAIN stack :
    stack[i].out = {} /\ KindOf[stack[i].key[1]] # "helper" =>
      \A e \in In(stack[i].key[1]) \ stack[i].todo :
        /\ EdgeTests(e) = {}
        /\ \A j \in EdgeWalk(stack[i].key, e) :
             \/ tests[j] = {}
             \/ i + 1 \in DOMAIN stack /\ stack[i + 1].key = j

\* The rounds ask for the tests of nothing but the roots, and have nothing but
\* theirs.
Rooted ==
  /\ pending \subseteq Roots /\ owed \subseteq Roots
  /\ stack # <<>> => stack[1].key[1] \in Roots

RoundsBounded ==
  /\ \A t \in round1 :
       \/ t \in owned \/ FileOf[t] \in top
       \/ \E n \in ChangeOf : t \in Allowed(<<n, TRUE>>)
  /\ \A t \in round2 : \E n \in Near : t \in Allowed(<<n, TRUE>>)

\* What has been asked has been answered.
ChangeIsKnown ==
  phase = "neighbours" => \A n \in ChangeOf : tests[<<n, TRUE>>] # None

Exact ==
  /\ NoModuleCalled /\ WalkBounded /\ StackShape
  /\ EmptyMemo /\ EmptyStack
  /\ Rooted /\ RoundsBounded /\ ChangeIsKnown
  /\ SelectionIsExact

-----------------------------------------------------------------------------
(* What is found lies on the way *)

\* testsOf starts a walk with nothing found.
LEMMA BoundedStarts ==
  ASSUME TypeOK, WalkBounded, stack = <<>>, UNCHANGED <<input, tests>>,
         NEW n \in Id, KindOf[n] = "helper" => n \in Node, TestsOf(n)
  PROVE  WalkBounded'
<1> DEFINE k == <<n, TRUE>>
<1>1. \A j : Allowed(j)' = Allowed(j) /\ In(j)' = In(j)
  BY AllowedFixed, InputFixed
<1>2. CASE stack' = <<Activation(k)>>
  <2>1. k[1] = n
    OBVIOUS
  <2>2. /\ DOMAIN stack' = {1} /\ stack'[1].key = k
        /\ stack'[1].todo = In(n) /\ stack'[1].out = {}
    <3>1. DOMAIN stack' = {1} /\ stack'[1] = Activation(k)
      BY <1>2
    <3>2. QED
      BY <3>1, <2>1, ActivationIs
  <2>3. QED
    BY <1>1, <2>1, <2>2 DEF WalkBounded
<1>3. CASE UNCHANGED stack
  BY <1>1, <1>3 DEF WalkBounded
<1>4. QED
  BY <1>2, <1>3 DEF TestsOf

\* The tests an edge names, and what the walks it leads to found, lie on the
\* way.
LEMMA BoundedTakesEdge ==
  ASSUME TypeOK, WalkBounded, NEW e \in graph, TakeEdge(e)
  PROVE  WalkBounded'
<1> PICK k \in Key : k = Current.key
  BY CurrentIsTyped DEF TakeEdge
<1>1. UNCHANGED <<input, tests>> /\ stack # <<>> /\ e \in Current.todo
  BY DEF TakeEdge
<1>2. \A j : Allowed(j)' = Allowed(j) /\ In(j)' = In(j)
  BY <1>1, AllowedFixed, InputFixed
<1>3. Depth \in DOMAIN stack /\ stack[Depth] = Current
      /\ DOMAIN stack = 1..Depth /\ Depth \in Nat
  BY <1>1, CurrentIsTyped DEF Current
<1>4. e \in In(k[1]) /\ Current.out \subseteq Allowed(k)
      /\ Current.todo \subseteq In(k[1])
  BY <1>1, <1>3 DEF WalkBounded
<1>5. EdgeTests(e) \subseteq Allowed(k)
  BY <1>4, EdgeTestsName
<1>6. ASSUME NEW j \in EdgeWalk(k, e) PROVE Known(j) \subseteq Allowed(k)
  <2>1. j \in Key /\ Allowed(j) \subseteq Allowed(k)
    BY <1>4, EdgeStaysOnTheWay, EdgeWalkIsTyped
  <2>2. QED
    BY <2>1 DEF Known, WalkBounded
<1>7. stack'[Depth].out \subseteq Allowed(k)
  BY <1>4, <1>5, <1>6, TakeEdgeIs
<1>8. stack'[Depth].todo \subseteq In(k[1])
  BY <1>4, TakeEdgeIs
<1>9. /\ DOMAIN stack' = DOMAIN stack
      /\ \A i \in DOMAIN stack :
           /\ stack'[i].key = stack[i].key
           /\ stack'[i].out \subseteq Allowed(stack[i].key)
           /\ stack'[i].todo \subseteq In(stack[i].key[1])
  BY <1>3, <1>7, <1>8, TakeEdgeIs DEF WalkBounded
<1>10. ASSUME NEW i \in DOMAIN stack, i > 1
       PROVE  Allowed(stack'[i].key) \subseteq Allowed(stack'[i - 1].key)
  <2>1. i - 1 \in DOMAIN stack
    BY <1>3, <1>10
  <2>2. QED
    BY <1>9, <1>10, <2>1 DEF WalkBounded
<1>11. QED
  BY <1>1, <1>2, <1>9, <1>10 DEF WalkBounded

\* A walk within a walk is on the way of the one that calls it.
LEMMA BoundedDescends ==
  ASSUME TypeOK, WalkBounded, NEW e \in graph, NEW c \in Key, Descend(e, c)
  PROVE  WalkBounded'
<1> PICK k \in Key : k = Current.key
  BY CurrentIsTyped DEF Descend
<1>1. /\ UNCHANGED <<input, tests>> /\ stack # <<>> /\ e \in Current.todo
      /\ c \in EdgeWalk(k, e)
  BY DEF Descend
<1>2. \A j : Allowed(j)' = Allowed(j) /\ In(j)' = In(j)
  BY <1>1, AllowedFixed, InputFixed
<1>3. Depth \in DOMAIN stack /\ stack[Depth] = Current
      /\ DOMAIN stack = 1..Depth /\ Depth \in Nat \ {0}
  BY <1>1, CurrentIsTyped DEF Current
<1>4. e \in In(k[1]) /\ Current.todo \subseteq In(k[1])
  BY <1>1, <1>3 DEF WalkBounded
<1>5. Allowed(c) \subseteq Allowed(k)
  BY <1>1, <1>4, EdgeStaysOnTheWay
<1>6. KindOf[c[1]] = "helper" => c[1] \in Node
  <2>1. e.from \in Node /\ (c = <<e.from, Hop(k)>> \/ c = <<e.from, FALSE>>)
    BY <1>1, EdgeWalkIs
  <2>2. \A a, b : <<a, b>>[1] = a
    OBVIOUS
  <2>3. QED
    BY <2>1, <2>2
<1>7. /\ stack'[Depth + 1].key = c /\ stack'[Depth + 1].todo = In(c[1])
      /\ stack'[Depth + 1].out = {}
  BY DescendIs, ActivationIs
<1>8. /\ \A i \in DOMAIN stack :
           /\ stack'[i].key = stack[i].key
           /\ stack'[i].out \subseteq Allowed(stack[i].key)
           /\ stack'[i].todo \subseteq In(stack[i].key[1])
      /\ DOMAIN stack' = 1..(Depth + 1)
  BY <1>3, <1>4, DescendIs DEF WalkBounded
<1>9. ASSUME NEW i \in DOMAIN stack'
      PROVE  /\ stack'[i].out \subseteq Allowed(stack'[i].key)
             /\ stack'[i].todo \subseteq In(stack'[i].key[1])
             /\ KindOf[stack'[i].key[1]] = "helper" => stack'[i].key[1] \in Node
             /\ i > 1 =>
                  Allowed(stack'[i].key) \subseteq Allowed(stack'[i - 1].key)
  <2>1. CASE i = Depth + 1
    <3>1. stack'[i - 1].key = k
      BY <2>1, <1>3, <1>8
    <3>2. QED
      BY <2>1, <3>1, <1>5, <1>6, <1>7
  <2>2. CASE i \in DOMAIN stack
    <3>1. i > 1 => i - 1 \in DOMAIN stack
      BY <2>2, <1>3
    <3>2. QED
      BY <2>2, <3>1, <1>8 DEF WalkBounded
  <2>3. QED
    BY <2>1, <2>2, <1>3, <1>8
<1>10. QED
  BY <1>1, <1>2, <1>9 DEF WalkBounded

\* A return hands its caller what was on the caller's way.
LEMMA BoundedReturns ==
  ASSUME TypeOK, WalkBounded, Return
  PROVE  /\ WalkBounded'
         /\ WithFallback(Current.key, Current.out) \subseteq Allowed(Current.key)
<1> PICK k \in Key : k = Current.key
  BY CurrentIsTyped DEF Return
<1> PICK out : out = WithFallback(Current.key, Current.out)
  OBVIOUS
<1>1. UNCHANGED input /\ stack # <<>>
  BY DEF Return
<1>2. \A j : Allowed(j)' = Allowed(j) /\ In(j)' = In(j)
  BY <1>1, AllowedFixed, InputFixed
<1>3. Depth \in DOMAIN stack /\ stack[Depth] = Current
      /\ DOMAIN stack = 1..Depth /\ Depth \in Nat \ {0}
  BY <1>1, CurrentIsTyped DEF Current
<1>4. out \subseteq Allowed(k)
  <2>1. Current.out \subseteq Allowed(k)
        /\ (KindOf[k[1]] = "helper" => k[1] \in Node)
    BY <1>3 DEF WalkBounded
  <2>2. QED
    BY <2>1, FallbackIsAllowed
<1>5. \A j \in Key : tests'[j] # None => tests'[j] \subseteq Allowed(j)
  BY <1>4, ReturnIs DEF WalkBounded
<1>6. ASSUME NEW i \in DOMAIN stack'
      PROVE  /\ stack'[i].out \subseteq Allowed(stack'[i].key)
             /\ stack'[i].todo \subseteq In(stack'[i].key[1])
             /\ KindOf[stack'[i].key[1]] = "helper" => stack'[i].key[1] \in Node
             /\ i > 1 =>
                  Allowed(stack'[i].key) \subseteq Allowed(stack'[i - 1].key)
  <2>1. i \in 1..(Depth - 1) /\ i \in DOMAIN stack
        /\ stack'[i].key = stack[i].key /\ stack'[i].todo = stack[i].todo
    BY <1>3, ReturnIs
  <2>2. stack'[i].out \subseteq Allowed(stack[i].key)
    <3>1. CASE i = Depth - 1
      <4>1. Depth > 1 /\ Depth - 1 = i
        BY <3>1, <2>1, <1>3
      <4>2. stack'[i].out = stack[i].out \cup out
        BY <4>1, ReturnIs
      <4>3. Allowed(k) \subseteq Allowed(stack[i].key)
        BY <4>1, <1>3 DEF WalkBounded
      <4>4. QED
        BY <2>1, <4>2, <4>3, <1>4 DEF WalkBounded
    <3>2. CASE i # Depth - 1
      BY <3>2, <2>1, ReturnIs DEF WalkBounded
    <3>3. QED
      BY <3>1, <3>2
  <2>3. i > 1 => stack'[i - 1].key = stack[i - 1].key
    <3>1. i > 1 => i - 1 \in 1..(Depth - 1)
      BY <2>1, <1>3
    <3>2. QED
      BY <3>1, ReturnIs
  <2>4. QED
    BY <2>1, <2>2, <2>3 DEF WalkBounded
<1>7. QED
  BY <1>2, <1>4, <1>5, <1>6 DEF WalkBounded

-----------------------------------------------------------------------------
(* Only helpers are walked within a walk *)

\* A root is walked by itself, and only if it has no memo.
LEMMA ShapeStarts ==
  ASSUME StackShape, stack = <<>>, UNCHANGED tests, NEW n, TestsOf(n)
  PROVE  StackShape'
<1> DEFINE k == <<n, TRUE>>
<1>1. CASE NeedsWalk(k)
  <2>1. /\ stack' = <<Activation(k)>> /\ tests[k] = None
    BY <1>1 DEF TestsOf, NeedsWalk
  <2>2. DOMAIN stack' = {1} /\ stack'[1] = Activation(k)
    BY <2>1
  <2>3. k[2] = TRUE
    OBVIOUS
  <2>4. stack'[1].key = k
    BY <2>2, ActivationIs
  <2>5. tests'[stack'[1].key] = None /\ stack'[1].key[2]
    BY <2>1, <2>3, <2>4
  <2>6. QED
    BY <2>2, <2>5 DEF StackShape
<1>2. CASE UNCHANGED stack
  BY <1>2 DEF StackShape
<1>3. QED
  BY <1>1, <1>2 DEF TestsOf

\* Taking an edge starts and ends no walk.
LEMMA ShapeTakesEdge ==
  ASSUME TypeOK, StackShape, NEW e \in graph, TakeEdge(e) PROVE StackShape'
<1>1. UNCHANGED tests
  BY DEF TakeEdge
<1>2. DOMAIN stack' = DOMAIN stack
      /\ \A i \in DOMAIN stack : stack'[i].key = stack[i].key
  BY TakeEdgeIs
<1>3. \A i \in DOMAIN stack : i > 1 => i - 1 \in DOMAIN stack
  BY DEF TypeOK
<1>4. QED
  BY <1>1, <1>2, <1>3 DEF StackShape

\* A walk within a walk is a helper's, but a file node's walk may be its
\* loader's, once.
LEMMA ShapeDescends ==
  ASSUME TypeOK, StackShape, NEW e \in graph, NEW c \in Key, Descend(e, c)
  PROVE  StackShape'
<1> PICK k \in Key : k = Current.key
  BY CurrentIsTyped DEF Descend
<1>1. /\ UNCHANGED tests /\ stack # <<>>
      /\ c \in EdgeWalk(k, e) /\ tests[c] = None /\ ~ Walking(c)
  BY DEF Descend, NeedsWalk
<1>2. Depth \in DOMAIN stack /\ stack[Depth] = Current
      /\ DOMAIN stack = 1..Depth /\ Depth \in Nat \ {0}
  BY <1>1, CurrentIsTyped DEF Current
<1>3. /\ DOMAIN stack' = 1..(Depth + 1)
      /\ \A i \in DOMAIN stack : stack'[i].key = stack[i].key
      /\ stack'[Depth + 1].key = c
  BY DescendIs, ActivationIs
<1>4. KindOf[c[1]] = "helper" \/ (Depth = 1 /\ ~ c[2] /\ KindOf[k[1]] = "file")
  <2>1. CASE KindOf[e.from] = "helper" /\ c = <<e.from, Hop(k)>>
    <3>1. c[1] = e.from
      BY <2>1
    <3>2. QED
      BY <2>1, <3>1
  <2>2. CASE Hop(k) /\ c = <<e.from, FALSE>>
    <3>1. ~ c[2] /\ k[2] /\ KindOf[k[1]] = "file"
      BY <2>2 DEF Hop
    <3>2. Depth > 1 => FALSE
      BY <3>1, <1>2 DEF StackShape
    <3>3. QED
      BY <3>1, <3>2, <1>2
  <2>3. QED
    BY <2>1, <2>2, <1>1, EdgeWalkIs, Zenon
<1>5. \A i \in DOMAIN stack : stack[i].key # c
  BY <1>1 DEF Walking
<1>6. ASSUME NEW i \in DOMAIN stack'
      PROVE  /\ tests[stack'[i].key] = None
             /\ \A j \in DOMAIN stack' :
                  stack'[j].key = stack'[i].key => j = i
             /\ i = 1 => stack'[i].key[2]
             /\ i > 1 => \/ KindOf[stack'[i].key[1]] = "helper"
                         \/ /\ i = 2 /\ ~ stack'[i].key[2]
                            /\ KindOf[stack'[i - 1].key[1]] = "file"
  <2>1. CASE i = Depth + 1
    <3>1. stack'[i - 1].key = k
      BY <2>1, <1>2, <1>3
    <3>2. \A j \in DOMAIN stack' : j # i => j \in DOMAIN stack
      BY <2>1, <1>2, <1>3
    <3>3. QED
      BY <2>1, <3>1, <3>2, <1>1, <1>2, <1>3, <1>4, <1>5
  <2>2. CASE i \in DOMAIN stack
    <3>1. i > 1 => i - 1 \in DOMAIN stack
      BY <2>2, <1>2
    <3>2. \A j \in DOMAIN stack' : j = Depth + 1 \/ j \in DOMAIN stack
      BY <1>2, <1>3
    <3>3. QED
      BY <2>2, <3>1, <3>2, <1>3, <1>5 DEF StackShape
  <2>3. QED
    BY <2>1, <2>2, <1>2, <1>3
<1>7. QED
  BY <1>1, <1>6 DEF StackShape

\* A return gives a memo to no key that is still being walked.
LEMMA ShapeReturns ==
  ASSUME TypeOK, StackShape, Return PROVE StackShape'
<1> PICK k \in Key : k = Current.key
  BY CurrentIsTyped DEF Return
<1>1. /\ Depth \in DOMAIN stack /\ stack[Depth] = Current
      /\ DOMAIN stack = 1..Depth /\ Depth \in Nat \ {0}
      /\ \A i \in DOMAIN stack : stack[i].key \in Key
  <2>1. stack # <<>>
    BY DEF Return
  <2>2. \A i \in DOMAIN stack : stack[i].key \in Key
    <3>1. \A i \in DOMAIN stack : stack[i] \in Frame
      BY DEF TypeOK
    <3>2. QED
      BY <3>1 DEF Frame
  <2>3. QED
    BY <2>1, <2>2, CurrentIsTyped DEF Current
<1>2. /\ DOMAIN stack' = 1..(Depth - 1)
      /\ \A i \in 1..(Depth - 1) : stack'[i].key = stack[i].key
      /\ \A j \in Key \ {k} : tests'[j] = tests[j]
  BY ReturnIs
<1>3. ASSUME NEW i \in DOMAIN stack'
      PROVE  /\ i \in DOMAIN stack /\ stack'[i].key = stack[i].key
             /\ tests'[stack[i].key] = tests[stack[i].key]
             /\ i > 1 => stack'[i - 1].key = stack[i - 1].key
  <2>1. i \in DOMAIN stack /\ i # Depth /\ stack'[i].key = stack[i].key
    BY <1>1, <1>2
  <2>2. stack[i].key # k
    BY <2>1, <1>1 DEF StackShape
  <2>3. i > 1 => i - 1 \in 1..(Depth - 1)
    BY <1>1, <1>2
  <2>4. QED
    BY <2>1, <2>2, <2>3, <1>1, <1>2
<1>4. QED
  BY <1>3 DEF StackShape

\* So a walk that is no helper's takes no edge to a node being walked.
LEMMA CutAtHelpers ==
  ASSUME TypeOK, StackShape, stack # <<>>, NEW k, k = Current.key,
         KindOf[k[1]] # "helper",
         NEW e, NEW j \in EdgeWalk(k, e), ~ NeedsWalk(j)
  PROVE  tests[j] # None
<1> SUFFICES ASSUME Walking(j) PROVE FALSE
  BY DEF NeedsWalk
<1>1. PICK i \in DOMAIN stack : stack[i].key = j
  BY DEF Walking
<1>2. Depth \in DOMAIN stack /\ stack[Depth] = Current
      /\ DOMAIN stack = 1..Depth /\ Depth \in Nat \ {0}
  BY CurrentIsTyped DEF Current
<1>3. CASE Depth = 1
  <2>1. j = k /\ k[2]
    BY <1>1, <1>2, <1>3 DEF StackShape
  <2>2. CASE KindOf[e.from] = "helper" /\ j = <<e.from, Hop(k)>>
    <3>1. j[1] = e.from
      BY <2>2
    <3>2. QED
      BY <2>1, <2>2, <3>1
  <2>3. CASE j = <<e.from, FALSE>>
    <3>1. ~ j[2]
      BY <2>3
    <3>2. QED
      BY <2>1, <3>1
  <2>4. QED
    BY <2>2, <2>3, EdgeWalkIs, Zenon
<1>4. CASE Depth > 1
  <2>1. Depth = 2 /\ ~ k[2] /\ KindOf[stack[1].key[1]] = "file"
    BY <1>2, <1>4 DEF StackShape
  <2>2. ~ Hop(k)
    BY <2>1 DEF Hop
  <2>3. KindOf[e.from] = "helper" /\ j = <<e.from, Hop(k)>>
    BY <2>2, EdgeWalkIs, Zenon
  <2>4. j[1] = e.from
    BY <2>3
  <2>5. i = 1 \/ i = 2
    BY <1>2, <2>1
  <2>6. QED
    BY <1>1, <1>2, <2>1, <2>3, <2>4, <2>5
<1>5. QED
  BY <1>2, <1>3, <1>4

-----------------------------------------------------------------------------
(* What walk has not found is not there *)

\* A walk starts with no edge passed.
LEMMA EmptyStarts ==
  ASSUME EmptyMemo, UNCHANGED <<input, tests>>, stack = <<>>,
         NEW n, TestsOf(n)
  PROVE  EmptyMemo' /\ EmptyStack'
<1> DEFINE k == <<n, TRUE>>
<1>1. \A j : In(j)' = In(j)
  BY InputFixed
<1>2. EmptyMemo'
  BY <1>1 DEF EmptyMemo, Nothing
<1>3. CASE stack' = <<Activation(k)>>
  <2>1. DOMAIN stack' = {1} /\ stack'[1] = Activation(k)
    BY <1>3
  <2>2. stack'[1].key = k /\ stack'[1].todo = In(k[1])
    BY <2>1, ActivationIs
  <2>3. \A i \in DOMAIN stack' : In(stack'[i].key[1]) \ stack'[i].todo = {}
    BY <2>1, <2>2
  <2>4. EmptyStack'
    BY <2>3, <1>1 DEF EmptyStack
  <2>5. QED
    BY <1>2, <2>4
<1>4. CASE UNCHANGED stack
  BY <1>2, <1>4 DEF EmptyStack
<1>5. QED
  BY <1>3, <1>4 DEF TestsOf

\* While nothing is found, nothing was there: a walk that is no helper's is
\* never cut short.
LEMMA EmptyTakesEdge ==
  ASSUME TypeOK, StackShape, EmptyMemo, EmptyStack,
         NEW e \in graph, TakeEdge(e)
  PROVE  EmptyMemo' /\ EmptyStack'
<1> PICK k \in Key : k = Current.key
  BY CurrentIsTyped DEF TakeEdge
<1>1. /\ UNCHANGED <<input, tests>> /\ stack # <<>>
      /\ \A j \in EdgeWalk(k, e) : ~ NeedsWalk(j)
  BY DEF TakeEdge
<1>2. \A j : In(j)' = In(j)
  BY <1>1, InputFixed
<1>3. Depth \in DOMAIN stack /\ stack[Depth] = Current
      /\ DOMAIN stack = 1..Depth /\ Depth \in Nat \ {0}
  BY <1>1, CurrentIsTyped DEF Current
<1>4. EmptyMemo'
  BY <1>1, <1>2 DEF EmptyMemo, Nothing
<1>5. ASSUME NEW i \in DOMAIN stack', stack'[i].out = {},
             KindOf[stack'[i].key[1]] # "helper",
             NEW d \in In(stack'[i].key[1]) \ stack'[i].todo
      PROVE  /\ EdgeTests(d) = {}
             /\ \A j \in EdgeWalk(stack'[i].key, d) :
                  \/ tests[j] = {}
                  \/ i + 1 \in DOMAIN stack' /\ stack'[i + 1].key = j
  <2>1. i \in DOMAIN stack /\ stack'[i].key = stack[i].key
        /\ DOMAIN stack' = DOMAIN stack
        /\ (i + 1 \in DOMAIN stack => stack'[i + 1].key = stack[i + 1].key)
    BY <1>5, TakeEdgeIs
  <2>2. stack[i].out = {}
    BY <2>1, <1>3, <1>5, TakeEdgeIs
  <2>3. CASE d \notin stack[i].todo
    BY <2>1, <2>2, <2>3, <1>5 DEF EmptyStack
  <2>4. CASE d \in stack[i].todo
    <3>1. i = Depth /\ d = e /\ stack[i].key = k
      BY <2>1, <2>4, <1>3, <1>5, TakeEdgeIs
    <3>2. EdgeTests(e) = {} /\ \A j \in EdgeWalk(k, e) : Known(j) = {}
      BY <3>1, <1>5, TakeEdgeIs
    <3>3. \A j \in EdgeWalk(k, e) : tests[j] # None
      BY <3>1, <2>1, <1>1, <1>5, CutAtHelpers
    <3>4. \A j \in EdgeWalk(k, e) : tests[j] = {}
      BY <3>2, <3>3 DEF Known
    <3>5. QED
      BY <2>1, <3>1, <3>2, <3>4
  <2>5. QED
    BY <2>3, <2>4
<1>6. EmptyStack'
  BY <1>1, <1>2, <1>5 DEF EmptyStack
<1>7. QED
  BY <1>4, <1>6

\* The edge walk descends by names no test, and its key is being walked.
LEMMA EmptyDescends ==
  ASSUME TypeOK, EmptyMemo, EmptyStack,
         NEW e \in graph, NEW c \in Key, Descend(e, c)
  PROVE  EmptyMemo' /\ EmptyStack'
<1> PICK k \in Key : k = Current.key
  BY CurrentIsTyped DEF Descend
<1>1. /\ UNCHANGED <<input, tests>> /\ stack # <<>> /\ c \in EdgeWalk(k, e)
  BY DEF Descend
<1>2. \A j : In(j)' = In(j)
  BY <1>1, InputFixed
<1>3. Depth \in DOMAIN stack /\ stack[Depth] = Current
      /\ DOMAIN stack = 1..Depth /\ Depth \in Nat \ {0}
  BY <1>1, CurrentIsTyped DEF Current
<1>4. /\ DOMAIN stack' = 1..(Depth + 1)
      /\ stack'[Depth + 1].key = c /\ stack'[Depth + 1].todo = In(c[1])
  BY DescendIs, ActivationIs
<1>5. EmptyMemo'
  BY <1>1, <1>2 DEF EmptyMemo, Nothing
<1>6. ASSUME NEW i \in DOMAIN stack', stack'[i].out = {},
             KindOf[stack'[i].key[1]] # "helper",
             NEW d \in In(stack'[i].key[1]) \ stack'[i].todo
      PROVE  /\ EdgeTests(d) = {}
             /\ \A j \in EdgeWalk(stack'[i].key, d) :
                  \/ tests[j] = {}
                  \/ i + 1 \in DOMAIN stack' /\ stack'[i + 1].key = j
  <2>1. i \in DOMAIN stack
    BY <1>3, <1>4, <1>6
  <2>2. stack'[i].key = stack[i].key /\ stack'[i].out = stack[i].out
        /\ (i + 1 \in DOMAIN stack => stack'[i + 1].key = stack[i + 1].key)
    BY <2>1, DescendIs
  <2>3. CASE d \notin stack[i].todo
    <3>1. /\ EdgeTests(d) = {}
          /\ \A j \in EdgeWalk(stack[i].key, d) :
               \/ tests[j] = {}
               \/ i + 1 \in DOMAIN stack /\ stack[i + 1].key = j
      BY <2>1, <2>2, <2>3, <1>6 DEF EmptyStack
    <3>2. i + 1 \in DOMAIN stack => i + 1 \in DOMAIN stack'
      BY <1>3, <1>4
    <3>3. QED
      BY <2>2, <3>1, <3>2
  <2>4. CASE d \in stack[i].todo
    <3>1. i = Depth /\ d = e /\ stack[i].key = k
      BY <2>1, <2>4, <1>3, <1>6, DescendIs
    <3>2. EdgeTests(e) = {} /\ EdgeWalk(k, e) = {c}
      BY <1>1, DescendingEdge
    <3>3. QED
      BY <2>2, <3>1, <3>2, <1>3, <1>4
  <2>5. QED
    BY <2>3, <2>4
<1>7. EmptyStack'
  BY <1>1, <1>2, <1>6 DEF EmptyStack
<1>8. QED
  BY <1>5, <1>7

\* A return of nothing leaves nothing to be found by its edges.
LEMMA EmptyReturns ==
  ASSUME TypeOK, StackShape, EmptyMemo, EmptyStack, Return
  PROVE  EmptyMemo' /\ EmptyStack'
<1> PICK k \in Key : k = Current.key
  BY CurrentIsTyped DEF Return
<1> PICK out : out = WithFallback(Current.key, Current.out)
  OBVIOUS
<1>1. UNCHANGED input /\ stack # <<>> /\ Current.todo = {}
  BY DEF Return
<1>2. \A j : In(j)' = In(j)
  BY <1>1, InputFixed
<1>3. Depth \in DOMAIN stack /\ stack[Depth] = Current
      /\ DOMAIN stack = 1..Depth /\ Depth \in Nat \ {0}
  BY <1>1, CurrentIsTyped DEF Current
<1>4. tests[k] = None /\ None # {}
  BY <1>3, IdsAreTyped DEF StackShape
<1>5. /\ tests'[k] = out /\ Current.out \subseteq out
      /\ \A j \in Key \ {k} : tests'[j] = tests[j]
      /\ DOMAIN stack' = 1..(Depth - 1)
  BY ReturnIs
<1>6. \A j \in Key : tests[j] = {} => tests'[j] = {}
  BY <1>4, <1>5
<1>7. ASSUME out = {}
      PROVE  /\ KindOf[k[1]] # "helper"
             /\ \A e \in In(k[1]) : Nothing(k, e)
  <2>1. KindOf[k[1]] # "helper" /\ Current.out = {}
    BY <1>5, <1>7 DEF WithFallback
  <2>2. ASSUME NEW e \in In(k[1]) PROVE Nothing(k, e)
    <3>1. /\ EdgeTests(e) = {}
          /\ \A j \in EdgeWalk(k, e) :
               tests[j] = {} \/ Depth + 1 \in DOMAIN stack
      BY <2>1, <1>1, <1>3 DEF EmptyStack
    <3>2. Depth + 1 \notin DOMAIN stack
      BY <1>3
    <3>3. QED
      BY <3>1, <3>2 DEF Nothing
  <2>3. QED
    BY <2>1, <2>2
<1>8. ASSUME NEW j \in Key, tests'[j] = {}
      PROVE  KindOf[j[1]] # "helper" /\ \A e \in In(j[1]) : Nothing(j, e)
  BY <1>5, <1>7, <1>8 DEF EmptyMemo
<1>9. ASSUME NEW j \in Key, NEW e, Nothing(j, e) PROVE Nothing(j, e)'
  <2>1. EdgeWalk(j, e) \subseteq Key
    BY EdgeWalkIsTyped
  <2>2. QED
    BY <2>1, <1>6, <1>9 DEF Nothing
<1>10. EmptyMemo'
  BY <1>2, <1>8, <1>9 DEF EmptyMemo
<1>11. ASSUME NEW i \in DOMAIN stack', stack'[i].out = {},
              KindOf[stack'[i].key[1]] # "helper",
              NEW d \in In(stack'[i].key[1]) \ stack'[i].todo
       PROVE  /\ EdgeTests(d) = {}
              /\ \A j \in EdgeWalk(stack'[i].key, d) :
                   \/ tests'[j] = {}
                   \/ i + 1 \in DOMAIN stack' /\ stack'[i + 1].key = j
  <2>1. /\ i \in 1..(Depth - 1) /\ i \in DOMAIN stack
        /\ stack'[i].key = stack[i].key /\ stack'[i].todo = stack[i].todo
    BY <1>3, <1>5, <1>11, ReturnIs
  <2>2. /\ stack[i].out = {}
        /\ i + 1 = Depth => out = {}
    <3>1. CASE i + 1 = Depth
      <4>1. Depth > 1 /\ i = Depth - 1
        BY <3>1, <2>1, <1>3
      <4>2. stack'[i].out = stack[i].out \cup out
        BY <4>1, ReturnIs
      <4>3. QED
        BY <4>2, <1>11
    <3>2. CASE i + 1 # Depth
      <4>1. i # Depth - 1
        BY <3>2, <2>1, <1>3
      <4>2. stack'[i] = stack[i]
        BY <4>1, <2>1, ReturnIs
      <4>3. QED
        BY <3>2, <4>2, <1>11
    <3>3. QED
      BY <3>1, <3>2
  <2>3. /\ EdgeTests(d) = {}
        /\ \A j \in EdgeWalk(stack[i].key, d) :
             \/ tests[j] = {}
             \/ i + 1 \in DOMAIN stack /\ stack[i + 1].key = j
    BY <2>1, <2>2, <1>11 DEF EmptyStack
  <2>4. stack[i].key \in Key
    <3>1. stack[i] \in Frame
      BY <2>1 DEF TypeOK
    <3>2. QED
      BY <3>1 DEF Frame
  <2>5. ASSUME NEW j \in EdgeWalk(stack[i].key, d)
        PROVE  \/ tests'[j] = {}
               \/ i + 1 \in DOMAIN stack' /\ stack'[i + 1].key = j
    <3>1. j \in Key
      BY <2>4, EdgeWalkIsTyped
    <3>2. CASE tests[j] = {}
      BY <3>1, <3>2, <1>6
    <3>3. CASE i + 1 \in DOMAIN stack /\ stack[i + 1].key = j
      <4>1. CASE i + 1 = Depth
        BY <4>1, <3>3, <2>2, <1>3, <1>5
      <4>2. CASE i + 1 # Depth
        <5>1. i + 1 \in 1..(Depth - 1)
          BY <4>2, <2>1, <1>3
        <5>2. QED
          BY <5>1, <3>3, <1>5, ReturnIs
      <4>3. QED
        BY <4>1, <4>2
    <3>4. QED
      BY <3>2, <3>3, <2>3
  <2>6. QED
    BY <2>1, <2>3, <2>5
<1>12. EmptyStack'
  BY <1>2, <1>11 DEF EmptyStack
<1>13. QED
  BY <1>10, <1>12

-----------------------------------------------------------------------------
(* An empty memo and what is linked *)

\* A node whose memo is empty has no test naming it and no helper behind it.
LEMMA NothingNames ==
  ASSUME EmptyMemo, NEW k \in Key, tests[k] = {}
  PROVE  Naming(k[1]) = {} /\ Behind(k[1]) = {} /\ k[1] \notin Helper
<1>1. /\ KindOf[k[1]] # "helper"
      /\ \A e \in In(k[1]) : Nothing(k, e)
  BY DEF EmptyMemo
<1>2. Naming(k[1]) = {}
  BY <1>1, NamingIsEdgeTests DEF Nothing
<1>3. HelperCallers(k[1]) = {}
  <2> SUFFICES ASSUME NEW h \in HelperCallers(k[1]) PROVE FALSE
    OBVIOUS
  <2>1. PICK e \in In(k[1]) : e.from = h
    BY DEF HelperCallers
  <2>2. h \in Node /\ KindOf[h] = "helper"
    BY DEF HelperCallers, Helper
  <2> DEFINE j == <<h, Hop(k)>>
  <2>3. j \in EdgeWalk(k, e)
    BY <2>1, <2>2, EdgeWalkIs, Zenon
  <2>4. tests[j] = {}
    BY <2>3, <1>1 DEF Nothing
  <2>5. j \in Key /\ j[1] = h
    BY <2>3, EdgeWalkIsTyped
  <2>6. KindOf[j[1]] # "helper"
    BY <2>4, <2>5 DEF EmptyMemo
  <2>7. QED
    BY <2>2, <2>5, <2>6
<1>4. QED
  BY <1>1, <1>2, <1>3, NoneBehind DEF Helper

\* A node that has been walked has an empty memo exactly when nothing reaches
\* it.
LEMMA EmptyIsUnreached ==
  ASSUME WalkBounded, EmptyMemo, NEW n \in Id, tests[<<n, TRUE>>] # None
  PROVE  tests[<<n, TRUE>>] = {} <=> Linked(n) = {} /\ Ways(n) \cap Helper = {}
<1> DEFINE k == <<n, TRUE>>
<1>1. k \in Key /\ k[1] = n /\ k[2]
  OBVIOUS
<1>2. ASSUME Linked(n) = {}, Ways(n) \cap Helper = {} PROVE tests[k] = {}
  <2>1. FilesOnTheWay(n) = {}
    BY <1>2 DEF FilesOnTheWay
  <2>2. tests[k] \subseteq Linked(n) \cup FilesOnTheWay(n)
    BY <1>1, AllowedIsLinked DEF WalkBounded
  <2>3. QED
    BY <1>2, <2>1, <2>2
<1>3. ASSUME tests[k] = {}
      PROVE  Linked(n) = {} /\ Ways(n) \cap Helper = {}
  <2>1. Naming(n) = {} /\ Behind(n) = {} /\ n \notin Helper
    BY <1>1, <1>3, NothingNames
  <2>2. ASSUME NEW m \in Loaders(n)
        PROVE  Naming(m) = {} /\ Behind(m) = {} /\ m \notin Helper
    <3>1. /\ KindOf[n] = "file" /\ m \in Node
          /\ KindOf[m] \notin {"test", "helper"} /\ ~ StandsForTests(m)
          /\ \E e \in In(n) : e.from = m /\ e.rel = "references"
      BY <2>2 DEF Loaders, StandsForTests
    <3>2. PICK e \in In(n) : e.from = m /\ e.rel = "references"
      BY <3>1
    <3>3. Hop(k)
      BY <1>1, <3>1 DEF Hop
    <3> DEFINE j == <<m, FALSE>>
    <3>4. j \in EdgeWalk(k, e)
      BY <3>1, <3>2, <3>3, EdgeWalkIs, Zenon
    <3>5. tests[j] = {}
      BY <1>1, <1>3, <3>2, <3>4 DEF EmptyMemo, Nothing
    <3>6. j \in Key
      BY <3>1, IdsAreTyped
    <3>7. j[1] = m
      OBVIOUS
    <3>8. QED
      BY <3>5, <3>6, <3>7, NothingNames
  <2>3. \A m \in {n} \cup Loaders(n) :
          Naming(m) = {} /\ Behind(m) = {} /\ m \notin Helper
    BY <2>1, <2>2
  <2>4. Linked(n) = {}
    BY <2>3 DEF Linked, NamingOrBehind
  <2>5. Ways(n) \cap Helper = {}
    BY <2>3 DEF Ways
  <2>6. QED
    BY <2>4, <2>5
<1>4. QED
  BY <1>2, <1>3

\* The tests `rtdd explain` shows on a node are among those that name it.
LEMMA ExplainedIsLinked ==
  ASSUME NoModuleCalled, NEW n PROVE ExplainedTests(n) \subseteq Linked(n)
<1> SUFFICES ASSUME NEW t \in ExplainedTests(n) PROVE t \in Naming(n)
  BY DEF Linked, NamingOrBehind
<1>1. PICK e \in graph :
        /\ e.to = n /\ e.from \in Node
        /\ \/ /\ KindOf[e.from] = "file" /\ TestsIn(FileOf[e.from]) # {}
              /\ t \in TestsIn(FileOf[e.from])
           \/ t = e.from /\ KindOf[t] = "test"
  BY DEF ExplainedTests
<1>2. e \in In(n)
  BY <1>1 DEF In, NoModuleCalled
<1>3. QED
  BY <1>1, <1>2 DEF Naming, TestsIn, FileNodes

-----------------------------------------------------------------------------
(* The rounds ask only for their roots' tests *)

\* A changed node and its file's node are node IDs.
LEMMA ChangeIsTyped == ASSUME TypeOK PROVE ChangeOf \subseteq Id
BY ChangedNodesAreTyped, IdsAreTyped DEF ChangeOf, FileNodes

\* A root is a node of the graph or a <module>, so a helper is in the graph.
LEMMA RootsAre ==
  ASSUME TypeOK, NEW n \in Roots
  PROVE  n \in Id /\ (KindOf[n] = "helper" => n \in Node)
<1>1. \A c \in ChangedNodes : c \in Node \/ KindOf[c] = "module"
  BY SyntheticNodes DEF TypeOK, ChangedNodes, TopNodes, FileNodes
<1>2. n \in ChangedNodes \/ n \in Node
  BY DEF Roots, ChangeOf, Near, FileNodes, Neighbours
<1>3. n \in Id
  BY <1>2, ChangedNodesAreTyped, IdsAreTyped
<1>4. QED
  BY <1>1, <1>2, <1>3

\* Inside a phase the roots are what they were.
LEMMA RootsFixed ==
  ASSUME UNCHANGED input
  PROVE  /\ ChangeOf' = ChangeOf /\ Near' = Near
         /\ phase' = phase => Roots' = Roots
BY InputFixed DEF ChangeOf, Near, Roots

\* What a round is given of a root's stays within what it may have.
LEMMA SelectKeeps ==
  ASSUME RoundsBounded, UNCHANGED input, NEW n \in Roots,
         NEW ts, ts \subseteq Allowed(<<n, TRUE>>), Select(ts)
  PROVE  RoundsBounded'
<1>1. /\ \A k : Allowed(k)' = Allowed(k)
      /\ ChangeOf' = ChangeOf /\ Near' = Near /\ owned' = owned /\ top' = top
  BY AllowedFixed, RootsFixed DEF input
<1>2. CASE phase = "changed"
  <2>1. round1' = round1 \cup ts /\ round2' = round2 /\ n \in ChangeOf
    BY <1>2 DEF Select, Roots
  <2>2. QED
    BY <1>1, <2>1 DEF RoundsBounded
<1>3. CASE phase # "changed"
  <2>1. round2' = round2 \cup (ts \ round1) /\ round1' = round1 /\ n \in Near
    BY <1>3 DEF Select, Roots
  <2>2. QED
    BY <1>1, <2>1 DEF RoundsBounded
<1>4. QED
  BY <1>2, <1>3

\* Parts of the invariant that speak of the walk.
Walked ==
  /\ NoModuleCalled /\ WalkBounded /\ StackShape
  /\ EmptyMemo /\ EmptyStack /\ RoundsBounded

\* A step that leaves the walk alone keeps what is said of it.
LEMMA UnmovedKeeps ==
  ASSUME Walked, UNCHANGED <<input, stack, tests, round1>>,
         round2' \subseteq round2
  PROVE  Walked'
<1>1. /\ \A k : Allowed(k)' = Allowed(k)
      /\ \A k : In(k)' = In(k)
      /\ ChangeOf' = ChangeOf /\ Near' = Near
      /\ graph' = graph /\ owned' = owned /\ top' = top
  BY AllowedFixed, RootsFixed, InputFixed DEF input
<1>2. WalkBounded' /\ StackShape'
  BY <1>1 DEF Walked, WalkBounded, StackShape
<1>3. EmptyMemo' /\ EmptyStack'
  BY <1>1 DEF Walked, EmptyMemo, EmptyStack, Nothing
<1>4. NoModuleCalled' /\ RoundsBounded'
  BY <1>1 DEF Walked, NoModuleCalled, RoundsBounded
<1>5. QED
  BY <1>2, <1>3, <1>4 DEF Walked

\* testsOf walks its root, or takes its memo.
LEMMA TestsOfWalks ==
  ASSUME TypeOK, Walked, stack = <<>>, UNCHANGED <<input, tests>>,
         NEW n \in Roots, TestsOf(n)
  PROVE  Walked' /\ (stack' # <<>> => stack'[1].key[1] = n)
<1> DEFINE k == <<n, TRUE>>
<1> USE DEF Walked
<1>1. n \in Id /\ (KindOf[n] = "helper" => n \in Node)
  BY RootsAre
<1>2. WalkBounded' /\ StackShape' /\ EmptyMemo' /\ EmptyStack'
  BY <1>1, BoundedStarts, ShapeStarts, EmptyStarts
<1>3. NoModuleCalled'
  BY DEF NoModuleCalled, input
<1>4. CASE stack' = <<Activation(k)>> /\ UNCHANGED <<round1, round2>>
  <2>1. RoundsBounded'
    BY <1>4, AllowedFixed, RootsFixed DEF RoundsBounded, input
  <2>2. stack'[1] = Activation(k) /\ k[1] = n
    BY <1>4
  <2>3. stack'[1].key[1] = n
    BY <2>2, ActivationIs
  <2>4. QED
    BY <1>2, <1>3, <2>1, <2>3
<1>5. CASE UNCHANGED stack /\ Select(Known(k))
  <2>1. k \in Key
    BY <1>1
  <2>2. Known(k) \subseteq Allowed(k)
    BY <2>1 DEF Known, WalkBounded
  <2>3. RoundsBounded'
    BY <1>5, <2>2, SelectKeeps
  <2>4. QED
    BY <1>2, <1>3, <1>5, <2>3
<1>6. QED
  BY <1>4, <1>5 DEF TestsOf

\* Taking an edge keeps what is said of the walk.
LEMMA TakeEdgeWalks ==
  ASSUME TypeOK, Walked, NEW e \in graph, TakeEdge(e)
  PROVE  Walked' /\ (stack' # <<>> => stack'[1].key = stack[1].key)
<1> USE DEF Walked
<1>1. UNCHANGED <<input, round1, round2>> /\ stack # <<>>
  BY DEF TakeEdge
<1>2. WalkBounded' /\ StackShape' /\ EmptyMemo' /\ EmptyStack'
  BY BoundedTakesEdge, ShapeTakesEdge, EmptyTakesEdge
<1>3. NoModuleCalled' /\ RoundsBounded'
  BY <1>1, AllowedFixed, RootsFixed DEF NoModuleCalled, RoundsBounded, input
<1>4. 1 \in DOMAIN stack
  BY <1>1, CurrentIsTyped
<1>5. QED
  BY <1>2, <1>3, <1>4, TakeEdgeIs

\* So does descending.
LEMMA DescendWalks ==
  ASSUME TypeOK, Walked, NEW e \in graph, NEW c \in Key, Descend(e, c)
  PROVE  Walked' /\ (stack' # <<>> => stack'[1].key = stack[1].key)
<1> USE DEF Walked
<1>1. UNCHANGED <<input, round1, round2>> /\ stack # <<>>
  BY DEF Descend
<1>2. WalkBounded' /\ StackShape' /\ EmptyMemo' /\ EmptyStack'
  BY BoundedDescends, ShapeDescends, EmptyDescends
<1>3. NoModuleCalled' /\ RoundsBounded'
  BY <1>1, AllowedFixed, RootsFixed DEF NoModuleCalled, RoundsBounded, input
<1>4. 1 \in DOMAIN stack
  BY <1>1, CurrentIsTyped
<1>5. QED
  BY <1>2, <1>3, <1>4, DescendIs

\* The walk of a root ends with what may be found on the way to it.
LEMMA ReturnWalks ==
  ASSUME TypeOK, Walked, Rooted, Return
  PROVE  Walked' /\ (stack' # <<>> => stack'[1].key = stack[1].key)
<1> USE DEF Walked
<1> PICK out : out = WithFallback(Current.key, Current.out)
  OBVIOUS
<1>1. UNCHANGED input /\ stack # <<>>
  BY DEF Return
<1>2. WalkBounded' /\ StackShape' /\ EmptyMemo' /\ EmptyStack'
  BY BoundedReturns, ShapeReturns, EmptyReturns
<1>3. NoModuleCalled'
  BY <1>1 DEF NoModuleCalled, input
<1>4. Depth \in DOMAIN stack /\ stack[Depth] = Current
      /\ DOMAIN stack = 1..Depth /\ Depth \in Nat \ {0}
  BY <1>1, CurrentIsTyped DEF Current
<1>5. CASE Depth = 1
  <2>1. stack' = <<>> /\ Select(out)
    BY <1>5, ReturnIs
  <2> DEFINE n == Current.key[1]
  <2>2. n \in Roots /\ Current.key[2]
    BY <1>1, <1>4, <1>5 DEF Rooted, StackShape
  <2>3. Current.key = <<n, TRUE>>
    <3>1. Current.key \in Key
      BY <1>1, CurrentIsTyped
    <3>2. PICK a \in Id, b \in BOOLEAN : Current.key = <<a, b>>
      BY <3>1
    <3>3. Current.key[1] = a /\ Current.key[2] = b
      BY <3>2
    <3>4. b = TRUE
      BY <2>2, <3>3
    <3>5. QED
      BY <3>2, <3>3, <3>4
  <2>4. out \subseteq Allowed(<<n, TRUE>>)
    BY <2>3, BoundedReturns
  <2>5. RoundsBounded'
    BY <1>1, <2>1, <2>2, <2>4, SelectKeeps
  <2>6. QED
    BY <1>2, <1>3, <2>1, <2>5
<1>6. CASE Depth > 1
  <2>1. UNCHANGED <<round1, round2>> /\ 1 \in 1..(Depth - 1)
    BY <1>4, <1>6, ReturnIs
  <2>2. RoundsBounded'
    BY <1>1, <2>1, AllowedFixed, RootsFixed DEF RoundsBounded, input
  <2>3. stack'[1].key = stack[1].key
    BY <2>1, ReturnIs
  <2>4. QED
    BY <1>2, <1>3, <2>2, <2>3
<1>7. QED
  BY <1>4, <1>5, <1>6

-----------------------------------------------------------------------------
(* The theorem *)

\* A run starts exact.
LEMMA ExactInit == ASSUME Init PROVE Exact
<1>1. TypeOK /\ graph \subseteq {e \in Edges : KindOf[e.to] # "module"}
  BY InitIsTyped, ReposAreTyped DEF Init
<1>2. NoModuleCalled
  BY <1>1 DEF NoModuleCalled
<1>3. \A k \in Key : tests[k] = None /\ None # {}
  BY IdsAreTyped DEF Init
<1>4. stack = <<>> /\ DOMAIN stack = {} /\ phase = "changed"
  BY DEF Init
<1>5. WalkBounded /\ StackShape /\ EmptyMemo /\ EmptyStack
  BY <1>3, <1>4 DEF WalkBounded, StackShape, EmptyMemo, EmptyStack
<1>6. Rooted
  BY <1>4 DEF Init, Rooted, Roots, ChangeOf
<1>7. RoundsBounded
  BY DEF Init, RoundsBounded, TestsIn
<1>8. ChangeIsKnown /\ SelectionIsExact
  BY <1>4 DEF ChangeIsKnown, SelectionIsExact, SelectedIsLinked,
     UntestedIsWhatNothingReaches, ExplainedTestsRun
<1>9. QED
  BY <1>2, <1>5, <1>6, <1>7, <1>8 DEF Exact

\* Inside a phase nothing is yet said of the selection.
LEMMA ExactInPhase ==
  ASSUME TypeOK, Exact, UNCHANGED <<input, phase>>, phase # "done", Walked',
         pending' \subseteq pending, owed' \subseteq Roots,
         stack' # <<>> => stack'[1].key[1] \in Roots,
         \A k \in Key : tests[k] # None => tests'[k] # None
  PROVE  Exact'
<1>1. Rooted'
  BY RootsFixed DEF Exact, Rooted
<1>2. ChangeIsKnown'
  <2> SUFFICES ASSUME phase = "neighbours", NEW n \in ChangeOf
               PROVE  tests'[<<n, TRUE>>] # None
    BY RootsFixed DEF ChangeIsKnown
  <2>1. tests[<<n, TRUE>>] # None
    BY DEF Exact, ChangeIsKnown
  <2>2. <<n, TRUE>> \in Key
    BY ChangeIsTyped
  <2>3. QED
    BY <2>1, <2>2
<1>3. SelectionIsExact'
  BY DEF SelectionIsExact, SelectedIsLinked, UntestedIsWhatNothingReaches,
     ExplainedTestsRun
<1>4. QED
  BY <1>1, <1>2, <1>3 DEF Exact, Walked

\* When the rounds end, they have what is linked and no more, and what is
\* called untested is what nothing reaches.
LEMMA FinishIsExact == ASSUME IInv, Exact, Finish PROVE SelectionIsExact'
<1>1. /\ phase = "neighbours" /\ stack = <<>> /\ pending = {}
      /\ untested' = {c \in ChangedNodes : Untested(c)}
      /\ round2' \subseteq round2
      /\ UNCHANGED <<input, tests, round1>>
  BY DEF Finish, Idle
<1>2. /\ ChangedNodes' = ChangedNodes /\ owned' = owned /\ top' = top
      /\ \A n : Neighbours(n)' = Neighbours(n)
      /\ \A n : Linked(n)' = Linked(n)
      /\ \A n : Ways(n)' = Ways(n)
      /\ \A n : ExplainedTests(n)' = ExplainedTests(n)
  BY <1>1, InputFixed, AllowedFixed DEF input
<1>3. \A n : FilesOnTheWay(n)' = FilesOnTheWay(n)
  BY <1>2 DEF FilesOnTheWay
<1>4. \A n : Allowed(<<n, TRUE>>) = Linked(n) \cup FilesOnTheWay(n)
  BY AllowedIsLinked
<1>5. ASSUME NEW t \in round1
      PROVE  \/ t \in owned \/ FileOf[t] \in top
             \/ \E c \in ChangedNodes : \E n \in {c} \cup FileNodes(FileOf[c]) :
                  t \in Linked(n) \cup FilesOnTheWay(n)
  <2>1. CASE \E n \in ChangeOf : t \in Allowed(<<n, TRUE>>)
    BY <2>1, <1>4 DEF ChangeOf
  <2>2. QED
    BY <2>1 DEF Exact, RoundsBounded
<1>6. ASSUME NEW t \in round2'
      PROVE  \E c \in ChangedNodes : \E n \in Neighbours(c) :
               t \in Linked(n) \cup FilesOnTheWay(n)
  <2>1. PICK n \in Near : t \in Allowed(<<n, TRUE>>)
    BY <1>1, <1>6 DEF Exact, RoundsBounded
  <2>2. PICK c \in ChangedNodes : n \in Neighbours(c)
    BY DEF Near
  <2>3. QED
    BY <2>1, <2>2, <1>4
<1>7. SelectedIsLinked'
  BY <1>1, <1>2, <1>3, <1>5, <1>6 DEF SelectedIsLinked
<1>8. ASSUME NEW c \in ChangedNodes,
             NEW n \in {c} \cup FileNodes(FileOf[c]) \cup Neighbours(c)
      PROVE  tests[<<n, TRUE>>] = {} <=>
               Linked(n) = {} /\ Ways(n) \cap Helper = {}
  <2>1. n \in Id
    BY ChangedNodesAreTyped, IdsAreTyped DEF IInv, FileNodes, Neighbours
  <2>2. tests[<<n, TRUE>>] # None
    <3>1. CASE n \in {c} \cup FileNodes(FileOf[c])
      BY <3>1, <1>1 DEF Exact, ChangeIsKnown, ChangeOf
    <3>2. CASE n \in Neighbours(c)
      <4>1. Seen(<<n, TRUE>>)
        BY <3>2, <1>1 DEF IInv, NeighboursSeen
      <4>2. QED
        BY <4>1, <1>1 DEF Seen, Walking
    <3>3. QED
      BY <3>1, <3>2
  <2>3. QED
    BY <2>1, <2>2, EmptyIsUnreached DEF Exact
<1>9. ASSUME NEW c \in ChangedNodes
      PROVE  c \in untested' <=>
               /\ ~ IsTest(c)
               /\ \A n \in {c} \cup FileNodes(FileOf[c]) \cup Neighbours(c) :
                    Linked(n) = {} /\ Ways(n) \cap Helper = {}
  BY <1>1, <1>8 DEF Untested
<1>10. UntestedIsWhatNothingReaches'
  BY <1>2, <1>9 DEF UntestedIsWhatNothingReaches
<1>11. ASSUME NEW c \in ChangedNodes PROVE ExplainedTests(c) \subseteq round1
  <2>1. ExplainedTests(c) \subseteq Linked(c)
    BY ExplainedIsLinked DEF Exact
  <2>2. Linked(c) \subseteq LinkedToChange(c)
    BY DEF LinkedToChange
  <2>3. LinkedToChange(c) \subseteq round1
    BY <1>1 DEF IInv, NeighboursSeen
  <2>4. QED
    BY <2>1, <2>2, <2>3
<1>12. ExplainedTestsRun'
  BY <1>1, <1>2, <1>11 DEF ExplainedTestsRun
<1>13. QED
  BY <1>7, <1>10, <1>12 DEF SelectionIsExact

\* Every step keeps it so.
LEMMA ExactKept == ASSUME IInv, Exact, [Next]_vars PROVE Exact'
<1>1. TypeOK /\ Walked /\ Rooted
  BY DEF IInv, Exact, Walked
<1>2. CASE UNCHANGED vars
  <2>1. Walked'
    BY <1>1, <1>2, UnmovedKeeps DEF vars
  <2>2. Rooted' /\ ChangeIsKnown'
    BY <1>2, RootsFixed DEF vars, Exact, Rooted, ChangeIsKnown
  <2>3. /\ ChangedNodes' = ChangedNodes
        /\ \A n : Neighbours(n)' = Neighbours(n)
        /\ \A n : Linked(n)' = Linked(n)
        /\ \A n : Ways(n)' = Ways(n)
        /\ \A n : ExplainedTests(n)' = ExplainedTests(n)
    BY <1>2, InputFixed, AllowedFixed DEF vars
  <2>4. \A n : FilesOnTheWay(n)' = FilesOnTheWay(n)
    BY <2>3 DEF FilesOnTheWay
  <2>5. SelectedIsLinked'
    BY <1>2, <2>3, <2>4 DEF vars, input, Exact, SelectionIsExact,
       SelectedIsLinked
  <2>6. UntestedIsWhatNothingReaches'
    BY <1>2, <2>3 DEF vars, Exact, SelectionIsExact,
       UntestedIsWhatNothingReaches
  <2>7. ExplainedTestsRun'
    BY <1>2, <2>3 DEF vars, Exact, SelectionIsExact, ExplainedTestsRun
  <2>8. QED
    BY <2>1, <2>2, <2>5, <2>6, <2>7 DEF Exact, Walked, SelectionIsExact
<1>3. ASSUME NEW c \in pending, VisitChanged(c) PROVE Exact'
  <2>1. /\ UNCHANGED <<input, phase, tests>> /\ TestsOf(c) /\ stack = <<>>
        /\ phase = "changed" /\ pending' \subseteq pending
        /\ owed' \subseteq FileNodes(FileOf[c]) /\ c \in Roots
    BY <1>1, <1>3 DEF VisitChanged, Idle, Rooted
  <2>2. owed' \subseteq Roots
    <3>1. PICK d \in ChangedNodes : c \in {d} \cup FileNodes(FileOf[d])
      BY <2>1 DEF Roots, ChangeOf
    <3>2. FileNodes(FileOf[c]) = FileNodes(FileOf[d])
      BY <3>1 DEF FileNodes
    <3>3. QED
      BY <2>1, <3>1, <3>2 DEF Roots, ChangeOf
  <2>3. QED
    BY <1>1, <2>1, <2>2, TestsOfWalks, ExactInPhase
<1>4. ASSUME NEW c \in pending, VisitNeighbour(c) PROVE Exact'
  <2>1. /\ UNCHANGED <<input, phase, tests, owed>> /\ TestsOf(c)
        /\ stack = <<>> /\ phase = "neighbours"
        /\ pending' \subseteq pending /\ owed \subseteq Roots /\ c \in Roots
    BY <1>1, <1>4 DEF VisitNeighbour, Idle, Rooted
  <2>2. QED
    BY <1>1, <2>1, TestsOfWalks, ExactInPhase
<1>5. ASSUME NEW f \in owed, VisitFileNode(f) PROVE Exact'
  <2>1. /\ UNCHANGED <<input, phase, tests, pending>> /\ TestsOf(f)
        /\ stack = <<>> /\ owed' \subseteq Roots /\ f \in Roots
    BY <1>1, <1>5 DEF VisitFileNode, Rooted
  <2>2. phase # "done"
    BY <1>5 DEF IInv, DoneIsIdle, Idle
  <2>3. QED
    BY <1>1, <2>1, <2>2, TestsOfWalks, ExactInPhase
<1>6. ASSUME NEW e \in graph, TakeEdge(e) PROVE Exact'
  <2>1. /\ UNCHANGED <<input, phase, tests, pending, owed>>
        /\ owed \subseteq Roots /\ stack[1].key[1] \in Roots /\ phase # "done"
    BY <1>1, <1>6 DEF TakeEdge, Rooted, IInv, DoneIsIdle, Idle
  <2>2. QED
    BY <1>1, <1>6, <2>1, TakeEdgeWalks, ExactInPhase
<1>7. ASSUME NEW e \in graph, NEW k \in Key, Descend(e, k) PROVE Exact'
  <2>1. /\ UNCHANGED <<input, phase, tests, pending, owed>>
        /\ owed \subseteq Roots /\ stack[1].key[1] \in Roots /\ phase # "done"
    BY <1>1, <1>7 DEF Descend, Rooted, IInv, DoneIsIdle, Idle
  <2>2. QED
    BY <1>1, <1>7, <2>1, DescendWalks, ExactInPhase
<1>8. CASE Return
  <2>1. /\ UNCHANGED <<input, phase, pending, owed>>
        /\ owed \subseteq Roots /\ stack[1].key[1] \in Roots /\ phase # "done"
    BY <1>1, <1>8 DEF Return, Rooted, IInv, DoneIsIdle, Idle
  <2>2. \A k \in Key : tests[k] # None => tests'[k] # None
    BY <1>1, <1>8, ReturnIs, IdsAreTyped
  <2>3. QED
    BY <1>1, <1>8, <2>1, <2>2, ReturnWalks, ExactInPhase
<1>9. CASE TurnToNeighbours
  <2>1. /\ phase = "changed" /\ phase' = "neighbours"
        /\ stack = <<>> /\ owed = {} /\ pending = {} /\ pending' = Near
        /\ UNCHANGED <<input, owed, stack, tests, round1, round2>>
    BY <1>9 DEF TurnToNeighbours, Idle, Near
  <2>2. Walked'
    BY <1>1, <2>1, UnmovedKeeps
  <2>3. Rooted'
    BY <2>1, RootsFixed DEF Rooted, Roots
  <2>4. ChangeIsKnown'
    <3> SUFFICES ASSUME NEW n \in ChangeOf PROVE tests[<<n, TRUE>>] # None
      BY <2>1, RootsFixed DEF ChangeIsKnown
    <3>1. PICK c \in ChangedNodes : n \in {c} \cup FileNodes(FileOf[c])
      BY DEF ChangeOf
    <3>2. Seen(<<n, TRUE>>)
      BY <2>1, <3>1 DEF IInv, ChangedSeen
    <3>3. QED
      BY <2>1, <3>2 DEF Seen, Walking
  <2>5. SelectionIsExact'
    BY <2>1 DEF SelectionIsExact, SelectedIsLinked,
       UntestedIsWhatNothingReaches, ExplainedTestsRun
  <2>6. QED
    BY <2>2, <2>3, <2>4, <2>5 DEF Exact, Walked
<1>10. CASE Finish
  <2>1. /\ phase = "neighbours" /\ phase' = "done" /\ stack = <<>>
        /\ UNCHANGED <<input, pending, owed, stack, tests, round1>>
        /\ round2' \subseteq round2
    BY <1>10 DEF Finish, Idle
  <2>2. Walked'
    BY <1>1, <2>1, UnmovedKeeps
  <2>3. Rooted' /\ ChangeIsKnown'
    BY <1>1, <2>1, RootsFixed DEF Rooted, Roots, ChangeIsKnown
  <2>4. QED
    BY <1>10, <2>2, <2>3, FinishIsExact DEF Exact, Walked
<1>11. QED
  BY <1>2, <1>3, <1>4, <1>5, <1>6, <1>7, <1>8, <1>9, <1>10
  DEF Next, Work, Done

\* For every graph, change and order of the work: no round has a test that is
\* not linked to one of its nodes or the file of a helper on the way, a node is
\* called untested exactly when nothing reaches it, and what `rtdd explain`
\* shows is run (rounds.go: Rounds, walk, testsOfChanged; links.go: LinksOf).
THEOREM SelectionIsExactAlways == Spec => []SelectionIsExact
<1>1. Init => IInv /\ Exact
  BY IInvHolds, ExactInit
<1>2. IInv /\ Exact /\ [Next]_vars => IInv' /\ Exact'
  BY IInvKept, ExactKept
<1>3. Exact => SelectionIsExact
  BY DEF Exact
<1>4. QED
  BY <1>1, <1>2, <1>3, PTL DEF Spec
=============================================================================
