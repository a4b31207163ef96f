---------------------------- MODULE ChangedLines ----------------------------
(***************************************************************************)
(* From an edited file to its changed nodes: the hunks of `git diff        *)
(* --unified=0`, what gitctx makes of them, and the node that owns each    *)
(* changed line (internal/rounds).                                         *)
(*                                                                         *)
(* The file is its lines: of each, the line of the base it is, as git      *)
(* matched them, or 0 when git matched it with none.  Every way git may    *)
(* match the two is the outcome of some edits, so each is a state.         *)
(***************************************************************************)
EXTENDS Integers, Sequences, FiniteSets

CONSTANTS
  BaseLines,   \* the base is the lines 1 .. BaseLines
  MaxLines,    \* how long the file grows
  Defs         \* the ids of the definitions a scan may find, numbers above 0

ASSUME LinesParameters == BaseLines \in Nat /\ IsFiniteSet(Defs) /\ Defs \subseteq Nat \ {0}

\* Ids are numbers, in the order of the ids they stand for; these are those of
\* the two nodes every file may have besides.
Module == 0
FileNode == -1

VARIABLES
  work,      \* the file's lines
  defs,      \* its nodes, once scanned: [id -> [start, end]]
  scanned

lineVars == <<work, defs, scanned>>

LinesInit ==
  /\ work = [l \in 1..BaseLines |-> l]
  /\ defs = <<>> /\ scanned = FALSE

InsertLine(at) ==
  /\ ~scanned /\ Len(work) < MaxLines
  /\ work' = [l \in 1..Len(work) + 1 |->
                IF l < at THEN work[l] ELSE IF l = at THEN 0 ELSE work[l - 1]]
  /\ UNCHANGED <<defs, scanned>>

DropLine(at) ==
  /\ ~scanned
  /\ work' = [l \in 1..Len(work) - 1 |-> IF l < at THEN work[l] ELSE work[l + 1]]
  /\ UNCHANGED <<defs, scanned>>

Line == 1..Len(work)

Interval == {[start |-> s, end |-> e] : s \in Line, e \in Line}
Nodes == {i \in Interval : i.start <= i.end}

\* Nodes nest, or graphify says otherwise.
Scan ==
  /\ ~scanned
  /\ scanned' = TRUE
  /\ \E ids \in SUBSET Defs : defs' \in [ids -> Nodes]
  /\ UNCHANGED work

LinesNext ==
  \/ \E at \in 1..Len(work) + 1 : InsertLine(at)
  \/ \E at \in Line : DropLine(at)
  \/ Scan

LinesSpec == LinesInit /\ [][LinesNext]_lineVars

-----------------------------------------------------------------------------
(* git diff *)

\* The lines git matched, with the ends of the file.
Matched == {0, Len(work) + 1} \cup {l \in Line : work[l] # 0}
BaseLine(l) == IF l = 0 THEN 0 ELSE IF l > Len(work) THEN BaseLines + 1 ELSE work[l]

\* The new side of a hunk between two matched lines: "+start,count", of a pure
\* deletion the line before it, 0 at the top.
Hunk(from, to) ==
  LET count == to - from - 1
  IN [start |-> IF count = 0 THEN from ELSE from + 1, count |-> count]

\* <<from, to>>: neighbours among the matched with anything between them, in the
\* file or in the base.
Gaps ==
  {g \in Matched \X Matched :
     /\ g[1] < g[2]
     /\ \A m \in Matched : m <= g[1] \/ g[2] <= m
     /\ g[2] - g[1] > 1 \/ BaseLine(g[2]) - BaseLine(g[1]) > 1}
DiffHunks == {Hunk(g[1], g[2]) : g \in Gaps}

-----------------------------------------------------------------------------
(* gitctx *)

LineRange(start, end) == [start |-> start, end |-> end]

ParseHunk(hunk) ==
  IF hunk.count = 0
    THEN LET at == IF hunk.start = 0 THEN 1 ELSE hunk.start IN LineRange(at, at)
    ELSE LineRange(hunk.start, hunk.start + hunk.count - 1)

Before(r, s) ==
  r.start < s.start \/ (r.start = s.start /\ r.end < s.end)

\* A range that overlaps or touches the last one is made part of it.
AbsorbOverlapping(out, r) ==
  IF out # <<>> /\ r.start <= out[Len(out)].end
    THEN [out EXCEPT ![Len(out)].end = IF r.end > @ THEN r.end ELSE @]
    ELSE Append(out, r)
Absorb(out, r) ==
  IF out # <<>> /\ r.start <= out[Len(out)].end + 1
    THEN [out EXCEPT ![Len(out)].end = IF r.end > @ THEN r.end ELSE @]
    ELSE Append(out, r)

FirstRange(left) == CHOOSE r \in left : \A s \in left \ {r} : Before(r, s)
MergeRanges(ranges) ==
  LET upTo[i \in 0..Cardinality(ranges)] ==
        IF i = 0 THEN [out |-> <<>>, left |-> ranges]
        ELSE LET prev == upTo[i - 1]
                 r == FirstRange(prev.left)
             IN  [out |-> Absorb(prev.out, r), left |-> prev.left \ {r}]
  IN  upTo[Cardinality(ranges)].out

ChangedRanges == MergeRanges({ParseHunk(h) : h \in DiffHunks})

-----------------------------------------------------------------------------
(* rounds *)

\* The order nodes are painted in: a nested one after the one around it.
OuterFirst(a, b) ==
  \/ defs[a].start < defs[b].start
  \/ defs[a].start = defs[b].start /\ defs[a].end > defs[b].end
  \/ defs[a] = defs[b] /\ a < b

Spans(id, l) == defs[id].start <= l /\ l <= defs[id].end

\* owners: the lines up to the last changed one, each painted over by every
\* node that contains it.
MaxLine == IF ChangedRanges = <<>> THEN 0 ELSE ChangedRanges[Len(ChangedRanges)].end

Paint(own, id) == [l \in DOMAIN own |-> IF Spans(id, l) THEN id ELSE own[l]]

Outermost(ids) == CHOOSE id \in ids : \A other \in ids \ {id} : OuterFirst(id, other)
Owners ==
  LET upTo[i \in 0..Cardinality(DOMAIN defs)] ==
        IF i = 0 THEN [out |-> [l \in 1..MaxLine |-> Module], left |-> DOMAIN defs]
        ELSE LET prev == upTo[i - 1]
                 id == Outermost(prev.left)
             IN  [out |-> Paint(prev.out, id), left |-> prev.left \ {id}]
  IN  upTo[Cardinality(DOMAIN defs)].out

\* Owner, which explain asks of one line.
Owner(l) ==
  LET containing == {id \in DOMAIN defs : Spans(id, l)}
  IN IF containing = {} THEN Module
     ELSE CHOOSE id \in containing :
            \A other \in containing \ {id} : OuterFirst(other, id)

ChangedLine ==
  UNION {ChangedRanges[i].start .. ChangedRanges[i].end : i \in DOMAIN ChangedRanges}

\* A changed line of a file that defines nothing is its file node's, any other
\* in no definition its <module> node's.
ChangedNodes ==
  LET own == Owners
  IN {IF DOMAIN defs = {} THEN FileNode ELSE own[l] : l \in ChangedLine}

-----------------------------------------------------------------------------
(* Properties *)

\* A line in no range is the base's, and so is what follows it: nothing was
\* removed after it, nor above the first, nor below the last.
LinesOutsideAreKept ==
  \A l \in Line \ ChangedLine :
    /\ work[l] # 0
    /\ l = 1 => work[l] = 1
    /\ l = Len(work) => work[l] = BaseLines
    /\ l < Len(work) /\ work[l + 1] # 0 => work[l + 1] = work[l] + 1

\* A line in a range was changed or has something removed beside it; ranges are
\* in order, apart, and in the file, a file without lines having its first.
RangesAreTight ==
  /\ \A l \in ChangedLine \cap Line :
       \/ work[l] = 0
       \/ BaseLine(l + 1) # work[l] + 1
       \/ l = 1 /\ work[l] # 1
  /\ \A i \in 1..Len(ChangedRanges) - 1 :
       ChangedRanges[i].end + 1 < ChangedRanges[i + 1].start
  /\ ChangedLine \subseteq Line \cup {1}

\* which and explain name the same owner of a changed line, and no node nested
\* in that owner has the line too.
OneOwner ==
  scanned => LET own == Owners IN \A l \in ChangedLine :
    /\ own[l] = Owner(l)
    /\ \A id \in DOMAIN defs : Spans(id, l) =>
         /\ own[l] # Module
         /\ LET owner == defs[own[l]] IN
              owner.start <= defs[id].start /\ defs[id].end <= owner.end
                => owner = defs[id]

\* An edit changes some node, and a definition that is not among them reads as
\* in the base: of the lines that are its own, all are the base's and those
\* side by side were so there.
OtherDefsAreVerbatim ==
  scanned =>
    /\ work # [l \in 1..BaseLines |-> l] <=> ChangedNodes # {}
    /\ \A id \in DOMAIN defs \ ChangedNodes :
         LET own == {l \in Line : Owner(l) = id} IN
           \A l \in own : /\ work[l] # 0
                          /\ l + 1 \in own => work[l + 1] = work[l] + 1

\* The ranges are the edit, and the nodes they change those that own it
\* (changedset.go:221-379, rounds.go:82-125).
RangesAreTheEdit ==
  LinesOutsideAreKept /\ RangesAreTight /\ OneOwner /\ OtherDefsAreVerbatim
=============================================================================
