------------------------------ MODULE Evaluation ------------------------------
(***************************************************************************)
(* The evaluation of the agent benchmark's arms (bench/swebench/evaluate.py*)
(* , metrics.py and analyze.py): the raw records of an arm go to the       *)
(* official harness as predictions, its reports are mirrored beside the    *)
(* results, and the analysis divides by the frozen sample whatever is      *)
(* missing.  Every file is written in place.                               *)
(***************************************************************************)
EXTENDS Integers, Sequences, FiniteSets, Sentinels
LOCAL INSTANCE Functions
LOCAL INSTANCE FiniteSetsExt
Seqs == INSTANCE SequencesExt

CONSTANTS
  Ids, Arms,        \* instances.txt and the registered arms, in order
  Records,          \* arm -> the records its instances may get: [patch, seed]
  P2P, F2P,         \* instance -> its tests to keep, and to make, green
  Verdicts,         \* instance -> the reports the harness may give it:
                    \* [applied, status: None or [failed, passed]]
  K,                \* vanilla_equivalence_k
  MaxCuts, MaxAsks,
  Torn              \* the first part of a file

ASSUME ATornFileIsThere == Torn # None

VARIABLES
  raw,              \* <<arm, instance>> -> its record
  logs, mirror,     \* <<arm, instance>> -> its report, the harness's and ours
  summary,          \* summary.json, while nothing has been run since
  cuts, asks

evalVars == <<raw, logs, mirror, summary, cuts, asks>>

Arm == Range(Arms)
Cell == Arm \X Range(Ids)
CellsOf(arms) == Seqs!FlattenSeq([a \in DOMAIN arms |-> [i \in DOMAIN Ids |-> <<arms[a], Ids[i]>>]])
Sum(f(_), set) == FoldSet(LAMBDA x, sum : f(x) + sum, 0, set)
-----------------------------------------------------------------------------
(* Reading: evaluate.py and metrics.from_report.                           *)

\* _harness_report: an instance the log tree has no report of is looked up in
\* the mirror.
HarnessReport(c) == IF logs[c] # None THEN logs[c] ELSE mirror[c]
ReadableCell(c) == raw[c] # Torn /\ HarnessReport(c) # Torn
HasPatch(c) == raw[c] \notin {None, Torn} /\ raw[c].patch

\* _patch_applied
PatchApplied(c) ==
  HasPatch(c) /\ (HarnessReport(c) # None => HarnessReport(c).applied)

\* from_report: the totals are the dataset's.
Evaluated(c) == PatchApplied(c) /\ HarnessReport(c) # None /\ HarnessReport(c).status # None
TotalOf(c) == Cardinality(P2P[c[2]])
Failed(c) == IF Evaluated(c) THEN Cardinality(HarnessReport(c).status.failed) ELSE 0
Passed(c) == IF Evaluated(c) THEN Cardinality(HarnessReport(c).status.passed) ELSE 0
Solved(c) == Evaluated(c) /\ Failed(c) = 0 /\ Passed(c) = Cardinality(F2P[c[2]])

\* seed_failures: whatever the seed's status, seeded or not tried apart.
Unseeded(c) == raw[c] # None /\ raw[c].seed \notin {None, "seeded"}

\* summarize.
CellsIn(arm) == {c \in Cell : c[1] = arm}
ArmSummary(arm) ==
  LET all == CellsIn(arm)
      Count(P(_)) == Cardinality({c \in all : P(c)})
  IN  [n |-> Cardinality(all), failed |-> Sum(Failed, all), total |-> Sum(TotalOf, all),
       hits |-> Count(LAMBDA c : Failed(c) > 0), solved |-> Count(Solved),
       evaluated |-> Count(Evaluated), unapplied |-> Count(LAMBDA c : ~PatchApplied(c)),
       errors |-> {c[2] : c \in {d \in all : PatchApplied(d) /\ ~Evaluated(d)}},
       unseeded |-> Count(Unseeded)]
-----------------------------------------------------------------------------
(* wilson_ci, in ten-thousandths, and compare.                             *)
Unit == 10000
Root[x \in Nat, low \in Nat, high \in Nat] ==
  IF high <= low + 1 THEN low
  ELSE LET mid == (low + high) \div 2
       IN  IF mid * mid <= x THEN Root[x, mid, high] ELSE Root[x, low, mid]
Spread(s, n) ==
  (19600 * Root[(s * (n - s) * Unit * Unit) \div n + 9604 * Unit, 0, 40000])
    \div (n * Unit + 38416)
Centre(s, n) == ((2 * s * Unit + 38416) * Unit) \div (2 * (n * Unit + 38416))
Wilson(s, n) ==
  IF n = 0 THEN <<0, 0>>
  ELSE <<IF s = 0 THEN 0 ELSE Centre(s, n) - Spread(s, n),
         IF s = n THEN Unit ELSE Centre(s, n) + Spread(s, n)>>

Lower(a, b) == IF b.failed * a.total < a.failed * b.total THEN "b" ELSE "a"
Compare(a, b) ==
  LET x == Wilson(a.failed, a.total)
      y == Wilson(b.failed, b.total)
  IN  IF x[1] > y[2] \/ y[1] > x[2] THEN Lower(a, b) ELSE "none"

\* vanilla_reproduces: within K half-widths of the published 0.0608.
Reproduces(s) ==
  LET w == Wilson(s.failed, s.total)
      off == 608 * s.total - s.failed * Unit
  IN  2 * (IF off < 0 THEN 0 - off ELSE off) <= K * (w[2] - w[1]) * s.total

\* The kill criterion is Registration's.
Pairs == {p \in Arm \X Arm : p[1] # p[2]}
Analysis ==
  LET arms == [a \in Arm |-> ArmSummary(a)]
  IN  [arms |-> arms, cited |-> Reproduces(arms["vanilla"]),
       verdicts |-> [p \in Pairs |-> Compare(arms[p[1]], arms[p[2]])]]
-----------------------------------------------------------------------------
EvalInit ==
  /\ raw = [c \in Cell |-> None] /\ logs = raw /\ mirror = raw
  /\ summary = None /\ cuts = 0 /\ asks = 0

\* run_arm gives an instance its record once; a killed one leaves a piece.
RunInstance(c, record) ==
  /\ raw[c] = None /\ raw' = [raw EXCEPT ![c] = record] /\ summary' = None
  /\ UNCHANGED <<logs, mirror, cuts, asks>>
KillInstance(c) ==
  /\ raw[c] = None /\ cuts < MaxCuts /\ cuts' = cuts + 1
  /\ raw' = [raw EXCEPT ![c] = Torn] /\ summary' = None
  /\ UNCHANGED <<logs, mirror, asks>>
\* A record that cannot be read stops what follows until somebody removes it.
RemoveTorn(c) ==
  /\ raw[c] = Torn /\ raw' = [raw EXCEPT ![c] = None]
  /\ UNCHANGED <<logs, mirror, summary, cuts, asks>>

\* write_predictions asks for the whole sample; the harness answers for what
\* it finishes, and keeps the answers it has under the arm's run id.
RunHarness(arm, done, says) ==
  /\ asks < MaxAsks /\ asks' = asks + 1
  /\ \A c \in CellsIn(arm) : raw[c] # Torn
  /\ done = {c \in done : HasPatch(c) /\ logs[c] = None}
  /\ logs' = [c \in Cell |-> IF c \in done THEN says[c[2]] ELSE logs[c]]
  /\ summary' = None
  /\ UNCHANGED <<raw, mirror, cuts>>
DropLogs ==
  /\ \E c \in Cell : logs[c] # None
  /\ logs' = [c \in Cell |-> None]
  /\ UNCHANGED <<raw, mirror, summary, cuts, asks>>

\* collect: every report goes to the mirror, one after the other, up to the
\* first that cannot be read.
Reached(cells) == Seqs!SelectInSeq(cells, LAMBDA c : ~ReadableCell(c))
MirroredIfScored(cells, k) ==
  [c \in Cell |-> IF (\E i \in 1..k : cells[i] = c) /\ Evaluated(c) THEN HarnessReport(c) ELSE mirror[c]]
Mirrored(cells, k) ==
  [c \in Cell |-> IF \E i \in 1..k : cells[i] = c THEN HarnessReport(c) ELSE mirror[c]]
CollectsCells(cells) ==
  LET end == IF Reached(cells) = 0 THEN Len(cells) ELSE Reached(cells) - 1
  IN  mirror' = Mirrored(cells, end)
CollectArm(arm) ==
  /\ CollectsCells(CellsOf(<<arm>>)) /\ mirror' # mirror
  /\ UNCHANGED <<raw, logs, summary, cuts, asks>>
KillCollect(k) ==
  /\ cuts < MaxCuts /\ cuts' = cuts + 1
  /\ LET cells == CellsOf(Arms)
     IN  /\ \A i \in 1..k : ReadableCell(cells[i])
         /\ mirror' = [Mirrored(cells, k - 1) EXCEPT ![cells[k]] = Torn]
  /\ UNCHANGED <<raw, logs, summary, asks>>

\* analyze collects every arm, and writes summary.json if it came through.
Analyze ==
  /\ CollectsCells(CellsOf(Arms))
  /\ IF Reached(CellsOf(Arms)) = 0
     THEN summary' = Analysis
     ELSE UNCHANGED summary
  /\ UNCHANGED <<raw, logs, cuts, asks>>

EvalNext ==
  \/ \E c \in Cell : \E record \in Records[c[1]] : RunInstance(c, record)
  \/ \E c \in Cell : KillInstance(c) \/ RemoveTorn(c)
  \/ \E arm \in Arm, done \in SUBSET Cell,
        says \in {f \in [Range(Ids) -> UNION {Verdicts[i] : i \in DOMAIN Verdicts}] :
                    \A i \in Range(Ids) : f[i] \in Verdicts[i]} :
       (\A c \in done : c[1] = arm) /\ RunHarness(arm, done, says)
  \/ DropLogs \/ (\E arm \in Arm : CollectArm(arm)) \/ (\E k \in 1..Cardinality(Cell) : KillCollect(k))
  \/ Analyze

EvalSpec == EvalInit /\ [][EvalNext]_evalVars
-----------------------------------------------------------------------------
(* Every denominator is the whole sample: an instance that was never run,  *)
(* got no patch, or was lost stays in it, under exactly one of the heads.  *)
(* (evaluate.py:10-22, metrics.py:11-19, analyze.py:97-102)                *)
CountsShareOut ==
  summary # None => \A a \in Arm :
    LET s == summary.arms[a]
    IN  /\ s.n = Len(Ids) /\ s.n = s.evaluated + s.unapplied + Cardinality(s.errors)
        /\ s.total = Sum(LAMBDA i : Cardinality(P2P[i]), Range(Ids))
        /\ s.failed <= s.total /\ s.solved + s.hits <= s.evaluated

(* An instance with a patch that the harness was asked about and did not   *)
(* score is named, and never counted as one the arm left alone.            *)
(* (evaluate.py:19-21, 206-213)                                            *)
LostIsNamed ==
  summary # None => \A c \in Cell :
    HasPatch(c) /\ HarnessReport(c) = None => c[2] \in summary.arms[c[1]].errors

(* A report that was collected outlives the harness's own tree: no later   *)
(* collection or partial evaluation takes it back.  (evaluate.py:16-18)    *)
ReportsOutlive ==
  [][\A c \in Cell : mirror[c] # None => mirror'[c] # None]_mirror

(* Analysed again without the harness, whatever it lost or deleted since,  *)
(* the summary is the same.  (evaluate.py:16-18, 142-155)                  *)
SummaryOutlivesTheLogs ==
  summary # None /\ (\A c \in Cell : ReadableCell(c)) => summary = Analysis

(* An arm is called the lower one only where the two intervals separate,   *)
(* whichever of them is named first; and intervals hold their own rate.    *)
(* (analyze.py:149-166, metrics.py:139-161)                                *)
VerdictNeedsSeparation ==
  summary # None => \A p \in Pairs :
    LET a == summary.arms[p[1]]
        b == summary.arms[p[2]]
        x == Wilson(a.failed, a.total)
        y == Wilson(b.failed, b.total)
    IN  /\ 0 <= x[1] /\ x[1] * a.total <= a.failed * Unit
        /\ a.failed * Unit <= x[2] * a.total /\ x[2] <= Unit
        /\ summary.verdicts[p] = "b" => y[2] < x[1]
        /\ summary.verdicts[p] = "b" <=> summary.verdicts[<<p[2], p[1]>>] = "a"

(* The summary is of the whole sample, whatever was lost on the way, and   *)
(* calls a winner only where there is one.                                 *)
SummaryIsTheSample ==
  CountsShareOut /\ LostIsNamed /\ SummaryOutlivesTheLogs /\ VerdictNeedsSeparation
=============================================================================
