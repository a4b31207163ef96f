-------------------------------- MODULE Reports --------------------------------
(***************************************************************************)
(* What bench/replay/report.py publishes of one repository's records: the  *)
(* verdicts, the wall-clock table and the audit of its own tables; and     *)
(* `report --rebuild` (cli.py), which publishes the same records again.    *)
(*                                                                         *)
(* A recall and a share of the suite's duration stand for the metrics, one *)
(* measured column for the three.                                          *)
(***************************************************************************)
EXTENDS Integers, Sequences, FiniteSets, Joining
LOCAL INSTANCE FiniteSetsExt

CONSTANTS
  Scores,      \* what an arm's metrics may be: arm -> <<recall, share>>
  Times,       \* milliseconds
  MaxSamples,
  Unknown      \* a metric of no commits, a time of no run, no page

VARIABLES
  asked,       \* the variants to replay, in order
  arms,        \* the strategies of the run
  score,       \* variant -> its arms' metrics, for the variants with a record
  walls,       \* wall-clock records: [arm, ms, masked]
  ci, quiet,   \* run on a CI machine; with --no-wallclock
  page         \* what summary.json and summary.md say

reportVars == <<asked, arms, score, walls, ci, quiet, page>>

Variant == {"natural", "probe"}
\* The variants of the commits recorded, sorted.
Recorded == SelectSeq(<<"natural", "probe">>, LAMBDA v : v \in DOMAIN score)
-----------------------------------------------------------------------------
(* Verdicts *)

PrimaryVariant(variants) ==
  IF "natural" \in Elements(variants) THEN "natural"
  ELSE IF variants = <<>> THEN Unknown ELSE variants[1]

\* _compare: strictly more found, in no more of the suite's time.
Beats(a, p) ==
  /\ a[1] > p[1]
  /\ Unknown \in {a[2], p[2]} \/ a[2] <= p[2]
Compare(a, p) == IF Unknown \in {a[1], p[1]} THEN Unknown ELSE Beats(a, p)

Judged == {"rtdd", "static"}
Line(arm, v, bound, says) == [arm |-> arm, variant |-> v, upperBound |-> bound, beats |-> says]
Both(arm) == {arm, "path"} \subseteq arms
Verdict(arm, v) == Compare(score[v][arm], score[v]["path"])

\* The primary line is printed whatever it has to say; rtdd's always, that of
\* static where the run has the arm.
PrimaryVerdicts ==
  LET v == PrimaryVariant(Recorded)
  IN  {Line(arm, v, FALSE, IF v # Unknown /\ Both(arm) THEN Verdict(arm, v) ELSE Unknown) :
         arm \in {"rtdd"} \cup (Judged \cap arms)}
SecondaryOfAll ==
  {Line(x[1], x[2], x[2] = "probe", Verdict(x[1], x[2])) :
     x \in {y \in Judged \X Elements(Recorded) : Both(y[1]) /\ Verdict(y[1], y[2]) # Unknown}}
SecondaryVerdicts ==
  {l \in SecondaryOfAll : l.variant # PrimaryVariant(Recorded)}
-----------------------------------------------------------------------------
(* The wall-clock table.  A cell that was replayed from the cache has no   *)
(* time, and is added up as nought.                                        *)
OrNought(ms) == IF ms = Unknown THEN 0 ELSE ms
Sampled(arm) == SelectSeq(walls, LAMBDA w : w.arm = arm)
SamplesOf(arm) == [i \in DOMAIN Sampled(arm) |-> OrNought(Sampled(arm)[i].ms)]

Total(s) == FoldSet(LAMBDA i, sum : s[i] + sum, 0, DOMAIN s)
\* round: to the nearest, a tie to the even.
Mean(s) ==
  LET low == Total(s) \div Len(s)
      left == 2 * (Total(s) % Len(s))
  IN  IF left > Len(s) \/ (left = Len(s) /\ low % 2 = 1) THEN low + 1 ELSE low
\* percentile: nearest rank, q in tenths.
Rank(s, q) == LET r == (q * Len(s) + 9) \div 10 IN IF r < 1 THEN 1 ELSE r
Percentile(s, q) ==
  CHOOSE x \in Elements(s) : /\ Cardinality({i \in DOMAIN s : s[i] < x}) < Rank(s, q)
                          /\ Cardinality({i \in DOMAIN s : s[i] <= x}) >= Rank(s, q)
Row(arm) ==
  LET s == SamplesOf(arm)
  IN  [mean |-> Mean(s), p50 |-> Percentile(s, 5), p90 |-> Percentile(s, 9),
       worst |-> Percentile(s, 10)]

\* CI's refusal comes before the operator's.
Refusal(enabled) == IF ci THEN "ci" ELSE IF ~enabled THEN "--no-wallclock" ELSE "none"
TimedArms == {walls[i].arm : i \in DOMAIN walls}
WallclockTable(enabled) ==
  [refusal |-> Refusal(enabled),
   rows |-> IF Refusal(enabled) = "none" THEN [arm \in TimedArms |-> Row(arm)] ELSE <<>>]
IsolationTable ==
  [sampled |-> Len(walls), violations |-> Len(SelectSeq(walls, LAMBDA w : w.masked))]

\* build_summary and render_markdown.
Summary(enabled, skipped) ==
  [primary |-> PrimaryVariant(Recorded), verdicts |-> PrimaryVerdicts \cup SecondaryVerdicts,
   wallclock |-> WallclockTable(enabled), isolation |-> IsolationTable, skipped |-> skipped]
-----------------------------------------------------------------------------
(* assert_distribution_beside_mean, on a table's header.  Tables of the    *)
(* document by name, with the cells the audit reads.                       *)
Spread == {"p50", "p90", "worst"}
Tables ==
  [headline |-> {"strategy", "selected duration"},
   rounds |-> {"strategy", "time in tests (ms)"},
   comparison |-> {"arm", "mean subset uninstrumented"} \cup Spread,
   wallclock |-> {"strategy", "measurement", "mean"} \cup Spread,
   variants |-> {"strategy", "bound"}]
CitesMean(header) == header \cap {"mean", "mean subset uninstrumented"} # {}
IsWallclock(header) == header \cap {"subset uninstrumented", "mean subset uninstrumented"} # {}
IsComparison(header) == "arm" \in header
Publishable(header) ==
  /\ CitesMean(header) \/ IsWallclock(header) => Spread \subseteq header
  /\ IsComparison(header) => CitesMean(header) /\ Spread \subseteq header
-----------------------------------------------------------------------------
ReportInit ==
  /\ arms \in {DOMAIN s : s \in Scores}
  /\ asked \in {<<"natural">>, <<"probe">>, <<"natural", "probe">>}
  /\ score = [v \in {} |-> Unknown] /\ walls = <<>>
  /\ ci \in BOOLEAN /\ quiet \in BOOLEAN /\ page = Unknown

\* The cycles of a variant: recorded, or every one of them skipped.
Record(v, s) ==
  /\ page = Unknown /\ walls = <<>>
  /\ v \in Elements(asked) \ DOMAIN score /\ DOMAIN s = arms
  /\ score' = [x \in DOMAIN score \cup {v} |-> IF x = v THEN s ELSE score[x]]
  /\ UNCHANGED <<asked, arms, walls, ci, quiet, page>>

\* Nothing is timed where timing is refused.
TimeOne(arm, ms, masked) ==
  /\ page = Unknown /\ Len(walls) < MaxSamples /\ ~ci /\ ~quiet
  /\ arm \in arms /\ DOMAIN score # {}
  /\ walls' = Append(walls, [arm |-> arm, ms |-> ms, masked |-> masked])
  /\ UNCHANGED <<asked, arms, score, ci, quiet, page>>

\* write_results
WriteResults ==
  /\ page = Unknown
  /\ page' = Summary(~quiet, Elements(asked) \ DOMAIN score)
  /\ UNCHANGED <<asked, arms, score, walls, ci, quiet>>

\* _rebuild_repo, on any machine: the records, the stamped hardware, and of
\* the page that is there the skipped cycles and the operator's refusal.
EnabledAlways(prior) == TRUE
EnabledAsPublished(prior) == prior.wallclock.refusal # "--no-wallclock"
Rebuild ==
  /\ page # Unknown
  /\ page' = Summary(EnabledAsPublished(page), page.skipped)
  /\ UNCHANGED <<asked, arms, score, walls, ci, quiet>>

ReportNext ==
  \/ \E v \in Variant, s \in Scores : Record(v, s)
  \/ \E arm \in {"rtdd", "path"}, ms \in Times \cup {Unknown}, masked \in BOOLEAN : TimeOne(arm, ms, masked)
  \/ WriteResults \/ Rebuild
ReportSpec == ReportInit /\ [][ReportNext]_reportVars
-----------------------------------------------------------------------------
PageIsOut == page # Unknown

(* An arm is judged once per population, and against no other population's *)
(* numbers: once over the primary one, and over every other that can be    *)
(* judged under the label of an upper bound.  (report.py:424-433)          *)
OneVerdictEach ==
  PageIsOut =>
    /\ \A l, k \in page.verdicts : l.arm = k.arm /\ l.variant = k.variant => l = k
    /\ \A l \in page.verdicts : l.variant # page.primary => l.upperBound
    /\ \A v \in DOMAIN score : \A arm \in Judged :
         Both(arm) /\ Unknown \notin {score[v][arm][1], score[v]["path"][1]}
           => \E l \in page.verdicts : l.arm = arm /\ l.variant = v

(* A mean is between the fastest and the slowest sample, and the spread    *)
(* beside it climbs from the median to the worst; where every cell was     *)
(* measured, each is a cycle that ran.  (report.py:303-314)                *)
SpreadHolds ==
  PageIsOut => \A arm \in DOMAIN page.wallclock.rows :
    LET row == page.wallclock.rows[arm]
        s == SamplesOf(arm)
    IN  /\ row.p50 <= row.p90 /\ row.p90 <= row.worst
        /\ \A i \in DOMAIN s : s[i] <= row.worst
        /\ 2 * Total(s) - Len(s) <= 2 * row.mean * Len(s)
        /\ 2 * row.mean * Len(s) <= 2 * Total(s) + Len(s)

(* The audit lets every table of the document through, and none of them    *)
(* without a column of the spread while it still cites a mean; the table   *)
(* of the arms cannot drop its times at all.  (report.py:155-170)          *)
AuditSees ==
  /\ \A t \in DOMAIN Tables : Publishable(Tables[t])
  /\ PageIsOut => \A t \in DOMAIN Tables : \A column \in Spread \cap Tables[t] :
       LET cut == Tables[t] \ {column}
       IN  CitesMean(cut) \/ IsComparison(cut) => ~Publishable(cut)
  /\ ~Publishable({c \in Tables.comparison : ~CitesMean({c}) /\ c \notin Spread})

(* Rebuilt on whatever machine, as often as one likes, the page says what  *)
(* the run published: its verdicts, its skipped cycles and its refusal to  *)
(* time.  (cli.py:391-401)                                                 *)
RebuildSaysTheSame == [][page # Unknown => page' = page]_page

(* Said of a published spread: each is a cycle that really ran             *)
(* (report.py:701).                                                        *)
SpreadReallyRan ==
  PageIsOut => \A arm \in DOMAIN page.wallclock.rows :
    page.wallclock.rows[arm].p50 \in {walls[i].ms : i \in {j \in DOMAIN walls : walls[j].arm = arm}}

(* No table of the page says more than its numbers do.                     *)
PageIsFair == OneVerdictEach /\ SpreadHolds /\ AuditSees
=============================================================================
