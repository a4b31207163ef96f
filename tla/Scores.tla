-------------------------------- MODULE Scores --------------------------------
(***************************************************************************)
(* What bench/replay makes of its records: metrics.py and falsesignal.py   *)
(* over the records of one repository, and the `static` arm derive.py      *)
(* computes from them.  Records come in any order, some answers never.     *)
(***************************************************************************)
EXTENDS Integers, Sequences, FiniteSets, Joining

CONSTANTS
  Cycles,        \* the cycles a walk may record
  Truths,        \* what a commit record may say: [all, full, changed], of tests
                 \* <<file, name>> and of paths
  ArmsRun,       \* the strategies
  Duration,      \* of a test, in milliseconds
  Correspondents,\* changed path -> the test files its templates name, in order
  Uncovered,     \* an uncovered report: [reported, truth], sets of lines
  MaxSamples, Times,
  Scale          \* a common multiple of the sizes of all F_full

ASSUME ScoresParameters ==
  /\ IsFiniteSet(Cycles) /\ "static" \notin ArmsRun
  /\ \A r \in Truths : /\ IsFiniteSet(r.all) /\ IsFiniteSet(r.full) /\ IsFiniteSet(r.changed)
                       /\ \A t \in r.all : Duration[t] \in Nat
                       /\ \A p \in r.changed : Correspondents[p] \in Seq(Elements(Correspondents[p]))
  /\ \A r \in Uncovered : IsFiniteSet(r.reported)
  /\ Times \subseteq Nat /\ MaxSamples \in Nat /\ Scale \in Nat

VARIABLES
  commitOf,      \* cycle -> its commit record, for the cycles recorded
  answers,       \* <<cycle, strategy>> -> the tests selected
  gaveUp,        \* the answers that are escalations
  reports,       \* cycle -> its uncovered report
  samples        \* wall-clock samples of one arm, sorted

scoreVars == <<commitOf, answers, gaveUp, reports, samples>>

Nothing == [x \in {} |-> {}]
Also(f, x, v) == [y \in DOMAIN f \cup {x} |-> IF y = x THEN v ELSE f[y]]
\* The sum of n[x], of as many pairs <<x, k>>, k in 1..n[x].
Total(n) == Cardinality(UNION {{x} \X (1..n[x]) : x \in DOMAIN n})
-----------------------------------------------------------------------------
(* metrics.py.  A ratio is <<num, den>>.                                   *)

\* pair_up: the cycles recorded that the arm answered; a cycle it never ran is
\* missing, not a miss.
Paired(s) == {c \in DOMAIN commitOf : <<c, s>> \in DOMAIN answers}
Full(c) == commitOf[c].full
Hits(c, s) == answers[<<c, s>>] \cap Full(c)

Detecting(pairs) == {c \in pairs : Full(c) # {}}
ChangeRecall(s, pairs) ==
  <<Cardinality({c \in Detecting(pairs) : Hits(c, s) # {}}), Cardinality(Detecting(pairs))>>
Micro(s, pairs) ==
  <<Total([c \in Detecting(pairs) |-> Cardinality(Hits(c, s))]),
    Total([c \in Detecting(pairs) |-> Cardinality(Full(c))])>>
\* The mean of a fraction per commit, in parts of Scale.
Macro(s, pairs) ==
  <<Total([c \in Detecting(pairs) |->
             (Cardinality(Hits(c, s)) * Scale) \div Cardinality(Full(c))]),
    Cardinality(Detecting(pairs)) * Scale>>

\* stratum_of and by_stratum.
StratumFromTwo(k) == CASE k <= 1 -> "0" [] k \in 2..5 -> "2-5"
                       [] k \in 6..20 -> "6-20" [] OTHER -> "21+"
Stratum(k) == CASE k <= 0 -> "0" [] k = 1 -> "1" [] k \in 2..5 -> "2-5"
                [] k \in 6..20 -> "6-20" [] OTHER -> "21+"
Strata == {"1", "2-5", "6-20", "21+"}
InStratum(pairs, k) == {c \in Detecting(pairs) : Stratum(Cardinality(Full(c))) = k}

SelectionRatio(s, pairs) ==
  <<Total([c \in pairs |-> Cardinality(answers[<<c, s>>])]),
    Total([c \in pairs |-> Cardinality(commitOf[c].all)])>>
DurationOf(set) == Total([t \in set |-> Duration[t]])
DurationFraction(s, pairs) ==
  <<Total([c \in pairs |-> DurationOf(answers[<<c, s>>])]),
    Total([c \in pairs |-> DurationOf(commitOf[c].all)])>>
EscalationRate(s) ==
  <<Cardinality({k \in gaveUp : k[2] = s}), Cardinality({k \in DOMAIN answers : k[2] = s})>>

\* percentile: nearest rank, q in hundredths.
Rank(q) == (q * Len(samples) + 99) \div 100
Percentile(q) ==
  LET atLeastOne == IF Rank(q) > 1 THEN Rank(q) ELSE 1
  IN  samples[IF atLeastOne < Len(samples) THEN atLeastOne ELSE Len(samples)]

-----------------------------------------------------------------------------
(* falsesignal.py: a report is wholly wrong when all it names is covered.  *)
Count(r) == Cardinality(r.reported)
CoveredHits(r) == Cardinality(r.reported \cap r.truth)
Fired(set) == {c \in set : Count(reports[c]) > 0}
ChangeFalse ==
  LET fired == Fired(DOMAIN reports)
  IN  <<Cardinality({c \in fired : CoveredHits(reports[c]) = Count(reports[c])}), Cardinality(fired)>>
LineFalse ==
  LET fired == Fired(DOMAIN reports)
  IN  <<Total([c \in fired |-> CoveredHits(reports[c])]),
        Total([c \in fired |-> Count(reports[c])])>>
FireRate == <<Cardinality(Fired(DOMAIN reports)), Cardinality(DOMAIN commitOf)>>

-----------------------------------------------------------------------------
(* derive.py: a changed path stands for itself if it collected tests, else *)
(* for the first file its templates name that did; the committed answer of *)
(* importgraph is added, and a cycle without one stops the derivation.     *)
CollectedFiles(c) == {t[1] : t \in commitOf[c].all}
TestFor(c, p) ==
  LET named == Correspondents[p]
      found == {i \in DOMAIN named : named[i] \in CollectedFiles(c)}
  IN  {named[i] : i \in {k \in found : \A h \in found : k <= h}}
Level1(c) ==
  LET hit == UNION {IF p \in CollectedFiles(c) THEN {p} ELSE TestFor(c, p) : p \in commitOf[c].changed}
  IN  {t \in commitOf[c].all : t[1] \in hit}

Level2 == "importgraph"
Derivable == \A c \in DOMAIN commitOf : /\ <<c, Level2>> \in DOMAIN answers
                                       /\ answers[<<c, Level2>>] \subseteq commitOf[c].all
Static(c) == Level1(c) \cup answers[<<c, Level2>>]
Underived == {k \in DOMAIN answers : k[2] # "static"}
Derived ==
  [k \in Underived \cup {<<c, "static">> : c \in DOMAIN commitOf} |->
     IF k[2] = "static" THEN Static(k[1]) ELSE answers[k]]
-----------------------------------------------------------------------------
ScoresInit ==
  /\ commitOf = Nothing /\ answers = Nothing /\ gaveUp = {} /\ reports = Nothing /\ samples = <<>>

RecordCommit(c, truth) ==
  /\ c \notin DOMAIN commitOf /\ samples = <<>>
  /\ commitOf' = Also(commitOf, c, truth)
  /\ UNCHANGED <<answers, gaveUp, reports, samples>>

\* A strategy's record is of a cycle that has a commit record, as the driver
\* writes them, and of tests that were collected.
RecordAnswer(c, s, tests, escalated) ==
  /\ <<c, s>> \notin DOMAIN answers /\ reports = Nothing
  /\ escalated => tests = commitOf[c].all
  /\ answers' = Also(answers, <<c, s>>, tests)
  /\ gaveUp' = IF escalated THEN gaveUp \cup {<<c, s>>} ELSE gaveUp
  /\ UNCHANGED <<commitOf, reports, samples>>

\* No number is made of both reports and answers, or samples: one kind comes.
RecordReport(c, r) ==
  /\ c \in DOMAIN commitOf /\ c \notin DOMAIN reports /\ answers = Nothing
  /\ reports' = Also(reports, c, r)
  /\ UNCHANGED <<commitOf, answers, gaveUp, samples>>

\* In its place, as they are sorted when a percentile is asked for.
TakeSample(ms, before) ==
  /\ Len(samples) < MaxSamples /\ commitOf = Nothing
  /\ \A i \in DOMAIN samples : samples[i] <= ms <=> i <= before
  /\ samples' = [i \in 1..Len(samples) + 1 |->
                   IF i <= before THEN samples[i] ELSE IF i = before + 1 THEN ms ELSE samples[i - 1]]
  /\ UNCHANGED <<commitOf, answers, gaveUp, reports>>

\* cmd_derive
DeriveStatic ==
  /\ commitOf # Nothing /\ Derivable /\ reports = Nothing
  /\ answers' = Derived
  /\ UNCHANGED <<commitOf, gaveUp, reports, samples>>

ScoresNext ==
  \/ \E c \in Cycles, truth \in Truths : RecordCommit(c, truth)
  \/ \E c \in DOMAIN commitOf, s \in ArmsRun, e \in BOOLEAN :
       \E tests \in SUBSET commitOf[c].all : RecordAnswer(c, s, tests, e)
  \/ \E c \in Cycles, r \in Uncovered : RecordReport(c, r)
  \/ \E ms \in Times, before \in 0..Len(samples) : TakeSample(ms, before)
  \/ DeriveStatic

ScoresSpec == ScoresInit /\ [][ScoresNext]_scoreVars
-----------------------------------------------------------------------------
Answering == {k[2] : k \in DOMAIN answers}
AtMostOne(r) == 0 <= r[1] /\ r[1] <= r[2]

(* Recall is of the cycles that had something to find: the strata share    *)
(* them out, none left over and none twice, and finding a part of each     *)
(* commit's failures never scores above finding something of each.         *)
(* (metrics.py:15-21, 126-135)                                             *)
StrataShareOut ==
  \A s \in Answering :
    LET pairs == Paired(s)
        parts == [k \in Strata |-> InStratum(pairs, k)]
    IN  /\ \A i \in {1, 2} :
             /\ ChangeRecall(s, pairs)[i] = Total([k \in Strata |-> ChangeRecall(s, parts[k])[i]])
             /\ Micro(s, pairs)[i] = Total([k \in Strata |-> Micro(s, parts[k])[i]])
        /\ Macro(s, pairs)[1] <= ChangeRecall(s, pairs)[1] * Scale
        /\ ChangeRecall(s, pairs)[1] <= Micro(s, pairs)[1]

(* An arm that gives up on every cycle saves nothing and misses nothing a  *)
(* test could show; no arm costs more than that.  (metrics.py:138-149)     *)
GivingUpCostsAll ==
  \A s \in Answering :
    LET pairs == Paired(s)
    IN  /\ AtMostOne(SelectionRatio(s, pairs)) /\ AtMostOne(DurationFraction(s, pairs))
        /\ EscalationRate(s)[1] = EscalationRate(s)[2] =>
             /\ SelectionRatio(s, pairs)[1] = SelectionRatio(s, pairs)[2]
             /\ \A c \in pairs : Hits(c, s) = Full(c) \cap commitOf[c].all

(* A published percentile is a time some cycle took, at least that share   *)
(* of the cycles took no longer and a smaller share less.                  *)
(* (metrics.py:152-161)                                                    *)
PercentileIsATime ==
  samples # <<>> => \A q \in {1, 50, 95, 100} :
    LET p == Percentile(q)
        no(below) == 100 * Cardinality(below)
    IN  /\ p \in Elements(samples)
        /\ no({i \in DOMAIN samples : samples[i] <= p}) >= q * Len(samples)
        /\ no({i \in DOMAIN samples : samples[i] < p}) < q * Len(samples)

(* A tool that keeps silent has no false-signal rate, good or bad; one     *)
(* whose reports are wholly wrong is wrong in all its lines, and only      *)
(* then.  (falsesignal.py:18-24)                                           *)
SilenceIsNoSignal ==
  commitOf # Nothing =>
    /\ LineFalse[2] = 0 <=> ChangeFalse[2] = 0
    /\ ChangeFalse[1] > 0 => LineFalse[1] > 0
    /\ ChangeFalse[1] = ChangeFalse[2] <=> LineFalse[1] = LineFalse[2]
    /\ AtMostOne(FireRate)

(* The derived arm contains the import graph's, adds to it one file for a  *)
(* changed path at most, and picks collected tests only; deriving again    *)
(* changes nothing.  (derive.py:14-40, 136-142)                            *)
StaticIsDerived ==
  \A c \in DOMAIN commitOf : <<c, "static">> \in DOMAIN answers =>
    LET static == answers[<<c, "static">>]
    IN  /\ answers[<<c, Level2>>] \subseteq static /\ static \subseteq commitOf[c].all
        /\ Cardinality({t[1] : t \in static \ answers[<<c, Level2>>]})
             <= Cardinality(commitOf[c].changed)
        /\ Derivable => Derived[<<c, "static">>] = static

(* Each score is a share of what it says it is a share of.                 *)
ScoresAreShares ==
  /\ StrataShareOut /\ GivingUpCostsAll /\ PercentileIsATime
  /\ SilenceIsNoSignal /\ StaticIsDerived
=============================================================================
