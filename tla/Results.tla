-------------------------------- MODULE Results --------------------------------
(***************************************************************************)
(* bench/results/: the files the commands of bench/replay/cli.py write     *)
(* there, one by one and in place, and what a killed command leaves.       *)
(*                                                                         *)
(* A replay writes the records it measured, a summary, a page and its      *)
(* config; `derive` adds an arm to the records, `report --rebuild` writes  *)
(* the summary and the page again, `session` puts a curve beside them, and *)
(* `report` and `chart` read every row's summary.                          *)
(***************************************************************************)
EXTENDS Naturals, Sequences, FiniteSets, Joining, Sentinels

CONSTANTS
  Rows,         \* the rows there are directories of, sorted
  Admitted,     \* those the corpus admits now
  Selections,   \* commit selections beside "recent"
  Labels,       \* what --results-label may say, "" for none
  MaxMeasured, MaxCommands, MaxKilled,
  HalfWritten       \* the first part of a file

\* A row is a repository, which no selection is named after; a row that is
\* replayed has a directory.
ASSUME RowsAreDirectories ==
  /\ Rows \in Seq(STRING) /\ Admitted \subseteq {Rows[i] : i \in DOMAIN Rows}
  /\ Selections \cap Admitted = {}

VARIABLES
  shelves,      \* directory -> file -> what it holds
  ran,          \* what each run that measured was: [row, selection, label, linked]
  todo,         \* what the running command is about to write: <<dir, file, value>>
  command, code,\* the last command, and its exit status once it is over
  commands, killed,
  spoiled       \* directories a kill has been in since the last whole replay

resultVars == <<shelves, ran, todo, command, code, commands, killed, spoiled>>

File == {"commits", "summary", "page", "config", "drift"}
NoResults == [f \in File |-> None]
Top == <<>>             \* bench/results itself: its page is aggregate.md
Here(d) == IF d \in DOMAIN shelves THEN shelves[d] ELSE NoResults
Run == DOMAIN ran
Dropped == {Rows[i] : i \in DOMAIN Rows} \ Admitted    \* by a later corpus
aggregate == Here(Top).page     \* row -> the summary it weighs
-----------------------------------------------------------------------------
\* results_dir_for
DirForLabelOnly(row, selection, label) ==
  (IF label = "" THEN <<>> ELSE <<label>>) \o <<row>>
DirFor(row, selection, label) ==
  (IF label = "" THEN <<>> ELSE <<label>>)
    \o (IF selection = "recent" THEN <<>> ELSE <<selection>>) \o <<row>>

\* _label_error
LabelAllowed(label) == label \notin Admitted

\* What a killed command leaves of the records may still parse.
CommitRecords == [run : Nat, derived : {0, 1}, whole : BOOLEAN]
RecordsOf(r, derived) == [run |-> r, derived |-> derived, whole |-> TRUE]
\* build_summary: the records, under the config that stamps them, and the
\* cycles that were skipped.
Summary(records, config, skipped) == [of |-> records, config |-> config, skipped |-> skipped]
Summaries == [of : CommitRecords, config : Nat, skipped : Nat \cup {None}]
Saved(d, f, v) == <<d, f, v>>

ASSUME NoFileIsAValue ==
  None # HalfWritten
    /\ {None, HalfWritten} \cap (Nat \cup CommitRecords \cup Summaries) = {}

\* write_results
ReplayWrites(d, r) ==
  <<Saved(d, "commits", RecordsOf(r, 0)), Saved(d, "summary", Summary(RecordsOf(r, 0), r, r)),
    Saved(d, "page", Summary(RecordsOf(r, 0), r, r)), Saved(d, "config", r)>>

\* cmd_session: a curve, and a config only where there is none.
SessionWrites(d, r) ==
  <<Saved(d, "drift", r)>>
    \o (IF Here(d).config = None THEN <<Saved(d, "config", r)>> ELSE <<>>)

Stop(c) == [writes |-> <<>>, code |-> c]
Writes(seq) == [writes |-> seq, code |-> "ok"]

\* cmd_derive: what was derived before is dropped first; a cycle the import
\* graph was not run on stops it.
DeriveRow(row) ==
  LET records == Here(<<row>>).commits
  IN  IF records = HalfWritten THEN Stop("crash")
      ELSE IF ~ran[records.run].linked THEN Stop("guard")
      ELSE Writes(<<Saved(<<row>>, "commits", [records EXCEPT !.derived = 1])>>)

\* cmd_rebuild and _rebuild_repo: the skipped cycles are the old summary's.
RebuildRow(row) ==
  LET d == <<row>>
      h == Here(d)
      skipped == IF h.summary = None THEN None ELSE h.summary.skipped
      new == Summary(h.commits, h.config, skipped)
  IN  IF h.config = None THEN Stop("guard")
      ELSE IF HalfWritten \in {h.commits, h.config, h.summary} THEN Stop("crash")
      ELSE Writes(<<Saved(d, "summary", new), Saved(d, "page", new)>>)

\* cmd_report: every admitted row that has a summary; the last of several
\* commands over rows with nothing to say is refused.
Weighs == {row \in Admitted : Here(<<row>>).summary # None}
AggregateOf == [row \in Weighs |-> Here(<<row>>).summary]
-----------------------------------------------------------------------------
\* A row that an older corpus admitted has been published too.
ResultsInit ==
  /\ shelves = [d \in {<<row>> : row \in Dropped} |->
       [NoResults EXCEPT !.commits = RecordsOf(1, 0), !.summary = Summary(RecordsOf(1, 0), 1, 1),
                       !.page = Summary(RecordsOf(1, 0), 1, 1), !.config = 1]]
  /\ ran = <<[row |-> "old", selection |-> "recent", label |-> "", linked |-> TRUE]>>
  /\ todo = <<>> /\ command = "none" /\ code = "ok"
  /\ commands = 0 /\ killed = 0 /\ spoiled = {}

Begin(name) ==
  /\ todo = <<>> /\ commands < MaxCommands
  /\ commands' = commands + 1 /\ command' = name

\* cmd_replay, once everything has been measured.
Replay(row, selection, label, linked) ==
  LET d == DirFor(row, selection, label)
      run == [row |-> row, selection |-> selection, label |-> label, linked |-> linked]
  IN /\ Begin("replay") /\ Len(ran) < MaxMeasured /\ row \in Admitted
     /\ \/ /\ LabelAllowed(label)
           /\ ran' = Append(ran, run) /\ todo' = ReplayWrites(d, Len(ran) + 1) /\ code' = "ok"
           /\ spoiled' = spoiled \ {d}
        \/ /\ ~LabelAllowed(label) /\ code' = "guard" /\ UNCHANGED <<ran, todo, spoiled>>
     /\ UNCHANGED <<shelves, killed>>

Session(row) ==
  /\ Begin("session") /\ Len(ran) < MaxMeasured /\ row \in Admitted
  /\ ran' = Append(ran, [row |-> row, selection |-> "drift", label |-> "", linked |-> FALSE])
  /\ todo' = SessionWrites(<<row>>, Len(ran) + 1) /\ code' = "ok"
  /\ UNCHANGED <<shelves, killed, spoiled>>

\* The commands over all rows go through the directories in order, and stop
\* at the first that stops them.
Visited == {i \in DOMAIN Rows : Rows[i] \in Admitted /\ Here(<<Rows[i]>>).commits # None}
OverRows(name, one) ==
  LET stops == {i \in Visited : one[i].code # "ok"}
      reached == {i \in Visited : \A j \in stops : i <= j}
  IN  /\ Begin(name)
      /\ todo' = Joined([i \in DOMAIN Rows |-> IF i \in reached THEN one[i].writes ELSE <<>>])
      /\ \/ \E i \in stops \cap reached : code' = one[i].code
         \/ stops = {} /\ code' = IF Visited = {} THEN "guard" ELSE "ok"
      /\ UNCHANGED <<shelves, ran, killed, spoiled>>
Derive == OverRows("derive", [i \in Visited |-> DeriveRow(Rows[i])])
Rebuild == OverRows("rebuild", [i \in Visited |-> RebuildRow(Rows[i])])

Report ==
  /\ Begin("report")
  /\ \/ \E row \in Weighs : Here(<<row>>).summary = HalfWritten
        /\ code' = "crash" /\ todo' = <<>>
     \/ Weighs = {} /\ code' = "guard" /\ todo' = <<>>
     \/ /\ Weighs # {} /\ \A row \in Weighs : Here(<<row>>).summary # HalfWritten
        /\ code' = "ok" /\ todo' = <<Saved(Top, "page", AggregateOf)>>
  /\ UNCHANGED <<shelves, ran, killed, spoiled>>

Put(d, f, v) == [e \in DOMAIN shelves \cup {d} |-> IF e = d THEN [Here(d) EXCEPT ![f] = v] ELSE shelves[e]]
WriteNext ==
  /\ todo # <<>>
  /\ shelves' = Put(todo[1][1], todo[1][2], todo[1][3]) /\ todo' = Tail(todo)
  /\ UNCHANGED <<ran, command, code, commands, killed, spoiled>>

\* A file is truncated and written in place; records are lines, and the
\* lines that were written can be read.
LeftOf(f, v) ==
  {HalfWritten} \cup (IF f = "commits" THEN {[v EXCEPT !.whole = FALSE]} ELSE {})
Killed ==
  /\ todo # <<>> /\ killed < MaxKilled
  /\ killed' = killed + 1 /\ todo' = <<>> /\ code' = "killed"
  /\ shelves' \in {shelves} \cup
       {Put(todo[1][1], todo[1][2], v) : v \in LeftOf(todo[1][2], todo[1][3])}
  /\ spoiled' = spoiled \cup {todo[i][1] : i \in DOMAIN todo}
  /\ UNCHANGED <<ran, command, commands>>

ResultsNext ==
  \/ \E row \in Admitted, s \in Selections \cup {"recent"}, label \in Labels, linked \in BOOLEAN :
       Replay(row, s, label, linked)
  \/ \E row \in Admitted : Session(row)
  \/ Derive \/ Rebuild \/ Report \/ WriteNext \/ Killed
ResultsSpec == ResultsInit /\ [][ResultsNext]_resultVars
-----------------------------------------------------------------------------
Idle == todo = <<>>

ResultsTypeOK ==
  /\ \A d \in DOMAIN shelves :
       /\ {shelves[d].config, shelves[d].drift} \subseteq Run \cup {None, HalfWritten}
       /\ shelves[d].commits \in {None, HalfWritten} \cup {c \in CommitRecords : c.run \in Run}
  /\ code \in {"ok", "guard", "crash", "killed"}

(* No result without its config: whatever was derived, rebuilt or measured *)
(* beside it, a row nobody was killed in holds the records of one run, the *)
(* config of that run, and a summary of that run under that config.        *)
(* (report.py:12-15, cli.py:333-346, 357-366)                              *)
OneRunPerRow ==
  Idle => \A d \in DOMAIN shelves \ spoiled :
    LET h == shelves[d]
    IN  h.commits # None =>
          LET r == h.commits.run
          IN  /\ h.commits.whole /\ h.config = r /\ h.page = h.summary
              /\ h.summary.of.run = r /\ h.summary.config = r /\ h.summary.skipped = r

(* The published directory of a row holds what the shipped rule of commits *)
(* and no label measured; another run never lands on it, nor inside it.    *)
(* (cli.py:173-187)                                                        *)
PublishedIsTheRule ==
  \A d \in DOMAIN shelves :
    /\ Len(d) > 1 => d[1] \notin Admitted
    /\ Len(d) = 1 /\ d[1] \in Admitted /\ shelves[d].commits \notin {None, HalfWritten} =>
         LET run == ran[shelves[d].commits.run]
         IN  run.row = d[1] /\ run.selection = "recent" /\ run.label = ""

(* Deriving again supersedes its own answer; a row a later corpus dropped  *)
(* stays as it was published.  (cli.py:441-456)                            *)
DerivedOnce ==
  /\ \A d \in DOMAIN shelves :
       shelves[d].commits \notin {None, HalfWritten} => shelves[d].commits.derived <= 1
  /\ \A row \in Dropped :
       shelves[<<row>>].commits = RecordsOf(1, 0) /\ shelves[<<row>>].config = 1

(* The aggregate spans the corpus that is, each row once, none that an     *)
(* older corpus had; while no row changes it is of the rows as they are.   *)
(* (cli.py:491-498)                                                        *)
AggregateIsTheCorpus ==
  aggregate \notin {None, HalfWritten} =>
    /\ DOMAIN aggregate \subseteq Admitted /\ DOMAIN aggregate # {}
    /\ Idle /\ command = "report" /\ code = "ok" =>
         \A row \in Admitted : IF Here(<<row>>).summary = None THEN row \notin DOMAIN aggregate
                               ELSE aggregate[row] = Here(<<row>>).summary

(* A command that says it did what it was asked did it for every row:      *)
(* derive adds its arm to all the records, rebuild summarises all of them. *)
OkIsEveryRow ==
  Idle /\ code = "ok" =>
    \A row \in Admitted :
      LET h == Here(<<row>>)
      IN  h.commits # None =>
            /\ command = "derive" => h.commits # HalfWritten /\ h.commits.derived = 1
            /\ command = "rebuild" => /\ h.summary \notin {None, HalfWritten}
                                      /\ h.summary.of = h.commits /\ h.summary.config = h.config

(* What is published is of one run of the corpus that is, however many     *)
(* commands ran over it, were refused or were killed.                      *)
ResultsAreTheRuns ==
  /\ OneRunPerRow /\ PublishedIsTheRule /\ DerivedOnce /\ AggregateIsTheCorpus
  /\ OkIsEveryRow
=============================================================================
