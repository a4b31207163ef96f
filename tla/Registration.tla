----------------------------- MODULE Registration -----------------------------
(***************************************************************************)
(* The gate of the agent benchmark (bench/swebench/prereg.py, preflight.py *)
(* and analyze.py's kill criterion): the pre-registration a human signs,   *)
(* commits and tags, the sample it freezes, and the analysis that is held  *)
(* to its floor.                                                           *)
(*                                                                         *)
(* The repository is the user's: its files are edited, committed, checked  *)
(* out and tagged between any two steps of the benchmark.                  *)
(***************************************************************************)
EXTENDS Naturals, Sequences, FiniteSets, Sentinels
Sets == INSTANCE FiniteSetsExt

CONSTANTS
  Forms,       \* what PREREGISTRATION.md may say: [status, filled, sample, size, floor]
  Samples,     \* what instances.txt may list, in order
  Published,   \* recalls the replay may have published on the stratum of one
  MaxCommits, MaxEdits  \* commits, and edits since the last one

ASSUME RegistrationParameters ==
  /\ MaxCommits \in Nat /\ MaxEdits \in Nat
  /\ \A f \in Forms : f.floor \in Nat
  /\ \A of \in Published : \A r \in DOMAIN of : of[r] \in Nat \cup {None}

VARIABLES
  commits,     \* in order of their making: [parent, form, sample]
  head, tag,   \* the commit checked out, and the one prereg-m4 names; 0: none
  form, sample,\* the two files in the worktree
  edits,
  recalls,     \* repository -> its published recall, None: no such stratum
  gate,        \* what the last preflight read, None: it refused
  criterion    \* what an analysis published of the kill criterion

regVars == <<commits, head, tag, form, sample, edits, recalls, gate, criterion>>
-----------------------------------------------------------------------------
FormAt(c) == IF c = 0 THEN None ELSE commits[c].form
Before == [c \in DOMAIN commits |-> commits[c].parent]
\* In every set of commits that has this one and the parents of its own.
Ancestors(c) ==
  {a \in DOMAIN commits : \A set \in SUBSET DOMAIN commits :
     c \in set /\ (\A x \in set : Before[x] # 0 => Before[x] \in set) => a \in set}

\* load: of the file as it is in the worktree.
Loads == form # None /\ form.filled /\ form.status = "SIGNED"

\* git log -n 1 -- PREREGISTRATION.md
Touching == {c \in Ancestors(head) : FormAt(c) # FormAt(Before[c])}
LastTouching ==
  IF Touching = {} THEN 0 ELSE CHOOSE c \in Touching : \A d \in Touching : d <= c

\* assert_tagged: git merge-base of the tag and that commit is that commit.
InTagOrLater(last) == tag \in Ancestors(last)
InTag(last) == last \in Ancestors(tag)
Tagged == tag # 0 /\ LastTouching # 0 /\ InTag(LastTouching)

\* preflight: the list is the registered one, the whole of it.
Sampled == sample # None /\ sample = form.sample /\ Len(sample) = form.size
Passes == Loads /\ Tagged /\ Sampled
Reading == IF Passes THEN [form |-> form, head |-> head, tag |-> tag] ELSE None

\* kill_criterion_met, by the worst of the repositories that have evidence.
Evidence == {recalls[r] : r \in DOMAIN recalls} \ {None}
Worst == Sets!Min(Evidence)
-----------------------------------------------------------------------------
RegInit ==
  /\ commits = <<>> /\ head = 0 /\ tag = 0 /\ form = None /\ sample = None /\ edits = 0
  /\ recalls \in Published /\ gate = None /\ criterion = None

Write(f) ==
  /\ edits < MaxEdits /\ f # form /\ form' = f /\ edits' = edits + 1
  /\ UNCHANGED <<commits, head, tag, sample, recalls, gate, criterion>>
Freeze(s) ==
  /\ edits < MaxEdits /\ s # sample /\ sample' = s /\ edits' = edits + 1
  /\ UNCHANGED <<commits, head, tag, form, recalls, gate, criterion>>

CommitAll ==
  /\ Len(commits) < MaxCommits /\ edits > 0
  /\ commits' = Append(commits, [parent |-> head, form |-> form, sample |-> sample])
  /\ head' = Len(commits) + 1 /\ edits' = 0
  /\ UNCHANGED <<tag, form, sample, recalls, gate, criterion>>
Checkout(c) ==
  /\ edits = 0 /\ c # head
  /\ head' = c /\ form' = commits[c].form /\ sample' = commits[c].sample
  /\ UNCHANGED <<commits, tag, edits, recalls, gate, criterion>>
MoveTag ==
  /\ head # 0 /\ tag # head /\ tag' = head
  /\ UNCHANGED <<commits, head, form, sample, edits, recalls, gate, criterion>>

\* The first step of an arm, and of an analysis.
Preflight ==
  /\ gate' = Reading /\ gate' # gate
  /\ UNCHANGED <<commits, head, tag, form, sample, edits, recalls, criterion>>

\* analyze, once the results are in: the form is loaded again, without its
\* tag, and the floor that is published is that of the first.
Conclude ==
  /\ gate # None /\ criterion = None
  /\ Loads /\ Evidence # {}
  /\ criterion' = [gate |-> gate, met |-> Worst >= form.floor, again |-> form]
  /\ UNCHANGED <<commits, head, tag, form, sample, edits, recalls, gate>>

RegNext ==
  \/ \E f \in Forms \cup {None} : Write(f)
  \/ \E s \in Samples \cup {None} : Freeze(s)
  \/ \E c \in DOMAIN commits : Checkout(c)
  \/ CommitAll \/ MoveTag \/ Preflight \/ Conclude

RegSpec == RegInit /\ [][RegNext]_regVars
-----------------------------------------------------------------------------
Committed(g) == g.form = FormAt(g.head)
OnTag(g) == g.tag \in Ancestors(g.head)

RegTypeOK ==
  /\ commits \in Seq([parent : 0..MaxCommits, form : Forms \cup {None}, sample : Samples \cup {None}])
  /\ {head, tag} \subseteq 0..Len(commits) /\ edits \in 0..MaxEdits
  /\ form \in Forms \cup {None} /\ sample \in Samples \cup {None}
  /\ gate # None => gate.form.status = "SIGNED" /\ gate.form.sample \in Samples

(* Whoever passed the gate with a committed form, on the tag or after it,  *)
(* runs under the words the tag froze, whatever was committed, moved and   *)
(* checked out before.  (prereg.py:108-131)                                *)
GateKeepsTheTag ==
  gate # None /\ Committed(gate) /\ OnTag(gate) =>
    gate.form = FormAt(gate.tag)

(* A criterion that is met was met by every repository that has evidence,  *)
(* and one has, at the floor the tag froze.  (analyze.py:205-232)          *)
MetByEveryRepository ==
  criterion # None /\ Committed(criterion.gate) /\ OnTag(criterion.gate)
    /\ criterion.again = criterion.gate.form =>
    /\ Evidence # {}
    /\ criterion.met <=> \A r \in DOMAIN recalls :
         recalls[r] # None => recalls[r] >= FormAt(criterion.gate.tag).floor

(* Said of the gate: the signed values cannot be edited after tagging      *)
(* without moving the tag (prereg.py:111-113); of who is on the tag.      *)
SignedValuesAreTheTags ==
  gate # None /\ OnTag(gate) => gate.form = FormAt(gate.tag)

(* A run is held, and its evidence judged, by the words the tag froze.     *)
JudgedUnderTheTag == GateKeepsTheTag /\ MetByEveryRepository
=============================================================================
