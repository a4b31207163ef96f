------------------------------- MODULE SwarmJob -------------------------------
(***************************************************************************)
(* The two scripts `rtdd which --swarm-job` writes (cmd/rtdd/swarm.go):    *)
(* run.sh runs one test file in a shard's out directory, merge.sh puts the *)
(* shards' results together.  Swarm, which is not rtdd's, runs attempts of *)
(* a shard, may take one for lost and start another, and merges when it    *)
(* likes; an attempt may be killed between any two commands.               *)
(*                                                                         *)
(* Attempts share their directory, so a file is told from its name: `>`    *)
(* empties the file at a name or makes one, mv gives a file another name.  *)
(***************************************************************************)
EXTENDS Naturals, FiniteSets, Sentinels

CONSTANTS
  Shards,
  Attempt,    \* attempts, each <<shard, number>>
  Codes,      \* what a test command may exit with
  Blank       \* a file that was emptied

VARIABLES
  names,   \* shard -> the files at tmp, result, stmp and status; a file is who made it
  text,    \* <<kind, attempt>> -> what is in that file: whose result, or a code
  at,      \* attempt -> the command it is at
  code,    \* attempt -> what its test command exited with
  opened,  \* attempt -> the file its open redirection writes to
  overlap, \* shards two attempts of which ran at once
  merge    \* None or what merge.sh exited with

swarmVars == <<names, text, at, code, opened, overlap, merge>>

Out == {"tmp", "result", "stmp", "status"}
Files == {"result", "code"} \X Attempt
ShardOf(a) == a[1]
ASSUME SwarmParameters ==
  /\ \A a \in Attempt : ShardOf(a) \in Shards
  /\ None \notin Files \cup Attempt /\ Blank \notin Attempt \cup {None} /\ None # 0

FileAt(a, name) == names[ShardOf(a)][name]
Alive(a) == at[a] \notin {"idle", "done", "killed"}
Continue(a, to) == at' = [at EXCEPT ![a] = to]

SwarmInit ==
  /\ names = [s \in Shards |-> [o \in Out |-> None]]
  /\ text = [f \in Files |-> Blank]
  /\ at = [a \in Attempt |-> "idle"] /\ code = [a \in Attempt |-> None]
  /\ opened = [a \in Attempt |-> None] /\ overlap = {} /\ merge = None

\* `[ -f "$out/status" ] && exit 0`: what was run is not run again.
Begin(a) ==
  /\ at[a] = "idle" /\ Continue(a, IF FileAt(a, "status") # None THEN "done" ELSE "run")
  /\ overlap' = overlap \cup {s \in {ShardOf(a)} : \E b \in Attempt : ShardOf(b) = s /\ Alive(b)}
  /\ UNCHANGED <<names, text, code, opened, merge>>

\* `> name` opens the file there, empty, or a new one.
Opens(a, name, kind) ==
  LET file == IF FileAt(a, name) = None THEN <<kind, a>> ELSE FileAt(a, name)
  IN  /\ names' = [names EXCEPT ![ShardOf(a)][name] = file]
      /\ text' = [text EXCEPT ![file] = Blank]
      /\ opened' = [opened EXCEPT ![a] = file]
\* mv fails when another attempt took the file away.
Moves(a, from, to) ==
  IF FileAt(a, from) = None THEN UNCHANGED names
  ELSE names' = [names EXCEPT ![ShardOf(a)][from] = None, ![ShardOf(a)][to] = FileAt(a, from)]

RunTests(a) ==
  /\ at[a] = "run" /\ Continue(a, "ran") /\ Opens(a, "tmp", "result")
  /\ UNCHANGED <<code, overlap, merge>>
TestsExit(a) ==
  /\ at[a] = "ran" /\ Continue(a, "keep")
  /\ \E c \in Codes : code' = [code EXCEPT ![a] = c]
  /\ text' = [text EXCEPT ![opened[a]] = a]
  /\ UNCHANGED <<names, opened, overlap, merge>>
KeepResult(a) ==
  /\ at[a] = "keep" /\ Continue(a, "open") /\ Moves(a, "tmp", "result")
  /\ UNCHANGED <<text, code, opened, overlap, merge>>
OpenStatus(a) ==
  /\ at[a] = "open" /\ Continue(a, "print") /\ Opens(a, "stmp", "code")
  /\ UNCHANGED <<code, overlap, merge>>
PrintStatus(a) ==
  /\ at[a] = "print" /\ Continue(a, "keepcode") /\ text' = [text EXCEPT ![opened[a]] = a]
  /\ UNCHANGED <<names, code, opened, overlap, merge>>
KeepStatus(a) ==
  /\ at[a] = "keepcode" /\ Continue(a, "done") /\ Moves(a, "stmp", "status")
  /\ UNCHANGED <<text, code, opened, overlap, merge>>
KillAttempt(a) == Alive(a) /\ Continue(a, "killed") /\ UNCHANGED <<names, text, code, opened, overlap, merge>>

StatusOf(s) == IF names[s]["status"] = None THEN None ELSE text[names[s]["status"]]
ResultOf(s) == IF names[s]["result"] = None THEN None ELSE text[names[s]["result"]]
\* `[ "$code" = 0 ] || failed=1`, a missing status and an empty one included.
PassesUnlessFailed(s) == StatusOf(s) \in {None, Blank} \/ code[StatusOf(s)] = 0
Passes(s) == StatusOf(s) \notin {None, Blank} /\ code[StatusOf(s)] = 0
Merge ==
  /\ merge = None
  /\ merge' = IF \A s \in Shards : Passes(s) THEN 0 ELSE 1
  /\ UNCHANGED <<names, text, at, code, opened, overlap>>

SwarmNext ==
  \/ Merge
  \/ merge = None /\ \E a \in Attempt :
       \/ Begin(a) \/ RunTests(a) \/ TestsExit(a) \/ KeepResult(a)
       \/ OpenStatus(a) \/ PrintStatus(a) \/ KeepStatus(a) \/ KillAttempt(a)
SwarmSpec == SwarmInit /\ [][SwarmNext]_swarmVars
-----------------------------------------------------------------------------
(* A merge passes only if every shard's tests passed once, with whatever   *)
(* attempts at once, killed anywhere: "its merge exits non-zero when any   *)
(* shard's command failed" (docs/reference.md:210, swarm.go:164-178).      *)
MergePassesIfAllPassed ==
  merge = 0 =>
    \A s \in Shards : \E a \in Attempt : ShardOf(a) = s /\ code[a] = 0

(* While attempts of a shard follow each other, its status stands beside   *)
(* the whole result of the attempt whose exit it says.  (swarm.go:146-160) *)
StatusIsItsResult ==
  \A s \in Shards \ overlap :
    StatusOf(s) # None => StatusOf(s) # Blank /\ ResultOf(s) = StatusOf(s)

(* A merge, and each status it reads, says what the attempts did.          *)
(* (swarm.go:99-185)                                                       *)
JobIsItsShards == MergePassesIfAllPassed /\ StatusIsItsResult
=============================================================================
