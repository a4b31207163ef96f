------------------------------ MODULE AgentArm ------------------------------
(***************************************************************************)
(* One arm of the agent benchmark (bench/swebench/run_arm.py, budget.py):  *)
(* a process that takes the frozen instances in order, lets an agent spend *)
(* tokens on each, writes a record per instance and, however it ends, the  *)
(* arm's spend to a cost file.  The operator starts it again until the arm *)
(* is complete; records are skipped and the spend is restored.             *)
(*                                                                         *)
(* The budget has two counters, tokens and wall-clock hours, that are      *)
(* restored, added to, compared with a ceiling and saved alike; one stands *)
(* for both.  A process that preflight refuses ends before it reads or     *)
(* writes any of this and is left out.                                     *)
(***************************************************************************)
EXTENDS Integers, Sentinels

CONSTANTS
  Instances,    \* the frozen list is 1 .. Instances
  MaxSpend,     \* the most an agent may spend on an instance
  Ceiling,      \* --max-usd, in tokens
  MaxMishaps,   \* how many processes are killed, interrupted, out of disk or
                \* stopped by a broken prompt
  Truncated     \* a file whose write a kill or a full disk cut short

ASSUME BoundsAreNat ==
  /\ Instances \in Nat /\ MaxSpend \in Nat /\ Ceiling \in Nat
  /\ MaxMishaps \in Nat

ASSUME SentinelsAreFresh ==
  None \notin Nat /\ Truncated \notin Nat /\ None # Truncated

VARIABLES
  record,   \* raw/<arm>/<instance>.json: None, Truncated or the tokens in it
  cost,     \* cost.json: None, Truncated or the tokens in it
  pc,       \* where the process is
  at,       \* the instance it is at
  budget,   \* the tokens its Budget counts
  result,   \* the tokens in the record it is about to write
  exit,     \* how the last process ended
  spent,    \* history: the tokens the endpoint has really billed
  lost,     \* history: those of them that no cost file will ever count
  mishaps

files == <<record, cost>>
vars == <<files, pc, at, budget, result, exit, spent, lost, mishaps>>

Instance == 1 .. Instances
Spend == 0 .. MaxSpend

-----------------------------------------------------------------------------
(* The process *)

\* read_cost and Budget.restore.  A cost file that does not parse stops every
\* process before its first instance.
RestoredFromZero == 0
Restored == IF cost = None THEN 0 ELSE cost

Start ==
  /\ pc = "idle"
  /\ IF cost = Truncated
       THEN exit' = "error" /\ UNCHANGED <<pc, at, budget>>
       ELSE /\ pc' = "check"
            /\ at' = 1
            /\ budget' = Restored
            /\ exit' = "none"
  /\ UNCHANGED <<files, result, spent, lost, mishaps>>

\* run_arm leaves its loop; the finally block is next.
Leave(how) == pc' = "closing" /\ exit' = how

\* Budget.check.
OverSinceStart(tokens) == tokens - Restored > Ceiling
Over(tokens) == tokens > Ceiling

\* The check before the first instance.
Check ==
  /\ pc = "check"
  /\ IF Over(budget) THEN Leave("budget") ELSE pc' = "next" /\ UNCHANGED exit
  /\ UNCHANGED <<files, at, budget, result, spent, lost, mishaps>>

\* An instance whose record exists is skipped.
CachedIfReadable(i) == record[i] \notin {None, Truncated}
Cached(i) == record[i] # None

TakeNext ==
  /\ pc = "next"
  /\ IF at > Instances THEN Leave("ok") /\ UNCHANGED at
     ELSE IF Cached(at) THEN at' = at + 1 /\ UNCHANGED <<pc, exit>>
     ELSE pc' = "agent" /\ UNCHANGED <<at, exit>>
  /\ UNCHANGED <<files, budget, result, spent, lost, mishaps>>

\* run_agent returns.
Answer(tokens) ==
  /\ pc = "agent"
  /\ spent' = spent + tokens
  /\ result' = tokens
  /\ pc' = "write"
  /\ UNCHANGED <<files, at, budget, exit, lost, mishaps>>

\* It raises, after spending: the record is a harness_error with no tokens.
HarnessErrorSkipped(tokens) ==
  /\ pc = "agent"
  /\ spent' = spent + tokens
  /\ lost' = lost + tokens
  /\ pc' = "next" /\ at' = at + 1
  /\ UNCHANGED <<files, budget, result, exit, mishaps>>

HarnessError(tokens) ==
  /\ pc = "agent"
  /\ spent' = spent + tokens
  /\ lost' = lost + tokens
  /\ result' = 0
  /\ pc' = "write"
  /\ UNCHANGED <<files, at, budget, exit, mishaps>>

\* check_assembled finds a prompt that is not its control and one block.
BrokenPrompt ==
  /\ pc = "agent"
  /\ mishaps < MaxMishaps /\ mishaps' = mishaps + 1
  /\ Leave("composition")
  /\ UNCHANGED <<files, at, budget, result, spent, lost>>

\* What the agent has spent and the budget does not count yet.
Uncharged == IF pc \in {"write", "charge"} THEN result ELSE 0

\* Ctrl-C while the agent works or before its tokens are charged: finally
\* still runs.
Interrupt(tokens) ==
  /\ pc \in {"agent", "write", "charge"}
  /\ tokens # 0 => pc = "agent"
  /\ mishaps < MaxMishaps /\ mishaps' = mishaps + 1
  /\ spent' = spent + tokens
  /\ lost' = lost + tokens + Uncharged
  /\ Leave("interrupted")
  /\ UNCHANGED <<files, at, budget, result>>

\* "The record is written before the budget is charged."
WriteRecordIfAffordable ==
  /\ pc = "write"
  /\ record' = IF Over(budget + result) THEN record
               ELSE [record EXCEPT ![at] = result]
  /\ pc' = "charge"
  /\ UNCHANGED <<cost, at, budget, result, exit, spent, lost, mishaps>>

WriteRecord ==
  /\ pc = "write"
  /\ record' = [record EXCEPT ![at] = result]
  /\ pc' = "charge"
  /\ UNCHANGED <<cost, at, budget, result, exit, spent, lost, mishaps>>

\* The disk is full.
WriteFails ==
  /\ pc = "write"
  /\ mishaps < MaxMishaps /\ mishaps' = mishaps + 1
  /\ record' = [record EXCEPT ![at] = Truncated]
  /\ lost' = lost + result
  /\ Leave("error")
  /\ UNCHANGED <<cost, at, budget, result, spent>>

\* Budget.add: count, then check.
Charge ==
  /\ pc = "charge"
  /\ budget' = budget + result
  /\ IF Over(budget') THEN Leave("budget") /\ UNCHANGED at
     ELSE pc' = "next" /\ at' = at + 1 /\ UNCHANGED exit
  /\ UNCHANGED <<files, result, spent, lost, mishaps>>

\* The finally block, however the loop ended.
Close ==
  /\ pc = "closing"
  /\ cost' = budget
  /\ pc' = "idle"
  /\ UNCHANGED <<record, at, budget, result, exit, spent, lost, mishaps>>

\* What a process killed here has counted, or spent and not counted, and has
\* not saved.
Unsaved == (budget - Restored) + Uncharged

\* A kill no handler sees.  One inside a write leaves the file cut short.
Kill(tokens) ==
  /\ pc # "idle"
  /\ mishaps < MaxMishaps /\ mishaps' = mishaps + 1
  /\ tokens # 0 => pc = "agent"
  /\ spent' = spent + tokens
  /\ record' \in {record} \cup
       (IF pc = "write" THEN {[record EXCEPT ![at] = Truncated]} ELSE {})
  /\ cost' \in {cost} \cup (IF pc = "closing" THEN {Truncated} ELSE {})
  /\ lost' = IF cost' = Truncated THEN spent' ELSE lost + tokens + Unsaved
  /\ pc' = "idle"
  /\ exit' = "killed"
  /\ UNCHANGED <<at, budget, result>>

-----------------------------------------------------------------------------

Init ==
  /\ record = [i \in Instance |-> None]
  /\ cost = None
  /\ pc = "idle" /\ exit = "none"
  /\ at = 1 /\ budget = 0 /\ result = 0
  /\ spent = 0 /\ lost = 0 /\ mishaps = 0

Work ==
  \/ Start \/ Check \/ TakeNext
  \/ \E tokens \in Spend : Answer(tokens) \/ HarnessError(tokens)
  \/ WriteRecord \/ Charge \/ Close

Mishap ==
  \/ BrokenPrompt \/ WriteFails
  \/ \E tokens \in Spend : Interrupt(tokens) \/ Kill(tokens)

Next == Work \/ Mishap

Spec == Init /\ [][Next]_vars

-----------------------------------------------------------------------------
(* Properties *)

Files == Nat \cup {None, Truncated}

TypeOK ==
  /\ record \in [Instance -> Files] /\ cost \in Files
  /\ pc \in {"idle", "check", "next", "agent", "write", "charge", "closing"}
  /\ at \in 1 .. Instances + 1
  /\ pc \in {"agent", "write", "charge"} => at \in Instance
  /\ budget \in Nat /\ result \in Spend
  /\ exit \in {"none", "ok", "budget", "composition", "interrupted", "error",
               "killed"}
  /\ spent \in Nat /\ lost \in Nat /\ mishaps \in 0 .. MaxMishaps

InFile(file) == IF file \in {None, Truncated} THEN 0 ELSE file

\* Between processes the cost file accounts for every token billed but for
\* those of failed agents, mishaps and a truncated cost file: a resume tops
\* the spend up, it neither forgets it nor counts it twice (budget.py:14).
CostCountsAll == pc = "idle" => InFile(cost) + lost = spent

\* The ceiling is one on the benchmark and not on each restart: however often
\* the arm is started, it is passed by one instance at most, apart from what
\* no cost file counts ("so `--max-usd` stays a ceiling", run_arm.py:18).
CeilingHolds == spent <= Ceiling + MaxSpend + lost

\* An arm that ends well has a record of every instance, whatever failed
\* ("Every instance leaves a record", run_arm.py:11).
ArmIsComplete ==
  exit = "ok" => \A i \in Instance : record[i] # None

\* No instance is run or written a second time, in whatever process.
RecordsAreKept ==
  [][ \A i \in Instance : record[i] # None => record'[i] = record[i] ]_record

\* Nothing is charged that left no record: a ceiling stop does not discard the
\* instance that paid for it (run_arm.py:21).
TokensIn(records) ==
  LET upTo[i \in 0 .. Instances] ==
        IF i = 0 THEN 0 ELSE upTo[i - 1] + InFile(records[i])
  IN upTo[Instances]

ChargedIsRecorded == pc = "idle" => InFile(cost) <= TokensIn(record)

\* "The tokens that crossed the cap were really spent, and the cost file
\* written on the way out has to say so" (budget.py:10): after processes that
\* ended by themselves it counts every token.
CostIsSpend == pc = "idle" => InFile(cost) = spent
=============================================================================
