---------------------------- MODULE UncachedBuild ----------------------------
(***************************************************************************)
(* What a graph build promises, told without a cache.  A build opens, reads *)
(* each file it was asked for from the working tree once, at a moment of    *)
(* its own, and closes.  GraphCache implements this module: its             *)
(* .rtdd/graph.json saves reads and changes no answer.                      *)
(***************************************************************************)

CONSTANTS
  File,       \* repository-relative paths
  Blob,       \* file contents
  Proc,       \* rtdd processes
  Scanner,    \* the scanner's version together with its prose globs
  ScanOf,     \* [Blob \X Scanner -> scan result]
  Absent,     \* the content of a path no file is at
  None        \* no result

VARIABLES
  wt,         \* the working tree: [File -> Blob \cup {Absent}]
  phase,      \* [Proc -> {"closed", "open", "answered"}]
  using,      \* the scanner a build opened with: [Proc -> Scanner \cup {None}]
  todo,       \* the files a build has yet to read
  result      \* what it has read: [Proc -> [File -> scan result or None]]

vars == <<wt, phase, using, todo, result>>

\* What reading f gives at content c: a file that cannot be read has no result.
Scanned(c, s) == IF c = Absent THEN None ELSE ScanOf[<<c, s>>]

Init ==
  /\ wt \in [File -> Blob \cup {Absent}]
  /\ phase = [p \in Proc |-> "closed"]
  /\ using = [p \in Proc |-> None]
  /\ todo = [p \in Proc |-> {}]
  /\ result = [p \in Proc |-> [f \in File |-> None]]

UserWrites ==
  /\ wt' \in [File -> Blob \cup {Absent}]
  /\ UNCHANGED <<phase, using, todo, result>>

Open(p) ==
  /\ phase[p] = "closed"
  /\ phase' = [phase EXCEPT ![p] = "open"]
  /\ \E s \in Scanner : using' = [using EXCEPT ![p] = s]
  /\ \E asked \in SUBSET File : todo' = [todo EXCEPT ![p] = asked]
  /\ UNCHANGED <<wt, result>>

Read(p, f) ==
  /\ phase[p] = "open"
  /\ f \in todo[p]
  /\ todo' = [todo EXCEPT ![p] = @ \ {f}]
  /\ result' = [result EXCEPT ![p][f] = Scanned(wt[f], using[p])]
  /\ UNCHANGED <<wt, phase, using>>

Answer(p) ==
  /\ phase[p] = "open"
  /\ todo[p] = {}
  /\ phase' = [phase EXCEPT ![p] = "answered"]
  /\ UNCHANGED <<wt, using, todo, result>>

\* The build is over, answered or killed.
Close(p) ==
  /\ phase' = [phase EXCEPT ![p] = "closed"]
  /\ using' = [using EXCEPT ![p] = None]
  /\ todo' = [todo EXCEPT ![p] = {}]
  /\ result' = [result EXCEPT ![p] = [f \in File |-> None]]
  /\ UNCHANGED wt

Next ==
  \/ UserWrites
  \/ \E p \in Proc :
       \/ Open(p) \/ Answer(p) \/ Close(p)
       \/ \E f \in File : Read(p, f)

Spec == Init /\ [][Next]_vars
=============================================================================
