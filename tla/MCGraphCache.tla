---------------------------- MODULE MCGraphCache ----------------------------
(***************************************************************************)
(* GraphCache on small sets.  Two scanners read one content differently:   *)
(* the scan of b under s is the pair of them.                              *)
(***************************************************************************)
EXTENDS GraphCache, TLC

MCScanOf == [x \in Blob \X Scanner |-> x]

\* Blobs, scanners and processes are interchangeable (safety runs only).
Symmetry == Permutations(Blob) \cup Permutations(Scanner) \cup Permutations(Proc)

\* With one file there is no other path to move it to.
OneFileNext == InPlaceStep \/ \E p \in Proc : BuildStep(p) \/ Abort(p)
OneFileSpec == Init /\ [][OneFileNext]_vars
=============================================================================
