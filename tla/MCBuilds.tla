------------------------------ MODULE MCBuilds ------------------------------
(***************************************************************************)
(* What rtdd does on one machine beside a build of one version: builds of  *)
(* two versions that share a cache, builds on top of a graphify graph, the *)
(* replacement of the binary, and the shards of a job, side by side: `half`*)
(* says which of them a behaviour is of, and the others stand still.       *)
(***************************************************************************)
EXTENDS MCGraphCache, Overlay, SelfUpdate, SwarmJob

VARIABLE half

\* A test that calls what another file defines, flat or inside another
\* definition, and a file that is no code.
MCPath == {"test", "lib", "doc"}
MCExt == [p \in MCPath |-> IF p = "doc" THEN "md" ELSE "py"]
MCContent == ("test" :> {"test"}) @@ ("lib" :> {"flat", "nested"}) @@ ("doc" :> {"text"})
OfContent(test, flat, nested) ==
  ("test" :> test) @@ ("flat" :> flat) @@ ("nested" :> nested) @@ ("text" :> {}) @@ (Gone :> {})
MCDefines == OfContent({<<"", "t">>}, {<<"", "x">>}, {<<"r", "x">>, <<"", "r">>})
MCCalls == OfContent({"x"}, {}, {"x"})

\* One shard that is retried, and one that is not.
MCShards == {"x", "y"}
MCAttempt == {<<"x", 1>>, <<"x", 2>>, <<"y", 1>>}

buildsVars == <<half, vars, overlayVars, updateVars, swarmVars>>

BuildsInit ==
  /\ half \in {"cache", "overlay", "update", "swarm"}
  /\ Init /\ (half # "cache" => wt = [f \in File |-> Absent] /\ scanner = CHOOSE s \in Scanner : TRUE)
  /\ OverlayInit /\ (half # "overlay" => disk = [p \in Path |-> Gone])
  /\ UpdateInit /\ (half # "update" => ~windows)
  /\ SwarmInit
BuildsNext ==
  \/ half = "cache" /\ Next /\ UNCHANGED <<half, overlayVars, updateVars, swarmVars>>
  \/ half = "overlay" /\ OverlayNext /\ UNCHANGED <<half, vars, updateVars, swarmVars>>
  \/ half = "update" /\ UpdateNext /\ UNCHANGED <<half, vars, overlayVars, swarmVars>>
  \/ half = "swarm" /\ SwarmNext /\ UNCHANGED <<half, vars, overlayVars, updateVars>>
BuildsSpec == BuildsInit /\ [][BuildsNext]_buildsVars

\* Each part keeps its types (update.go:110-203, overlay.go:14-55).
BuildsTypeOK == OverlayTypeOK /\ UpdateTypeOK
=============================================================================
