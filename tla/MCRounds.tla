------------------------------ MODULE MCRounds ------------------------------
(***************************************************************************)
(* Three small repositories for Rounds, side by side in one set of nodes.  *)
(* Ids are strings; "m:f" is f's <module> node and "w:f" its whole-file    *)
(* node.                                                                   *)
(***************************************************************************)
EXTENDS Rounds, Functions

Edge(r, f, t) == [from |-> f, to |-> t, rel |-> r]
Calls(f, ts) == {Edge("calls", f, t) : t \in ts}
Refs(f, ts) == {Edge("references", f, t) : t \in ts}

\* Lower case: code; capitals: file nodes; h, t: helpers and tests.
Table ==
  [c |-> <<"a", "code">>, d |-> <<"a", "code">>,
   h1 |-> <<"t", "helper">>, h2 |-> <<"s", "helper">>, t1 |-> <<"t", "test">>,
   e |-> <<"e", "code">>, g |-> <<"l", "code">>,
   E |-> <<"e", "file">>, Y |-> <<"y", "file">>, L |-> <<"l", "file">>,
   U |-> <<"u", "file">>, h3 |-> <<"u", "helper">>, t3 |-> <<"u", "test">>,
   i |-> <<"i", "code">>, j |-> <<"i", "code">>,
   h4 |-> <<"v", "helper">>, h5 |-> <<"z", "helper">>,
   t4 |-> <<"v", "test">>, t5 |-> <<"v", "test">>]

MCFile == {"a", "s", "t", "e", "y", "l", "u", "i", "v", "z"}
MCNode == DOMAIN Table \cup {"w:z"}

MCModule ==
  [a |-> "m:a", s |-> "m:s", t |-> "m:t", e |-> "m:e", y |-> "m:y",
   l |-> "m:l", u |-> "m:u", i |-> "m:i", v |-> "m:v", z |-> "m:z"]
MCWholeFile ==
  [a |-> "w:a", s |-> "w:s", t |-> "w:t", e |-> "w:e", y |-> "w:y",
   l |-> "w:l", u |-> "w:u", i |-> "w:i", v |-> "w:v", z |-> "w:z"]

MCId == MCNode \cup Range(MCModule) \cup Range(MCWholeFile)
MCFileOf == [n \in MCId |->
  IF n \in DOMAIN Table THEN Table[n][1]
  ELSE CHOOSE f \in MCFile : n \in {MCModule[f], MCWholeFile[f]}]
MCKindOf == [n \in MCId |->
  IF n \in DOMAIN Table THEN Table[n][2]
  ELSE IF n \in Range(MCModule) THEN "module" ELSE "test"]

\* t4 and t5 are one name in one file: "t4" and "t4@9".
MCRunId == [n \in MCId |-> IF n = "t5" THEN "t4" ELSE n]

\* Two pieces of code behind two helpers that may call each other; "w:t" is a
\* node the graph does not have.
Helpers ==
  [links |-> Calls("h1", {"c", "d", "h2"}) \cup Calls("h2", {"c", "d", "h1"})
               \cup Calls("t1", {"h1", "h2"}) \cup Calls("w:t", {"c"}),
   editable |-> {"c", "d"}, tops |-> {}]

\* A file that defines nothing, what loads it, and test files whose top level
\* calls or references.
Files ==
  [links |-> Refs("g", {"Y"}) \cup Refs("L", {"Y"}) \cup Refs("U", {"Y"})
               \cup Refs("h3", {"Y"}) \cup Refs("t3", {"E", "L"})
               \cup Calls("t3", {"g", "h3"}) \cup Calls("L", {"e"}),
   editable |-> {"e"}, tops |-> {"e", "y"}]

\* A whole-file test, and two tests of one runnable id.
Whole ==
  [links |-> Calls("w:z", {"h5"}) \cup Calls("h5", {"i", "h4"})
               \cup Calls("h4", {"h5"}) \cup Calls("t4", {"i", "h4"})
               \cup Calls("t5", {"j"}) \cup {Edge("inherits", "j", "i")},
   editable |-> {"i", "t5"}, tops |-> {"i", "z"}]

AllRepos == {Helpers, Files, Whole}
HelpersOnly == {Helpers}
=============================================================================
