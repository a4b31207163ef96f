----------------------------- MODULE MCUserFiles -----------------------------
(***************************************************************************)
(* What rtdd writes into the user's files, what it reads of changes to     *)
(* them, path by path and line by line, and the cache it keeps of two of   *)
(* them (one process, one binary): MCProjectInstall, GitChanges,           *)
(* ChangedLines and GraphCache side by side, `half` saying which of them a *)
(* behaviour is of.                                                        *)
(***************************************************************************)
EXTENDS MCProjectInstall, GitChanges, ChangedLines, TLC

CONSTANTS Indexed, Blob, Rtdd, Scanner, Absent, NoCache
VARIABLES wt, headTree, moved, scanner, cache, pc, job

\* One file's content and another version of it.
MCAlike == Content \X Content

Cache == INSTANCE GraphCache WITH
  head <- headTree, File <- Indexed, Opaque <- {}, Proc <- {Rtdd}, Vouched <- Indexed,
  ScanOf <- [x \in Blob \X Scanner |-> x], DuringBuild <- "nothing", RefillsMovedFiles <- FALSE

Symmetry ==
  Permutations(RepoPath) \cup Permutations(Content)
    \cup Permutations(Indexed) \cup Permutations(Blob)

cacheVars == <<wt, headTree, moved, scanner, cache, pc, job>>
userFileVars == <<half, treeVars, fileVars, gitVars, lineVars, cacheVars>>

NoInstall ==
  /\ atHome = FALSE /\ files = Plain /\ prose = [p \in Path |-> 0]
  /\ edits = 0 /\ run = NoRun
  /\ doc = <<BeginMarker>> /\ was = <<>> /\ merged = FALSE

UserFilesInit ==
  /\ GitInit /\ LinesInit
  /\ BothInit \/ (half \in {"paths", "lines", "cache"} /\ NoInstall)
  /\ Cache!Init /\ (half # "cache" => wt = [f \in Indexed |-> Absent])

UserFilesNext ==
  \/ BothNext /\ UNCHANGED <<gitVars, lineVars, cacheVars>>
  \/ half = "paths" /\ GitNext /\ UNCHANGED <<half, treeVars, fileVars, lineVars, cacheVars>>
  \/ half = "lines" /\ LinesNext /\ UNCHANGED <<half, treeVars, fileVars, gitVars, cacheVars>>
  \/ half = "cache" /\ Cache!Next /\ UNCHANGED <<half, treeVars, fileVars, gitVars, lineVars>>

UserFilesSpec == UserFilesInit /\ [][UserFilesNext]_userFileVars

\* GraphCache's: a build that leaves the cache alone would have written the
\* same, one that rewrites it forgets nothing it could still use.
CacheIsReproduced == [](half = "cache" => Cache!SkipReproduces) /\ Cache!NothingForgotten
=============================================================================
