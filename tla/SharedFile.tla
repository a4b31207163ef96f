----------------------------- MODULE SharedFile -----------------------------
(***************************************************************************)
(* One file the user and rtdd both write: from anything the user may have  *)
(* left in it, rtdd's markers and pieces of its block included, any        *)
(* sequence of merges of an old or a new block and removals.               *)
(***************************************************************************)
EXTENDS Integers, Sequences, BlockMerge

CONSTANTS
  Wording,  \* the user's own tokens, none of them one of the others
  Version,  \* what a block says
  MaxLen    \* how long a file the user leaves

Marks == {Newline, BeginMarker, EndMarker}
FileToken == Wording \cup Version \cup Marks

ASSUME SharedFileParameters ==
  /\ FileToken \subseteq Token /\ MaxLen \in Nat
  /\ Wording \cap (Version \cup Marks) = {} /\ Version \cap Marks = {}

VARIABLES
  doc,      \* the file
  was,      \* the file before rtdd's last merge into it without a block
  merged    \* whether nothing but merges happened since

fileVars == <<doc, was, merged>>

\* protocol.RenderAll's block ends its last line.
BlockSaying(body) == <<BeginMarker, body, EndMarker, Newline>>

\* What the user wrote, blank lines apart.
WordsIn(s) == LeftOut(s, {i \in DOMAIN s : s[i] \notin Wording})

FileInit ==
  /\ doc \in UNION {[1..n -> FileToken] : n \in 0..MaxLen}
  /\ was = <<>> /\ merged = FALSE

Merge(body) ==
  /\ ~ Conflicted(doc)
  /\ doc' = MergeBlock(doc, BlockSaying(body))
  /\ IF Unmarked(doc) THEN was' = doc /\ merged' = TRUE
                      ELSE UNCHANGED <<was, merged>>

Remove ==
  /\ ~ Conflicted(doc) /\ ~ Unmarked(doc)
  /\ doc' = RemoveBlock(doc)
  /\ was' = <<>> /\ merged' = FALSE

\* Both are refused, and nothing is written.
Refuse == Conflicted(doc) /\ UNCHANGED fileVars

FileNext == (\E body \in Version : Merge(body)) \/ Remove \/ Refuse

FileSpec == FileInit /\ [][FileNext]_fileVars

-----------------------------------------------------------------------------

\* The words of the user outside the markers.
Outside ==
  IF Marked(doc)
    THEN WordsIn(SubSeq(doc, 1, BlockStart(doc) - 1))
         \o WordsIn(SubSeq(doc, AfterBlock(doc), Len(doc)))
    ELSE WordsIn(doc)

\* Neither a merge nor a removal loses, repeats or moves a word the user wrote
\* outside the markers, whatever is around or in the block
\* ("rtdd owns only what is between its markers", merge.go:3).
WordsKept ==
  [][doc' # doc => Outside' = Outside]_fileVars

\* A merge leaves one block, the one asked for, and so a second merge changes
\* nothing and a removal leaves no marker behind.
MergeSettles ==
  [][ \A body \in Version : Merge(body) =>
        /\ Marked(doc')
        /\ BlockOf(doc') = BlockSaying(body)
        /\ MergeBlock(doc', BlockSaying(body)) = doc'
        /\ Unmarked(RemoveBlock(doc')) ]_fileVars

\* RemoveBlock "leaves every other byte of the host's file where it was"
\* (uninstall.go:18): a file merged and then cleaned is the file it was.  It is
\* so for a blank file and one that ends with exactly one newline; MergeBlock
\* trims the newlines at the end of any other.
EndsPlainly(s) ==
  \/ s = <<>>
  \/ Len(s) > 1 /\ s[Len(s)] = Newline /\ s[Len(s) - 1] # Newline

RemovalRestores ==
  [][ merged /\ Remove /\ EndsPlainly(was) => doc' = was ]_fileVars

\* A merge writes the block, one block and nothing else, and a removal takes it
\* back (merge.go, uninstall.go:18).
BlockComesAndGoes == WordsKept /\ MergeSettles /\ RemovalRestores
=============================================================================
