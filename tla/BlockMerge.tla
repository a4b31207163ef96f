----------------------------- MODULE BlockMerge -----------------------------
(***************************************************************************)
(* How rtdd's instructions are put into a file it shares with the user and *)
(* taken out again: MergeBlock (internal/install/merge.go) and RemoveBlock *)
(* (internal/install/uninstall.go), on files as sequences of tokens.       *)
(*                                                                         *)
(* A token is a newline, one of the two markers, or a stretch of anything  *)
(* else; the rest of rtdd's block is such stretches too.  Both functions   *)
(* look only for the markers and for newlines.                             *)
(***************************************************************************)
EXTENDS Joining
LOCAL INSTANCE Integers
LOCAL INSTANCE Sequences

CONSTANT Token   \* whatever a file may hold

Newline == "newline"
BeginMarker == "begin"
EndMarker == "end"

Places(doc, token) == {i \in DOMAIN doc : doc[i] = token}
Has(doc, token) == Places(doc, token) # {}

FirstOf(places) == CHOOSE i \in places : \A j \in places : i <= j
LastOf(places) == CHOOSE i \in places : \A j \in places : j <= i

\* strings.TrimSpace(doc) == "".
Blank(doc) == \A i \in DOMAIN doc : doc[i] = Newline

Solid(doc) == DOMAIN doc \ Places(doc, Newline)

\* strings.TrimRight and TrimLeft of newlines.
TrimRight(doc) == SubSeq(doc, 1, LastOf({0} \cup Solid(doc)))
TrimLeft(doc) == SubSeq(doc, FirstOf({Len(doc) + 1} \cup Solid(doc)), Len(doc))

Unmarked(doc) == ~ Has(doc, BeginMarker) /\ ~ Has(doc, EndMarker)

\* One marker of each, in order: the only file with a block in it.
Marked(doc) ==
  \E b, e \in DOMAIN doc :
    /\ b < e
    /\ Places(doc, BeginMarker) = {b}
    /\ Places(doc, EndMarker) = {e}

\* What neither function guesses about.
Conflicted(doc) == ~ Unmarked(doc) /\ ~ Marked(doc)

\* The block's first place, and the first place after it: the newline that
\* ends it is its own.
BlockStart(doc) == FirstOf(Places(doc, BeginMarker))
AfterBlock(doc) ==
  LET e == FirstOf(Places(doc, EndMarker))
  IN IF e < Len(doc) /\ doc[e + 1] = Newline THEN e + 2 ELSE e + 1

BlockOf(doc) == SubSeq(doc, BlockStart(doc), AfterBlock(doc) - 1)

\* Of a file that is not Conflicted.  A file that is blank becomes the block;
\* into another the block goes after one empty line; a block there already is
\* replaced where it stands.

MergeBlock(doc, block) ==
  IF Marked(doc)
    THEN SubSeq(doc, 1, BlockStart(doc) - 1) \o block
         \o SubSeq(doc, AfterBlock(doc), Len(doc))
  ELSE IF Blank(doc) THEN block
  ELSE TrimRight(doc) \o <<Newline, Newline>> \o block

\* Closes the seam: one empty line stays between what was above and below.
RemoveBlockToTheEnd(doc) ==
  IF Unmarked(doc) THEN doc
  ELSE TrimRight(SubSeq(doc, 1, BlockStart(doc) - 1)) \o <<Newline>>

RemoveBlock(doc) ==
  LET head == TrimRight(SubSeq(doc, 1, BlockStart(doc) - 1))
      tail == TrimLeft(SubSeq(doc, AfterBlock(doc), Len(doc)))
  IN IF Unmarked(doc) THEN doc
     ELSE IF head = <<>> THEN tail
     ELSE IF tail = <<>> THEN head \o <<Newline>>
     ELSE head \o <<Newline, Newline>> \o tail

\* removeLine, for tokens that stand for whole lines.
RemoveLine(doc, line) ==
  Joined([i \in DOMAIN doc |-> IF doc[i] = line THEN <<>> ELSE <<doc[i]>>])
=============================================================================
