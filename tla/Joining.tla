-------------------------------- MODULE Joining --------------------------------
LOCAL INSTANCE Integers
LOCAL INSTANCE Sequences

Elements(s) == {s[i] : i \in DOMAIN s}
\* Each element is there once.
OnceEach(s) == \A i, k \in DOMAIN s : s[i] = s[k] => i = k

\* One sequence after another.
Joined(parts) ==
  LET upTo[i \in 0..Len(parts)] == IF i = 0 THEN <<>> ELSE upTo[i - 1] \o parts[i]
  IN  upTo[Len(parts)]
\* A sequence without the elements at some of its places.
LeftOut(s, places) == Joined([i \in DOMAIN s |-> IF i \in places THEN <<>> ELSE <<s[i]>>])
=============================================================================
