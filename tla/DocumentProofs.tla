--------------------------- MODULE DocumentProofs ---------------------------
(***************************************************************************)
(* What BlockMerge and the plans of ProjectInstall make of a document, a    *)
(* sequence of tokens: whatever is cut out, trimmed, joined or replaced,    *)
(* every token is still there as often as it was, but the ones that were    *)
(* to go.  A token is counted at its places, and the places in one          *)
(* document after another are those in the first and, moved up, those in    *)
(* the second.                                                             *)
(*                                                                         *)
(* SharedFile: the words of two documents joined are the words of the one  *)
(* and then of the other, and newlines and blocks have none, so only what  *)
(* is above and below the block matters.  Between two merges that is the   *)
(* file they began with, topped, and nothing.                              *)
(***************************************************************************)
EXTENDS ProjectInstall, SharedFile, Extremes, SequenceTheorems, FiniteSetTheorems, TLAPS

-----------------------------------------------------------------------------
(* Documents *)

Doc == Seq(Token)
Count(d, t) == Cardinality(Places(d, t))

LEMMA FirstOfIs ==
  ASSUME NEW T, T \subseteq Nat, T # {}
  PROVE  FirstOf(T) \in T /\ \A j \in T : FirstOf(T) <= j
BY LeastOf DEF FirstOf

LEMMA LastOfIs ==
  ASSUME NEW n \in Nat, NEW T, T \subseteq 0..n, T # {}
  PROVE  LastOf(T) \in T /\ \A j \in T : j <= LastOf(T)
<1>1. \E k \in T : \A j \in T : j <= k
  <2>1. CASE T \subseteq {0}
    <3>1. \A j \in T : j = 0
      BY <2>1
    <3>2. PICK k \in T : k = 0
      BY <3>1
    <3>3. \A j \in T : j <= k
      BY <3>1, <3>2
    <3>. QED  BY <3>3
  <2>2. CASE ~ (T \subseteq {0})
    <3>. DEFINE U == T \ {0}
    <3>1. U \subseteq 1..n /\ U # {}
      BY <2>2
    <3>2. PICK k \in U : \A j \in U : j <= k
      <4>. HIDE DEF U
      <4>. QED  BY <3>1, GreatestOf
    <3>3. k \in T /\ 0 <= k
      BY <3>1
    <3>. QED  BY <3>2, <3>3
  <2>. QED  BY <2>1, <2>2
<1>. QED  BY <1>1 DEF LastOf

\* What a document is, told by its places.
LEMMA DocIs ==
  ASSUME NEW d \in Doc
  PROVE  /\ Len(d) \in Nat /\ DOMAIN d = 1..Len(d) /\ \A i \in 1..Len(d) : d[i] \in Token
         /\ \A t : Places(d, t) \subseteq 1..Len(d) /\ IsFiniteSet(Places(d, t))
<1>1. Len(d) \in Nat /\ DOMAIN d = 1..Len(d) /\ \A i \in 1..Len(d) : d[i] \in Token
  <2>. QED  BY DEF Doc
<1>2. \A t : Places(d, t) \subseteq 1..Len(d)
  BY <1>1 DEF Places
<1>3. IsFiniteSet(1..Len(d))
  BY <1>1, FS_Interval
<1>4. ASSUME NEW t PROVE IsFiniteSet(Places(d, t))
  BY <1>2, <1>3, FS_Subset
<1>. QED  BY <1>1, <1>2, <1>4

LEMMA PartIs ==
  ASSUME NEW d \in Doc, NEW m \in 1..(Len(d) + 1), NEW n \in 0..Len(d), m <= n + 1
  PROVE  /\ SubSeq(d, m, n) \in Doc /\ Len(SubSeq(d, m, n)) = n - m + 1
         /\ \A i \in 1..(n - m + 1) : SubSeq(d, m, n)[i] = d[m + i - 1]
<1>1. Len(d) \in Nat /\ \A i \in m..n : d[i] \in Token
  BY DocIs
<1>2. m \in Int /\ n \in Int
  BY <1>1
<1>3. /\ SubSeq(d, m, n) \in Seq(Token)
      /\ Len(SubSeq(d, m, n)) = IF m <= n THEN n - m + 1 ELSE 0
      /\ \A i \in 1..(n - m + 1) : SubSeq(d, m, n)[i] = d[m + i - 1]
  BY <1>1, <1>2, SubSeqProperties
<1>. QED  BY <1>1, <1>2, <1>3 DEF Doc

LEMMA JoinIs ==
  ASSUME NEW x \in Doc, NEW y \in Doc
  PROVE  /\ x \o y \in Doc /\ Len(x \o y) = Len(x) + Len(y)
         /\ \A i \in 1..Len(x) : (x \o y)[i] = x[i]
         /\ \A i \in 1..Len(y) : (x \o y)[Len(x) + i] = y[i]
<1>1. x \o y \in Doc /\ Len(x \o y) = Len(x) + Len(y)
  <2>. QED  BY ConcatProperties DEF Doc
<1>2. \A i \in 1..(Len(x) + Len(y)) :
        (x \o y)[i] = IF i <= Len(x) THEN x[i] ELSE y[i - Len(x)]
  <2>. QED  BY ConcatProperties DEF Doc
<1>3. Len(x) \in Nat /\ Len(y) \in Nat
  BY DocIs
<1>4. ASSUME NEW i \in 1..Len(x) PROVE (x \o y)[i] = x[i]
  BY <1>2, <1>3
<1>5. ASSUME NEW i \in 1..Len(y) PROVE (x \o y)[Len(x) + i] = y[i]
  <2>1. Len(x) + i \in 1..(Len(x) + Len(y)) /\ ~ (Len(x) + i <= Len(x)) /\ Len(x) + i - Len(x) = i
    BY <1>3
  <2>. QED  BY <1>2, <2>1
<1>. QED  BY <1>1, <1>4, <1>5

\* Two documents of the same tokens at the same places are one.
LEMMA SameDoc ==
  ASSUME NEW x \in Doc, NEW y \in Doc, Len(x) = Len(y), \A i \in 1..Len(x) : x[i] = y[i]
  PROVE  x = y
<1>. QED  BY SeqEqual DEF Doc

LEMMA SplitAt ==
  ASSUME NEW d \in Doc, NEW k \in 0..Len(d)
  PROVE  /\ SubSeq(d, 1, k) \in Doc /\ SubSeq(d, k + 1, Len(d)) \in Doc
         /\ d = SubSeq(d, 1, k) \o SubSeq(d, k + 1, Len(d))
<1>. DEFINE n == Len(d)
            x == SubSeq(d, 1, k)
            y == SubSeq(d, k + 1, n)
<1>1. n \in Nat
  BY DocIs
<1>2. x \in Doc /\ Len(x) = k /\ \A i \in 1..k : x[i] = d[i]
  <2>1. 1 \in 1..(n + 1) /\ k \in 0..n /\ 1 <= k + 1 /\ k - 1 + 1 = k /\ \A i \in 1..k : 1 + i - 1 = i
    BY <1>1
  <2>. QED  BY <2>1, PartIs
<1>3. y \in Doc /\ Len(y) = n - k /\ \A i \in 1..(n - k) : y[i] = d[k + i]
  <2>1. k + 1 \in 1..(n + 1) /\ n \in 0..n /\ k + 1 <= n + 1 /\ n - (k + 1) + 1 = n - k
        /\ \A i \in 1..(n - k) : k + 1 + i - 1 = k + i
    BY <1>1
  <2>2. y \in Doc /\ Len(y) = n - (k + 1) + 1 /\ \A i \in 1..(n - (k + 1) + 1) : y[i] = d[(k + 1) + i - 1]
    BY <2>1, PartIs
  <2>. HIDE DEF y, n
  <2>. QED  BY <2>1, <2>2
<1>. HIDE DEF n, x, y
<1>4. /\ x \o y \in Doc /\ Len(x \o y) = n
      /\ \A i \in 1..k : (x \o y)[i] = x[i]
      /\ \A i \in 1..(n - k) : (x \o y)[k + i] = y[i]
  <2>1. k + (n - k) = n
    BY <1>1, <1>2
  <2>2. \A i \in 1..Len(x) : (x \o y)[i] = x[i]
    BY <1>2, <1>3, JoinIs
  <2>3. \A i \in 1..Len(y) : (x \o y)[Len(x) + i] = y[i]
    BY <1>2, <1>3, JoinIs
  <2>4. x \o y \in Doc /\ Len(x \o y) = Len(x) + Len(y)
    BY <1>2, <1>3, JoinIs
  <2>. QED  BY <1>2, <1>3, <2>1, <2>2, <2>3, <2>4
<1>5. ASSUME NEW i \in 1..n PROVE d[i] = (x \o y)[i]
  <2>1. CASE i \in 1..k
    BY <1>2, <1>4, <2>1
  <2>2. CASE i \notin 1..k
    <3>1. i - k \in 1..(n - k) /\ k + (i - k) = i
      BY <1>1, <2>2
    <3>. QED  BY <1>3, <1>4, <3>1
  <2>. QED  BY <2>1, <2>2
<1>. QED  BY <1>2, <1>3, <1>4, <1>5, SameDoc DEF n, x, y

LEMMA JoinCounts ==
  ASSUME NEW x \in Doc, NEW y \in Doc, NEW t
  PROVE  /\ Has(x \o y, t) <=> Has(x, t) \/ Has(y, t)
         /\ Count(x \o y, t) = Count(x, t) + Count(y, t) /\ Count(x, t) \in Nat /\ Count(y, t) \in Nat
<1>. DEFINE m == Len(x)
            n == Len(y)
            A == Places(x, t)
            B == {m + i : i \in Places(y, t)}
            f == [i \in Places(y, t) |-> m + i]
<1>1. m \in Nat /\ n \in Nat /\ Places(x, t) \subseteq 1..m /\ Places(y, t) \subseteq 1..n
      /\ IsFiniteSet(A) /\ IsFiniteSet(Places(y, t))
  BY DocIs
<1>2. /\ x \o y \in Doc /\ Len(x \o y) = m + n /\ DOMAIN (x \o y) = 1..(m + n)
      /\ \A i \in 1..m : (x \o y)[i] = x[i]
      /\ \A i \in 1..n : (x \o y)[m + i] = y[i]
  <2>1. x \o y \in Doc /\ Len(x \o y) = m + n
    BY JoinIs
  <2>2. DOMAIN (x \o y) = 1..(m + n)
    BY <2>1, DocIs
  <2>3. \A i \in 1..Len(x) : (x \o y)[i] = x[i]
    BY JoinIs
  <2>4. \A i \in 1..Len(y) : (x \o y)[Len(x) + i] = y[i]
    BY JoinIs
  <2>. HIDE DEF A, B, f, Doc
  <2>. QED  BY <2>1, <2>2, <2>3, <2>4
<1>3. DOMAIN x = 1..m /\ DOMAIN y = 1..n
  BY DocIs
<1>. HIDE DEF m, n
<1>4. Places(x \o y, t) = A \cup B
  <2>1. ASSUME NEW i \in Places(x \o y, t) PROVE i \in A \cup B
    <3>1. i \in 1..(m + n) /\ (x \o y)[i] = t
      BY <1>2 DEF Places
    <3>2. CASE i \in 1..m
      BY <1>2, <1>3, <3>1, <3>2 DEF Places
    <3>3. CASE i \notin 1..m
      <4>1. i - m \in 1..n /\ m + (i - m) = i
        BY <1>1, <3>1, <3>3
      <4>2. y[i - m] = t
        <5>1. (x \o y)[m + (i - m)] = y[i - m]
          <6>1. \A j \in 1..n : (x \o y)[m + j] = y[j]
            BY <1>2
          <6>. QED  BY <4>1, <6>1, Zenon
        <5>. QED  BY <3>1, <4>1, <5>1
      <4>3. i - m \in Places(y, t)
        BY <1>3, <4>1, <4>2 DEF Places
      <4>. QED  BY <4>1, <4>3
    <3>. QED  BY <3>2, <3>3
  <2>2. ASSUME NEW i \in A PROVE i \in Places(x \o y, t)
    <3>1. i \in 1..m /\ x[i] = t
      BY <1>3 DEF Places
    <3>2. i \in 1..(m + n)
      BY <1>1, <3>1
    <3>. QED  BY <1>2, <3>1, <3>2 DEF Places
  <2>3. ASSUME NEW j \in Places(y, t) PROVE m + j \in Places(x \o y, t)
    <3>1. j \in 1..n /\ y[j] = t
      BY <1>3 DEF Places
    <3>2. m + j \in 1..(m + n)
      BY <1>1, <3>1
    <3>3. (x \o y)[m + j] = y[j]
      <4>1. \A i \in 1..n : (x \o y)[m + i] = y[i]
        BY <1>2
      <4>. QED  BY <3>1, <4>1, Zenon
    <3>. QED  BY <1>2, <3>1, <3>2, <3>3 DEF Places
  <2>. QED  BY <2>1, <2>2, <2>3
<1>5. A \cap B = {}
  BY <1>1
<1>6. f \in Bijection(Places(y, t), B)
  <2>1. \A i \in Places(y, t) : f[i] = m + i
    OBVIOUS
  <2>2. \A i, j \in Places(y, t) : f[i] = f[j] => i = j
    BY <1>1, <2>1
  <2>3. f \in [Places(y, t) -> B]
    OBVIOUS
  <2>4. \A b \in B : \E i \in Places(y, t) : f[i] = b
    BY <2>1
  <2>. HIDE DEF f, B
  <2>. QED  BY <2>2, <2>3, <2>4 DEF Bijection, Injection, Surjection, IsInjective
<1>7. IsFiniteSet(B) /\ Cardinality(B) = Cardinality(Places(y, t))
  <2>. HIDE DEF f, B
  <2>1. ExistsBijection(Places(y, t), B)
    BY <1>6 DEF ExistsBijection
  <2>. QED  BY <1>1, <2>1, FS_Bijection
<1>8. Cardinality(A) \in Nat /\ Cardinality(Places(y, t)) \in Nat
  BY <1>1, FS_CardinalityType
<1>9. Cardinality(A \cup B) = Cardinality(A) + Cardinality(B)
  <2>. HIDE DEF A, B
  <2>1. Cardinality(A \cup B) = Cardinality(A) + Cardinality(B) - Cardinality(A \cap B)
    BY <1>1, <1>7, FS_Union
  <2>2. Cardinality(A \cap B) = 0
    BY <1>5, FS_EmptySet
  <2>. QED  BY <1>7, <1>8, <2>1, <2>2
<1>10. Places(x \o y, t) # {} <=> Places(x, t) # {} \/ Places(y, t) # {}
  BY <1>4
<1>. QED  BY <1>4, <1>7, <1>8, <1>9, <1>10 DEF Has, Count

\* A document without t has none of it.
LEMMA NoneCounts ==
  ASSUME NEW d \in Doc, NEW t
  PROVE  Count(d, t) = 0 <=> ~ Has(d, t)
<1>1. IsFiniteSet(Places(d, t))
  BY DocIs
<1>. QED  BY <1>1, FS_EmptySet DEF Count, Has

-----------------------------------------------------------------------------
(* Lines taken out, newlines trimmed *)

LEMMA OneCounts ==
  ASSUME NEW c \in Token, NEW t
  PROVE  /\ <<c>> \in Doc
         /\ Has(<<c>>, t) <=> c = t
         /\ Count(<<c>>, t) = IF c = t THEN 1 ELSE 0
<1>1. Places(<<c>>, t) = IF c = t THEN {1} ELSE {}
  BY DEF Places
<1>2. <<c>> \in Doc
  <2>. QED  BY DEF Doc
<1>. QED  BY <1>1, <1>2, FS_EmptySet, FS_Singleton DEF Has, Count

LEMMA EmptyCounts ==
  <<>> \in Doc /\ \A t : Count(<<>>, t) = 0 /\ ~ Has(<<>>, t)
<1>1. <<>> \in Doc
  <2>. QED  BY DEF Doc
<1>2. \A t : Places(<<>>, t) = {}
  BY DEF Places
<1>. QED  BY <1>1, <1>2, FS_EmptySet DEF Has, Count

LEMMA PrefixGrows ==
  ASSUME NEW d \in Doc, NEW k \in 1..Len(d)
  PROVE  /\ SubSeq(d, 1, k) \in Doc /\ SubSeq(d, 1, k - 1) \in Doc /\ d[k] \in Token
         /\ SubSeq(d, 1, k) = SubSeq(d, 1, k - 1) \o <<d[k]>>
<1>. DEFINE n == Len(d)
            x == SubSeq(d, 1, k)
            y == SubSeq(d, 1, k - 1)
            z == <<d[k]>>
<1>1. n \in Nat /\ d[k] \in Token
  BY DocIs
<1>2. x \in Doc /\ Len(x) = k /\ \A i \in 1..k : x[i] = d[i]
  <2>1. 1 \in 1..(n + 1) /\ k \in 0..n /\ 1 <= k + 1 /\ k - 1 + 1 = k /\ \A i \in 1..k : 1 + i - 1 = i
    BY <1>1
  <2>. QED  BY <2>1, PartIs
<1>3. y \in Doc /\ Len(y) = k - 1 /\ \A i \in 1..(k - 1) : y[i] = d[i]
  <2>1. /\ 1 \in 1..(n + 1) /\ k - 1 \in 0..n /\ 1 <= (k - 1) + 1 /\ (k - 1) - 1 + 1 = k - 1
        /\ \A i \in 1..(k - 1) : 1 + i - 1 = i
    BY <1>1
  <2>. QED  BY <2>1, PartIs
<1>4. z \in Doc /\ Len(z) = 1 /\ z[1] = d[k]
  BY <1>1, OneCounts
<1>. HIDE DEF n, x, y, z
<1>5. y \o z \in Doc /\ Len(y \o z) = (k - 1) + 1
  <2>1. y \o z \in Doc /\ Len(y \o z) = Len(y) + Len(z)
    BY <1>3, <1>4, JoinIs
  <2>. QED  BY <1>3, <1>4, <2>1
<1>6. \A i \in 1..(k - 1) : (y \o z)[i] = y[i]
  <2>1. \A i \in 1..Len(y) : (y \o z)[i] = y[i]
    BY <1>3, <1>4, JoinIs
  <2>. QED  BY <1>3, <2>1
<1>7. (y \o z)[(k - 1) + 1] = z[1]
  <2>1. \A i \in 1..Len(z) : (y \o z)[Len(y) + i] = z[i]
    BY <1>3, <1>4, JoinIs
  <2>2. 1 \in 1..Len(z)
    BY <1>4
  <2>3. (y \o z)[Len(y) + 1] = z[1]
    BY <2>1, <2>2
  <2>. QED  BY <1>3, <2>3
<1>8. ASSUME NEW i \in 1..k PROVE x[i] = (y \o z)[i]
  <2>1. CASE i = k
    <3>1. (y \o z)[k] = z[1]
      <4>1. (k - 1) + 1 = k
        OBVIOUS
      <4>. QED  BY <1>7, <4>1
    <3>. QED  BY <1>2, <1>4, <2>1, <3>1
  <2>2. CASE i # k
    BY <1>2, <1>3, <1>6, <2>2
  <2>. QED  BY <2>1, <2>2
<1>9. (k - 1) + 1 = k
  OBVIOUS
<1>10. x = y \o z
  BY <1>2, <1>5, <1>8, <1>9, SameDoc
<1>. QED  BY <1>1, <1>2, <1>3, <1>10 DEF x, y, z

\* A removed line takes nothing with it.
LEMMA RemoveLineIs ==
  ASSUME NEW d \in Doc, NEW line, NEW t, t # line
  PROVE  /\ RemoveLine(d, line) \in Doc /\ ~ Has(RemoveLine(d, line), line)
         /\ Count(RemoveLine(d, line), t) = Count(d, t)
<1>. DEFINE n == Len(d)
            parts == [i \in DOMAIN d |-> IF d[i] = line THEN <<>> ELSE <<d[i]>>]
            Up(k) == SubSeq(d, 1, k)
<1>1. n \in Nat /\ DOMAIN d = 1..n /\ \A i \in 1..n : d[i] \in Token
  BY DocIs
<1>2. parts \in Seq(Doc) /\ Len(parts) = n
        /\ \A i \in 1..n : parts[i] = IF d[i] = line THEN <<>> ELSE <<d[i]>>
  <2>1. \A i \in 1..n : (IF d[i] = line THEN <<>> ELSE <<d[i]>>) \in Doc
    BY <1>1, OneCounts, EmptyCounts
  <2>. HIDE DEF Doc
  <2>. QED  BY <1>1, <2>1
<1>3. Joined(parts) = RemoveLine(d, line)
  BY DEF RemoveLine
<1>. HIDE DEF parts
<1>4. PICK u : /\ u[0] = <<>> /\ \A i \in 1..n : u[i] = u[i - 1] \o parts[i]
               /\ Joined(parts) = u[n]
  <2>. HIDE DEF Doc
  <2>. QED  BY <1>2, JoinedIs
<1>. HIDE DEF n
<1>. DEFINE Fine(k) == u[k] \in Doc /\ ~ Has(u[k], line) /\ Count(u[k], t) = Count(Up(k), t)
            T == {k \in 0..n : ~ Fine(k)}
<1>5. ASSUME T # {} PROVE FALSE
  <2>1. T \subseteq Nat
    BY <1>1
  <2>2. PICK m \in T : \A l \in T : m <= l
    <3>. HIDE DEF T
    <3>. QED  BY <1>5, <2>1, LeastOf
  <2>3. m \in 0..n /\ ~ Fine(m)
    OBVIOUS
  <2>4. CASE m = 0
    <3>1. Up(0) = <<>>
      <4>1. 1 \in 1..(Len(d) + 1) /\ 0 \in 0..Len(d) /\ 1 <= 0 + 1 /\ 0 - 1 + 1 = 0
        BY DocIs
      <4>2. Up(0) \in Doc /\ Len(Up(0)) = 0
        BY <4>1, PartIs
      <4>. HIDE DEF Up
      <4>. QED  BY <4>2 DEF Doc
    <3>2. Fine(0)
      BY <1>4, <3>1, EmptyCounts
    <3>. QED  BY <2>3, <2>4, <3>2
  <2>5. CASE m # 0
    <3>1. m - 1 \in 0..n /\ ~ (m <= m - 1) /\ m \in 1..n
      BY <1>1, <2>3, <2>5
    <3>2. Fine(m - 1)
      BY <2>2, <3>1
    <3>3. Up(m) = Up(m - 1) \o <<d[m]>> /\ Up(m - 1) \in Doc /\ d[m] \in Token
      BY <3>1, PrefixGrows DEF n
    <3>4. u[m] = u[m - 1] \o parts[m]
      BY <1>4, <3>1
    <3>. HIDE DEF T, Up
    <3>5. <<d[m]>> \in Doc /\ (Has(<<d[m]>>, line) <=> d[m] = line) /\ Count(<<d[m]>>, t) = IF d[m] = t THEN 1 ELSE 0
      BY <3>3, OneCounts
    <3>6. Count(Up(m), t) = Count(Up(m - 1), t) + Count(<<d[m]>>, t) /\ Count(Up(m - 1), t) \in Nat
      BY <3>3, <3>5, JoinCounts
    <3>7. CASE d[m] = line
      <4>1. u[m] = u[m - 1] \o <<>> /\ Count(<<d[m]>>, t) = 0
        BY <1>2, <3>1, <3>4, <3>5, <3>7
      <4>2. u[m - 1] \o <<>> = u[m - 1]
        <5>. QED  BY <3>2 DEF Doc
      <4>. QED  BY <2>3, <3>2, <3>6, <4>1, <4>2
    <3>8. CASE d[m] # line
      <4>1. u[m] = u[m - 1] \o <<d[m]>> /\ ~ Has(<<d[m]>>, line)
        BY <1>2, <3>1, <3>4, <3>5, <3>8
      <4>2. u[m] \in Doc /\ ~ Has(u[m], line) /\ Count(u[m], t) = Count(u[m - 1], t) + Count(<<d[m]>>, t)
        <5>. DEFINE one == <<d[m]>>
                    upto == u[m - 1]
        <5>1. one \in Doc /\ upto \in Doc
          BY <3>2, <3>5
        <5>2. ~ Has(one, line) /\ ~ Has(upto, line)
          BY <3>2, <4>1
        <5>. HIDE DEF one, upto
        <5>3. /\ upto \o one \in Doc
              /\ Has(upto \o one, line) <=> Has(upto, line) \/ Has(one, line)
              /\ Count(upto \o one, t) = Count(upto, t) + Count(one, t)
          BY <5>1, JoinCounts, JoinIs
        <5>4. u[m] = upto \o one
          BY <4>1 DEF upto, one
        <5>. QED  BY <5>2, <5>3, <5>4 DEF upto, one
      <4>. QED  BY <2>3, <3>2, <3>6, <4>2
    <3>. QED  BY <3>7, <3>8
  <2>. QED  BY <2>4, <2>5
<1>6. Fine(n)
  <2>1. n \in 0..n
    BY <1>1
  <2>. QED  BY <1>5, <2>1
<1>7. Up(n) = d
  <2>1. 1 \in 1..(n + 1) /\ n \in 0..n /\ 1 <= n + 1 /\ n - 1 + 1 = n /\ \A i \in 1..n : 1 + i - 1 = i
    BY <1>1
  <2>2. Up(n) \in Doc /\ Len(Up(n)) = n /\ \A i \in 1..n : Up(n)[i] = d[i]
    BY <2>1, PartIs DEF n
  <2>. HIDE DEF Up
  <2>. QED  BY <2>2, SameDoc DEF n
<1>. QED  BY <1>3, <1>4, <1>6, <1>7

LEMMA BlankCounts ==
  ASSUME NEW d \in Doc, Blank(d), NEW t, t # Newline PROVE Count(d, t) = 0 /\ ~ Has(d, t)
<1>1. Places(d, t) = {}
  BY DEF Places, Blank
<1>. QED  BY <1>1, FS_EmptySet DEF Has, Count

\* What is trimmed are newlines.
LEMMA TrimRightCuts ==
  ASSUME NEW d \in Doc
  PROVE  TrimRight(d) \in Doc /\ \E y \in Doc : Blank(y) /\ d = TrimRight(d) \o y
<1>. DEFINE n == Len(d)
            k == LastOf({0} \cup Solid(d))
            y == SubSeq(d, k + 1, n)
<1>1. n \in Nat /\ DOMAIN d = 1..n
  BY DocIs
<1>. HIDE DEF n
<1>2. {0} \cup Solid(d) \subseteq 0..n /\ {0} \cup Solid(d) # {}
  BY <1>1 DEF Solid
<1>3. k \in {0} \cup Solid(d) /\ \A j \in {0} \cup Solid(d) : j <= k
  BY <1>1, <1>2, LastOfIs
<1>. HIDE DEF k
<1>4. k \in 0..n /\ \A j \in 1..n : j > k => d[j] = Newline
  BY <1>1, <1>2, <1>3 DEF Solid, Places
<1>5. SubSeq(d, 1, k) \in Doc /\ y \in Doc /\ d = SubSeq(d, 1, k) \o y
  BY <1>4, SplitAt DEF n
<1>6. Len(y) = n - k /\ \A i \in 1..(n - k) : y[i] = d[k + i]
  <2>1. /\ k + 1 \in 1..(n + 1) /\ n \in 0..n /\ k + 1 <= n + 1 /\ n - (k + 1) + 1 = n - k
        /\ \A i \in 1..(n - k) : (k + 1) + i - 1 = k + i
    BY <1>1, <1>4
  <2>2. Len(y) = n - (k + 1) + 1 /\ \A i \in 1..(n - (k + 1) + 1) : y[i] = d[(k + 1) + i - 1]
    BY <2>1, PartIs DEF n
  <2>. HIDE DEF y
  <2>. QED  BY <2>1, <2>2
<1>7. Blank(y)
  <2>. HIDE DEF y
  <2>1. DOMAIN y = 1..(n - k)
    BY <1>5, <1>6, DocIs
  <2>2. ASSUME NEW i \in 1..(n - k) PROVE y[i] = Newline
    <3>1. k + i \in 1..n /\ k + i > k
      BY <1>1, <1>4
    <3>. QED  BY <1>4, <1>6, <3>1
  <2>. QED  BY <2>1, <2>2 DEF Blank
<1>. HIDE DEF y
<1>8. TrimRight(d) = SubSeq(d, 1, k)
  BY DEF TrimRight, k
<1>. QED  BY <1>5, <1>7, <1>8

LEMMA TrimRightIs ==
  ASSUME NEW d \in Doc
  PROVE  /\ TrimRight(d) \in Doc
         /\ \A t : t # Newline => /\ Count(TrimRight(d), t) = Count(d, t)
                                  /\ Has(TrimRight(d), t) <=> Has(d, t)
<1>. DEFINE x == TrimRight(d)
<1>1. x \in Doc
  BY TrimRightCuts
<1>2. PICK y \in Doc : Blank(y) /\ d = x \o y
  BY TrimRightCuts
<1>. HIDE DEF x
<1>3. ASSUME NEW t, t # Newline PROVE Count(x, t) = Count(d, t) /\ (Has(x, t) <=> Has(d, t))
  <2>1. Count(y, t) = 0 /\ ~ Has(y, t)
    BY <1>2, <1>3, BlankCounts
  <2>2. /\ Has(x \o y, t) <=> Has(x, t) \/ Has(y, t)
        /\ Count(x \o y, t) = Count(x, t) + Count(y, t) /\ Count(x, t) \in Nat
    BY <1>1, JoinCounts
  <2>. QED  BY <1>2, <2>1, <2>2
<1>. QED  BY <1>1, <1>3 DEF x

LEMMA TrimLeftCuts ==
  ASSUME NEW d \in Doc
  PROVE  TrimLeft(d) \in Doc /\ \E x \in Doc : Blank(x) /\ d = x \o TrimLeft(d)
<1>. DEFINE n == Len(d)
            f == FirstOf({n + 1} \cup Solid(d))
            k == f - 1
            x == SubSeq(d, 1, k)
            y == SubSeq(d, f, n)
<1>1. n \in Nat /\ DOMAIN d = 1..n
  BY DocIs
<1>. HIDE DEF n
<1>2. {n + 1} \cup Solid(d) \subseteq Nat /\ {n + 1} \cup Solid(d) # {} /\ {n + 1} \cup Solid(d) \subseteq 1..(n + 1)
  BY <1>1 DEF Solid
<1>3. f \in {n + 1} \cup Solid(d) /\ \A j \in {n + 1} \cup Solid(d) : f <= j
  BY <1>2, FirstOfIs
<1>. HIDE DEF f
<1>4. k \in 0..n /\ f = k + 1 /\ \A j \in 1..k : d[j] = Newline
  <2>1. f \in 1..(n + 1)
    BY <1>2, <1>3
  <2>2. ASSUME NEW j \in 1..k PROVE d[j] = Newline
    <3>1. j \in 1..n /\ ~ (f <= j)
      BY <1>1, <2>1
    <3>. QED  BY <1>1, <1>3, <3>1 DEF Solid, Places
  <2>. QED  BY <1>1, <2>1, <2>2
<1>. HIDE DEF k
<1>5. x \in Doc /\ y \in Doc /\ d = x \o y
  BY <1>4, SplitAt DEF n
<1>6. Len(x) = k /\ \A i \in 1..k : x[i] = d[i]
  <2>1. 1 \in 1..(n + 1) /\ k \in 0..n /\ 1 <= k + 1 /\ k - 1 + 1 = k /\ \A i \in 1..k : 1 + i - 1 = i
    BY <1>1, <1>4
  <2>. QED  BY <2>1, PartIs DEF n
<1>7. Blank(x)
  <2>. HIDE DEF x
  <2>1. DOMAIN x = 1..k
    BY <1>5, <1>6, DocIs
  <2>. QED  BY <1>4, <1>6, <2>1 DEF Blank
<1>8. TrimLeft(d) = y
  BY DEF TrimLeft, f, n
<1>. HIDE DEF x, y
<1>. QED  BY <1>5, <1>7, <1>8

LEMMA TrimLeftIs ==
  ASSUME NEW d \in Doc
  PROVE  /\ TrimLeft(d) \in Doc
         /\ \A t : t # Newline => /\ Count(TrimLeft(d), t) = Count(d, t)
                                  /\ Has(TrimLeft(d), t) <=> Has(d, t)
<1>. DEFINE y == TrimLeft(d)
<1>1. y \in Doc
  BY TrimLeftCuts
<1>2. PICK x \in Doc : Blank(x) /\ d = x \o y
  BY TrimLeftCuts
<1>. HIDE DEF y
<1>3. ASSUME NEW t, t # Newline PROVE Count(y, t) = Count(d, t) /\ (Has(y, t) <=> Has(d, t))
  <2>1. Count(x, t) = 0 /\ ~ Has(x, t)
    BY <1>2, <1>3, BlankCounts
  <2>2. /\ Has(x \o y, t) <=> Has(x, t) \/ Has(y, t)
        /\ Count(x \o y, t) = Count(x, t) + Count(y, t) /\ Count(y, t) \in Nat
    BY <1>1, JoinCounts
  <2>. QED  BY <1>2, <2>1, <2>2
<1>. QED  BY <1>1, <1>3 DEF y

-----------------------------------------------------------------------------
(* The block in a document *)

Above(d) == SubSeq(d, 1, BlockStart(d) - 1)
Below(d) == SubSeq(d, AfterBlock(d), Len(d))

LEMMA JoinAt ==
  ASSUME NEW x \in Doc, NEW y \in Doc, NEW i \in 1..(Len(x) + Len(y))
  PROVE  (x \o y)[i] = IF i <= Len(x) THEN x[i] ELSE y[i - Len(x)]
<1>. QED  BY ConcatProperties DEF Doc

LEMMA FirstOfOne == ASSUME NEW i \in Nat PROVE FirstOf({i}) = i
BY FirstOfIs

LEMMA ThreeParts ==
  ASSUME NEW d \in Doc, NEW b \in 1..Len(d), NEW a \in b..(Len(d) + 1)
  PROVE  /\ SubSeq(d, 1, b - 1) \in Doc /\ SubSeq(d, b, a - 1) \in Doc /\ SubSeq(d, a, Len(d)) \in Doc
         /\ d = SubSeq(d, 1, b - 1) \o SubSeq(d, b, a - 1) \o SubSeq(d, a, Len(d))
<1>. DEFINE n == Len(d)
            x == SubSeq(d, 1, b - 1)
            y == SubSeq(d, b, a - 1)
            p == SubSeq(d, 1, a - 1)
<1>1. n \in Nat
  BY DocIs
<1>2. x \in Doc /\ Len(x) = b - 1 /\ \A i \in 1..(b - 1) : x[i] = d[i]
  <2>1. /\ 1 \in 1..(n + 1) /\ b - 1 \in 0..n /\ 1 <= (b - 1) + 1 /\ (b - 1) - 1 + 1 = b - 1
        /\ \A i \in 1..(b - 1) : 1 + i - 1 = i
    BY <1>1
  <2>. QED  BY <2>1, PartIs
<1>3. p \in Doc /\ Len(p) = a - 1 /\ \A i \in 1..(a - 1) : p[i] = d[i]
  <2>1. /\ 1 \in 1..(n + 1) /\ a - 1 \in 0..n /\ 1 <= (a - 1) + 1 /\ (a - 1) - 1 + 1 = a - 1
        /\ \A i \in 1..(a - 1) : 1 + i - 1 = i
    BY <1>1
  <2>. QED  BY <2>1, PartIs
<1>4. y \in Doc /\ Len(y) = a - b /\ \A i \in 1..(a - b) : y[i] = d[b + i - 1]
  <2>1. b \in 1..(n + 1) /\ a - 1 \in 0..n /\ b <= (a - 1) + 1 /\ (a - 1) - b + 1 = a - b
    BY <1>1
  <2>2. y \in Doc /\ Len(y) = (a - 1) - b + 1 /\ \A i \in 1..((a - 1) - b + 1) : y[i] = d[b + i - 1]
    BY <2>1, PartIs
  <2>. HIDE DEF y, n
  <2>. QED  BY <2>1, <2>2
<1>5. SubSeq(d, a, n) \in Doc /\ d = p \o SubSeq(d, a, n)
  <2>1. a - 1 \in 0..n /\ (a - 1) + 1 = a
    BY <1>1
  <2>2. SubSeq(d, (a - 1) + 1, n) \in Doc /\ d = p \o SubSeq(d, (a - 1) + 1, n)
    BY <2>1, SplitAt
  <2>. HIDE DEF n, p
  <2>. QED  BY <2>1, <2>2
<1>. HIDE DEF n, x, y, p
<1>6. x \o y \in Doc /\ Len(x \o y) = a - 1
  <2>1. x \o y \in Doc /\ Len(x \o y) = Len(x) + Len(y)
    BY <1>2, <1>4, JoinIs
  <2>2. (b - 1) + (a - b) = a - 1
    BY <1>1
  <2>. QED  BY <1>2, <1>4, <2>1, <2>2
<1>7. ASSUME NEW i \in 1..(a - 1) PROVE p[i] = (x \o y)[i]
  <2>1. i \in 1..(Len(x) + Len(y))
    BY <1>2, <1>4
  <2>2. (x \o y)[i] = IF i <= Len(x) THEN x[i] ELSE y[i - Len(x)]
    BY <1>2, <1>4, <2>1, JoinAt
  <2>3. CASE i <= b - 1
    BY <1>2, <1>3, <2>2, <2>3
  <2>4. CASE ~ (i <= b - 1)
    <3>1. i - (b - 1) \in 1..(a - b) /\ b + (i - (b - 1)) - 1 = i
      BY <2>4
    <3>2. (x \o y)[i] = y[i - (b - 1)]
      BY <1>2, <2>2, <2>4
    <3>3. y[i - (b - 1)] = d[b + (i - (b - 1)) - 1]
      BY <1>4, <3>1
    <3>. QED  BY <1>3, <3>1, <3>2, <3>3
  <2>. QED  BY <2>3, <2>4
<1>8. p = x \o y
  BY <1>3, <1>6, <1>7, SameDoc
<1>. QED  BY <1>2, <1>4, <1>5, <1>8 DEF n, x, y, p

\* Where the block of a marked document is.
LEMMA BlockLies ==
  ASSUME NEW d \in Doc, NEW b, NEW e, Places(d, BeginMarker) = {b}, Places(d, EndMarker) = {e}, b < e
  PROVE  /\ b \in 1..Len(d) /\ e \in 1..Len(d) /\ BlockStart(d) = b
         /\ AfterBlock(d) = IF e < Len(d) /\ d[e + 1] = Newline THEN e + 2 ELSE e + 1
         /\ AfterBlock(d) \in b..(Len(d) + 1) /\ e < AfterBlock(d)
<1>1. Len(d) \in Nat /\ b \in 1..Len(d) /\ e \in 1..Len(d)
  BY DocIs
<1>2. FirstOf({b}) = b /\ FirstOf({e}) = e
  BY <1>1, FirstOfOne
<1>3. BlockStart(d) = b /\ AfterBlock(d) = IF e < Len(d) /\ d[e + 1] = Newline THEN e + 2 ELSE e + 1
  BY <1>2 DEF BlockStart, AfterBlock
<1>. QED  BY <1>1, <1>3

LEMMA MarkedSplits ==
  ASSUME NEW d \in Doc, Marked(d)
  PROVE  /\ Above(d) \in Doc /\ BlockOf(d) \in Doc /\ Below(d) \in Doc
         /\ d = Above(d) \o BlockOf(d) \o Below(d)
         /\ Unmarked(Above(d)) /\ Unmarked(Below(d))
<1>. DEFINE n == Len(d)
            a == AfterBlock(d)
<1>1. PICK b, e \in DOMAIN d :
        b < e /\ Places(d, BeginMarker) = {b} /\ Places(d, EndMarker) = {e}
  BY DEF Marked
<1>2. n \in Nat /\ DOMAIN d = 1..n
  BY DocIs
<1>3. b \in 1..n /\ e \in 1..n /\ BlockStart(d) = b /\ a \in b..(n + 1) /\ e < a
  BY <1>1, BlockLies
<1>. HIDE DEF n, a
<1>4. /\ SubSeq(d, 1, b - 1) \in Doc /\ SubSeq(d, b, a - 1) \in Doc /\ SubSeq(d, a, n) \in Doc
      /\ d = SubSeq(d, 1, b - 1) \o SubSeq(d, b, a - 1) \o SubSeq(d, a, n)
  BY <1>3, ThreeParts DEF n
<1>5. Above(d) = SubSeq(d, 1, b - 1) /\ BlockOf(d) = SubSeq(d, b, a - 1) /\ Below(d) = SubSeq(d, a, n)
  BY <1>3 DEF Above, BlockOf, Below, n, a
<1>6. Unmarked(Above(d))
  <2>. DEFINE x == SubSeq(d, 1, b - 1)
  <2>1. /\ 1 \in 1..(n + 1) /\ b - 1 \in 0..n /\ 1 <= (b - 1) + 1 /\ (b - 1) - 1 + 1 = b - 1
        /\ \A i \in 1..(b - 1) : 1 + i - 1 = i
    BY <1>2, <1>3
  <2>2. x \in Doc /\ Len(x) = b - 1 /\ \A i \in 1..(b - 1) : x[i] = d[i]
    BY <2>1, PartIs DEF n
  <2>. HIDE DEF x
  <2>3. DOMAIN x = 1..(b - 1)
    BY <2>2, DocIs
  <2>4. ASSUME NEW i \in 1..(b - 1) PROVE x[i] # BeginMarker /\ x[i] # EndMarker
    <3>1. i \in 1..n /\ i # b /\ i # e
      BY <1>1, <1>2, <1>3
    <3>2. d[i] # BeginMarker /\ d[i] # EndMarker
      BY <1>1, <1>2, <3>1 DEF Places
    <3>. QED  BY <2>2, <3>2
  <2>5. Unmarked(x)
    BY <2>3, <2>4 DEF Unmarked, Has, Places
  <2>. QED  BY <1>5, <2>5 DEF x
<1>7. Unmarked(Below(d))
  <2>. DEFINE z == SubSeq(d, a, n)
  <2>1. a \in 1..(n + 1) /\ n \in 0..n /\ a <= n + 1
    BY <1>2, <1>3
  <2>2. z \in Doc /\ Len(z) = n - a + 1 /\ \A i \in 1..(n - a + 1) : z[i] = d[a + i - 1]
    BY <2>1, PartIs DEF n
  <2>. HIDE DEF z
  <2>3. DOMAIN z = 1..(n - a + 1)
    BY <2>2, DocIs
  <2>4. ASSUME NEW i \in 1..(n - a + 1) PROVE z[i] # BeginMarker /\ z[i] # EndMarker
    <3>1. a + i - 1 \in 1..n /\ a + i - 1 # b /\ a + i - 1 # e
      BY <1>1, <1>2, <1>3
    <3>2. d[a + i - 1] # BeginMarker /\ d[a + i - 1] # EndMarker
      BY <1>1, <1>2, <3>1 DEF Places
    <3>. QED  BY <2>2, <3>2
  <2>5. Unmarked(z)
    BY <2>3, <2>4 DEF Unmarked, Has, Places
  <2>. QED  BY <1>5, <2>5 DEF z
<1>. QED  BY <1>4, <1>5, <1>6, <1>7

LEMMA OneIs == ASSUME NEW S, NEW c1 \in S PROVE <<c1>> \in Seq(S)
OBVIOUS

LEMMA ThreeAre ==
  ASSUME NEW S, NEW c1 \in S, NEW c2 \in S, NEW c3 \in S
  PROVE  <<c1, c2, c3>> \in Seq(S)
OBVIOUS

LEMMA FiveAre ==
  ASSUME NEW S, NEW c1 \in S, NEW c2 \in S, NEW c3 \in S, NEW c4 \in S, NEW c5 \in S
  PROVE  <<c1, c2, c3, c4, c5>> \in Seq(S) /\ Len(<<c1, c2, c3, c4, c5>>) = 5
OBVIOUS

LEMMA BlockHas ==
  /\ Block \in Doc /\ Len(Block) = 5
  /\ Block[1] = BeginMarker /\ Block[4] = EndMarker /\ Block[5] = Newline
  /\ Places(Block, BeginMarker) = {1} /\ Places(Block, EndMarker) = {4}
  /\ Has(Block, OptIn)
  /\ \A t : t \notin {BeginMarker, OptIn, "new render", EndMarker, Newline} => ~ Has(Block, t)
<1>1. /\ BeginMarker \in Token /\ OptIn \in Token /\ "new render" \in Token
      /\ EndMarker \in Token /\ Newline \in Token
  BY ToldAreTokens DEF Told, Body
<1>2. Block \in Doc /\ Len(Block) = 5
  <2>. QED  BY <1>1, FiveAre DEF Doc, Block
<1>3. /\ Block[1] = BeginMarker /\ Block[2] = OptIn /\ Block[3] = "new render"
      /\ Block[4] = EndMarker /\ Block[5] = Newline
  BY DEF Block
<1>4. DOMAIN Block = {1, 2, 3, 4, 5}
  BY <1>2, DocIs
<1>5. Places(Block, BeginMarker) = {1} /\ Places(Block, EndMarker) = {4} /\ Places(Block, OptIn) = {2}
  BY <1>3, <1>4 DEF Places, BeginMarker, EndMarker, Newline, OptIn
<1>6. ASSUME NEW t, t \notin {BeginMarker, OptIn, "new render", EndMarker, Newline} PROVE ~ Has(Block, t)
  BY <1>3, <1>4, <1>6 DEF Has, Places
<1>. QED  BY <1>2, <1>3, <1>5, <1>6 DEF Has

\* One marker of each, the second before the newline that ends it.
IsBlock(block) ==
  /\ block \in Doc /\ 2 < Len(block) /\ block[Len(block)] = Newline
  /\ Places(block, BeginMarker) = {1} /\ Places(block, EndMarker) = {Len(block) - 1}

LEMMA BlockIs == IsBlock(Block)
<1>1. Len(Block) = 5 /\ Block[5] = Newline
  BY BlockHas
<1>2. Block \in Doc /\ Places(Block, BeginMarker) = {1} /\ Places(Block, EndMarker) = {4}
  BY BlockHas
<1>3. 2 < 5 /\ 5 - 1 = 4
  OBVIOUS
<1>. QED  BY <1>1, <1>2, <1>3 DEF IsBlock

\* A block between what has no marker in it is found there.
LEMMA BlockPlaced ==
  ASSUME NEW x \in Doc, NEW z \in Doc, NEW block, NEW d, Unmarked(x), Unmarked(z), IsBlock(block),
         d = x \o block \o z
  PROVE  /\ d \in Doc /\ Marked(d) /\ ~ Unmarked(d)
         /\ Above(d) = x /\ BlockOf(d) = block /\ Below(d) = z
<1>. DEFINE m == Len(x)
            l == Len(z)
            k == Len(block)
            n == Len(d)
            xb == x \o block
<1>1. m \in Nat /\ l \in Nat /\ DOMAIN x = 1..m /\ DOMAIN z = 1..l
  BY DocIs
<1>2. block \in Doc /\ Len(block) = k /\ k \in Nat /\ 2 < k
  <2>1. block \in Doc /\ 2 < k
    BY DEF IsBlock
  <2>. QED  BY <2>1, DocIs
<1>3. xb \in Doc /\ Len(xb) = m + k
  <2>1. xb \in Doc /\ Len(xb) = Len(x) + Len(block)
    BY <1>2, JoinIs
  <2>. QED  BY <1>2, <2>1
<1>4. d = xb \o z
  OBVIOUS
<1>. HIDE DEF xb
<1>5. d \in Doc /\ n = m + k + l
  <2>1. xb \o z \in Doc /\ Len(xb \o z) = Len(xb) + Len(z)
    BY <1>3, JoinIs
  <2>. QED  BY <1>3, <1>4, <2>1
<1>6. DOMAIN d = 1..n
  BY <1>5, DocIs
<1>. HIDE DEF m, l, n, k
<1>7. ASSUME NEW i \in 1..m PROVE d[i] = x[i]
  <2>1. xb[i] = x[i]
    BY <1>2, JoinIs DEF xb, m
  <2>2. i \in 1..Len(xb)
    BY <1>1, <1>2, <1>3
  <2>3. d[i] = xb[i]
    BY <1>3, <1>4, <2>2, JoinIs
  <2>. QED  BY <2>1, <2>3
<1>8. ASSUME NEW i \in 1..k PROVE d[m + i] = block[i]
  <2>1. i \in 1..Len(block)
    BY <1>2
  <2>2. xb[m + i] = block[i]
    BY <1>2, <2>1, JoinIs DEF xb, m
  <2>3. m + i \in 1..Len(xb)
    BY <1>1, <1>2, <1>3
  <2>4. d[m + i] = xb[m + i]
    BY <1>3, <1>4, <2>3, JoinIs
  <2>. QED  BY <2>2, <2>4
<1>9. ASSUME NEW i \in 1..l PROVE d[(m + k) + i] = z[i]
  <2>1. i \in 1..Len(z)
    BY DEF l
  <2>2. d[Len(xb) + i] = z[i]
    BY <1>3, <1>4, <2>1, JoinIs
  <2>. QED  BY <1>3, <2>2
<1>10. ASSUME NEW t, t = BeginMarker \/ t = EndMarker
       PROVE  Places(d, t) = {m + i : i \in Places(block, t)}
  <2>1. (\A i \in 1..m : x[i] # t) /\ (\A i \in 1..l : z[i] # t)
    BY <1>1, <1>2, <1>10 DEF Unmarked, Has, Places
  <2>2. DOMAIN block = 1..k
    BY <1>2, DocIs
  <2>3. ASSUME NEW i \in Places(d, t) PROVE i \in {m + j : j \in Places(block, t)}
    <3>1. i \in 1..n /\ d[i] = t
      BY <1>6 DEF Places
    <3>2. i \notin 1..m
      BY <1>7, <2>1, <3>1
    <3>3. ~ (i > m + k)
      <4>1. SUFFICES ASSUME i > m + k PROVE FALSE
        OBVIOUS
      <4>2. i - (m + k) \in 1..l /\ (m + k) + (i - (m + k)) = i
        BY <1>1, <1>2, <1>5, <3>1, <4>1
      <4>3. d[(m + k) + (i - (m + k))] = z[i - (m + k)]
        BY <1>9, <4>2
      <4>. QED  BY <2>1, <3>1, <4>2, <4>3
    <3>4. i - m \in 1..k /\ m + (i - m) = i
      BY <1>1, <1>2, <1>5, <3>1, <3>2, <3>3
    <3>5. d[m + (i - m)] = block[i - m]
      BY <1>8, <3>4
    <3>6. i - m \in Places(block, t)
      BY <2>2, <3>1, <3>4, <3>5 DEF Places
    <3>. QED  BY <3>4, <3>6
  <2>4. ASSUME NEW i \in Places(block, t) PROVE m + i \in Places(d, t)
    <3>1. i \in 1..k /\ block[i] = t
      BY <2>2 DEF Places
    <3>2. m + i \in 1..n
      BY <1>1, <1>2, <1>5, <3>1
    <3>3. d[m + i] = t
      BY <1>8, <3>1
    <3>. QED  BY <1>6, <3>2, <3>3 DEF Places
  <2>. QED  BY <2>3, <2>4
<1>11. Places(d, BeginMarker) = {m + 1} /\ Places(d, EndMarker) = {m + (k - 1)}
  <2>1. Places(block, BeginMarker) = {1} /\ Places(block, EndMarker) = {k - 1}
    BY DEF IsBlock, k
  <2>. QED  BY <1>2, <1>10, <2>1
<1>12. m + 1 \in 1..n /\ m + (k - 1) \in 1..n /\ m + 1 < m + (k - 1) /\ m + (k - 1) < n
  BY <1>1, <1>2, <1>5
<1>13. Marked(d) /\ ~ Unmarked(d)
  BY <1>6, <1>11, <1>12 DEF Marked, Unmarked, Has
<1>14. BlockStart(d) = m + 1 /\ AfterBlock(d) = m + (k + 1)
  <2>1. /\ BlockStart(d) = m + 1
        /\ AfterBlock(d) = IF m + (k - 1) < n /\ d[(m + (k - 1)) + 1] = Newline THEN (m + (k - 1)) + 2 ELSE (m + (k - 1)) + 1
    <3>. DEFINE b == m + 1
                e == m + (k - 1)
    <3>1. Places(d, BeginMarker) = {b} /\ Places(d, EndMarker) = {e} /\ b < e
      BY <1>11, <1>12
    <3>. HIDE DEF b, e
    <3>2. BlockStart(d) = b /\ AfterBlock(d) = IF e < n /\ d[e + 1] = Newline THEN e + 2 ELSE e + 1
      BY <1>5, <3>1, BlockLies DEF n
    <3>. QED  BY <3>2 DEF b, e
  <2>2. d[m + k] = Newline
    <3>1. k \in 1..k
      BY <1>2
    <3>. QED  BY <1>2, <1>8, <3>1 DEF IsBlock, k
  <2>3. (m + (k - 1)) + 1 = m + k /\ (m + (k - 1)) + 2 = m + (k + 1)
    BY <1>1, <1>2
  <2>. QED  BY <1>12, <2>1, <2>2, <2>3
<1>15. Above(d) = x
  <2>1. /\ 1 \in 1..(n + 1) /\ m \in 0..n /\ 1 <= m + 1 /\ m - 1 + 1 = m /\ (m + 1) - 1 = m
        /\ \A i \in 1..m : 1 + i - 1 = i
    BY <1>1, <1>2, <1>5
  <2>. DEFINE y == SubSeq(d, 1, m)
  <2>2. y \in Doc /\ Len(y) = m - 1 + 1 /\ \A i \in 1..(m - 1 + 1) : y[i] = d[1 + i - 1]
    BY <1>5, <2>1, PartIs DEF n
  <2>. HIDE DEF y
  <2>3. y \in Doc /\ Len(y) = m /\ \A i \in 1..m : y[i] = x[i]
    BY <1>7, <2>1, <2>2
  <2>4. y = x
    BY <2>3, SameDoc DEF m
  <2>. QED  BY <1>14, <2>1, <2>4 DEF Above, y
<1>16. BlockOf(d) = block
  <2>. DEFINE y == SubSeq(d, m + 1, m + k)
  <2>1. m + 1 \in 1..(n + 1) /\ m + k \in 0..n /\ m + 1 <= (m + k) + 1 /\ (m + k) - (m + 1) + 1 = k
        /\ (m + (k + 1)) - 1 = m + k /\ \A i \in 1..k : (m + 1) + i - 1 = m + i
    BY <1>1, <1>2, <1>5
  <2>2. /\ y \in Doc /\ Len(y) = (m + k) - (m + 1) + 1
        /\ \A i \in 1..((m + k) - (m + 1) + 1) : y[i] = d[(m + 1) + i - 1]
    BY <1>5, <2>1, PartIs DEF n
  <2>. HIDE DEF y
  <2>3. y \in Doc /\ Len(y) = k /\ \A i \in 1..k : y[i] = block[i]
    BY <1>8, <2>1, <2>2
  <2>4. y = block
    BY <1>2, <2>3, SameDoc
  <2>. QED  BY <1>14, <2>1, <2>4 DEF BlockOf, y
<1>17. Below(d) = z
  <2>. DEFINE y == SubSeq(d, m + (k + 1), n)
  <2>1. m + (k + 1) \in 1..(n + 1) /\ n \in 0..n /\ m + (k + 1) <= n + 1 /\ n - (m + (k + 1)) + 1 = l
        /\ \A i \in 1..l : (m + (k + 1)) + i - 1 = (m + k) + i
    BY <1>1, <1>2, <1>5
  <2>2. /\ y \in Doc /\ Len(y) = n - (m + (k + 1)) + 1
        /\ \A i \in 1..(n - (m + (k + 1)) + 1) : y[i] = d[(m + (k + 1)) + i - 1]
    BY <1>5, <2>1, PartIs DEF n
  <2>. HIDE DEF y
  <2>3. y \in Doc /\ Len(y) = l /\ \A i \in 1..l : y[i] = z[i]
    BY <1>9, <2>1, <2>2
  <2>4. y = z
    BY <2>3, SameDoc DEF l
  <2>. QED  BY <1>14, <2>4 DEF Below, y, n
<1>. QED  BY <1>5, <1>13, <1>15, <1>16, <1>17

\* A word of the user's at the top leaves the block what it was.
LEMMA ToppedKeeps ==
  ASSUME NEW d \in Doc
  PROVE  /\ <<Prose>> \o d \in Doc
         /\ \A t : Has(<<Prose>> \o d, t) <=> t = Prose \/ Has(d, t)
         /\ Count(<<Prose>> \o d, Prose) = Count(d, Prose) + 1
         /\ Marked(<<Prose>> \o d) => Marked(d) /\ BlockOf(<<Prose>> \o d) = BlockOf(d)
<1>. DEFINE top == <<Prose>>
            w == top \o d
            n == Len(d)
<1>1. top \in Doc /\ Len(top) = 1 /\ top[1] = Prose
  <2>1. Prose \in Token
    BY ToldAreTokens DEF Told
  <2>. QED  BY <2>1, OneCounts
<1>2. n \in Nat /\ DOMAIN d = 1..n
  BY DocIs
<1>3. ASSUME NEW t
      PROVE  /\ Has(w, t) <=> t = Prose \/ Has(d, t)
             /\ Count(w, t) = Count(top, t) + Count(d, t) /\ Count(d, t) \in Nat
             /\ Count(top, t) = IF Prose = t THEN 1 ELSE 0
  <2>1. Prose \in Token
    BY ToldAreTokens DEF Told
  <2>2. /\ Has(top, t) <=> Prose = t
        /\ Count(top, t) = IF Prose = t THEN 1 ELSE 0
    BY <2>1, OneCounts
  <2>. HIDE DEF top
  <2>3. /\ Has(w, t) <=> Has(top, t) \/ Has(d, t)
        /\ Count(w, t) = Count(top, t) + Count(d, t) /\ Count(d, t) \in Nat
    BY <1>1, JoinCounts
  <2>. QED  BY <2>2, <2>3
<1>. HIDE DEF top
<1>4. w \in Doc /\ Len(w) = 1 + n
  <2>1. w \in Doc /\ Len(w) = Len(top) + Len(d)
    BY <1>1, JoinIs
  <2>. QED  BY <1>1, <2>1
<1>5. DOMAIN w = 1..(1 + n)
  BY <1>4, DocIs
<1>6. ASSUME NEW i \in 1..n PROVE w[1 + i] = d[i]
  <2>1. \A j \in 1..Len(d) : (top \o d)[Len(top) + j] = d[j]
    BY <1>1, JoinIs
  <2>. QED  BY <1>1, <2>1
<1>7. w[1] = Prose
  <2>1. 1 \in 1..Len(top)
    BY <1>1
  <2>2. w[1] = top[1]
    BY <1>1, <2>1, JoinIs
  <2>. QED  BY <1>1, <2>2
<1>. HIDE DEF w, n
<1>8. ASSUME NEW t, t # Prose PROVE \A i \in 2..(1 + n) : i \in Places(w, t) <=> i - 1 \in Places(d, t)
  <2>1. ASSUME NEW i \in 2..(1 + n) PROVE i \in Places(w, t) <=> i - 1 \in Places(d, t)
    <3>1. i - 1 \in 1..n /\ 1 + (i - 1) = i /\ i \in 1..(1 + n)
      BY <1>2
    <3>2. w[1 + (i - 1)] = d[i - 1]
      BY <1>6, <3>1
    <3>. QED  BY <1>2, <1>5, <3>1, <3>2 DEF Places
  <2>. QED  BY <2>1
<1>9. ASSUME NEW t, t # Prose PROVE \A i \in Places(w, t) : i \in 2..(1 + n)
  BY <1>2, <1>5, <1>7, <1>9 DEF Places
<1>10. ASSUME Marked(w) PROVE Marked(d) /\ BlockOf(w) = BlockOf(d)
  <2>1. PICK b, e \in DOMAIN w : b < e /\ Places(w, BeginMarker) = {b} /\ Places(w, EndMarker) = {e}
    BY <1>10 DEF Marked
  <2>2. BeginMarker # Prose /\ EndMarker # Prose
    BY DEF BeginMarker, EndMarker, Prose
  <2>3. b \in 2..(1 + n) /\ e \in 2..(1 + n)
    BY <1>9, <2>1, <2>2
  <2>. DEFINE c == b - 1
              f == e - 1
  <2>4. c \in 1..n /\ f \in 1..n /\ c < f /\ b = c + 1 /\ e = f + 1
    BY <1>2, <2>1, <2>3
  <2>5. ASSUME NEW t, t # Prose, NEW k, k \in 2..(1 + n), Places(w, t) = {k} PROVE Places(d, t) = {k - 1}
    <3>1. k - 1 \in Places(d, t)
      BY <1>8, <2>5
    <3>2. ASSUME NEW j \in Places(d, t) PROVE j = k - 1
      <4>1. j \in 1..n
        BY <1>2 DEF Places
      <4>2. j + 1 \in 2..(1 + n) /\ (j + 1) - 1 = j
        BY <1>2, <4>1
      <4>3. j + 1 \in Places(w, t)
        BY <1>8, <2>5, <4>2
      <4>. QED  BY <2>5, <4>1, <4>3
    <3>. QED  BY <3>1, <3>2
  <2>6. Places(d, BeginMarker) = {c} /\ Places(d, EndMarker) = {f}
    BY <2>1, <2>2, <2>3, <2>5
  <2>. HIDE DEF c, f
  <2>7. Marked(d)
    BY <1>2, <2>4, <2>6 DEF Marked
  <2>8. BlockStart(w) = b /\ AfterBlock(w) = IF e < 1 + n /\ w[e + 1] = Newline THEN e + 2 ELSE e + 1
    BY <1>4, <2>1, BlockLies
  <2>9. /\ BlockStart(d) = c /\ AfterBlock(d) = IF f < n /\ d[f + 1] = Newline THEN f + 2 ELSE f + 1
        /\ AfterBlock(d) \in c..(n + 1)
    BY <2>4, <2>6, BlockLies DEF n
  <2>. DEFINE a == AfterBlock(d)
  <2>10. AfterBlock(w) = a + 1
    <3>1. CASE f < n
      <4>1. f + 1 \in 1..n /\ 1 + (f + 1) = e + 1 /\ e < 1 + n
        BY <1>2, <2>4, <3>1
      <4>2. w[1 + (f + 1)] = d[f + 1]
        BY <1>6, <4>1
      <4>3. w[e + 1] = d[f + 1]
        BY <4>1, <4>2
      <4>4. e + 2 = (f + 2) + 1 /\ e + 1 = (f + 1) + 1
        BY <2>4
      <4>. QED  BY <2>8, <2>9, <3>1, <4>1, <4>3, <4>4
    <3>2. CASE ~ (f < n)
      <4>1. ~ (e < 1 + n) /\ e + 1 = (f + 1) + 1
        BY <1>2, <2>4, <3>2
      <4>. QED  BY <2>8, <2>9, <3>2, <4>1
    <3>. QED  BY <3>1, <3>2
  <2>. HIDE DEF a
  <2>11. a \in c..(n + 1)
    BY <2>9 DEF a
  <2>. DEFINE x == SubSeq(w, b, a)
              y == SubSeq(d, c, a - 1)
  <2>12. /\ x \in Doc /\ Len(x) = a - b + 1
         /\ \A i \in 1..(a - b + 1) : x[i] = w[b + i - 1]
    <3>1. b \in 1..((1 + n) + 1) /\ a \in 0..(1 + n) /\ b <= a + 1
      BY <1>2, <2>4, <2>11
    <3>. DEFINE N == 1 + n
    <3>2. Len(w) = N /\ w \in Doc
      BY <1>4
    <3>. HIDE DEF N
    <3>3. b \in 1..(N + 1) /\ a \in 0..N
      BY <3>1 DEF N
    <3>. QED  BY <3>1, <3>2, <3>3, PartIs DEF x
  <2>13. /\ y \in Doc /\ Len(y) = (a - 1) - c + 1
         /\ \A i \in 1..((a - 1) - c + 1) : y[i] = d[c + i - 1]
    <3>1. c \in 1..(n + 1) /\ a - 1 \in 0..n /\ c <= (a - 1) + 1
      BY <1>2, <2>4, <2>11
    <3>. QED  BY <3>1, PartIs DEF n
  <2>. HIDE DEF x, y
  <2>14. a - b + 1 = a - c /\ (a - 1) - c + 1 = a - c
    BY <1>2, <2>4, <2>11
  <2>15. ASSUME NEW i \in 1..(a - c) PROVE x[i] = y[i]
    <3>1. c + i - 1 \in 1..n /\ 1 + (c + i - 1) = b + i - 1
      BY <1>2, <2>4, <2>11
    <3>2. w[1 + (c + i - 1)] = d[c + i - 1]
      BY <1>6, <3>1
    <3>3. x[i] = w[b + i - 1] /\ y[i] = d[c + i - 1]
      BY <2>12, <2>13, <2>14
    <3>. QED  BY <3>1, <3>2, <3>3
  <2>16. x = y
    BY <2>12, <2>13, <2>14, <2>15, SameDoc
  <2>17. BlockOf(w) = x
    <3>1. (a + 1) - 1 = a
      BY <2>11
    <3>. QED  BY <2>8, <2>10, <3>1 DEF BlockOf, x
  <2>18. BlockOf(d) = y
    BY <2>9 DEF BlockOf, y, a
  <2>. QED  BY <2>7, <2>16, <2>17, <2>18
<1>11. Count(w, Prose) = Count(d, Prose) + 1
  BY <1>3
<1>. QED  BY <1>3, <1>4, <1>10, <1>11 DEF w, top

LEMMA NewlinesAre ==
  ASSUME NEW nl \in {<<>>, <<Newline>>, <<Newline, Newline>>}
  PROVE  nl \in Doc /\ \A t : t # Newline => Count(nl, t) = 0 /\ ~ Has(nl, t)
<1>1. Newline \in Token
  BY ToldAreTokens DEF Told
<1>2. nl \in Doc
  <2>. HIDE DEF Newline
  <2>1. <<>> \in Doc /\ <<Newline>> \in Doc /\ <<Newline, Newline>> \in Doc
    BY <1>1 DEF Doc
  <2>. QED  BY <2>1
<1>3. Blank(nl)
  BY DEF Blank
<1>. QED  BY <1>2, <1>3, BlankCounts

BlockTokens == {BeginMarker, OptIn, "new render", EndMarker, Newline}

LEMMA ThreeCount ==
  ASSUME NEW x \in Doc, NEW y \in Doc, NEW z \in Doc, NEW t
  PROVE  /\ x \o y \in Doc /\ x \o y \o z \in Doc
         /\ Has(x \o y \o z, t) <=> Has(x, t) \/ Has(y, t) \/ Has(z, t)
         /\ Count(x \o y \o z, t) = Count(x, t) + Count(y, t) + Count(z, t)
         /\ Count(x, t) \in Nat /\ Count(y, t) \in Nat /\ Count(z, t) \in Nat
<1>. DEFINE xy == x \o y
<1>1. xy \in Doc
  BY JoinIs
<1>2. /\ Has(xy, t) <=> Has(x, t) \/ Has(y, t)
      /\ Count(xy, t) = Count(x, t) + Count(y, t) /\ Count(x, t) \in Nat /\ Count(y, t) \in Nat
  BY JoinCounts
<1>. HIDE DEF xy
<1>3. /\ xy \o z \in Doc
      /\ Has(xy \o z, t) <=> Has(xy, t) \/ Has(z, t)
      /\ Count(xy \o z, t) = Count(xy, t) + Count(z, t) /\ Count(z, t) \in Nat
  BY <1>1, JoinCounts, JoinIs
<1>. QED  BY <1>1, <1>2, <1>3 DEF xy

LEMMA NothingAfter == ASSUME NEW d \in Doc PROVE d \o <<>> = d /\ <<>> \o d = d
<1>. QED  BY DEF Doc

\* A merge puts the block between what there was.
LEMMA MergeBlockIs ==
  ASSUME NEW d \in Doc, ~ Conflicted(d)
  PROVE  /\ MergeBlock(d, Block) \in Doc /\ Marked(MergeBlock(d, Block))
         /\ ~ Unmarked(MergeBlock(d, Block)) /\ BlockOf(MergeBlock(d, Block)) = Block
         /\ MergeBlock(MergeBlock(d, Block), Block) = MergeBlock(d, Block)
         /\ \A t : t \notin BlockTokens =>
              /\ Has(MergeBlock(d, Block), t) => Has(d, t)
              /\ (Marked(d) => ~ Has(BlockOf(d), t)) => Count(MergeBlock(d, Block), t) = Count(d, t)
<1>. DEFINE w == MergeBlock(d, Block)
            Between(x, z) ==
              /\ x \in Doc /\ z \in Doc /\ Unmarked(x) /\ Unmarked(z) /\ w = x \o Block \o z
              /\ \A t : t \notin BlockTokens =>
                   /\ Has(x, t) \/ Has(z, t) => Has(d, t)
                   /\ (Marked(d) => ~ Has(BlockOf(d), t)) => Count(d, t) = Count(x, t) + Count(z, t)
<1>1. Block \in Doc /\ \A t : t \notin BlockTokens => ~ Has(Block, t) /\ Count(Block, t) = 0
  BY BlockHas, NoneCounts DEF BlockTokens
<1>2. ASSUME Marked(d) PROVE \E x, z : Between(x, z)
  <2>1. /\ Above(d) \in Doc /\ BlockOf(d) \in Doc /\ Below(d) \in Doc
        /\ d = Above(d) \o BlockOf(d) \o Below(d)
        /\ Unmarked(Above(d)) /\ Unmarked(Below(d))
    BY <1>2, MarkedSplits
  <2>2. w = Above(d) \o Block \o Below(d)
    BY <1>2 DEF MergeBlock, Above, Below
  <2>3. ASSUME NEW t
        PROVE  /\ Has(d, t) <=> Has(Above(d), t) \/ Has(BlockOf(d), t) \/ Has(Below(d), t)
               /\ ~ Has(BlockOf(d), t) => Count(d, t) = Count(Above(d), t) + Count(Below(d), t)
    <3>. DEFINE x == Above(d)
                y == BlockOf(d)
                z == Below(d)
    <3>1. x \in Doc /\ y \in Doc /\ z \in Doc /\ d = x \o y \o z
      BY <2>1
    <3>. HIDE DEF x, y, z
    <3>2. /\ Has(x \o y \o z, t) <=> Has(x, t) \/ Has(y, t) \/ Has(z, t)
          /\ Count(x \o y \o z, t) = Count(x, t) + Count(y, t) + Count(z, t)
          /\ Count(x, t) \in Nat /\ Count(y, t) \in Nat /\ Count(z, t) \in Nat
      BY <3>1, ThreeCount
    <3>3. ~ Has(y, t) => Count(y, t) = 0
      BY <3>1, NoneCounts
    <3>4. /\ Has(d, t) <=> Has(x, t) \/ Has(y, t) \/ Has(z, t)
          /\ ~ Has(y, t) => Count(d, t) = Count(x, t) + Count(z, t)
      BY <3>1, <3>2, <3>3
    <3>. QED  BY <3>4 DEF x, y, z
  <2>. HIDE DEF w
  <2>4. Between(Above(d), Below(d))
    BY <1>2, <2>1, <2>2, <2>3
  <2>. QED  BY <2>4
<1>3. ASSUME ~ Marked(d), Blank(d) PROVE \E x, z : Between(x, z)
  <2>1. w = Block
    BY <1>3 DEF MergeBlock
  <2>2. <<>> \in Doc /\ Unmarked(<<>>) /\ \A t : Count(<<>>, t) = 0 /\ ~ Has(<<>>, t)
    BY EmptyCounts DEF Unmarked
  <2>3. Block = <<>> \o Block \o <<>>
    BY <1>1, NothingAfter
  <2>4. \A t : t \notin BlockTokens => Count(d, t) = 0
    BY <1>3, BlankCounts DEF BlockTokens
  <2>. HIDE DEF w
  <2>5. Between(<<>>, <<>>)
    BY <1>3, <2>1, <2>2, <2>3, <2>4
  <2>. QED  BY <2>5
<1>4. ASSUME ~ Marked(d), ~ Blank(d) PROVE \E x, z : Between(x, z)
  <2>. DEFINE tr == TrimRight(d)
              nl == <<Newline, Newline>>
              x == tr \o nl
  <2>1. w = tr \o nl \o Block
    BY <1>4 DEF MergeBlock
  <2>2. tr \in Doc /\ \A t : t # Newline => Count(tr, t) = Count(d, t) /\ (Has(tr, t) <=> Has(d, t))
    BY TrimRightIs
  <2>3. nl \in Doc /\ \A t : t # Newline => Count(nl, t) = 0 /\ ~ Has(nl, t)
    BY NewlinesAre
  <2>. HIDE DEF tr, nl
  <2>4. x \in Doc /\ \A t : /\ Has(x, t) <=> Has(tr, t) \/ Has(nl, t)
                            /\ Count(x, t) = Count(tr, t) + Count(nl, t) /\ Count(tr, t) \in Nat
    BY <2>2, <2>3, JoinCounts, JoinIs
  <2>5. w = x \o Block
    BY <2>1
  <2>. HIDE DEF w, x
  <2>6. ASSUME NEW t, t # Newline PROVE Count(x, t) = Count(d, t) /\ (Has(x, t) <=> Has(d, t)) /\ Count(x, t) \in Nat
    <3>1. Count(nl, t) = 0 /\ ~ Has(nl, t) /\ Count(tr, t) = Count(d, t) /\ (Has(tr, t) <=> Has(d, t))
      BY <2>2, <2>3, <2>6
    <3>. QED  BY <2>4, <3>1
  <2>7. x \o Block \in Doc /\ x \o Block = x \o Block \o <<>>
    <3>1. x \o Block \in Doc
      BY <1>1, <2>4, JoinIs
    <3>. QED  BY <3>1, NothingAfter
  <2>8. Unmarked(x)
    <3>1. Unmarked(d)
      BY <1>4 DEF Conflicted
    <3>. QED  BY <2>6, <3>1 DEF Unmarked, BeginMarker, EndMarker, Newline
  <2>9. <<>> \in Doc /\ Unmarked(<<>>) /\ \A t : Count(<<>>, t) = 0 /\ ~ Has(<<>>, t)
    BY EmptyCounts DEF Unmarked
  <2>10. ASSUME NEW t, t \notin BlockTokens
         PROVE  (Has(x, t) \/ Has(<<>>, t) => Has(d, t)) /\ Count(d, t) = Count(x, t) + Count(<<>>, t)
    <3>1. t # Newline
      BY <2>10 DEF BlockTokens
    <3>. QED  BY <2>6, <2>9, <3>1
  <2>11. Between(x, <<>>)
    BY <2>4, <2>5, <2>7, <2>8, <2>9, <2>10
  <2>. QED  BY <2>11
<1>5. PICK x, z : Between(x, z)
  <2>. HIDE DEF Between
  <2>. QED  BY <1>2, <1>3, <1>4
<1>. HIDE DEF w
<1>6. w \in Doc /\ Marked(w) /\ ~ Unmarked(w) /\ Above(w) = x /\ BlockOf(w) = Block /\ Below(w) = z
  <2>1. IsBlock(Block)
    BY BlockIs
  <2>2. x \in Doc /\ z \in Doc /\ Unmarked(x) /\ Unmarked(z) /\ w = x \o Block \o z
    BY <1>5
  <2>. QED  BY <2>1, <2>2, BlockPlaced
<1>7. MergeBlock(w, Block) = w
  <2>1. MergeBlock(w, Block) = Above(w) \o Block \o Below(w)
    BY <1>6 DEF MergeBlock, Above, Below
  <2>. QED  BY <1>5, <1>6, <2>1
<1>8. ASSUME NEW t, t \notin BlockTokens
      PROVE  /\ Has(w, t) => Has(d, t)
             /\ (Marked(d) => ~ Has(BlockOf(d), t)) => Count(w, t) = Count(d, t)
  <2>1. /\ Has(x \o Block \o z, t) <=> Has(x, t) \/ Has(Block, t) \/ Has(z, t)
        /\ Count(x \o Block \o z, t) = Count(x, t) + Count(Block, t) + Count(z, t)
        /\ Count(x, t) \in Nat /\ Count(z, t) \in Nat
    BY <1>1, <1>5, ThreeCount
  <2>2. ~ Has(Block, t) /\ Count(Block, t) = 0
    BY <1>1, <1>8
  <2>. QED  BY <1>5, <1>8, <2>1, <2>2
<1>. QED  BY <1>6, <1>7, <1>8 DEF w

\* A removal takes the block and leaves the rest.
LEMMA RemoveBlockIs ==
  ASSUME NEW d \in Doc, Marked(d)
  PROVE  /\ RemoveBlock(d) \in Doc /\ Unmarked(RemoveBlock(d))
         /\ \A t : t # Newline =>
              /\ Has(RemoveBlock(d), t) => Has(d, t)
              /\ ~ Has(BlockOf(d), t) => Count(RemoveBlock(d), t) = Count(d, t)
<1>. DEFINE x == Above(d)
            y == BlockOf(d)
            z == Below(d)
            head == TrimRight(x)
            tail == TrimLeft(z)
            r == RemoveBlock(d)
<1>1. /\ x \in Doc /\ y \in Doc /\ z \in Doc /\ d = x \o y \o z
      /\ Unmarked(x) /\ Unmarked(z)
  BY MarkedSplits
<1>2. ~ Unmarked(d)
  BY DEF Marked, Unmarked, Has
<1>3. r = IF head = <<>> THEN tail ELSE IF tail = <<>> THEN head \o <<Newline>>
          ELSE head \o <<Newline, Newline>> \o tail
  BY <1>2 DEF RemoveBlock, Above, Below
<1>. HIDE DEF x, y, z, r
<1>4. head \in Doc /\ \A t : t # Newline => Count(head, t) = Count(x, t) /\ (Has(head, t) <=> Has(x, t))
  BY <1>1, TrimRightIs
<1>5. tail \in Doc /\ \A t : t # Newline => Count(tail, t) = Count(z, t) /\ (Has(tail, t) <=> Has(z, t))
  BY <1>1, TrimLeftIs
<1>. HIDE DEF head, tail
<1>6. PICK nl \in {<<>>, <<Newline>>, <<Newline, Newline>>} : r = head \o nl \o tail
  <2>1. CASE head = <<>>
    <3>1. r = <<>> \o <<>> \o tail
      BY <1>3, <1>5, <2>1, NothingAfter, EmptyCounts
    <3>. QED  BY <2>1, <3>1
  <2>2. CASE head # <<>> /\ tail = <<>>
    <3>. DEFINE hn == head \o <<Newline>>
    <3>1. hn \in Doc
      BY <1>4, NewlinesAre, JoinIs
    <3>2. hn = hn \o <<>>
      BY <3>1, NothingAfter
    <3>. QED  BY <1>3, <2>2, <3>2
  <2>3. CASE head # <<>> /\ tail # <<>>
    BY <1>3, <2>3
  <2>. QED  BY <2>1, <2>2, <2>3
<1>7. nl \in Doc /\ \A t : t # Newline => Count(nl, t) = 0 /\ ~ Has(nl, t)
  BY NewlinesAre
<1>8. ASSUME NEW t, t # Newline
      PROVE  /\ Has(r, t) <=> Has(x, t) \/ Has(z, t)
             /\ Count(r, t) = Count(x, t) + Count(z, t)
  <2>1. /\ Has(head \o nl \o tail, t) <=> Has(head, t) \/ Has(nl, t) \/ Has(tail, t)
        /\ Count(head \o nl \o tail, t) = Count(head, t) + Count(nl, t) + Count(tail, t)
        /\ Count(head, t) \in Nat /\ Count(tail, t) \in Nat
    BY <1>4, <1>5, <1>7, ThreeCount
  <2>2. Count(nl, t) = 0 /\ ~ Has(nl, t)
    BY <1>7, <1>8
  <2>3. Count(head, t) = Count(x, t) /\ (Has(head, t) <=> Has(x, t))
    BY <1>4, <1>8
  <2>4. Count(tail, t) = Count(z, t) /\ (Has(tail, t) <=> Has(z, t))
    BY <1>5, <1>8
  <2>. QED  BY <1>6, <2>1, <2>2, <2>3, <2>4
<1>9. r \in Doc
  BY <1>4, <1>5, <1>6, <1>7, ThreeCount
<1>10. Unmarked(r)
  <2>1. BeginMarker # Newline /\ EndMarker # Newline
    BY DEF BeginMarker, EndMarker, Newline
  <2>. QED  BY <1>1, <1>8, <2>1 DEF Unmarked
<1>11. ASSUME NEW t, t # Newline
       PROVE  /\ Has(r, t) => Has(d, t)
              /\ ~ Has(y, t) => Count(r, t) = Count(d, t)
  <2>1. /\ Has(x \o y \o z, t) <=> Has(x, t) \/ Has(y, t) \/ Has(z, t)
        /\ Count(x \o y \o z, t) = Count(x, t) + Count(y, t) + Count(z, t)
        /\ Count(x, t) \in Nat /\ Count(z, t) \in Nat
    BY <1>1, ThreeCount
  <2>2. ~ Has(y, t) => Count(y, t) = 0
    BY <1>1, NoneCounts
  <2>. QED  BY <1>1, <1>8, <1>11, <2>1, <2>2
<1>. QED  BY <1>9, <1>10, <1>11 DEF r, y

-----------------------------------------------------------------------------
(* The words of a document *)

LEMMA FourAre ==
  ASSUME NEW S, NEW c1 \in S, NEW c2 \in S, NEW c3 \in S, NEW c4 \in S
  PROVE  <<c1, c2, c3, c4>> \in Seq(S) /\ Len(<<c1, c2, c3, c4>>) = 4
OBVIOUS

\* The words of one document after another.
LEMMA WordsJoin ==
  ASSUME NEW x \in Doc, NEW y \in Doc
  PROVE  WordsIn(x) \in Doc /\ WordsIn(x \o y) = WordsIn(x) \o WordsIn(y)
<1>. DEFINE z == x \o y
            m == Len(x)
            n == Len(y)
            Word(t) == IF t \in Wording THEN <<t>> ELSE <<>>
            Parts(d) == [i \in DOMAIN d |-> IF i \in {j \in DOMAIN d : d[j] \notin Wording} THEN <<>> ELSE <<d[i]>>]
<1>1. ASSUME NEW d \in Doc
      PROVE  /\ Parts(d) \in Seq(Doc) /\ Len(Parts(d)) = Len(d) /\ \A i \in 1..Len(d) : Parts(d)[i] = Word(d[i])
             /\ WordsIn(d) = Joined(Parts(d)) /\ WordsIn(d) \in Doc
  <2>1. Len(d) \in Nat /\ DOMAIN d = 1..Len(d) /\ \A i \in 1..Len(d) : d[i] \in Token
    BY DocIs
  <2>2. \A i \in 1..Len(d) : Parts(d)[i] = Word(d[i])
    BY <2>1
  <2>3. \A i \in 1..Len(d) : Word(d[i]) \in Doc
    BY <2>1, OneCounts, EmptyCounts
  <2>4. DOMAIN Parts(d) = 1..Len(d)
    BY <2>1
  <2>5. WordsIn(d) = Joined(Parts(d))
    BY DEF WordsIn, LeftOut
  <2>6. WordsIn(d) \in Doc
    BY LeftOutIs DEF WordsIn, Doc
  <2>. DEFINE f == Parts(d)
  <2>7. f = [i \in 1..Len(d) |-> f[i]] /\ \A i \in 1..Len(d) : f[i] \in Doc
    BY <2>1, <2>2, <2>3, <2>4
  <2>. HIDE DEF f, Doc
  <2>8. f \in Seq(Doc) /\ Len(f) = Len(d)
    BY <2>1, <2>7
  <2>. QED  BY <2>2, <2>5, <2>6, <2>8 DEF f
<1>2. z \in Doc /\ Len(z) = m + n /\ m \in Nat /\ n \in Nat
  BY JoinIs, DocIs
<1>3. \A i \in 1..(m + n) : z[i] = IF i <= m THEN x[i] ELSE y[i - m]
  BY JoinAt
<1>. DEFINE p == Parts(x)
            q == Parts(y)
            r == Parts(z)
<1>. HIDE DEF z, m, n
<1>4. /\ p \in Seq(Doc) /\ Len(p) = m /\ (\A i \in 1..m : p[i] = Word(x[i]))
      /\ WordsIn(x) = Joined(p) /\ WordsIn(x) \in Doc
  BY <1>1 DEF m
<1>5. q \in Seq(Doc) /\ Len(q) = n /\ (\A i \in 1..n : q[i] = Word(y[i])) /\ WordsIn(y) = Joined(q)
  BY <1>1 DEF n
<1>6. r \in Seq(Doc) /\ Len(r) = m + n /\ (\A i \in 1..(m + n) : r[i] = Word(z[i])) /\ WordsIn(z) = Joined(r)
  BY <1>1, <1>2
<1>. HIDE DEF p, q, r, Word, Parts
<1>7. r = p \o q
  <2>. DEFINE pq == p \o q
  <2>1. pq \in Seq(Doc) /\ Len(pq) = m + n /\ \A i \in 1..(m + n) : pq[i] = IF i <= m THEN p[i] ELSE q[i - m]
    BY <1>4, <1>5, ConcatProperties
  <2>. HIDE DEF pq
  <2>2. ASSUME NEW i \in 1..(m + n) PROVE r[i] = pq[i]
    <3>1. CASE i <= m
      <4>1. i \in 1..m
        BY <1>2, <3>1
      <4>. QED  BY <1>3, <1>4, <1>6, <2>1, <3>1, <4>1
    <3>2. CASE ~ (i <= m)
      <4>1. i - m \in 1..n
        BY <1>2, <3>2
      <4>. QED  BY <1>3, <1>5, <1>6, <2>1, <3>2, <4>1
    <3>. QED  BY <3>1, <3>2
  <2>3. r = pq
    BY <1>6, <2>1, <2>2, SeqEqual
  <2>. QED  BY <2>3 DEF pq
<1>8. Joined(p \o q) = Joined(p) \o Joined(q)
  BY <1>4, <1>5, JoinedOfTwo DEF Doc
<1>. QED  BY <1>4, <1>5, <1>6, <1>7, <1>8 DEF z

\* What holds no word has none.
LEMMA NoWords ==
  ASSUME NEW d \in Doc, \A t \in Wording : ~ Has(d, t) PROVE WordsIn(d) = <<>>
<1>1. Len(d) \in Nat /\ DOMAIN d = 1..Len(d)
  BY DocIs
<1>. DEFINE out == {i \in DOMAIN d : d[i] \notin Wording}
            s == LeftOut(d, out)
<1>2. out = DOMAIN d
  BY DEF Has, Places
<1>3. s \in Doc /\ Elements(s) = {d[i] : i \in DOMAIN d \ out}
  BY LeftOutIs DEF Doc
<1>4. Elements(s) = {}
  BY <1>2, <1>3
<1>. HIDE DEF s
<1>5. s = <<>>
  BY <1>3, <1>4 DEF Elements, Doc
<1>. QED  BY <1>5 DEF WordsIn, s

LEMMA BlankIsNoWords == ASSUME NEW d \in Doc, Blank(d) PROVE WordsIn(d) = <<>>
<1>1. Newline \notin Wording
  BY SharedFileParameters DEF Marks
<1>2. \A t \in Wording : ~ Has(d, t)
  BY <1>1, BlankCounts
<1>. QED  BY <1>2, NoWords

LEMMA TrimKeepsWords ==
  ASSUME NEW d \in Doc PROVE WordsIn(TrimRight(d)) = WordsIn(d) /\ WordsIn(TrimLeft(d)) = WordsIn(d)
<1>1. TrimRight(d) \in Doc /\ TrimLeft(d) \in Doc
  BY TrimRightCuts, TrimLeftCuts
<1>2. PICK y \in Doc : Blank(y) /\ d = TrimRight(d) \o y
  BY TrimRightCuts
<1>3. PICK x \in Doc : Blank(x) /\ d = x \o TrimLeft(d)
  BY TrimLeftCuts
<1>4. WordsIn(d) = WordsIn(TrimRight(d)) \o <<>> /\ WordsIn(TrimRight(d)) \in Doc
  <2>1. WordsIn(y) = <<>>
    BY <1>2, BlankIsNoWords
  <2>2. WordsIn(TrimRight(d) \o y) = WordsIn(TrimRight(d)) \o WordsIn(y)
    BY <1>1, WordsJoin
  <2>. QED  BY <1>1, <1>2, <2>1, <2>2, WordsJoin
<1>5. WordsIn(d) = <<>> \o WordsIn(TrimLeft(d)) /\ WordsIn(TrimLeft(d)) \in Doc
  <2>1. WordsIn(x) = <<>>
    BY <1>3, BlankIsNoWords
  <2>2. WordsIn(x \o TrimLeft(d)) = WordsIn(x) \o WordsIn(TrimLeft(d))
    BY <1>1, <1>3, WordsJoin
  <2>. QED  BY <1>1, <1>3, <2>1, <2>2, WordsJoin
<1>. QED  BY <1>4, <1>5, NothingAfter

-----------------------------------------------------------------------------
(* The block above, below and between *)

\* Newlines after what ends with none are trimmed.
LEMMA TrimsTo ==
  ASSUME NEW x \in Doc, NEW y \in Doc, Blank(y), x = <<>> \/ x[Len(x)] # Newline
  PROVE  TrimRight(x \o y) = x
<1>. DEFINE d == x \o y
            m == Len(x)
            n == Len(y)
            T == {0} \cup Solid(d)
<1>1. d \in Doc /\ Len(d) = m + n /\ m \in Nat /\ n \in Nat /\ DOMAIN x = 1..m /\ DOMAIN y = 1..n
  BY JoinIs, DocIs
<1>2. DOMAIN d = 1..(m + n)
  BY <1>1, DocIs
<1>3. \A i \in 1..(m + n) : d[i] = IF i <= m THEN x[i] ELSE y[i - m]
  BY JoinAt
<1>4. SubSeq(d, 1, m) = x
  BY StartOf DEF Doc
<1>5. m = 0 \/ x[m] # Newline
  <2>1. CASE x = <<>>
    BY <2>1
  <2>2. CASE x[Len(x)] # Newline
    BY <2>2
  <2>. QED  BY <2>1, <2>2
<1>. HIDE DEF d, m, n
<1>6. m \in T
  <2>1. CASE m = 0
    BY <2>1
  <2>2. CASE m # 0
    <3>1. m \in 1..(m + n) /\ m <= m
      BY <1>1, <2>2
    <3>. QED  BY <1>2, <1>3, <1>5, <2>2, <3>1 DEF Solid, Places
  <2>. QED  BY <2>1, <2>2
<1>7. \A i \in T : i \in 0..m
  <2>1. ASSUME NEW i \in Solid(d) PROVE i \in 1..m
    <3>1. i \in 1..(m + n) /\ d[i] # Newline
      BY <1>2 DEF Solid, Places
    <3>2. CASE ~ (i <= m)
      <4>1. i - m \in 1..n
        BY <1>1, <3>1, <3>2
      <4>2. y[i - m] = Newline
        BY <1>1, <4>1 DEF Blank
      <4>. QED  BY <1>3, <3>1, <3>2, <4>2
    <3>3. CASE i <= m
      BY <1>1, <3>1, <3>3
    <3>. QED  BY <3>2, <3>3
  <2>. QED  BY <1>1, <2>1
<1>8. LastOf(T) = m
  <2>1. T \subseteq 0..m /\ T # {}
    BY <1>6, <1>7
  <2>. HIDE DEF T
  <2>2. LastOf(T) \in T /\ \A j \in T : j <= LastOf(T)
    BY <1>1, <2>1, LastOfIs
  <2>3. LastOf(T) \in 0..m /\ m <= LastOf(T)
    BY <1>6, <1>7, <2>2
  <2>. QED  BY <1>1, <2>3
<1>. QED  BY <1>4, <1>8 DEF TrimRight, d

LEMMA TrimEnds ==
  ASSUME NEW d \in Doc
  PROVE  TrimRight(d) = <<>> \/ TrimRight(d)[Len(TrimRight(d))] # Newline
<1>. DEFINE n == Len(d)
            T == {0} \cup Solid(d)
            k == LastOf(T)
            x == SubSeq(d, 1, k)
<1>1. n \in Nat /\ DOMAIN d = 1..n
  BY DocIs
<1>2. T \subseteq 0..n /\ T # {}
  BY <1>1 DEF Solid
<1>3. k \in T
  <2>. HIDE DEF T, n
  <2>. QED  BY <1>1, <1>2, LastOfIs
<1>. HIDE DEF k
<1>4. k \in 0..n
  BY <1>2, <1>3
<1>5. x \in Doc /\ Len(x) = k /\ \A i \in 1..k : x[i] = d[i]
  <2>1. 1 \in 1..(n + 1) /\ k \in 0..n /\ 1 <= k + 1 /\ k - 1 + 1 = k /\ \A i \in 1..k : 1 + i - 1 = i
    BY <1>1, <1>4
  <2>. QED  BY <2>1, PartIs
<1>. HIDE DEF n, x
<1>6. CASE k = 0
  BY <1>5, <1>6 DEF TrimRight, k, x, Doc
<1>7. CASE k # 0
  <2>1. k \in 1..k /\ k \in Solid(d)
    BY <1>3, <1>4, <1>7
  <2>2. x[k] # Newline
    BY <1>5, <2>1 DEF Solid, Places
  <2>3. TrimRight(d) = x
    BY DEF TrimRight, k, x
  <2>. QED  BY <1>5, <2>2, <2>3
<1>. QED  BY <1>6, <1>7

\* What stands above a block merged into a document without one.
Topped(d) == IF Blank(d) THEN <<>> ELSE TrimRight(d) \o <<Newline, Newline>>

LEMMA ToppedReads ==
  ASSUME NEW d \in Doc
  PROVE  /\ Topped(d) \in Doc
         /\ Unmarked(d) => Unmarked(Topped(d))
         /\ WordsIn(Topped(d)) = WordsIn(d) /\ TrimRight(Topped(d)) = TrimRight(d)
<1>. DEFINE x == TrimRight(d)
            nl == <<Newline, Newline>>
<1>1. x \in Doc /\ (\A t : t # Newline => (Has(x, t) <=> Has(d, t))) /\ WordsIn(x) = WordsIn(d) /\ WordsIn(x) \in Doc
  BY TrimRightIs, TrimKeepsWords, WordsJoin
<1>2. nl \in Doc /\ (\A t : t # Newline => ~ Has(nl, t))
  BY NewlinesAre
<1>3. Blank(nl)
  BY DEF Blank
<1>4. <<>> \in Doc /\ (\A t : ~ Has(<<>>, t)) /\ Blank(<<>>)
  BY EmptyCounts DEF Blank
<1>5. BeginMarker # Newline /\ EndMarker # Newline
  BY DEF BeginMarker, EndMarker, Newline
<1>6. x = <<>> \/ x[Len(x)] # Newline
  BY TrimEnds
<1>7. CASE Blank(d)
  <2>1. Topped(d) = <<>>
    BY <1>7 DEF Topped
  <2>2. Unmarked(<<>>)
    BY <1>4 DEF Unmarked
  <2>3. WordsIn(d) = <<>> /\ WordsIn(<<>>) = <<>>
    BY <1>4, <1>7, BlankIsNoWords
  <2>4. TrimRight(<<>> \o d) = <<>> /\ TrimRight(<<>> \o <<>>) = <<>>
    BY <1>4, <1>7, TrimsTo
  <2>5. <<>> \o d = d /\ <<>> \o <<>> = <<>>
    BY <1>4, NothingAfter
  <2>. QED  BY <1>4, <2>1, <2>2, <2>3, <2>4, <2>5
<1>8. CASE ~ Blank(d)
  <2>1. Topped(d) = x \o nl
    BY <1>8 DEF Topped
  <2>. HIDE DEF nl
  <2>2. TrimRight(x \o nl) = x
    <3>. HIDE DEF x
    <3>. QED  BY <1>1, <1>2, <1>3, <1>6, TrimsTo
  <2>. HIDE DEF x
  <2>3. WordsIn(x \o nl) = WordsIn(x)
    <3>1. WordsIn(nl) = <<>>
      BY <1>2, <1>3, BlankIsNoWords
    <3>2. WordsIn(x \o nl) = WordsIn(x) \o WordsIn(nl)
      BY <1>1, <1>2, WordsJoin
    <3>3. WordsIn(x) \o <<>> = WordsIn(x)
      BY <1>1, NothingAfter
    <3>. QED  BY <3>1, <3>2, <3>3
  <2>4. x \o nl \in Doc /\ \A t : Has(x \o nl, t) <=> Has(x, t) \/ Has(nl, t)
    BY <1>1, <1>2, JoinIs, JoinCounts
  <2>5. Unmarked(d) => Unmarked(x \o nl)
    BY <1>1, <1>2, <1>5, <2>4 DEF Unmarked
  <2>. QED  BY <1>1, <2>1, <2>2, <2>3, <2>4, <2>5 DEF x
<1>. QED  BY <1>7, <1>8

LEMMA BlockSayingIs == ASSUME NEW body \in Version PROVE IsBlock(BlockSaying(body))
<1>. DEFINE b == BlockSaying(body)
<1>1. BeginMarker \in Token /\ body \in Token /\ EndMarker \in Token /\ Newline \in Token
  BY SharedFileParameters DEF FileToken, Marks
<1>2. body # BeginMarker /\ body # EndMarker
  BY SharedFileParameters DEF Marks
<1>3. b = <<BeginMarker, body, EndMarker, Newline>>
  BY DEF BlockSaying
<1>4. b \in Doc /\ Len(b) = 4 /\ b[1] = BeginMarker /\ b[2] = body /\ b[3] = EndMarker /\ b[4] = Newline
  BY <1>1, <1>3, FourAre DEF Doc
<1>. HIDE DEF b
<1>5. DOMAIN b = {1, 2, 3, 4}
  BY <1>4, DocIs
<1>6. Places(b, BeginMarker) = {1} /\ Places(b, EndMarker) = {3}
  BY <1>2, <1>4, <1>5 DEF Places, BeginMarker, EndMarker, Newline
<1>7. 2 < 4 /\ 4 - 1 = 3
  OBVIOUS
<1>. QED  BY <1>4, <1>6, <1>7 DEF IsBlock, b
\* What a removal leaves, with the seam.
LEMMA RemovalJoins ==
  ASSUME NEW d \in Doc, Marked(d)
  PROVE  \E nl \in {<<>>, <<Newline>>, <<Newline, Newline>>} :
           RemoveBlock(d) = TrimRight(Above(d)) \o nl \o TrimLeft(Below(d))
<1>. DEFINE head == TrimRight(Above(d))
            tail == TrimLeft(Below(d))
            r == RemoveBlock(d)
<1>1. head \in Doc /\ tail \in Doc
  BY MarkedSplits, TrimRightCuts, TrimLeftCuts
<1>2. r = IF head = <<>> THEN tail ELSE IF tail = <<>> THEN head \o <<Newline>>
          ELSE head \o <<Newline, Newline>> \o tail
  BY DEF Marked, Unmarked, Has, RemoveBlock, Above, Below
<1>. HIDE DEF head, tail, r
<1>3. CASE head = <<>>
  <2>1. r = <<>> \o <<>> \o tail
    BY <1>1, <1>2, <1>3, NothingAfter, EmptyCounts
  <2>. QED  BY <1>3, <2>1 DEF head, tail, r
<1>4. CASE head # <<>> /\ tail = <<>>
  <2>. DEFINE hn == head \o <<Newline>>
  <2>1. hn \in Doc
    BY <1>1, NewlinesAre, JoinIs
  <2>2. hn = hn \o <<>>
    BY <2>1, NothingAfter
  <2>. QED  BY <1>2, <1>4, <2>2 DEF head, tail, r
<1>5. CASE head # <<>> /\ tail # <<>>
  BY <1>2, <1>5 DEF head, tail, r
<1>. QED  BY <1>3, <1>4, <1>5

\* A merge puts the block where one was or below the rest, and finds it there.
LEMMA MergePuts ==
  ASSUME NEW d \in Doc, NEW block, ~ Conflicted(d), IsBlock(block)
  PROVE  LET w == MergeBlock(d, block) IN
           /\ w \in Doc /\ Marked(w) /\ BlockOf(w) = block /\ MergeBlock(w, block) = w
           /\ Above(w) = IF Marked(d) THEN Above(d) ELSE Topped(d)
           /\ Below(w) = IF Marked(d) THEN Below(d) ELSE <<>>
<1>. DEFINE w == MergeBlock(d, block)
            x == IF Marked(d) THEN Above(d) ELSE Topped(d)
            z == IF Marked(d) THEN Below(d) ELSE <<>>
<1>1. x \in Doc /\ z \in Doc /\ Unmarked(x) /\ Unmarked(z) /\ w = x \o block \o z
  <2>1. CASE Marked(d)
    <3>1. Above(d) \in Doc /\ Below(d) \in Doc /\ Unmarked(Above(d)) /\ Unmarked(Below(d))
      BY <2>1, MarkedSplits
    <3>2. w = Above(d) \o block \o Below(d)
      BY <2>1 DEF MergeBlock, Above, Below
    <3>. QED  BY <2>1, <3>1, <3>2
  <2>2. CASE ~ Marked(d)
    <3>1. Topped(d) \in Doc /\ Unmarked(Topped(d))
      <4>1. Unmarked(d)
        BY <2>2 DEF Conflicted
      <4>. QED  BY <4>1, ToppedReads
    <3>2. <<>> \in Doc /\ Unmarked(<<>>)
      BY EmptyCounts DEF Unmarked
    <3>3. block \in Doc
      BY DEF IsBlock
    <3>4. w = Topped(d) \o block
      <4>1. CASE Blank(d)
        <5>1. w = block /\ Topped(d) = <<>>
          BY <2>2, <4>1 DEF MergeBlock, Topped
        <5>. QED  BY <3>3, <5>1, NothingAfter
      <4>2. CASE ~ Blank(d)
        BY <2>2, <4>2 DEF MergeBlock, Topped
      <4>. QED  BY <4>1, <4>2
    <3>. DEFINE t == Topped(d)
    <3>5. t \o block \in Doc
      <4>1. t \in Doc
        BY <3>1
      <4>. HIDE DEF t
      <4>. QED  BY <3>3, <4>1, JoinIs
    <3>. HIDE DEF t
    <3>6. (t \o block) \o <<>> = t \o block
      BY <3>5, NothingAfter
    <3>. QED  BY <2>2, <3>1, <3>2, <3>4, <3>6 DEF t
  <2>. QED  BY <2>1, <2>2
<1>. HIDE DEF w, x, z
<1>2. w \in Doc /\ Marked(w) /\ Above(w) = x /\ BlockOf(w) = block /\ Below(w) = z
  BY <1>1, BlockPlaced
<1>3. MergeBlock(w, block) = w
  <2>1. MergeBlock(w, block) = Above(w) \o block \o Below(w)
    BY <1>2 DEF MergeBlock, Above, Below
  <2>. QED  BY <1>1, <1>2, <2>1
<1>. QED  BY <1>2, <1>3 DEF w, x, z

\* A removal keeps the words on both sides, in their order.
LEMMA RemovalKeepsWords ==
  ASSUME NEW d \in Doc, Marked(d)
  PROVE  WordsIn(RemoveBlock(d)) = WordsIn(Above(d)) \o WordsIn(Below(d))
<1>. DEFINE x == Above(d)
            z == Below(d)
            head == TrimRight(x)
            tail == TrimLeft(z)
<1>1. x \in Doc /\ z \in Doc
  BY MarkedSplits
<1>2. head \in Doc /\ tail \in Doc /\ WordsIn(head) = WordsIn(x) /\ WordsIn(tail) = WordsIn(z)
  <2>. HIDE DEF x, z
  <2>. QED  BY <1>1, TrimRightCuts, TrimLeftCuts, TrimKeepsWords
<1>3. PICK nl \in {<<>>, <<Newline>>, <<Newline, Newline>>} : RemoveBlock(d) = head \o nl \o tail
  BY RemovalJoins
<1>. HIDE DEF x, z, head, tail
<1>4. nl \in Doc /\ WordsIn(nl) = <<>>
  <2>1. nl \in Doc
    BY NewlinesAre
  <2>2. Blank(nl)
    BY DEF Blank
  <2>. QED  BY <2>1, <2>2, BlankIsNoWords
<1>. DEFINE h == head \o nl
<1>5. h \in Doc /\ WordsIn(h) = WordsIn(head) \o <<>> /\ WordsIn(head) \in Doc
  <2>1. h \in Doc
    BY <1>2, <1>4, JoinIs
  <2>2. WordsIn(head \o nl) = WordsIn(head) \o WordsIn(nl) /\ WordsIn(head) \in Doc
    BY <1>2, <1>4, WordsJoin
  <2>. QED  BY <1>4, <2>1, <2>2
<1>. HIDE DEF h
<1>6. WordsIn(h \o tail) = WordsIn(h) \o WordsIn(tail)
  BY <1>2, <1>5, WordsJoin
<1>7. WordsIn(h) = WordsIn(head)
  BY <1>5, NothingAfter
<1>. QED  BY <1>2, <1>3, <1>6, <1>7 DEF h, x, z

\* A block merged into what ends plainly, taken out again, leaves it as it was.
LEMMA RemovalLeaves ==
  ASSUME NEW d \in Doc, NEW s \in Doc, Marked(d), Above(d) = Topped(s), Below(d) = <<>>, EndsPlainly(s)
  PROVE  RemoveBlock(d) = s
<1>. DEFINE head == TrimRight(Above(d))
            tail == TrimLeft(Below(d))
            e == <<>>
<1>1. /\ ~ Unmarked(d)
      /\ RemoveBlock(d) = IF head = <<>> THEN tail ELSE IF tail = <<>> THEN head \o <<Newline>>
                          ELSE head \o <<Newline, Newline>> \o tail
  BY DEF Marked, Unmarked, Has, RemoveBlock, Above, Below
<1>2. head = TrimRight(s)
  BY ToppedReads
<1>3. tail = <<>>
  <2>. DEFINE t == TrimLeft(e)
  <2>1. e \in Doc
    BY EmptyCounts
  <2>. HIDE DEF e
  <2>2. t \in Doc /\ \E x \in Doc : Blank(x) /\ e = x \o t
    BY <2>1, TrimLeftCuts
  <2>. HIDE DEF t
  <2>3. PICK x \in Doc : e = x \o t
    BY <2>2
  <2>4. Len(x \o t) = Len(x) + Len(t) /\ Len(x) \in Nat /\ Len(t) \in Nat
    BY <2>2, JoinIs, DocIs
  <2>5. Len(e) = 0
    BY DEF e
  <2>6. Len(t) = 0
    BY <2>3, <2>4, <2>5
  <2>7. t = <<>>
    BY <2>2, <2>6 DEF Doc
  <2>. QED  BY <2>7 DEF t, e
<1>. HIDE DEF head, tail
<1>4. CASE s = <<>>
  <2>1. TrimRight(<<>> \o <<>>) = <<>>
    <3>1. <<>> \in Doc /\ Blank(<<>>)
      BY EmptyCounts DEF Blank
    <3>. QED  BY <3>1, TrimsTo
  <2>2. <<>> \o <<>> = <<>>
    BY EmptyCounts, NothingAfter
  <2>. QED  BY <1>1, <1>2, <1>3, <1>4, <2>1, <2>2
<1>5. CASE s # <<>>
  <2>. DEFINE n == Len(s)
              x == SubSeq(s, 1, n - 1)
  <2>1. n \in Nat /\ 1 < n /\ s[n] = Newline /\ s[n - 1] # Newline
    BY <1>5, DocIs DEF EndsPlainly
  <2>2. n \in 1..n /\ SubSeq(s, 1, n) = s
    <3>1. n \in 1..n /\ 1 \in 1..(n + 1) /\ n \in 0..n /\ 1 <= n + 1 /\ n - 1 + 1 = n /\ \A i \in 1..n : 1 + i - 1 = i
      BY <2>1
    <3>. DEFINE y == SubSeq(s, 1, n)
    <3>2. y \in Doc /\ Len(y) = n /\ \A i \in 1..n : y[i] = s[i]
      BY <3>1, PartIs
    <3>. HIDE DEF y
    <3>3. y = s
      BY <3>2, SameDoc
    <3>. QED  BY <3>1, <3>3 DEF y
  <2>3. x \in Doc /\ s = x \o <<Newline>>
    <3>1. SubSeq(s, 1, n - 1) \in Doc /\ SubSeq(s, 1, n) = SubSeq(s, 1, n - 1) \o <<s[n]>>
      BY <2>2, PrefixGrows
    <3>. QED  BY <2>1, <2>2, <3>1
  <2>4. Len(x) = n - 1 /\ x[n - 1] = s[n - 1]
    <3>1. /\ 1 \in 1..(n + 1) /\ n - 1 \in 0..n /\ 1 <= (n - 1) + 1 /\ (n - 1) - 1 + 1 = n - 1
          /\ n - 1 \in 1..(n - 1) /\ 1 + (n - 1) - 1 = n - 1
      BY <2>1
    <3>2. Len(x) = n - 1 /\ \A i \in 1..(n - 1) : x[i] = s[1 + i - 1]
      BY <3>1, PartIs
    <3>. HIDE DEF x, n
    <3>. QED  BY <3>1, <3>2
  <2>. HIDE DEF x
  <2>5. TrimRight(x \o <<Newline>>) = x
    <3>1. <<Newline>> \in Doc /\ Blank(<<Newline>>)
      BY NewlinesAre DEF Blank
    <3>2. x[Len(x)] # Newline
      BY <2>1, <2>4
    <3>. QED  BY <2>3, <3>1, <3>2, TrimsTo
  <2>6. x # <<>>
    <3>1. Len(x) # 0
      BY <2>1, <2>4
    <3>. QED  BY <3>1
  <2>. QED  BY <1>1, <1>2, <1>3, <2>3, <2>5, <2>6
<1>. QED  BY <1>4, <1>5

-----------------------------------------------------------------------------
(* The shared file *)

\* Between two merges the file is what it was, topped, above the block, and
\* nothing below it.
FileInv ==
  /\ doc \in Doc /\ was \in Doc
  /\ merged => Marked(doc) /\ Above(doc) = Topped(was) /\ Below(doc) = <<>>

LEMMA FileStarts == ASSUME FileInit PROVE FileInv
<1>1. PICK n \in 0..MaxLen : doc \in [1..n -> FileToken]
  BY DEF FileInit
<1>2. n \in Nat /\ FileToken \subseteq Token
  BY SharedFileParameters
<1>3. doc \in [1..n -> Token]
  BY <1>1, <1>2
<1>4. doc \in Doc
  <2>1. doc = [i \in 1..n |-> doc[i]] /\ \A i \in 1..n : doc[i] \in Token
    BY <1>3
  <2>. QED  BY <1>2, <2>1 DEF Doc
<1>5. was = <<>> /\ merged = FALSE /\ <<>> \in Doc
  BY EmptyCounts DEF FileInit
<1>. QED  BY <1>4, <1>5 DEF FileInv

LEMMA FileMerges ==
  ASSUME FileInv, NEW body \in Version, Merge(body)
  PROVE  /\ FileInv'
         /\ Marked(doc') /\ BlockOf(doc') = BlockSaying(body)
         /\ MergeBlock(doc', BlockSaying(body)) = doc' /\ Unmarked(RemoveBlock(doc'))
         /\ Outside' = Outside
<1>. DEFINE b == BlockSaying(body)
            w == MergeBlock(doc, b)
<1>1. doc \in Doc /\ ~ Conflicted(doc) /\ doc' = w
  BY DEF FileInv, Merge
<1>2. IsBlock(b)
  BY BlockSayingIs
<1>. HIDE DEF b
<1>3. /\ w \in Doc /\ Marked(w) /\ BlockOf(w) = b /\ MergeBlock(w, b) = w
      /\ Above(w) = IF Marked(doc) THEN Above(doc) ELSE Topped(doc)
      /\ Below(w) = IF Marked(doc) THEN Below(doc) ELSE <<>>
  BY <1>1, <1>2, MergePuts
<1>. HIDE DEF w
<1>4. Unmarked(RemoveBlock(w))
  BY <1>3, RemoveBlockIs
<1>5. FileInv'
  <2>1. CASE Marked(doc)
    <3>1. ~ Unmarked(doc)
      BY <2>1 DEF Marked, Unmarked, Has
    <3>2. UNCHANGED <<was, merged>>
      BY <3>1 DEF Merge
    <3>. QED  BY <1>1, <1>3, <2>1, <3>2 DEF FileInv, Topped
  <2>2. CASE ~ Marked(doc)
    <3>1. Unmarked(doc)
      BY <1>1, <2>2 DEF Conflicted
    <3>2. was' = doc
      BY <3>1 DEF Merge
    <3>. QED  BY <1>1, <1>3, <2>2, <3>2 DEF FileInv
  <2>. QED  BY <2>1, <2>2
<1>6. Outside' = Outside
  <2>1. Outside' = WordsIn(Above(w)) \o WordsIn(Below(w))
    BY <1>1, <1>3 DEF Outside, Above, Below
  <2>2. CASE Marked(doc)
    BY <1>3, <2>1, <2>2 DEF Outside, Above, Below
  <2>3. CASE ~ Marked(doc)
    <3>1. WordsIn(Topped(doc)) = WordsIn(doc) /\ WordsIn(doc) \in Doc
      BY <1>1, ToppedReads, WordsJoin
    <3>2. WordsIn(<<>>) = <<>>
      BY EmptyCounts, BlankIsNoWords DEF Blank
    <3>3. WordsIn(doc) \o <<>> = WordsIn(doc)
      BY <3>1, NothingAfter
    <3>. QED  BY <1>3, <2>1, <2>3, <3>1, <3>2, <3>3 DEF Outside
  <2>. QED  BY <2>2, <2>3
<1>. QED  BY <1>1, <1>3, <1>4, <1>5, <1>6 DEF b

LEMMA FileIsCleaned ==
  ASSUME FileInv, Remove
  PROVE  /\ FileInv' /\ Outside' = Outside
         /\ merged /\ EndsPlainly(was) => doc' = was
<1>. DEFINE r == RemoveBlock(doc)
<1>1. doc \in Doc /\ Marked(doc) /\ doc' = r /\ was' = <<>> /\ merged' = FALSE
  BY DEF FileInv, Remove, Conflicted
<1>2. r \in Doc /\ Unmarked(r) /\ WordsIn(r) = WordsIn(Above(doc)) \o WordsIn(Below(doc))
  BY <1>1, RemoveBlockIs, RemovalKeepsWords
<1>3. ASSUME merged, EndsPlainly(was) PROVE r = was
  BY <1>1, <1>3, RemovalLeaves DEF FileInv
<1>. HIDE DEF r
<1>4. ~ Marked(r)
  BY <1>2 DEF Marked, Unmarked, Has
<1>5. Outside' = Outside
  BY <1>1, <1>2, <1>4 DEF Outside, Above, Below
<1>6. FileInv'
  BY <1>1, <1>2, EmptyCounts DEF FileInv
<1>. QED  BY <1>1, <1>3, <1>5, <1>6

LEMMA FileStays ==
  ASSUME FileInv, [FileNext]_fileVars
  PROVE  /\ FileInv'
         /\ doc' # doc => Outside' = Outside
         /\ \A body \in Version : Merge(body) =>
              /\ Marked(doc') /\ BlockOf(doc') = BlockSaying(body)
              /\ MergeBlock(doc', BlockSaying(body)) = doc' /\ Unmarked(RemoveBlock(doc'))
         /\ merged /\ Remove /\ EndsPlainly(was) => doc' = was
<1>1. ASSUME NEW body \in Version, Merge(body) PROVE FileInv' /\ Outside' = Outside
  BY <1>1, FileMerges
<1>2. ASSUME Remove PROVE FileInv' /\ Outside' = Outside
  BY <1>2, FileIsCleaned
<1>3. ASSUME UNCHANGED fileVars PROVE FileInv' /\ doc' = doc
  BY <1>3 DEF fileVars, FileInv
<1>4. FileInv' /\ (doc' # doc => Outside' = Outside)
  BY <1>1, <1>2, <1>3 DEF FileNext, Refuse
<1>. QED  BY <1>4, FileMerges, FileIsCleaned

\* From anything the user may have left in the file, rtdd's markers and pieces
\* of its block included, no merge and no removal loses, repeats or moves a
\* word outside the markers, a second merge of a block changes nothing, and a
\* removal gives back the file the merges began with (merge.go, uninstall.go:18).
THEOREM BlockComesAndGoesAlways == FileSpec => BlockComesAndGoes
<1>1. FileInit => FileInv
  BY FileStarts
<1>2. FileInv /\ [FileNext]_fileVars => FileInv'
  BY FileStays
<1>3. FileInv /\ [FileNext]_fileVars => [doc' # doc => Outside' = Outside]_fileVars
  BY FileStays
<1>4. FileInv /\ [FileNext]_fileVars =>
        [ \A body \in Version : Merge(body) =>
            /\ Marked(doc')
            /\ BlockOf(doc') = BlockSaying(body)
            /\ MergeBlock(doc', BlockSaying(body)) = doc'
            /\ Unmarked(RemoveBlock(doc')) ]_fileVars
  BY FileStays
<1>5. FileInv /\ [FileNext]_fileVars => [merged /\ Remove /\ EndsPlainly(was) => doc' = was]_fileVars
  BY FileStays
<1>. QED  BY <1>1, <1>2, <1>3, <1>4, <1>5, PTL DEF FileSpec, BlockComesAndGoes, WordsKept, MergeSettles, RemovalRestores
=============================================================================
