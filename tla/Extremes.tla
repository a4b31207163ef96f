------------------------------- MODULE Extremes -------------------------------
(***************************************************************************)
(* The least and the greatest of a set of numbers: what the proofs use for *)
(* induction, the installed provers having none; and what is joined.       *)
(*                                                                         *)
(* Joined is a recursive function on the numbers up to the length of its   *)
(* argument.  That such a function exists, and that what is joined is a    *)
(* sequence of the elements of its parts, is shown at the least number     *)
(* where it would not be so.                                               *)
(***************************************************************************)
EXTENDS Joining, Integers, SequenceTheorems, WellFoundedInduction, TLAPS

\* Some numbers have a least.
LEMMA LeastOf ==
  ASSUME NEW T, T \subseteq Nat, T # {}
  PROVE  \E k \in T : \A j \in T : k <= j
<1> DEFINE Below == OpToRel(<, Nat)
<1>1. IsWellFoundedOn(Below, Nat) BY NatLessThanWellFounded
<1>2. PICK k \in T : \A j \in T : ~ (<<j, k>> \in Below)
  <2> HIDE DEF Below
  <2> QED BY <1>1, WFMin
<1>3. ASSUME NEW j \in T PROVE k <= j
  <2>1. j \in Nat /\ k \in Nat OBVIOUS
  <2>2. ~ (j < k) BY <1>2, <2>1 DEF OpToRel
  <2> QED BY <2>1, <2>2, SMT
<1> QED BY <1>3

\* Some numbers up to n have a greatest.
LEMMA GreatestOf ==
  ASSUME NEW n \in Nat, NEW T, T \subseteq 1..n, T # {}
  PROVE  \E k \in T : \A j \in T : j <= k
<1> DEFINE U == {n - j : j \in T}
<1>1. U \subseteq Nat /\ U # {}
  <2>1. \A j \in 1..n : n - j \in Nat BY SMT
  <2> QED BY <2>1
<1>2. PICK u \in U : \A v \in U : u <= v
  <2> HIDE DEF U
  <2> QED BY <1>1, LeastOf
<1>3. PICK k \in T : u = n - k OBVIOUS
<1>4. ASSUME NEW j \in T PROVE j <= k
  <2>1. n - k <= n - j BY <1>2, <1>3
  <2>2. j \in Int /\ k \in Int BY SMT
  <2> QED BY <2>1, <2>2, SMT
<1> QED BY <1>4

-----------------------------------------------------------------------------
(* One sequence after another *)

JoinsUpTo(u, n, parts) ==
  u = [i \in 0..n |-> IF i = 0 THEN <<>> ELSE u[i - 1] \o parts[i]]

LEMMA JoinsExist ==
  ASSUME NEW n \in Nat, NEW parts PROVE \E u : JoinsUpTo(u, n, parts)
<1>. DEFINE T == {m \in 0..n : ~ \E u : JoinsUpTo(u, m, parts)}
<1>. SUFFICES ASSUME T # {} PROVE FALSE
  OBVIOUS
<1>1. T \subseteq Nat
  OBVIOUS
<1>2. PICK m \in T : \A l \in T : m <= l
  <2>. HIDE DEF T
  <2>. QED  BY <1>1, LeastOf
<1>3. m \in 0..n /\ ~ \E u : JoinsUpTo(u, m, parts)
  OBVIOUS
<1>4. CASE m = 0
  <2>. DEFINE v == [i \in 0..0 |-> <<>>]
  <2>1. v = [i \in 0..0 |-> IF i = 0 THEN <<>> ELSE v[i - 1] \o parts[i]]
    OBVIOUS
  <2>2. JoinsUpTo(v, 0, parts)
    BY <2>1 DEF JoinsUpTo
  <2>. QED  BY <1>3, <1>4, <2>2
<1>5. CASE m # 0
  <2>1. m - 1 \in 0..n /\ ~ (m <= m - 1)
    BY <1>3, <1>5
  <2>2. PICK u : JoinsUpTo(u, m - 1, parts)
    BY <1>2, <2>1
  <2>. HIDE DEF T
  <2>. DEFINE v == [i \in 0..m |-> IF i = m THEN u[m - 1] \o parts[m] ELSE u[i]]
  <2>3. \A i \in 0..(m - 1) : u[i] = IF i = 0 THEN <<>> ELSE u[i - 1] \o parts[i]
    BY <2>2 DEF JoinsUpTo
  <2>4. ASSUME NEW i \in 0..m
        PROVE  v[i] = IF i = 0 THEN <<>> ELSE v[i - 1] \o parts[i]
    <3>1. CASE i = m
      <4>1. v[i] = u[m - 1] \o parts[m] /\ v[i - 1] = u[m - 1]
        BY <1>3, <1>5, <3>1
      <4>. QED  BY <1>5, <3>1, <4>1
    <3>2. CASE i # m
      <4>1. i \in 0..(m - 1) /\ v[i] = u[i]
        BY <1>3, <3>2
      <4>2. i # 0 => v[i - 1] = u[i - 1]
        BY <1>3, <3>2
      <4>. QED  BY <2>3, <4>1, <4>2
    <3>. QED  BY <3>1, <3>2
  <2>5. v = [i \in 0..m |-> v[i]]
    OBVIOUS
  <2>. HIDE DEF v
  <2>6. JoinsUpTo(v, m, parts)
    BY <2>4, <2>5 DEF JoinsUpTo
  <2>. QED  BY <1>3, <2>6
<1>. QED  BY <1>4, <1>5

LEMMA JoinedIs ==
  ASSUME NEW S, NEW parts \in Seq(S)
  PROVE  \E u : /\ u[0] = <<>> /\ \A i \in 1..Len(parts) : u[i] = u[i - 1] \o parts[i]
                /\ Joined(parts) = u[Len(parts)]
<1>. DEFINE n == Len(parts)
            Defines(f) == f = [i \in 0..n |-> IF i = 0 THEN <<>> ELSE f[i - 1] \o parts[i]]
<1>0. n \in Nat
  OBVIOUS
<1>1. PICK u : JoinsUpTo(u, n, parts)
  <2>. HIDE DEF n
  <2>. QED  BY <1>0, JoinsExist
<1>2. Defines(u)
  BY <1>1 DEF JoinsUpTo
<1>3. ASSUME NEW f, Defines(f) PROVE f = u
  <2>. DEFINE T == {i \in 0..n : u[i] # f[i]}
  <2>1. ASSUME T # {} PROVE FALSE
    <3>1. T \subseteq Nat
      BY <1>0
    <3>2. PICK m \in T : \A l \in T : m <= l
      <4>. HIDE DEF T
      <4>. QED  BY <2>1, <3>1, LeastOf
    <3>. HIDE DEF n
    <3>3. m \in 0..n /\ u[m] # f[m]
      OBVIOUS
    <3>4. m # 0
      BY <1>2, <1>3, <3>3
    <3>5. m - 1 \in 0..n /\ ~ (m <= m - 1)
      BY <1>0, <3>3, <3>4
    <3>6. u[m - 1] = f[m - 1]
      BY <3>2, <3>5
    <3>. QED  BY <1>2, <1>3, <3>3, <3>4, <3>6
  <2>2. \A i \in 0..n : u[i] = f[i]
    BY <2>1
  <2>. HIDE DEF n
  <2>3. u = [i \in 0..n |-> u[i]] /\ f = [i \in 0..n |-> f[i]]
    BY <1>2, <1>3
  <2>4. [i \in 0..n |-> u[i]] = [i \in 0..n |-> f[i]]
    BY <2>2
  <2>. QED  BY <2>3, <2>4
<1>4. u = CHOOSE f : Defines(f)
  <2>. HIDE DEF Defines
  <2>. QED  BY <1>2, <1>3
<1>5. Joined(parts) = u[n]
  BY <1>4 DEF Joined
<1>6. u[0] = <<>> /\ \A i \in 1..n : u[i] = u[i - 1] \o parts[i]
  <2>. HIDE DEF n
  <2>. QED  BY <1>0, <1>2
<1>. QED  BY <1>5, <1>6

LEMMA JoinElements ==
  ASSUME NEW S, NEW x \in Seq(S), NEW y \in Seq(S)
  PROVE  x \o y \in Seq(S) /\ Elements(x \o y) = Elements(x) \cup Elements(y)
<1>. DEFINE m == Len(x)
            n == Len(y)
            z == x \o y
<1>1. m \in Nat /\ n \in Nat /\ DOMAIN x = 1..m /\ DOMAIN y = 1..n
  OBVIOUS
<1>2. /\ z \in Seq(S) /\ Len(z) = m + n
      /\ \A i \in 1..(m + n) : z[i] = IF i <= m THEN x[i] ELSE y[i - m]
  BY ConcatProperties
<1>3. DOMAIN z = 1..(m + n)
  BY <1>2
<1>. HIDE DEF m, n, z
<1>4. ASSUME NEW i \in 1..(m + n) PROVE z[i] \in Elements(x) \cup Elements(y)
  <2>1. CASE i <= m
    <3>1. i \in 1..m /\ z[i] = x[i]
      BY <1>1, <1>2, <2>1
    <3>. QED  BY <1>1, <3>1 DEF Elements
  <2>2. CASE ~ (i <= m)
    <3>1. i - m \in 1..n
      BY <1>1, <2>2
    <3>. QED  BY <1>1, <1>2, <2>2, <3>1 DEF Elements
  <2>. QED  BY <2>1, <2>2
<1>5. ASSUME NEW i \in 1..m PROVE x[i] \in Elements(z)
  <2>1. i \in 1..(m + n) /\ z[i] = x[i]
    BY <1>1, <1>2
  <2>. QED  BY <1>3, <2>1 DEF Elements
<1>6. ASSUME NEW i \in 1..n PROVE y[i] \in Elements(z)
  <2>1. m + i \in 1..(m + n) /\ ~ (m + i <= m) /\ (m + i) - m = i
    BY <1>1
  <2>2. z[m + i] = y[i]
    BY <1>2, <2>1
  <2>. QED  BY <1>3, <2>1, <2>2 DEF Elements
<1>7. Elements(z) \subseteq Elements(x) \cup Elements(y)
  BY <1>3, <1>4 DEF Elements
<1>8. Elements(x) \subseteq Elements(z)
  BY <1>1, <1>5 DEF Elements
<1>9. Elements(y) \subseteq Elements(z)
  BY <1>1, <1>6 DEF Elements
<1>. QED  BY <1>2, <1>7, <1>8, <1>9 DEF z

LEMMA JoinedElements ==
  ASSUME NEW S, NEW parts \in Seq(Seq(S))
  PROVE  /\ Joined(parts) \in Seq(S)
         /\ Elements(Joined(parts)) = UNION {Elements(parts[i]) : i \in DOMAIN parts}
<1>. DEFINE n == Len(parts)
            Up(k) == UNION {Elements(parts[i]) : i \in 1..k}
<1>1. n \in Nat /\ DOMAIN parts = 1..n /\ \A i \in 1..n : parts[i] \in Seq(S)
  OBVIOUS
<1>2. PICK u : /\ u[0] = <<>> /\ \A i \in 1..n : u[i] = u[i - 1] \o parts[i]
               /\ Joined(parts) = u[n]
  BY JoinedIs
<1>. HIDE DEF n
<1>. DEFINE T == {k \in 0..n : ~ (u[k] \in Seq(S) /\ Elements(u[k]) = Up(k))}
<1>3. ASSUME T # {} PROVE FALSE
  <2>1. T \subseteq Nat
    BY <1>1
  <2>2. PICK m \in T : \A l \in T : m <= l
    <3>. HIDE DEF T
    <3>. QED  BY <1>3, <2>1, LeastOf
  <2>3. m \in 0..n /\ ~ (u[m] \in Seq(S) /\ Elements(u[m]) = Up(m))
    OBVIOUS
  <2>4. CASE m = 0
    <3>1. Up(0) = {} /\ Elements(<<>>) = {}
      BY DEF Elements
    <3>2. <<>> \in Seq(S)
      OBVIOUS
    <3>. QED  BY <1>2, <2>3, <2>4, <3>1, <3>2
  <2>5. CASE m # 0
    <3>1. m - 1 \in 0..n /\ ~ (m <= m - 1) /\ m \in 1..n
      BY <1>1, <2>3, <2>5
    <3>2. u[m - 1] \in Seq(S) /\ Elements(u[m - 1]) = Up(m - 1)
      BY <2>2, <3>1
    <3>3. u[m] = u[m - 1] \o parts[m] /\ parts[m] \in Seq(S)
      BY <1>1, <1>2, <3>1
    <3>4. u[m] \in Seq(S) /\ Elements(u[m]) = Elements(u[m - 1]) \cup Elements(parts[m])
      <4>. HIDE DEF Up
      <4>. QED  BY <3>2, <3>3, JoinElements
    <3>5. Up(m) = Up(m - 1) \cup Elements(parts[m])
      <4>1. 1..m = (1..(m - 1)) \cup {m}
        BY <1>1, <3>1
      <4>. QED  BY <4>1
    <3>. QED  BY <2>3, <3>2, <3>4, <3>5
  <2>. QED  BY <2>4, <2>5
<1>4. u[n] \in Seq(S) /\ Elements(u[n]) = Up(n)
  <2>1. n \in 0..n
    BY <1>1
  <2>. QED  BY <1>3, <2>1
<1>. QED  BY <1>1, <1>2, <1>4

-----------------------------------------------------------------------------
(* What is left of a sequence, and what comes first in one *)

\* What is left of a sequence, and that it is there once if it was.
LEMMA OneElement ==
  ASSUME NEW S, NEW e, e \in S
  PROVE  <<e>> \in Seq(S) /\ Elements(<<e>>) = {e} /\ OnceEach(<<e>>)
<1>1. <<e>> \in Seq(S) /\ DOMAIN <<e>> = 1..1 /\ <<e>>[1] = e
  OBVIOUS
<1>. QED  BY <1>1 DEF Elements, OnceEach

LEMMA NoElements ==
  ASSUME NEW S PROVE <<>> \in Seq(S) /\ Elements(<<>>) = {} /\ OnceEach(<<>>)
<1>1. <<>> \in Seq(S) /\ DOMAIN <<>> = {}
  OBVIOUS
<1>. QED  BY <1>1 DEF Elements, OnceEach

LEMMA OnceMore ==
  ASSUME NEW S, NEW x, NEW e, x \in Seq(S), OnceEach(x), e \in S, e \notin Elements(x)
  PROVE  /\ x \o <<e>> \in Seq(S) /\ OnceEach(x \o <<e>>)
         /\ Elements(x \o <<e>>) = Elements(x) \cup {e}
<1>. DEFINE z == x \o <<e>>
            n == Len(x)
<1>1. n \in Nat /\ DOMAIN x = 1..n
  OBVIOUS
<1>2. /\ z \in Seq(S) /\ Len(z) = n + 1 /\ z[n + 1] = e
      /\ \A i \in 1..n : z[i] = x[i]
  <2>1. <<e>> \in Seq(S) /\ Len(<<e>>) = 1 /\ <<e>>[1] = e
    OBVIOUS
  <2>2. /\ z \in Seq(S) /\ Len(z) = n + 1
        /\ \A i \in 1..(n + 1) : z[i] = IF i <= n THEN x[i] ELSE <<e>>[i - n]
    BY <2>1, ConcatProperties
  <2>. HIDE DEF z, n
  <2>. QED  BY <1>1, <2>1, <2>2
<1>3. DOMAIN z = 1..(n + 1)
  BY <1>2
<1>. HIDE DEF z, n
<1>4. \A i \in 1..n : x[i] # e
  BY <1>1 DEF Elements
<1>5. \A i \in 1..(n + 1) : i = n + 1 \/ i \in 1..n
  BY <1>1
<1>6. OnceEach(z)
  <2>1. ASSUME NEW i \in 1..(n + 1), NEW k \in 1..(n + 1), z[i] = z[k] PROVE i = k
    <3>1. CASE i \in 1..n /\ k \in 1..n
      BY <1>1, <1>2, <2>1, <3>1 DEF OnceEach
    <3>2. CASE i = n + 1 /\ k = n + 1
      BY <3>2
    <3>3. CASE i = n + 1 /\ k \in 1..n
      BY <1>2, <1>4, <2>1, <3>3
    <3>4. CASE i \in 1..n /\ k = n + 1
      BY <1>2, <1>4, <2>1, <3>4
    <3>. QED  BY <1>5, <3>1, <3>2, <3>3, <3>4
  <2>. QED  BY <1>3, <2>1 DEF OnceEach
<1>7. Elements(z) = Elements(x) \cup {e}
  BY <1>1, <1>2, <1>3, <1>5 DEF Elements
<1>. QED  BY <1>2, <1>6, <1>7 DEF z

\* Where the elements that stay differ, each is there once.
LEMMA LeftOutIs ==
  ASSUME NEW S, NEW s, NEW places, s \in Seq(S)
  PROVE  /\ LeftOut(s, places) \in Seq(S)
         /\ Elements(LeftOut(s, places)) = {s[i] : i \in DOMAIN s \ places}
         /\ (\A i, k \in DOMAIN s \ places : s[i] = s[k] => i = k) => OnceEach(LeftOut(s, places))
<1>. DEFINE n == Len(s)
            parts == [i \in DOMAIN s |-> IF i \in places THEN <<>> ELSE <<s[i]>>]
            Differ == \A i, k \in DOMAIN s \ places : s[i] = s[k] => i = k
            Up(k) == {s[i] : i \in 1..k \ places}
<1>1. n \in Nat /\ DOMAIN s = 1..n /\ \A i \in 1..n : s[i] \in S
  OBVIOUS
<1>2. \A i \in 1..n : parts[i] \in Seq(S)
  BY <1>1, OneElement, NoElements
<1>3. parts \in Seq(Seq(S)) /\ Len(parts) = n /\ DOMAIN parts = 1..n
  BY <1>1, <1>2
<1>4. \A i \in 1..n : parts[i] = IF i \in places THEN <<>> ELSE <<s[i]>>
  BY <1>1
<1>5. LeftOut(s, places) = Joined(parts)
  BY DEF LeftOut
<1>. HIDE DEF n, parts
<1>6. PICK u : /\ u[0] = <<>> /\ \A i \in 1..n : u[i] = u[i - 1] \o parts[i]
               /\ Joined(parts) = u[n]
  BY <1>3, JoinedIs
<1>. DEFINE Good(k) == u[k] \in Seq(S) /\ Elements(u[k]) = Up(k) /\ (Differ => OnceEach(u[k]))
            T == {k \in 0..n : ~ Good(k)}
<1>7. ASSUME T # {} PROVE FALSE
  <2>1. T \subseteq Nat
    BY <1>1
  <2>2. PICK m \in T : \A l \in T : m <= l
    <3>. HIDE DEF T
    <3>. QED  BY <1>7, <2>1, LeastOf
  <2>3. m \in 0..n /\ ~ Good(m)
    OBVIOUS
  <2>4. CASE m = 0
    <3>1. Up(0) = {}
      OBVIOUS
    <3>. HIDE DEF Up, Differ
    <3>. QED  BY <1>6, <2>3, <2>4, <3>1, NoElements
  <2>5. CASE m # 0
    <3>1. m - 1 \in 0..n /\ ~ (m <= m - 1) /\ m \in 1..n
      BY <1>1, <2>3, <2>5
    <3>2. Good(m - 1)
      BY <2>2, <3>1
    <3>3. u[m] = u[m - 1] \o parts[m]
      BY <1>6, <3>1
    <3>4. \A i : i \in 1..m <=> i = m \/ i \in 1..(m - 1)
      BY <3>1, <2>3
    <3>5. CASE m \in places
      <4>1. u[m] = u[m - 1]
        BY <1>4, <3>1, <3>2, <3>3, <3>5, ConcatEmptySeq
      <4>2. Up(m) = Up(m - 1)
        BY <3>4, <3>5
      <4>. HIDE DEF Up, Differ
      <4>. QED  BY <2>3, <3>2, <4>1, <4>2
    <3>6. CASE m \notin places
      <4>1. u[m] = u[m - 1] \o <<s[m]>> /\ s[m] \in S
        BY <1>1, <1>4, <3>1, <3>3, <3>6
      <4>2. Up(m) = Up(m - 1) \cup {s[m]}
        BY <3>4, <3>6
      <4>3. u[m] \in Seq(S) /\ Elements(u[m]) = Up(m)
        <5>1. <<s[m]>> \in Seq(S) /\ Elements(<<s[m]>>) = {s[m]}
          BY <4>1, OneElement
        <5>. DEFINE x == u[m - 1]
                    y == <<s[m]>>
        <5>2. x \in Seq(S) /\ Elements(x) = Up(m - 1) /\ y \in Seq(S)
          BY <3>2, <5>1
        <5>. HIDE DEF Up, x, y
        <5>3. x \o y \in Seq(S) /\ Elements(x \o y) = Elements(x) \cup Elements(y)
          BY <5>2, JoinElements
        <5>. QED  BY <4>1, <4>2, <5>1, <5>2, <5>3 DEF x, y
      <4>4. ASSUME Differ PROVE OnceEach(u[m])
        <5>1. s[m] \notin Up(m - 1)
          <6>1. \A i \in 1..(m - 1) : i \in DOMAIN s /\ i # m
            BY <1>1, <3>1
          <6>. QED  BY <1>1, <3>1, <3>6, <4>4, <6>1
        <5>. HIDE DEF Up, Differ
        <5>2. u[m - 1] \in Seq(S) /\ OnceEach(u[m - 1]) /\ s[m] \notin Elements(u[m - 1])
          BY <3>2, <4>4, <5>1
        <5>. QED  BY <4>1, <5>2, OnceMore
      <4>. HIDE DEF Up, Differ
      <4>. QED  BY <2>3, <4>3, <4>4
    <3>. QED  BY <3>5, <3>6
  <2>. QED  BY <2>4, <2>5
<1>8. Good(n)
  <2>1. n \in 0..n
    BY <1>1
  <2>. QED  BY <1>7, <2>1
<1>. QED  BY <1>1, <1>5, <1>6, <1>8

Starts(p, q) == Len(p) <= Len(q) /\ \A i \in 1..Len(p) : q[i] = p[i]
GoesOn(S, s, t) == \E r \in Seq(S) : t = s \o r

\* What is joined first comes first.
LEMMA JoinedStarts ==
  ASSUME NEW S, NEW p, NEW q, p \in Seq(Seq(S)), q \in Seq(Seq(S)), Starts(p, q)
  PROVE  GoesOn(S, Joined(p), Joined(q))
<1>. DEFINE m == Len(p)
            n == Len(q)
<1>1. m \in Nat /\ n \in Nat /\ m <= n /\ \A i \in 1..n : q[i] \in Seq(S)
  BY DEF Starts
<1>2. PICK u : u[0] = <<>> /\ (\A i \in 1..m : u[i] = u[i - 1] \o p[i]) /\ Joined(p) = u[m]
  BY JoinedIs
<1>3. PICK v : v[0] = <<>> /\ (\A i \in 1..n : v[i] = v[i - 1] \o q[i]) /\ Joined(q) = v[n]
  BY JoinedIs
<1>4. u[m] \in Seq(S)
  BY <1>2, JoinedElements
<1>5. \A i \in 1..m : q[i] = p[i]
  BY DEF Starts
<1>. HIDE DEF m, n
<1>. DEFINE Beyond(k) == \E r \in Seq(S) : v[k] = u[m] \o r
            Good(k) == (k <= m => v[k] = u[k]) /\ (m <= k => Beyond(k))
            T == {k \in 0..n : ~ Good(k)}
<1>6. ASSUME T # {} PROVE FALSE
  <2>1. T \subseteq Nat
    BY <1>1
  <2>2. PICK l \in T : \A i \in T : l <= i
    <3>. HIDE DEF T
    <3>. QED  BY <1>6, <2>1, LeastOf
  <2>3. l \in 0..n /\ ~ Good(l)
    OBVIOUS
  <2>4. ASSUME v[l] = u[l] PROVE l = m => Beyond(l)
    BY <1>4, <2>4, ConcatEmptySeq, NoElements
  <2>5. CASE l <= m
    <3>1. v[l] = u[l]
      <4>1. CASE l = 0
        BY <1>2, <1>3, <4>1
      <4>2. CASE l # 0
        <5>1. l - 1 \in 0..n /\ ~ (l <= l - 1) /\ l \in 1..m /\ l \in 1..n /\ l - 1 <= m
          BY <1>1, <2>3, <2>5, <4>2
        <5>2. v[l - 1] = u[l - 1]
          BY <2>2, <5>1
        <5>. QED  BY <1>2, <1>3, <1>5, <5>1, <5>2
      <4>. QED  BY <4>1, <4>2
    <3>2. m <= l => l = m
      BY <1>1, <2>3, <2>5
    <3>. HIDE DEF Beyond
    <3>. QED  BY <2>3, <2>4, <3>1, <3>2
  <2>6. CASE ~ (l <= m)
    <3>1. l - 1 \in 0..n /\ ~ (l <= l - 1) /\ l \in 1..n /\ m <= l - 1
      BY <1>1, <2>3, <2>6
    <3>2. PICK r \in Seq(S) : v[l - 1] = u[m] \o r
      BY <2>2, <3>1
    <3>3. v[l] = (u[m] \o r) \o q[l] /\ q[l] \in Seq(S)
      BY <1>1, <1>3, <3>1, <3>2
    <3>4. v[l] = u[m] \o (r \o q[l]) /\ r \o q[l] \in Seq(S)
      <4>. DEFINE x == u[m]
                  y == q[l]
      <4>1. x \in Seq(S) /\ y \in Seq(S)
        BY <1>4, <3>3
      <4>. HIDE DEF x, y
      <4>2. (x \o r) \o y = x \o (r \o y) /\ r \o y \in Seq(S)
        BY <4>1, ConcatAssociative, ConcatProperties
      <4>. QED  BY <3>3, <4>2 DEF x, y
    <3>. QED  BY <2>3, <2>6, <3>4
  <2>. QED  BY <2>5, <2>6
<1>7. n \in 0..n
  BY <1>1
<1>8. Beyond(n)
  BY <1>1, <1>6, <1>7
<1>. QED  BY <1>2, <1>3, <1>8 DEF GoesOn

\* A prefix is the first part.
LEMMA StartOf ==
  ASSUME NEW S, NEW s, NEW r, s \in Seq(S), r \in Seq(S)
  PROVE  SubSeq(s \o r, 1, Len(s)) = s
<1>. DEFINE z == s \o r
            n == Len(s)
            t == SubSeq(z, 1, n)
<1>1. n \in Nat /\ Len(r) \in Nat
  OBVIOUS
<1>2. z \in Seq(S) /\ Len(z) = n + Len(r)
      /\ \A i \in 1..(n + Len(r)) : z[i] = IF i <= n THEN s[i] ELSE r[i - n]
  BY ConcatProperties
<1>3. \A i \in 1..n : i \in 1..(n + Len(r)) /\ z[i] = s[i] /\ z[i] \in S
  <2>1. \A i \in 1..n : s[i] \in S
    OBVIOUS
  <2>. HIDE DEF z, n
  <2>. QED  BY <1>1, <1>2, <2>1
<1>. HIDE DEF z, n
<1>4. t \in Seq(S) /\ Len(t) = n /\ \A i \in 1..n : t[i] = s[i]
  <2>1. /\ t \in Seq(S) /\ Len(t) = IF 1 <= n THEN n - 1 + 1 ELSE 0
        /\ \A i \in 1..(n - 1 + 1) : t[i] = z[1 + i - 1]
    BY <1>1, <1>3, SubSeqProperties
  <2>. HIDE DEF t
  <2>. QED  BY <1>1, <1>3, <2>1
<1>5. s \in Seq(S) /\ Len(s) = n
  BY DEF n
<1>. HIDE DEF t
<1>. QED  BY <1>4, <1>5 DEF t, n, z

\* What a sequence has, and only that, is what its values are.
LEMMA InElements ==
  ASSUME NEW S, NEW s, s \in Seq(S)
  PROVE  /\ Elements(s) \subseteq S /\ s \in Seq(Elements(s))
         /\ (Elements(s) # {} => s # <<>>)
<1>1. Len(s) \in Nat /\ DOMAIN s = 1..Len(s) /\ \A i \in DOMAIN s : s[i] \in S
  OBVIOUS
<1>2. Elements(s) \subseteq S
  BY <1>1 DEF Elements
<1>3. s \in Seq(Elements(s))
  <2>. DEFINE e == Elements(s)
  <2>1. \A i \in 1..Len(s) : s[i] \in e
    BY <1>1 DEF Elements
  <2>. HIDE DEF e
  <2>2. s \in Seq(e)
    BY <2>1
  <2>. QED  BY <2>2 DEF e
<1>4. Elements(<<>>) = {}
  BY NoElements
<1>. QED  BY <1>2, <1>3, <1>4

-----------------------------------------------------------------------------
(* Functions on the numbers up to n, each value from the one before *)

\* What holds of 0, and of each number if of the one before, holds up to n.
LEMMA Upward ==
  ASSUME NEW n, NEW Good, n \in Nat, 0 \in Good, \A i \in 1..n : i - 1 \in Good => i \in Good
  PROVE  \A i \in 0..n : i \in Good
<1>. DEFINE T == {i \in 0..n : i \notin Good}
<1>1. ASSUME T # {} PROVE FALSE
  <2>1. T \subseteq Nat
    OBVIOUS
  <2>2. PICK m \in T : \A k \in T : m <= k
    <3>. HIDE DEF T
    <3>. QED  BY <1>1, <2>1, LeastOf
  <2>3. m \in 1..n /\ m \notin Good
    OBVIOUS
  <2>4. m - 1 \in 0..n /\ ~ (m <= m - 1)
    BY <2>3
  <2>. QED  BY <2>2, <2>3, <2>4
<1>. QED  BY <1>1

Follows(u, n, start, next) == u[0] = start /\ \A i \in 1..n : u[i] = next[<<u[i - 1], i>>]

\* There is a function with such values.
LEMMA StepsExist ==
  ASSUME NEW V, NEW n, NEW start, NEW next, n \in Nat, start \in V,
         next \in [V \X (1..n) -> V]
  PROVE  \E u \in [0..n -> V] : Follows(u, n, start, next)
<1>. DEFINE Has(k) == \E u \in [0..k -> V] : Follows(u, k, start, next)
            Good == {k \in 0..n : Has(k)}
<1>1. Has(0)
  <2>. DEFINE u == [i \in 0..0 |-> start]
  <2>1. u \in [0..0 -> V] /\ u[0] = start
    OBVIOUS
  <2>2. 1..0 = {}
    OBVIOUS
  <2>. HIDE DEF u
  <2>. QED  BY <2>1, <2>2 DEF Follows
<1>2. ASSUME NEW k \in 1..n, Has(k - 1) PROVE Has(k)
  <2>1. PICK u \in [0..(k - 1) -> V] : Follows(u, k - 1, start, next)
    BY <1>2
  <2>2. k - 1 \in 0..(k - 1) /\ 0 \in 0..(k - 1) /\ k \in Nat /\ 0 # k
    OBVIOUS
  <2>. DEFINE last == next[<<u[k - 1], k>>]
              v == [i \in 0..k |-> IF i = k THEN last ELSE u[i]]
  <2>3. last \in V
    BY <2>2
  <2>4. \A i \in 0..k : i # k => i \in 0..(k - 1)
    BY <2>2
  <2>. HIDE DEF last
  <2>5. \A i \in 0..k : (IF i = k THEN last ELSE u[i]) \in V
    BY <2>3, <2>4
  <2>6. v \in [0..k -> V] /\ \A i \in 0..k : v[i] = IF i = k THEN last ELSE u[i]
    BY <2>5
  <2>7. \A i \in 1..k : i - 1 \in 0..k /\ i - 1 # k /\ i \in 0..k /\ (i # k => i \in 1..(k - 1))
    BY <2>2
  <2>8. 0 \in 0..k
    BY <2>2
  <2>. HIDE DEF v
  <2>9. v[0] = start
    BY <2>1, <2>2, <2>6, <2>8 DEF Follows
  <2>10. ASSUME NEW i \in 1..k PROVE v[i] = next[<<v[i - 1], i>>]
    <3>1. v[i - 1] = u[i - 1]
      BY <2>6, <2>7
    <3>2. CASE i = k
      BY <2>6, <2>7, <3>1, <3>2 DEF last
    <3>3. CASE i # k
      BY <2>1, <2>6, <2>7, <3>1, <3>3 DEF Follows
    <3>. QED  BY <3>2, <3>3
  <2>. QED  BY <2>6, <2>9, <2>10 DEF Follows
<1>3. 0 \in Good /\ \A k \in 1..n : k - 1 \in Good => k \in Good
  <2>1. 0 \in 0..n /\ \A k \in 1..n : k \in 0..n
    OBVIOUS
  <2>. HIDE DEF Has
  <2>. QED  BY <1>1, <1>2, <2>1
<1>4. \A k \in 0..n : k \in Good
  <2>. HIDE DEF Good
  <2>. QED  BY <1>3, Upward
<1>. QED  BY <1>4

StepAlike(u, v, n) == u[0] = v[0] /\ \A i \in 1..n : u[i - 1] = v[i - 1] => u[i] = v[i]
SameUpTo(u, v, n) == \A i \in 0..n : u[i] = v[i]

\* And only one.
LEMMA StepsAgree ==
  ASSUME NEW n, NEW u, NEW v, n \in Nat, StepAlike(u, v, n) PROVE SameUpTo(u, v, n)
<1>. DEFINE Good == {i \in 0..n : u[i] = v[i]}
<1>1. 0 \in Good /\ \A i \in 1..n : i - 1 \in Good => i \in Good
  BY DEF StepAlike
<1>2. \A i \in 0..n : i \in Good
  <2>. HIDE DEF Good
  <2>. QED  BY <1>1, Upward
<1>. QED  BY <1>2 DEF SameUpTo

\* Two lists of parts joined one after the other.
LEMMA JoinedOfTwo ==
  ASSUME NEW S, NEW p, NEW q, p \in Seq(Seq(S)), q \in Seq(Seq(S))
  PROVE  Joined(p \o q) = Joined(p) \o Joined(q)
<1>. DEFINE m == Len(p)
            n == Len(q)
            r == p \o q
<1>1. /\ m \in Nat /\ n \in Nat /\ r \in Seq(Seq(S)) /\ Len(r) = m + n
      /\ \A i \in 1..(m + n) : r[i] = IF i <= m THEN p[i] ELSE q[i - m]
  BY ConcatProperties
<1>2. PICK u : u[0] = <<>> /\ (\A i \in 1..Len(p) : u[i] = u[i - 1] \o p[i]) /\ Joined(p) = u[Len(p)]
  BY JoinedIs
<1>3. PICK v : v[0] = <<>> /\ (\A i \in 1..Len(q) : v[i] = v[i - 1] \o q[i]) /\ Joined(q) = v[Len(q)]
  BY JoinedIs
<1>. HIDE DEF r
<1>4. PICK w : w[0] = <<>> /\ (\A i \in 1..Len(r) : w[i] = w[i - 1] \o r[i]) /\ Joined(r) = w[Len(r)]
  BY <1>1, JoinedIs
<1>5. (\A i \in 1..m : p[i] \in Seq(S)) /\ (\A i \in 1..n : q[i] \in Seq(S))
  OBVIOUS
<1>6. m = Len(p) /\ n = Len(q)
  OBVIOUS
<1>. HIDE DEF m, n
<1>7. (\A i \in 1..m : i \in 1..(m + n)) /\ \A i \in 1..n : m + i \in 1..(m + n) /\ ~ (m + i <= m) /\ (m + i) - m = i
  BY <1>1
<1>8. ASSUME NEW i \in 1..m PROVE w[i] = w[i - 1] \o p[i]
  <2>1. i \in 1..(m + n) /\ i <= m
    BY <1>1
  <2>2. r[i] = p[i]
    BY <1>1, <2>1
  <2>3. w[i] = w[i - 1] \o r[i]
    BY <1>1, <1>4, <2>1
  <2>. QED  BY <2>2, <2>3
<1>9. \A i \in 1..n : w[m + i] = w[(m + i) - 1] \o q[i]
  BY <1>1, <1>4, <1>7
<1>10. SameUpTo(u, w, m)
  <2>1. StepAlike(u, w, m)
    <3>1. \A i \in 1..m : u[i] = u[i - 1] \o p[i]
      BY <1>2, <1>6
    <3>. QED  BY <1>2, <1>4, <1>8, <3>1 DEF StepAlike
  <2>. QED  BY <1>1, <2>1, StepsAgree
<1>11. w[m] = u[m] /\ u[m] \in Seq(S)
  <2>. DEFINE Good == {i \in 0..m : u[i] \in Seq(S)}
  <2>1. 0 \in Good
    <3>1. 0 \in 0..m /\ <<>> \in Seq(S)
      BY <1>1, NoElements
    <3>. QED  BY <1>2, <3>1
  <2>2. ASSUME NEW i \in 1..m, i - 1 \in Good PROVE i \in Good
    <3>1. u[i] = u[i - 1] \o p[i] /\ u[i - 1] \in Seq(S) /\ p[i] \in Seq(S)
      BY <1>2, <1>5, <1>6, <2>2
    <3>2. u[i - 1] \o p[i] \in Seq(S)
      BY <3>1, ConcatProperties
    <3>3. i \in 0..m
      BY <1>1
    <3>. QED  BY <3>1, <3>2, <3>3
  <2>3. \A i \in 0..m : i \in Good
    <3>. HIDE DEF Good
    <3>. QED  BY <1>1, <2>1, <2>2, Upward
  <2>4. m \in 0..m
    BY <1>1
  <2>. QED  BY <1>10, <2>3, <2>4 DEF SameUpTo
<1>12. w[m + n] = u[m] \o v[n]
  <2>. DEFINE Good == {i \in 0..n : v[i] \in Seq(S) /\ w[m + i] = u[m] \o v[i]}
  <2>1. 0 \in Good
    <3>1. u[m] \o <<>> = u[m] /\ m + 0 = m
      BY <1>1, <1>11, ConcatEmptySeq
    <3>2. 0 \in 0..n /\ <<>> \in Seq(S)
      BY <1>1, NoElements
    <3>. QED  BY <1>3, <1>11, <3>1, <3>2
  <2>2. ASSUME NEW i \in 1..n, i - 1 \in Good PROVE i \in Good
    <3>. DEFINE a == v[i - 1]
                b == q[i]
    <3>1. a \in Seq(S) /\ b \in Seq(S) /\ v[i] = a \o b /\ w[m + (i - 1)] = u[m] \o a
      BY <1>3, <1>5, <1>6, <2>2
    <3>2. (m + i) - 1 = m + (i - 1)
      BY <1>1
    <3>3. w[m + i] = (u[m] \o a) \o b
      BY <1>9, <3>1, <3>2
    <3>. HIDE DEF a, b
    <3>4. a \o b \in Seq(S) /\ (u[m] \o a) \o b = u[m] \o (a \o b)
      <4>1. u[m] \in Seq(S)
        BY <1>11
      <4>2. (u[m] \o a) \o b = u[m] \o (a \o b)
        <5>. DEFINE h == u[m]
        <5>1. h \in Seq(S) /\ a \in Seq(S) /\ b \in Seq(S)
          BY <3>1, <4>1
        <5>. HIDE DEF h
        <5>2. (h \o a) \o b = h \o (a \o b)
          BY <5>1, ConcatAssociative
        <5>. QED  BY <5>2 DEF h
      <4>. QED  BY <3>1, <4>2, ConcatProperties
    <3>5. i \in 0..n
      BY <1>1
    <3>. QED  BY <3>1, <3>3, <3>4, <3>5
  <2>3. \A i \in 0..n : i \in Good
    <3>. HIDE DEF Good
    <3>. QED  BY <1>1, <2>1, <2>2, Upward
  <2>4. n \in 0..n
    BY <1>1
  <2>. QED  BY <2>3, <2>4
<1>. QED  BY <1>1, <1>2, <1>3, <1>4, <1>6, <1>12 DEF r
=============================================================================
