----------------------------- MODULE RoutingProofs -----------------------------
(***************************************************************************)
(* Theorems about Routing, for any plugins, any names and any calls.       *)
(***************************************************************************)
EXTENDS Routing, SequenceTheorems, WellFoundedInduction, TLAPS

-------------------------------------------------------------------------------
(* Numbers: least and greatest elements, and induction over a set.         *)

(* A set of natural numbers that is not empty has a least element.         *)
LEMMA Least ==
  ASSUME NEW T, T \subseteq Nat, T # {}
  PROVE  \E i \in T : \A j \in T : i <= j
<1> DEFINE R == OpToRel(<, Nat)
<1>1. IsWellFoundedOn(R, Nat)
  BY NatLessThanWellFounded
<1>2. \A i, j \in Nat : i < j => <<i, j>> \in R
  BY DEF OpToRel
<1> HIDE DEF R
<1>3. PICK i \in T : \A j \in T : ~(<<j, i>> \in R)
  BY <1>1, WFMin
<1>4. ASSUME NEW j \in T PROVE i <= j
  <2>1. i \in Nat /\ j \in Nat
    OBVIOUS
  <2>2. ~(j < i)
    BY <1>2, <1>3, <2>1
  <2> QED
    BY <2>1, <2>2
<1> QED
  BY <1>4

(* A set with 0, and with the successor of each of its numbers, has all.   *)
LEMMA Induct ==
  ASSUME NEW T, 0 \in T, \A n \in Nat : n \in T => n + 1 \in T
  PROVE  Nat \subseteq T
<1> SUFFICES ASSUME Nat \ T # {} PROVE FALSE
  OBVIOUS
<1>1. PICK n \in Nat \ T : \A j \in Nat \ T : n <= j
  <2> DEFINE U == Nat \ T
  <2>1. U \subseteq Nat /\ U # {}
    OBVIOUS
  <2> HIDE DEF U
  <2>2. \E i \in U : \A j \in U : i <= j
    BY <2>1, Least
  <2> QED
    BY <2>2 DEF U
<1>2. n \in Nat /\ n # 0 /\ n \notin T
  BY <1>1
<1>3. n - 1 \in Nat /\ ~(n <= n - 1)
  BY <1>2
<1>4. n - 1 \in T
  BY <1>1, <1>3
<1>5. (n - 1) + 1 \in T
  BY <1>3, <1>4
<1> QED
  BY <1>2, <1>5

(* pick finds the longest of the beginnings that a table has.              *)
LEMMA PickIsGreatest ==
  ASSUME NEW n \in Nat, NEW is, is \subseteq 1 .. n, is # {}
  PROVE  pick(is) \in is /\ \A j \in is : j <= pick(is)
<1> DEFINE T == {n - i : i \in is}
<1>1. T \subseteq Nat /\ T # {}
  <2>1. \A i \in is : n - i \in Nat
    OBVIOUS
  <2> QED
    BY <2>1
<1>2. PICK t \in T : \A u \in T : t <= u
  <2> HIDE DEF T
  <2> QED
    BY <1>1, Least
<1>3. PICK i \in is : t = n - i
  OBVIOUS
<1>4. ASSUME NEW j \in is PROVE j <= i
  <2>1. n - j \in T
    OBVIOUS
  <2>2. n - i <= n - j /\ i \in Int /\ j \in Int
    BY <1>2, <1>3, <2>1
  <2> QED
    BY <2>2
<1>5. \E k \in is : \A j \in is : j <= k
  BY <1>4
<1> QED
  BY <1>5 DEF pick

-------------------------------------------------------------------------------
(* Sequences: beginnings, and the elements of a method joined.             *)

(* A beginning, by index.                                                  *)
LEMMA PrefixByIndex ==
  ASSUME NEW S, NEW s \in Seq(S), NEW t \in Seq(S)
  PROVE  IsPrefix(s, t) <=> Len(s) <= Len(t) /\ \A i \in 1 .. Len(s) : s[i] = t[i]
<1>1. SubSeq(s, 1, Len(s)) = s
  BY SubSeqFull
<1>2. ASSUME Len(s) <= Len(t)
      PROVE  /\ SubSeq(t, 1, Len(s)) \in Seq(S)
             /\ Len(SubSeq(t, 1, Len(s))) = Len(s)
             /\ \A i \in 1 .. Len(s) : SubSeq(t, 1, Len(s))[i] = t[i]
  <2>1. Len(s) \in Nat /\ Len(t) \in Nat
    OBVIOUS
  <2>2. \A i \in 1 .. Len(s) : t[i] \in S
    BY <1>2, <2>1
  <2>3. /\ SubSeq(t, 1, Len(s)) \in Seq(S)
        /\ Len(SubSeq(t, 1, Len(s))) = IF 1 <= Len(s) THEN Len(s) - 1 + 1 ELSE 0
        /\ \A i \in 1 .. Len(s) - 1 + 1 : SubSeq(t, 1, Len(s))[i] = t[1 + i - 1]
    BY <2>1, <2>2, SubSeqProperties
  <2> QED
    BY <2>1, <2>3
<1>3. ASSUME Len(s) <= Len(t), \A i \in 1 .. Len(s) : s[i] = t[i]
      PROVE  s = SubSeq(t, 1, Len(s))
  BY <1>2, <1>3, SeqEqual
<1> QED
  BY <1>1, <1>2, <1>3 DEF IsPrefix

(* The recursive function behind FlattenSeq, over the first n elements.    *)
Joins(f, m, n) ==
  f = [i \in 1 .. n |-> IF i = 1 THEN m[i] ELSE f[i - 1] \o m[i]]

(* What it is at one of them.                                              *)
LEMMA JoinsAt ==
  ASSUME NEW f, NEW m, NEW n \in Nat, Joins(f, m, n), NEW i \in 1 .. n
  PROVE  f[i] = IF i = 1 THEN m[i] ELSE f[i - 1] \o m[i]
<1> DEFINE e(j) == IF j = 1 THEN m[j] ELSE f[j - 1] \o m[j]
           h == [j \in 1 .. n |-> e(j)]
<1>1. f = h
  BY Zenon DEF Joins
<1>2. h[i] = e(i)
  OBVIOUS
<1> HIDE DEF h
<1>3. f[i] = e(i)
  BY <1>1, <1>2
<1> QED
  BY <1>3

(* It exists.                                                              *)
LEMMA JoinsExist == \A m : \A n \in Nat : \E f : Joins(f, m, n)
<1> TAKE m
<1> DEFINE T == {n \in Nat : \E f : Joins(f, m, n)}
<1>1. 0 \in T
  <2>1. Joins([i \in 1 .. 0 |-> 0], m, 0)
    BY DEF Joins
  <2> QED
    BY <2>1
<1>2. ASSUME NEW n \in Nat, n \in T PROVE n + 1 \in T
  <2>1. PICK f : Joins(f, m, n)
    BY <1>2
  <2> DEFINE g == [i \in 1 .. n + 1 |->
                     IF i <= n THEN f[i] ELSE IF i = 1 THEN m[i] ELSE f[i - 1] \o m[i]]
  <2>2. ASSUME NEW i \in 1 .. n + 1
        PROVE  g[i] = IF i = 1 THEN m[i] ELSE g[i - 1] \o m[i]
    <3>1. i # 1 => i - 1 \in 1 .. n + 1 /\ i - 1 <= n
      OBVIOUS
    <3>2. i # 1 => g[i - 1] = f[i - 1]
      BY <3>1
    <3>3. i <= n => f[i] = IF i = 1 THEN m[i] ELSE f[i - 1] \o m[i]
      BY <2>1, JoinsAt
    <3> QED
      BY <3>2, <3>3
  <2>3. Joins(g, m, n + 1)
    <3>1. g = [i \in 1 .. n + 1 |-> g[i]]
      OBVIOUS
    <3> HIDE DEF g
    <3> QED
      BY <2>2, <3>1 DEF Joins
  <2> QED
    BY <2>3
<1> HIDE DEF T
<1>3. Nat \subseteq T
  BY <1>1, <1>2, Induct
<1> QED
  BY <1>3 DEF T

(* Two of them agree where both are defined.                               *)
LEMMA JoinsAgree ==
  ASSUME NEW m, NEW n \in Nat, NEW k \in 0 .. n, NEW f, NEW g,
         Joins(f, m, n), Joins(g, m, k)
  PROVE  \A i \in 1 .. k : f[i] = g[i]
<1> DEFINE T == {i \in Nat : i \in 1 .. k => f[i] = g[i]}
<1>1. 0 \in T
  OBVIOUS
<1>2. ASSUME NEW i \in Nat, i \in T PROVE i + 1 \in T
  <2> SUFFICES ASSUME i + 1 \in 1 .. k PROVE f[i + 1] = g[i + 1]
    OBVIOUS
  <2> DEFINE j == i + 1
  <2>1. /\ f[j] = IF j = 1 THEN m[j] ELSE f[j - 1] \o m[j]
        /\ g[j] = IF j = 1 THEN m[j] ELSE g[j - 1] \o m[j]
    <3>1. j \in 1 .. n /\ j \in 1 .. k
      OBVIOUS
    <3> HIDE DEF j
    <3> QED
      BY <3>1, JoinsAt
  <2>2. j # 1 => f[j - 1] = g[j - 1]
    <3>1. j # 1 => i \in 1 .. k /\ j - 1 = i
      OBVIOUS
    <3> QED
      BY <1>2, <3>1
  <2> QED
    BY <2>1, <2>2
<1> HIDE DEF T
<1>3. Nat \subseteq T
  BY <1>1, <1>2, Induct
<1> QED
  BY <1>3 DEF T

(* The strings of the beginnings of a method, in one function: each adds   *)
(* an element to the one before.                                           *)
LEMMA Strings ==
  ASSUME NEW S, NEW m \in Seq(Seq(S))
  PROVE  \E f : \A i \in 1 .. Len(m) :
           /\ f[i] \in Seq(S) /\ f[i] = KeyAt(m, i)
           /\ i # 1 => f[i] = f[i - 1] \o m[i]
<1> DEFINE n == Len(m)
<1>1. n \in Nat /\ \A i \in 1 .. n : m[i] \in Seq(S)
  OBVIOUS
<1>2. PICK f : Joins(f, m, n)
  BY <1>1, JoinsExist
<1>3. \A i \in 1 .. n : f[i] = IF i = 1 THEN m[i] ELSE f[i - 1] \o m[i]
  BY <1>1, <1>2, JoinsAt
<1>4. \A i \in 1 .. n : f[i] \in Seq(S)
  <2> DEFINE T == {i \in Nat : i \in 1 .. n => f[i] \in Seq(S)}
  <2>1. 0 \in T
    OBVIOUS
  <2>2. ASSUME NEW i \in Nat, i \in T PROVE i + 1 \in T
    <3> SUFFICES ASSUME i + 1 \in 1 .. n PROVE f[i + 1] \in Seq(S)
      OBVIOUS
    <3>1. i + 1 # 1 => i \in 1 .. n /\ f[i] \in Seq(S)
      BY <2>2
    <3>2. f[i + 1] = IF i + 1 = 1 THEN m[i + 1] ELSE f[(i + 1) - 1] \o m[i + 1]
      BY <1>3
    <3>3. (i + 1) - 1 = i
      OBVIOUS
    <3>4. f[i + 1] = IF i + 1 = 1 THEN m[i + 1] ELSE f[i] \o m[i + 1]
      BY <3>2, <3>3
    <3>5. m[i + 1] \in Seq(S)
      BY <1>1
    <3>6. f[i] \in Seq(S) => f[i] \o m[i + 1] \in Seq(S)
      BY <3>5, ConcatProperties
    <3> QED
      BY <3>1, <3>4, <3>5, <3>6
  <2> HIDE DEF T
  <2>3. Nat \subseteq T
    BY <2>1, <2>2, Induct
  <2> QED
    BY <2>3 DEF T
<1>5. ASSUME NEW i \in 1 .. n PROVE f[i] = KeyAt(m, i)
  <2> DEFINE p == SubSeq(m, 1, i)
  <2>1. Len(p) = i /\ i # 0 /\ \A j \in 1 .. i : p[j] = m[j]
    <3>1. \A j \in 1 .. i : m[j] \in Seq(S)
      BY <1>1
    <3> DEFINE U == Seq(S)
    <3> HIDE DEF U
    <3>2. \A j \in 1 .. i : m[j] \in U
      BY <3>1 DEF U
    <3>3. /\ Len(p) = IF 1 <= i THEN i - 1 + 1 ELSE 0
          /\ \A j \in 1 .. i - 1 + 1 : p[j] = m[1 + j - 1]
      BY <3>2, SubSeqProperties
    <3> QED
      BY <1>1, <3>3
  <2> HIDE DEF p
  <2>2. KeyAt(m, i) = (CHOOSE g : Joins(g, p, i))[i]
    BY <2>1 DEF KeyAt, String, FlattenSeq, Joins, p
  <2> DEFINE g == CHOOSE h : Joins(h, p, i)
  <2>3. Joins(g, p, i)
    <3>1. i \in Nat
      BY <1>1
    <3>2. \E h : Joins(h, p, i)
      BY <3>1, JoinsExist
    <3> QED
      BY <3>2, Zenon
  <2> HIDE DEF g
  <2>4. Joins(g, m, i)
    <3> DEFINE e(j) == IF j = 1 THEN m[j] ELSE g[j - 1] \o m[j]
               d(j) == IF j = 1 THEN p[j] ELSE g[j - 1] \o p[j]
    <3>1. [j \in 1 .. i |-> d(j)] = [j \in 1 .. i |-> e(j)]
      <4>1. \A j \in 1 .. i : d(j) = e(j)
        BY <2>1
      <4> HIDE DEF d, e
      <4> QED
        BY <4>1
    <3>2. g = [j \in 1 .. i |-> d(j)]
      BY <2>3, Zenon DEF Joins
    <3> QED
      BY <3>1, <3>2, Zenon DEF Joins
  <2>5. f[i] = g[i]
    BY <1>1, <1>2, <2>4, JoinsAgree
  <2> QED
    BY <2>2, <2>5 DEF g
<1>6. ASSUME NEW i \in 1 .. n, i # 1 PROVE f[i] = f[i - 1] \o m[i]
  BY <1>3, <1>6
<1> QED
  BY <1>4, <1>5, <1>6

(* The beginnings of a method have strings that its String begins with.    *)
LEMMA KeysArePrefixes ==
  ASSUME NEW m \in Seq(Seq(STRING)), NEW i \in 1 .. Len(m)
  PROVE  /\ String(m) \in Seq(STRING) /\ KeyAt(m, i) \in Seq(STRING)
         /\ KeyAt(m, Len(m)) = String(m)
         /\ IsPrefix(KeyAt(m, i), String(m))
<1> DEFINE S == STRING
<1> HIDE DEF S
<1>1. m \in Seq(Seq(S))
  BY DEF S
<1>2. PICK f : \A j \in 1 .. Len(m) :
        /\ f[j] \in Seq(S) /\ f[j] = KeyAt(m, j)
        /\ j # 1 => f[j] = f[j - 1] \o m[j]
  BY <1>1, Strings
<1> DEFINE n == Len(m)
<1>3. n \in Nat /\ n >= 1 /\ i \in Nat /\ \A j \in 1 .. n : m[j] \in Seq(S)
  BY <1>1
<1>4. KeyAt(m, n) = String(m)
  <2>1. SubSeq(m, 1, n) = m
    BY <1>1, SubSeqFull
  <2> QED
    BY <2>1 DEF KeyAt
<1> HIDE DEF n
<1>5. \A j \in 1 .. n : f[j] \in Seq(S)
  BY <1>2 DEF n
<1> DEFINE T == {j \in Nat : j \in i .. n => IsPrefix(f[i], f[j])}
<1>6. i \in 1 .. n
  BY DEF n
<1>7. 0 \in T
  BY <1>3, <1>6
<1>8. ASSUME NEW j \in Nat, j \in T PROVE j + 1 \in T
  <2> SUFFICES ASSUME j + 1 \in i .. n PROVE IsPrefix(f[i], f[j + 1])
    OBVIOUS
  <2>1. CASE j + 1 = i
    BY <1>5, <1>6, <2>1, PrefixByIndex
  <2>2. CASE j + 1 # i
    <3>1. j \in i .. n /\ j \in 1 .. n /\ j + 1 \in 1 .. n /\ j + 1 # 1 /\ (j + 1) - 1 = j
      BY <1>3, <1>6, <2>2
    <3>2. IsPrefix(f[i], f[j])
      BY <1>8, <3>1
    <3>3. f[j + 1] = f[j] \o m[j + 1]
      BY <1>2, <3>1 DEF n
    <3> DEFINE a == f[i]
               b == f[j]
               c == m[j + 1]
    <3>4. a \in Seq(S) /\ b \in Seq(S) /\ c \in Seq(S)
      BY <1>3, <1>5, <1>6, <3>1
    <3> HIDE DEF a, b, c
    <3>5. /\ b \o c \in Seq(S) /\ Len(b \o c) = Len(b) + Len(c)
          /\ \A k \in 1 .. Len(b) + Len(c) : (b \o c)[k] = IF k <= Len(b) THEN b[k] ELSE c[k - Len(b)]
      BY <3>4, ConcatProperties
    <3>6. Len(a) <= Len(b) /\ \A k \in 1 .. Len(a) : a[k] = b[k]
      BY <3>2, <3>4, PrefixByIndex DEF a, b
    <3>7. Len(a) \in Nat /\ Len(b) \in Nat /\ Len(c) \in Nat
      BY <3>4
    <3>8. Len(a) <= Len(b \o c) /\ \A k \in 1 .. Len(a) : a[k] = (b \o c)[k]
      BY <3>5, <3>6, <3>7
    <3>9. IsPrefix(a, b \o c)
      BY <3>4, <3>5, <3>8, PrefixByIndex
    <3> QED
      BY <3>3, <3>9 DEF a, b, c
  <2> QED
    BY <2>1, <2>2
<1> HIDE DEF T
<1>9. Nat \subseteq T
  BY <1>7, <1>8, Induct
<1>10. n \in T /\ n \in i .. n /\ n \in 1 .. n
  BY <1>3, <1>6, <1>9
<1>11. IsPrefix(f[i], f[n])
  BY <1>10 DEF T
<1> QED
  BY <1>2, <1>4, <1>6, <1>10, <1>11 DEF n, S

(* Of two sequences that a third begins with, the longer begins with the   *)
(* other.                                                                  *)
LEMMA PrefixOrder ==
  ASSUME NEW S, NEW a \in Seq(S), NEW b \in Seq(S), NEW c \in Seq(S),
         IsPrefix(a, c), IsPrefix(b, c), Len(a) <= Len(b)
  PROVE  IsPrefix(a, b) /\ (Len(a) = Len(b) => a = b)
<1>1. /\ Len(a) \in Nat /\ Len(b) \in Nat
      /\ \A i \in 1 .. Len(a) : a[i] = c[i]
      /\ \A i \in 1 .. Len(b) : b[i] = c[i]
  BY PrefixByIndex
<1>2. \A i \in 1 .. Len(a) : a[i] = b[i]
  BY <1>1
<1>3. IsPrefix(a, b)
  BY <1>2, PrefixByIndex
<1>4. Len(a) = Len(b) => a = b
  BY <1>2, SeqEqual
<1> QED
  BY <1>3, <1>4

-------------------------------------------------------------------------------
(* The multiplexers.                                                       *)

(* No plugin has a key that continues the name of a handler.  Nothing in   *)
(* the code sees to it: with a handler a.b of a plugin a, and a handler    *)
(* a.b.c.d of a plugin a.b.c, the method ["a", "b", "c.d"] passes the gate *)
(* by the name of the second handler and reaches the first.                *)
NamesApart ==
  \A k, l \in DOMAIN Root : \A n \in Keys(Root[l]) : IsPrefix(n, k) => n = k

(* What Found finds are beginnings of the method, and their strings.       *)
LEMMA FoundIs ==
  ASSUME NEW m \in Methods, NEW table, Found(table, m) # {}
  PROVE  LET i == pick(Found(table, m)) IN
         /\ i \in 1 .. Len(m) /\ KeyAt(m, i) \in table
         /\ \A j \in 1 .. Len(m) : KeyAt(m, j) \in table => j <= i
         /\ KeyAt(m, i) \in Seq(STRING) /\ String(m) \in Seq(STRING)
         /\ IsPrefix(KeyAt(m, i), String(m))
<1> DEFINE is == Found(table, m)
           i == pick(is)
<1>1. m \in Seq(Seq(STRING)) /\ Len(m) \in Nat
  BY RoutingAssumption
<1>2. is \subseteq 1 .. Len(m) /\ \A j \in 1 .. Len(m) : j \in is <=> KeyAt(m, j) \in table
  BY DEF Found, KeyAt
<1> HIDE DEF is
<1>3. i \in is /\ \A j \in is : j <= i
  BY <1>1, <1>2, PickIsGreatest DEF is
<1> HIDE DEF i
<1>4. /\ KeyAt(m, i) \in Seq(STRING) /\ String(m) \in Seq(STRING)
      /\ IsPrefix(KeyAt(m, i), String(m))
  BY <1>1, <1>2, <1>3, KeysArePrefixes
<1>5. /\ i \in 1 .. Len(m) /\ KeyAt(m, i) \in table
      /\ \A j \in 1 .. Len(m) : KeyAt(m, j) \in table => j <= i
  BY <1>2, <1>3
<1> QED
  BY <1>4, <1>5 DEF i, is

(* The stub that the two searches come to is that of the name which passed *)
(* the gate.                                                               *)
LEMMA RightStub ==
  ASSUME NamesApart, NEW m \in Methods, rootHandled(m), NEW l,
         Found(DOMAIN Root, m) # {}, l = KeyAt(m, pick(Found(DOMAIN Root, m))),
         Found(Keys(Root[l]), m) # {}
  PROVE  KeyAt(m, pick(Found(Keys(Root[l]), m))) = String(m)
<1> DEFINE n == String(m)
           q == pick(Found(Keys(Root[l]), m))
           x == KeyAt(m, q)
<1>1. l \in DOMAIN Root /\ l \in Seq(STRING) /\ n \in Seq(STRING) /\ IsPrefix(l, n)
  BY FoundIs
<1>2. /\ q \in 1 .. Len(m) /\ x \in Keys(Root[l]) /\ x \in Seq(STRING) /\ IsPrefix(x, n)
      /\ \A j \in 1 .. Len(m) : KeyAt(m, j) \in Keys(Root[l]) => j <= q
  BY FoundIs
<1>3. PICK k \in DOMAIN Root : n \in Keys(Root[k])
  BY DEF rootHandled, AllKeys
<1>4. m \in Seq(Seq(STRING)) /\ k \in Seq(STRING)
  BY RoutingAssumption
<1> HIDE DEF x
<1>5. CASE l = k
  <2>1. Len(m) \in 1 .. Len(m) /\ KeyAt(m, Len(m)) = n
    BY <1>2, <1>4, KeysArePrefixes
  <2>2. Len(m) <= q
    BY <1>2, <1>3, <1>5, <2>1
  <2> HIDE DEF q
  <2>3. q = Len(m)
    BY <1>2, <1>4, <2>2
  <2> QED
    BY <2>1, <2>3 DEF q
<1>6. CASE l # k
  <2> HIDE DEF n
  <2>1. IsPrefix(k, n) /\ Len(l) <= Len(k)
    BY <1>1, <1>3, RoutingAssumption
  <2>2. Len(k) \in Nat /\ Len(l) \in Nat /\ Len(x) \in Nat
    BY <1>1, <1>2, <1>4
  <2>3. CASE Len(x) < Len(k)
    <3>1. IsPrefix(x, k)
      BY <1>1, <1>2, <1>4, <2>1, <2>2, <2>3, PrefixOrder
    <3>2. x = k
      BY <1>1, <1>2, <3>1 DEF NamesApart
    <3> QED
      BY <2>2, <2>3, <3>2
  <2>4. CASE Len(k) <= Len(x)
    <3>1. IsPrefix(k, x)
      BY <1>1, <1>2, <1>4, <2>1, <2>4, PrefixOrder
    <3>2. Len(k) <= Len(l)
      BY <1>1, <1>2, <3>1, RoutingAssumption
    <3>3. l = k
      BY <1>1, <1>4, <2>1, <2>2, <3>2, PrefixOrder
    <3> QED
      BY <1>6, <3>3
  <2> QED
    BY <2>2, <2>3, <2>4
<1> QED
  BY <1>5, <1>6

-------------------------------------------------------------------------------
(* The inductive invariant.                                                *)

(* What is served was accepted by the gate, and is the stub of its name if *)
(* the names are apart; until the manifest call is done, no manifest.      *)
Routed ==
  /\ DOMAIN stub = Calls
  /\ manifestCall # "done" => missing
  /\ \A c \in Calls : hpc[c] = "accepted" => rootHandled(method[c])
  /\ NamesApart => NeverMisrouted

IInv == TypeOK /\ Routed /\ LocalRefusalIsRight /\ NoSilentCall

(* It holds at the start.                                                  *)
LEMMA InitInv == Init => IInv
<1> SUFFICES ASSUME Init PROVE IInv
  OBVIOUS
<1>1. TypeOK
  BY DEF Init, TypeOK, CallType
<1>2. Routed
  BY DEF Init, Routed, NeverMisrouted
<1>3. LocalRefusalIsRight /\ NoSilentCall
  BY DEF Init, LocalRefusalIsRight, NoSilentCall
<1> QED
  BY <1>1, <1>2, <1>3 DEF IInv

(* The steps of the manifest.                                              *)
LEMMA ManifestStep ==
  ASSUME IInv, writeManifestRequest \/ ManifestAnswered \/ retreiveManifest \/ manifestTimeout \/ Handle
  PROVE  IInv'
<1>1. UNCHANGED <<cpc, callVars, servVars>>
  BY DEF writeManifestRequest, ManifestAnswered, retreiveManifest, manifestTimeout, Handle
<1>2. recurseMap = AllKeys
  BY RoutingAssumption DEF recurseMap
<1>3. /\ manifestCall' \in {"write", "asked", "good", "bad", "refused", "done"}
      /\ missing' \in BOOLEAN /\ handling' \in BOOLEAN
      /\ methods' = IF missing' THEN {} ELSE AllKeys
      /\ manifestCall' # "done" => missing'
  <2>1. /\ manifestCall \in {"write", "asked", "good", "bad", "refused", "done"}
        /\ missing \in BOOLEAN /\ handling \in BOOLEAN
        /\ methods = IF missing THEN {} ELSE AllKeys
        /\ manifestCall # "done" => missing
    BY DEF IInv, TypeOK, Routed
  <2>2. CASE ManifestAnswered
    BY <2>1, <2>2, RoutingAssumption DEF ManifestAnswered
  <2>3. CASE retreiveManifest
    BY <1>2, <2>1, <2>3 DEF retreiveManifest
  <2>4. CASE manifestTimeout
    BY <2>1, <2>4 DEF manifestTimeout
  <2>5. CASE Handle
    BY <2>1, <2>5 DEF Handle
  <2>6. CASE writeManifestRequest
    BY <2>1, <2>6 DEF writeManifestRequest
  <2> QED
    BY <2>2, <2>3, <2>4, <2>5, <2>6
<1>4. TypeOK' /\ Routed' /\ LocalRefusalIsRight' /\ NoSilentCall'
  BY <1>1, <1>3 DEF IInv, TypeOK, Routed, NeverMisrouted, LocalRefusalIsRight, NoSilentCall,
                    Kind, callVars, servVars
<1> QED
  BY <1>4 DEF IInv

(* The steps of the caller.                                                *)
LEMMA CallerStep ==
  ASSUME IInv, NEW c \in Calls, Call(c) \/ Told(c)
  PROVE  IInv'
<1>1. UNCHANGED <<manifestVars, callVars, servVars>>
  BY DEF Call, Told
<1>2. /\ cpc \in [Calls -> {"new", "sent", "refused here", "data", "err", "end"}]
      /\ answer \in [Calls -> {"none", "data", "err", "end"}]
      /\ methods = IF missing THEN {} ELSE AllKeys
      /\ \A d \in Calls : cpc[d] = "refused here" => ~rootHandled(method[d])
  BY DEF IInv, TypeOK, LocalRefusalIsRight
<1>3. /\ cpc' \in [Calls -> {"new", "sent", "refused here", "data", "err", "end"}]
      /\ \A d \in Calls : cpc'[d] = "refused here" => ~rootHandled(method[d])
  <2>1. CASE Call(c)
    <3>1. ~manifestHandled(method[c]) => ~rootHandled(method[c])
      BY <1>2 DEF manifestHandled, rootHandled
    <3> QED
      BY <1>2, <2>1, <3>1 DEF Call
  <2>2. CASE Told(c)
    <3>1. answer[c] \in {"data", "err", "end"}
      BY <1>2, <2>2 DEF Told
    <3> QED
      BY <1>2, <2>2, <3>1 DEF Told
  <2> QED
    BY <2>1, <2>2
<1>4. TypeOK' /\ Routed' /\ NoSilentCall'
  BY <1>1, <1>3 DEF IInv, TypeOK, Routed, NeverMisrouted, NoSilentCall, Kind,
                    manifestVars, callVars, servVars
<1>5. LocalRefusalIsRight'
  BY <1>1, <1>3 DEF LocalRefusalIsRight, rootHandled, callVars
<1> QED
  BY <1>4, <1>5 DEF IInv

(* The gate.                                                               *)
LEMMA ReceiveStep ==
  ASSUME IInv, NEW c \in Calls, Receive(c)
  PROVE  IInv'
<1>1. UNCHANGED <<manifestVars, cpc, callVars, stub, returned>>
  BY DEF Receive
<1>2. /\ hpc \in [Calls -> {"none", "accepted", "refused", "stub", "running", "returned"}]
      /\ answer \in [Calls -> {"none", "data", "err", "end"}]
      /\ \A d \in Calls : hpc[d] = "accepted" => rootHandled(method[d])
  BY DEF IInv, TypeOK, Routed
<1>3. /\ hpc' \in [Calls -> {"none", "accepted", "refused", "stub", "running", "returned"}]
      /\ answer' \in [Calls -> {"none", "data", "err", "end"}]
      /\ \A d \in Calls : hpc'[d] = "accepted" => rootHandled(method[d])
      /\ hpc'[c] \in {"accepted", "refused"} /\ (hpc'[c] = "refused" => answer'[c] # "none")
      /\ \A d \in Calls \ {c} : hpc'[d] = hpc[d] /\ answer'[d] = answer[d]
  BY <1>2 DEF Receive
<1>4. TypeOK' /\ LocalRefusalIsRight'
  BY <1>1, <1>3 DEF IInv, TypeOK, LocalRefusalIsRight, rootHandled, manifestVars, callVars
<1>5. Routed'
  BY <1>1, <1>3 DEF IInv, Routed, NeverMisrouted, rootHandled, manifestVars, callVars
<1>6. NoSilentCall'
  BY <1>1, <1>3 DEF IInv, NoSilentCall, Kind, callVars
<1> QED
  BY <1>4, <1>5, <1>6 DEF IInv

(* The multiplexers.                                                       *)
LEMMA HandleCallStep ==
  ASSUME IInv, NEW c \in Calls, HandleCall(c)
  PROVE  IInv'
<1> DEFINE atRoot == Found(DOMAIN Root, method[c])
           l == KeyAt(method[c], pick(atRoot))
           atPlugin == IF atRoot = {} THEN {} ELSE Found(Keys(Root[l]), method[c])
           key == KeyAt(method[c], pick(atPlugin))
<1>1. UNCHANGED <<manifestVars, cpc, callVars, returned>>
  BY DEF HandleCall
<1>2. /\ hpc[c] = "accepted"
      /\ \/ /\ atPlugin # {}
            /\ stub' = [stub EXCEPT ![c] = <<Root[l], key>>]
            /\ hpc' = [hpc EXCEPT ![c] = "stub"]
            /\ UNCHANGED answer
         \/ /\ answer' = [answer EXCEPT ![c] = "err"]
            /\ hpc' = [hpc EXCEPT ![c] = "refused"]
            /\ UNCHANGED stub
  BY DEF HandleCall
<1>3. /\ hpc \in [Calls -> {"none", "accepted", "refused", "stub", "running", "returned"}]
      /\ answer \in [Calls -> {"none", "data", "err", "end"}]
      /\ DOMAIN stub = Calls
      /\ method[c] \in Methods /\ rootHandled(method[c])
  BY <1>2 DEF IInv, TypeOK, Routed
<1>4. ASSUME atPlugin # {}
      PROVE  key \in Keys(Root[l]) /\ (NamesApart => key = String(method[c]))
  <2>1. atRoot # {} /\ Found(Keys(Root[l]), method[c]) # {}
        /\ key = KeyAt(method[c], pick(Found(Keys(Root[l]), method[c])))
    BY <1>4
  <2> HIDE DEF key
  <2>2. key \in Keys(Root[l])
    BY <1>3, <2>1, FoundIs
  <2>3. NamesApart => key = String(method[c])
    BY <1>3, <2>1, RightStub
  <2> QED
    BY <2>2, <2>3
<1> HIDE DEF atRoot, l, atPlugin, key
<1>5. /\ hpc' \in [Calls -> {"none", "accepted", "refused", "stub", "running", "returned"}]
      /\ answer' \in [Calls -> {"none", "data", "err", "end"}]
      /\ hpc'[c] \in {"stub", "refused"} /\ (hpc'[c] = "refused" => answer'[c] # "none")
      /\ \A d \in Calls \ {c} : hpc'[d] = hpc[d] /\ answer'[d] = answer[d]
  BY <1>2, <1>3
<1>6. /\ DOMAIN stub' = Calls
      /\ \A d \in Calls \ {c} : stub'[d] = stub[d]
      /\ stub'[c] = stub[c] \/ (atPlugin # {} /\ stub'[c] = <<Root[l], key>>)
  BY <1>2, <1>3
<1>7. \A d \in Calls : stub'[d] = Nowhere \/ stub'[d][2] \in Keys(stub'[d][1])
  <2>1. \A d \in Calls : stub[d] = Nowhere \/ stub[d][2] \in Keys(stub[d][1])
    BY DEF IInv, TypeOK
  <2> TAKE d \in Calls
  <2>2. CASE stub'[d] = stub[d]
    BY <2>1, <2>2
  <2>3. CASE stub'[d] # stub[d]
    <3>1. d = c /\ atPlugin # {} /\ stub'[d] = <<Root[l], key>>
      BY <1>6, <2>3
    <3> QED
      BY <1>4, <3>1
  <2> QED
    BY <2>2, <2>3
<1>8. TypeOK' /\ LocalRefusalIsRight'
  BY <1>1, <1>5, <1>7 DEF IInv, TypeOK, LocalRefusalIsRight, rootHandled, manifestVars, callVars
<1>9. Routed'
  <2>1. \A d \in Calls : hpc'[d] = "accepted" => rootHandled(method[d])
    BY <1>5 DEF IInv, Routed
  <2>2. ASSUME NamesApart, NEW d \in Calls, stub'[d] # Nowhere
        PROVE  stub'[d][2] = String(method[d])
    BY <1>4, <1>6, <2>2 DEF IInv, Routed, NeverMisrouted
  <2> QED
    BY <1>1, <1>6, <2>1, <2>2 DEF IInv, Routed, NeverMisrouted, rootHandled, manifestVars, callVars
<1>10. NoSilentCall'
  BY <1>1, <1>5, <1>6 DEF IInv, NoSilentCall, Kind, callVars
<1> QED
  BY <1>8, <1>9, <1>10 DEF IInv

(* The stubs and the handler functions.                                    *)
LEMMA ServeStep ==
  ASSUME IInv, NEW c \in Calls, stubHandleCall(c) \/ Return(c) \/ StreamEnds(c)
  PROVE  IInv'
<1>1. UNCHANGED <<manifestVars, cpc, callVars, stub>>
  BY DEF stubHandleCall, Return, StreamEnds
<1>2. /\ hpc \in [Calls -> {"none", "accepted", "refused", "stub", "running", "returned"}]
      /\ answer \in [Calls -> {"none", "data", "err", "end"}]
      /\ returned \in [Calls -> {"nothing", "error", "value", "unencodable", "nil"}]
  BY DEF IInv, TypeOK
<1>3. hpc[c] \in {"refused", "returned"} /\ answer[c] = "none" =>
        \/ returned[c] = "nil"
        \/ Kind(c) = "async" /\ (type[c] # "async" \/ returned[c] = "unencodable")
  BY DEF IInv, NoSilentCall
<1>4. /\ hpc' \in [Calls -> {"none", "accepted", "refused", "stub", "running", "returned"}]
      /\ answer' \in [Calls -> {"none", "data", "err", "end"}]
      /\ returned' \in [Calls -> {"nothing", "error", "value", "unencodable", "nil"}]
      /\ hpc'[c] # "accepted"
      /\ hpc'[c] \in {"refused", "returned"} /\ answer'[c] = "none" =>
           \/ returned'[c] = "nil"
           \/ Kind(c) = "async" /\ (type[c] # "async" \/ returned'[c] = "unencodable")
      /\ \A d \in Calls \ {c} :
           hpc'[d] = hpc[d] /\ answer'[d] = answer[d] /\ returned'[d] = returned[d]
  <2>1. CASE stubHandleCall(c)
    BY <1>2, <1>3, <2>1 DEF stubHandleCall
  <2>2. CASE Return(c)
    <3>1. PICK result \in Result(c) :
            /\ returned' = [returned EXCEPT ![c] = result]
            /\ answer' = [answer EXCEPT ![c] =
                 IF @ # "none" THEN @
                 ELSE IF result = "error" THEN "err"
                 ELSE IF result = "value" /\ type[c] = "async" THEN "data"
                 ELSE "none"]
      BY <2>2 DEF Return
    <3>2. /\ result \in {"error", "value", "unencodable", "nil"}
          /\ result \in {"value", "unencodable"} => Kind(c) = "async"
      BY DEF Result
    <3> QED
      BY <1>2, <2>2, <3>1, <3>2 DEF Return
  <2>3. CASE StreamEnds(c)
    BY <1>2, <2>3 DEF StreamEnds
  <2> QED
    BY <2>1, <2>2, <2>3
<1>5. TypeOK' /\ LocalRefusalIsRight'
  BY <1>1, <1>4 DEF IInv, TypeOK, LocalRefusalIsRight, rootHandled, manifestVars, callVars
<1>6. Routed'
  BY <1>1, <1>4 DEF IInv, Routed, NeverMisrouted, rootHandled, manifestVars, callVars
<1>7. NoSilentCall'
  BY <1>1, <1>4 DEF IInv, NoSilentCall, Kind, callVars
<1> QED
  BY <1>5, <1>6, <1>7 DEF IInv

(* Every step keeps it.                                                    *)
LEMMA NextInv == IInv /\ [Next]_vars => IInv'
<1> SUFFICES ASSUME IInv, [Next]_vars PROVE IInv'
  OBVIOUS
<1>1. CASE writeManifestRequest \/ ManifestAnswered \/ retreiveManifest \/ manifestTimeout \/ Handle
  BY <1>1, ManifestStep
<1>2. ASSUME NEW c \in Calls,
             \/ Call(c) \/ Told(c)
             \/ Receive(c) \/ HandleCall(c) \/ stubHandleCall(c) \/ Return(c) \/ StreamEnds(c)
      PROVE  IInv'
  BY <1>2, CallerStep, ReceiveStep, HandleCallStep, ServeStep
<1>3. CASE UNCHANGED vars
  <2>1. TypeOK' /\ Routed' /\ LocalRefusalIsRight' /\ NoSilentCall'
    BY <1>3 DEF IInv, TypeOK, Routed, NeverMisrouted, LocalRefusalIsRight, NoSilentCall, Kind,
                rootHandled, vars, manifestVars, callVars, servVars
  <2> QED
    BY <2>1 DEF IInv
<1> QED
  BY <1>1, <1>2, <1>3 DEF Next

(* In every behaviour, always.                                             *)
LEMMA Invariance == Spec => []IInv
BY InitInv, NextInv, PTL DEF Spec

-------------------------------------------------------------------------------
(* The theorems.                                                           *)

(* Every variable keeps its type, and the manifest is whole or missing.    *)
THEOREM TypeCorrect == Spec => []TypeOK
<1>1. IInv => TypeOK
  BY DEF IInv
<1> QED
  BY <1>1, Invariance, PTL

(* If names are apart, a call is served by the stub of the very name that  *)
(* passed the gate, however the method is cut into elements and whatever   *)
(* other names the multiplexers know.                                      *)
THEOREM NamesApartNeverMisrouted ==
  ASSUME NamesApart
  PROVE  Spec => []NeverMisrouted
<1>1. IInv => NeverMisrouted
  BY DEF IInv, Routed
<1> QED
  BY <1>1, Invariance, PTL

(* What the manifest makes this side refuse, the other side would refuse:  *)
(* for any manifest of what is handled, and however the call for it ends.  *)
THEOREM RefusedHereIsRefusedThere == Spec => []LocalRefusalIsRight
<1>1. IInv => LocalRefusalIsRight
  BY DEF IInv
<1> QED
  BY <1>1, Invariance, PTL

(* A call whose handling is over was answered, but for the three cases     *)
(* that NoSilentCall names.                                                *)
THEOREM HandledIsAnswered == Spec => []NoSilentCall
<1>1. IInv => NoSilentCall
  BY DEF IInv
<1> QED
  BY <1>1, Invariance, PTL
===============================================================================
