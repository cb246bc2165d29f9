----------------------------- MODULE LibraryProofs -----------------------------
(***************************************************************************)
(* What Admission and Library keep true, for any requests, limits,         *)
(* renditions and files: permits, assets, and the objects left behind.     *)
(***************************************************************************)
EXTENDS Library, SequenceTheorems, FunctionTheorems, FiniteSetTheorems,
        WellFoundedInduction, TLAPS

-----------------------------------------------------------------------------
(* Sequences.                                                              *)

\* A set of naturals has a least member: what the inductions below rest on.
LEMMA LeastNatural ==
  ASSUME NEW T, T \subseteq Nat, T # {}
  PROVE  \E n \in T : \A m \in T : n <= m
<1>1. PICK R : R = OpToRel(<, Nat) OBVIOUS
<1>2. IsWellFoundedOn(R, Nat) BY <1>1, NatLessThanWellFounded
<1>3. PICK x \in T : \A y \in T : ~ (<<y, x>> \in R) BY <1>2, WFMin
<1>4. \A y \in T : y < x => <<y, x>> \in R BY <1>1 DEF OpToRel
<1>5. \A y \in T : y \in Nat /\ x \in Nat OBVIOUS
<1>6. \A y \in T : ~(y < x) BY <1>3, <1>4
<1>7. \A y \in T : x <= y BY <1>5, <1>6
<1> QED BY <1>7

\* Both halves of a concatenation.
JoinOf(S, a, b, c) ==
  /\ c \in Seq(S) /\ Len(c) = Len(a) + Len(b) /\ Len(a) \in Nat /\ Len(b) \in Nat
  /\ \A i \in 1..Len(a) : c[i] = a[i]
  /\ \A i \in 1..Len(b) : c[Len(a) + i] = b[i]

LEMMA Joined ==
  ASSUME NEW S, NEW a, NEW b, NEW c, a \in Seq(S), b \in Seq(S), c = a \o b
  PROVE  JoinOf(S, a, b, c)
<1>1. Len(a) \in Nat /\ Len(b) \in Nat BY LenProperties
<1>2. a \o b \in Seq(S) /\ Len(a \o b) = Len(a) + Len(b) BY ConcatProperties
<1>3. \A i \in 1..Len(a) + Len(b) : (a \o b)[i] = IF i <= Len(a) THEN a[i] ELSE b[i - Len(a)]
  BY ConcatProperties
<1>4. c \in Seq(S) /\ Len(c) = Len(a) + Len(b) BY <1>2
<1>5. \A i \in 1..Len(a) + Len(b) : c[i] = IF i <= Len(a) THEN a[i] ELSE b[i - Len(a)] BY <1>3
<1>6. \A i \in 1..Len(a) : c[i] = a[i] BY <1>1, <1>5
<1>7. ASSUME NEW i \in 1..Len(b) PROVE c[Len(a) + i] = b[i]
  <2>1. Len(a) + i \in 1..Len(a) + Len(b) /\ ~(Len(a) + i <= Len(a)) /\ (Len(a) + i) - Len(a) = i
    BY <1>1
  <2> QED BY <1>5, <2>1
<1> QED BY <1>1, <1>4, <1>6, <1>7 DEF JoinOf

RangeOf(s) == {s[i] : i \in DOMAIN s}

LEMMA RangeOfJoined ==
  ASSUME NEW S, NEW a \in Seq(S), NEW b \in Seq(S)
  PROVE  a \o b \in Seq(S) /\ RangeOf(a \o b) = RangeOf(a) \cup RangeOf(b)
<1>1. PICK c : c = a \o b OBVIOUS
<1>2. JoinOf(S, a, b, c) BY <1>1, Joined
<1>3. /\ c \in Seq(S) /\ Len(c) = Len(a) + Len(b) /\ Len(a) \in Nat /\ Len(b) \in Nat
      /\ \A i \in 1..Len(a) : c[i] = a[i]
      /\ \A i \in 1..Len(b) : c[Len(a) + i] = b[i]
  BY <1>2 DEF JoinOf
<1>4. DOMAIN a = 1..Len(a) /\ DOMAIN b = 1..Len(b) /\ DOMAIN c = 1..Len(c)
  BY <1>3, LenProperties
<1>5. RangeOf(a) \subseteq RangeOf(c)
  <2>1. \A i \in 1..Len(a) : i \in 1..Len(c) BY <1>3
  <2> QED BY <1>3, <1>4, <2>1 DEF RangeOf
<1>6. RangeOf(b) \subseteq RangeOf(c)
  <2>1. \A i \in 1..Len(b) : Len(a) + i \in 1..Len(c) BY <1>3
  <2> QED BY <1>3, <1>4, <2>1 DEF RangeOf
<1>7. ASSUME NEW i \in DOMAIN c PROVE c[i] \in RangeOf(a) \cup RangeOf(b)
  <2>1. CASE i \in 1..Len(a) BY <1>3, <1>4, <2>1 DEF RangeOf
  <2>2. CASE i \notin 1..Len(a)
    <3>1. i - Len(a) \in 1..Len(b) /\ Len(a) + (i - Len(a)) = i BY <1>3, <1>4, <2>2
    <3>2. c[i] = b[i - Len(a)] BY <1>3, <3>1
    <3> QED BY <1>4, <3>1, <3>2 DEF RangeOf
  <2> QED BY <2>1, <2>2
<1>8. RangeOf(c) \subseteq RangeOf(a) \cup RangeOf(b) BY <1>7 DEF RangeOf
<1> QED BY <1>1, <1>3, <1>5, <1>6, <1>8

LEMMA RangeOfAppended ==
  ASSUME NEW S, NEW s \in Seq(S), NEW x \in S
  PROVE  Append(s, x) \in Seq(S) /\ RangeOf(Append(s, x)) = RangeOf(s) \cup {x}
<1>1. PICK t : t = Append(s, x) OBVIOUS
<1>2. /\ t \in Seq(S) /\ Len(t) = Len(s) + 1 /\ t[Len(s) + 1] = x
      /\ \A i \in 1..Len(s) : t[i] = s[i]
  BY <1>1, AppendProperties
<1>3. Len(s) \in Nat /\ DOMAIN s = 1..Len(s) /\ DOMAIN t = 1..Len(t) BY <1>2, LenProperties
<1>4. \A i \in 1..Len(t) : i \in 1..Len(s) \/ i = Len(s) + 1 BY <1>2, <1>3
<1>5. 1..Len(s) \subseteq 1..Len(t) /\ Len(s) + 1 \in 1..Len(t) BY <1>2, <1>3
<1>6. RangeOf(t) = RangeOf(s) \cup {x} BY <1>2, <1>3, <1>4, <1>5 DEF RangeOf
<1> QED BY <1>1, <1>2, <1>6

LEMMA RangeOfTail ==
  ASSUME NEW S, NEW s \in Seq(S), s # <<>>
  PROVE  /\ Head(s) \in RangeOf(s) /\ Head(s) = s[1]
         /\ Tail(s) \in Seq(S) /\ RangeOf(Tail(s)) \subseteq RangeOf(s)
<1>1. PICK t : t = Tail(s) OBVIOUS
<1>2. t \in Seq(S) /\ Len(t) = Len(s) - 1 /\ \A i \in 1..Len(t) : t[i] = s[i + 1]
  BY <1>1, HeadTailProperties
<1>3. Len(s) \in Nat \ {0} /\ DOMAIN s = 1..Len(s) /\ DOMAIN t = 1..Len(t)
  BY <1>2, LenProperties, EmptySeq
<1>4. \A i \in 1..Len(t) : i + 1 \in 1..Len(s) BY <1>2, <1>3
<1>5. RangeOf(t) \subseteq RangeOf(s) BY <1>2, <1>3, <1>4 DEF RangeOf
<1>6. Head(s) = s[1] /\ 1 \in 1..Len(s) BY <1>3
<1>7. Head(s) \in RangeOf(s) BY <1>3, <1>6 DEF RangeOf
<1> QED BY <1>1, <1>2, <1>5, <1>6, <1>7

\* A finite set written out as a sequence has that set's members.
LEMMA SetsAsSequences ==
  ASSUME NEW S, IsFiniteSet(S)
  PROVE  SetToSeq(S) \in Seq(S) /\ RangeOf(SetToSeq(S)) = S
<1>1. PICK n : n = Cardinality(S) OBVIOUS
<1>2. n \in Nat /\ ExistsBijection(1..n, S) BY <1>1, FS_CardinalityType
<1>3. PICK g : g \in Bijection(1..n, S) BY <1>2 DEF ExistsBijection
<1>4. g \in [1..n -> S] /\ IsInjective(g)
  BY <1>3 DEF Bijection, Injection, IsInjective
<1>5. PICK f : f = SetToSeq(S) OBVIOUS
<1>6. f \in [1..n -> S] /\ IsInjective(f) BY <1>1, <1>4, <1>5 DEF SetToSeq
<1>7. f \in Injection(1..n, S) BY <1>6 DEF Injection, IsInjective
<1>8. IsFiniteSet(1..n) /\ Cardinality(1..n) = n
  BY <1>2, FS_Interval
<1>9. f \in Surjection(1..n, S) BY <1>1, <1>7, <1>8, FS_Injection
<1>10. RangeOf(f) = S BY <1>6, <1>9 DEF Surjection, RangeOf
<1>11. f \in Seq(S) BY <1>2, <1>6
<1> QED BY <1>5, <1>10, <1>11

\* `f` tells, of each prefix of s, what is left of it without the keys.
IsRest(s, keys, n, f) ==
  f = [i \in 0..n |-> IF i = 0 THEN <<>>
                      ELSE IF s[i] \in keys THEN f[i - 1] ELSE Append(f[i - 1], s[i])]

LEMMA RestExists ==
  ASSUME NEW s, NEW keys, NEW n \in Nat
  PROVE  \E f : IsRest(s, keys, n, f)
<1> DEFINE T == {m \in Nat : ~ \E f : IsRest(s, keys, m, f)}
<1> SUFFICES ASSUME T # {} PROVE FALSE
  OBVIOUS
<1>1. PICK m \in T : \A k \in T : m <= k
  <2>1. T \subseteq Nat OBVIOUS
  <2> HIDE DEF T
  <2> QED BY <2>1, LeastNatural
<1>2. CASE m = 0
  <2>1. PICK f : f = [i \in 0..0 |-> <<>>] OBVIOUS
  <2>2. IsRest(s, keys, 0, f) BY <2>1 DEF IsRest
  <2> QED BY <1>2, <2>2
<1>3. CASE m # 0
  <2>1. m \in Nat /\ m - 1 \in Nat /\ ~(m <= m - 1) BY <1>3
  <2>2. m - 1 \notin T BY <1>1, <2>1
  <2>3. PICK f : IsRest(s, keys, m - 1, f) BY <2>1, <2>2
  <2>4. PICK g : g = [i \in 0..m |-> IF i = 0 THEN <<>>
                      ELSE IF s[i] \in keys THEN f[i - 1] ELSE Append(f[i - 1], s[i])]
    OBVIOUS
  <2>5. ASSUME NEW i \in 0..m - 1 PROVE g[i] = f[i]
    <3>1. i \in 0..m BY <2>1
    <3>2. g[i] = IF i = 0 THEN <<>>
                 ELSE IF s[i] \in keys THEN f[i - 1] ELSE Append(f[i - 1], s[i])
      BY <2>4, <3>1
    <3>3. f[i] = IF i = 0 THEN <<>>
                 ELSE IF s[i] \in keys THEN f[i - 1] ELSE Append(f[i - 1], s[i])
      BY <2>3 DEF IsRest
    <3> QED BY <3>2, <3>3
  <2>6. \A i \in 0..m : i # 0 => i - 1 \in 0..m - 1 BY <2>1
  <2>7. \A i \in 0..m : i # 0 => g[i - 1] = f[i - 1] BY <2>5, <2>6
  <2>8. IsRest(s, keys, m, g) BY <2>4, <2>7 DEF IsRest
  <2> QED BY <2>8
<1> QED BY <1>2, <1>3

LEMMA RestHolds ==
  ASSUME NEW S, NEW s \in Seq(S), NEW keys, NEW f, IsRest(s, keys, Len(s), f)
  PROVE  f[Len(s)] \in Seq(S) /\ RangeOf(f[Len(s)]) = RangeOf(s) \ keys
<1> DEFINE Told(n) == f[n] \in Seq(S) /\ RangeOf(f[n]) = {s[i] : i \in 1..n} \ keys
           T == {m \in 0..Len(s) : ~Told(m)}
<1>1. Len(s) \in Nat /\ DOMAIN s = 1..Len(s) BY LenProperties
<1>2. T = {}
  <2> SUFFICES ASSUME T # {} PROVE FALSE
    OBVIOUS
  <2>1. PICK m \in T : \A k \in T : m <= k
    <3>1. T \subseteq Nat BY <1>1
    <3> HIDE DEF T
    <3> QED BY <3>1, LeastNatural
  <2>2. m \in 0..Len(s) /\ m \in Nat /\ ~Told(m) BY <1>1
  <2>3. f[m] = IF m = 0 THEN <<>>
               ELSE IF s[m] \in keys THEN f[m - 1] ELSE Append(f[m - 1], s[m])
    BY <2>2 DEF IsRest
  <2>4. CASE m = 0
    <3>1. f[m] = <<>> BY <2>3, <2>4
    <3>2. {s[i] : i \in 1..m} = {} BY <2>4
    <3>3. <<>> \in Seq(S) /\ RangeOf(<<>>) = {} BY DEF RangeOf
    <3>4. Told(m) BY <3>1, <3>2, <3>3
    <3> QED BY <2>2, <3>4
  <2>5. CASE m # 0
    <3>1. m - 1 \in 0..Len(s) /\ ~(m <= m - 1) /\ m \in 1..Len(s) BY <1>1, <2>2, <2>5
    <3>2. Told(m - 1)
      <4>1. m - 1 \notin T
        <5> HIDE DEF T
        <5> QED BY <2>1, <3>1
      <4> QED BY <3>1, <4>1
    <3>3. s[m] \in S BY <3>1, ElementOfSeq
    <3>4. {s[i] : i \in 1..m} = {s[i] : i \in 1..m - 1} \cup {s[m]}
      <4>1. \A i \in 1..m : i \in 1..m - 1 \/ i = m BY <2>2
      <4>2. 1..m - 1 \subseteq 1..m /\ m \in 1..m BY <2>2, <2>5
      <4> QED BY <4>1, <4>2
    <3>5. CASE s[m] \in keys
      <4>1. f[m] = f[m - 1] BY <2>3, <2>5, <3>5
      <4>2. Told(m) BY <3>2, <3>4, <3>5, <4>1
      <4> QED BY <2>2, <4>2
    <3>6. CASE s[m] \notin keys
      <4>1. f[m] = Append(f[m - 1], s[m]) BY <2>3, <2>5, <3>6
      <4>2. f[m] \in Seq(S) /\ RangeOf(f[m]) = RangeOf(f[m - 1]) \cup {s[m]}
        BY <3>2, <3>3, <4>1, RangeOfAppended
      <4>3. Told(m) BY <3>2, <3>4, <3>6, <4>2
      <4> QED BY <2>2, <4>3
    <3> QED BY <3>5, <3>6
  <2> QED BY <2>4, <2>5
<1>3. Told(Len(s))
  <2>1. Len(s) \in 0..Len(s) BY <1>1
  <2>2. Len(s) \notin T BY <1>2
  <2> HIDE DEF Told
  <2> QED BY <2>1, <2>2
<1> QED BY <1>1, <1>3 DEF RangeOf

\* The keys that are forgotten leave the list, and no others.
LEMMA UnlistedLeavesTheOthers ==
  ASSUME NEW keys, orphans \in Seq(Keys)
  PROVE  Unlisted(keys) \in Seq(Keys) /\ RangeOf(Unlisted(keys)) = Listed \ keys
<1>1. PICK n : n = Len(orphans) OBVIOUS
<1>2. n \in Nat BY <1>1, LenProperties
<1>3. PICK F : F = CHOOSE f : f = [i \in 0..n |-> IF i = 0 THEN <<>>
                      ELSE IF orphans[i] \in keys THEN f[i - 1] ELSE Append(f[i - 1], orphans[i])]
  OBVIOUS
<1>4. PICK f : IsRest(orphans, keys, n, f) BY <1>2, RestExists
<1>5. IsRest(orphans, keys, n, F) BY <1>3, <1>4 DEF IsRest
<1>6. Unlisted(keys) = F[n] BY <1>1, <1>3 DEF Unlisted
<1>7. F[n] \in Seq(Keys) /\ RangeOf(F[n]) = RangeOf(orphans) \ keys
  BY <1>1, <1>5, RestHolds
<1> QED BY <1>6, <1>7 DEF Listed, RangeOf

\* Keys are listed once, beside those that were.
LEMMA ListingAddsTheKeys ==
  ASSUME NEW keys, keys \subseteq Keys, IsFiniteSet(keys), orphans \in Seq(Keys)
  PROVE  Listing(keys) \in Seq(Keys) /\ RangeOf(Listing(keys)) = Listed \cup keys
<1>1. PICK new : new = SetToSeq(keys \ Listed) OBVIOUS
<1>2. IsFiniteSet(keys \ Listed) BY FS_Subset
<1>3. new \in Seq(keys \ Listed) /\ RangeOf(new) = keys \ Listed
  BY <1>1, <1>2, SetsAsSequences
<1>4. new \in Seq(Keys) BY <1>3
<1>5. Listing(keys) = orphans \o new BY <1>1 DEF Listing
<1>6. Listing(keys) \in Seq(Keys) /\ RangeOf(Listing(keys)) = RangeOf(orphans) \cup RangeOf(new)
  BY <1>4, <1>5, RangeOfJoined
<1> QED BY <1>3, <1>6 DEF Listed, RangeOf

\* queue.splice takes the waiter out, and leaves the others in their order.
LEMMA WithoutTakesOneOut ==
  ASSUME NEW S, NEW s \in Seq(S), NEW u,
         \A i, j \in 1..Len(s) : s[i] = s[j] => i = j
  PROVE  /\ Without(s, u) \in Seq(S) /\ Len(Without(s, u)) <= Len(s)
         /\ RangeOf(Without(s, u)) = RangeOf(s) \ {u}
         /\ \A i, j \in 1..Len(Without(s, u)) : Without(s, u)[i] = Without(s, u)[j] => i = j
<1>1. PICK t : t = Without(s, u) OBVIOUS
<1>2. Len(s) \in Nat /\ DOMAIN s = 1..Len(s) BY LenProperties
<1>3. CASE ~ \E i \in 1..Len(s) : s[i] = u
  <2>1. t = s BY <1>1, <1>3 DEF Without, RemoveFirst
  <2>2. u \notin RangeOf(s) BY <1>2, <1>3 DEF RangeOf
  <2> QED BY <1>1, <1>2, <2>1, <2>2
<1>4. ASSUME NEW n \in 1..Len(s), s[n] = u
      PROVE  /\ t \in Seq(S) /\ Len(t) <= Len(s)
             /\ RangeOf(t) = RangeOf(s) \ {u}
             /\ \A i, j \in 1..Len(t) : t[i] = t[j] => i = j
  <2>1. PICK I : I = {i \in 1..Len(s) : s[i] = u} OBVIOUS
  <2>2. I = {n} BY <1>4, <2>1
  <2>3. Min(I) = n
    <3>1. PICK x : x = Min(I) OBVIOUS
    <3>2. n <= n BY <1>2
    <3>3. x \in I BY <2>2, <3>1, <3>2 DEF Min
    <3> QED BY <2>2, <3>1, <3>3
  <2>4. SelectInSeq(s, LAMBDA v : v = u) = n
    BY <2>1, <2>2, <2>3 DEF SelectInSeq
  <2>5. t = RemoveAt(s, n) BY <1>1, <1>4, <2>4 DEF Without, RemoveFirst
  <2>6. PICK a : a = SubSeq(s, 1, n - 1) OBVIOUS
  <2>7. PICK b : b = SubSeq(s, n + 1, Len(s)) OBVIOUS
  <2>8. a \in Seq(S) /\ Len(a) = n - 1 /\ \A i \in 1..n - 1 : a[i] = s[i]
    <3>1. \A i \in 1..n - 1 : s[i] \in S
      <4>1. \A i \in 1..n - 1 : i \in 1..Len(s) BY <1>2
      <4> QED BY <4>1, ElementOfSeq
    <3>2. 1 \in Int /\ n - 1 \in Int /\ (IF 1 <= n - 1 THEN (n - 1) - 1 + 1 ELSE 0) = n - 1
          /\ (n - 1) - 1 + 1 = n - 1
      BY <1>2
    <3>3. a \in Seq(S) /\ Len(a) = IF 1 <= n - 1 THEN (n - 1) - 1 + 1 ELSE 0
      BY <2>6, <3>1, <3>2, SubSeqProperties
    <3>4. \A i \in 1..(n - 1) - 1 + 1 : SubSeq(s, 1, n - 1)[i] = s[1 + i - 1]
      BY <3>1, <3>2, SubSeqProperties
    <3>5. \A i \in 1..n - 1 : 1 + i - 1 = i BY <1>2
    <3> QED BY <2>6, <3>2, <3>3, <3>4, <3>5
  <2>9. b \in Seq(S) /\ Len(b) = Len(s) - n /\ \A i \in 1..Len(s) - n : b[i] = s[n + i]
    <3>1. \A i \in n + 1..Len(s) : s[i] \in S
      <4>1. \A i \in n + 1..Len(s) : i \in 1..Len(s) BY <1>2
      <4> QED BY <4>1, ElementOfSeq
    <3>2. n + 1 \in Int /\ Len(s) \in Int
          /\ (IF n + 1 <= Len(s) THEN Len(s) - (n + 1) + 1 ELSE 0) = Len(s) - n
          /\ Len(s) - (n + 1) + 1 = Len(s) - n
      <4>1. n \in Int /\ Len(s) \in Int /\ n <= Len(s) BY <1>2
      <4>2. PICK last : last = Len(s) OBVIOUS
      <4>3. last \in Int /\ n <= last BY <4>1, <4>2
      <4>4. last - (n + 1) + 1 = last - n BY <4>1, <4>3
      <4>5. ~(n + 1 <= last) => last - n = 0 BY <4>1, <4>3
      <4> QED BY <4>1, <4>2, <4>4, <4>5
    <3>3. b \in Seq(S) /\ Len(b) = IF n + 1 <= Len(s) THEN Len(s) - (n + 1) + 1 ELSE 0
      <4>1. PICK p \in Int : p = n + 1 BY <3>2
      <4>2. PICK q \in Int : q = Len(s) BY <3>2
      <4>3. \A i \in p..q : s[i] \in S BY <3>1, <4>1, <4>2
      <4>4. SubSeq(s, p, q) \in Seq(S)
            /\ Len(SubSeq(s, p, q)) = IF p <= q THEN q - p + 1 ELSE 0
        BY <4>3, SubSeqProperties
      <4> QED BY <2>7, <4>1, <4>2, <4>4
    <3>4. \A i \in 1..Len(s) - (n + 1) + 1 : SubSeq(s, n + 1, Len(s))[i] = s[(n + 1) + i - 1]
      <4>1. PICK p \in Int : p = n + 1 BY <3>2
      <4>2. PICK q \in Int : q = Len(s) BY <3>2
      <4>3. \A i \in p..q : s[i] \in S BY <3>1, <4>1, <4>2
      <4>4. \A i \in 1..q - p + 1 : SubSeq(s, p, q)[i] = s[p + i - 1]
        BY <4>3, SubSeqProperties
      <4> QED BY <4>1, <4>2, <4>4
    <3>5. \A i \in 1..Len(s) - n : (n + 1) + i - 1 = n + i BY <1>2
    <3> QED BY <2>7, <3>2, <3>3, <3>4, <3>5
  <2>10. t = a \o b BY <2>5, <2>6, <2>7 DEF RemoveAt
  <2>11. JoinOf(S, a, b, t) BY <2>8, <2>9, <2>10, Joined
  <2>12. /\ t \in Seq(S) /\ Len(t) = Len(s) - 1
         /\ \A i \in 1..Len(t) : t[i] = IF i < n THEN s[i] ELSE s[i + 1]
    <3>1. /\ t \in Seq(S) /\ Len(t) = Len(a) + Len(b)
          /\ \A i \in 1..Len(a) : t[i] = a[i]
          /\ \A i \in 1..Len(b) : t[Len(a) + i] = b[i]
      BY <2>11 DEF JoinOf
    <3>2. Len(t) = Len(s) - 1 BY <1>2, <2>8, <2>9, <3>1
    <3>3. ASSUME NEW i \in 1..Len(t), i < n PROVE t[i] = s[i]
      <4>1. i \in 1..n - 1 BY <1>2, <3>2, <3>3
      <4> QED BY <2>8, <3>1, <4>1
    <3>4. ASSUME NEW i \in 1..Len(t), ~(i < n) PROVE t[i] = s[i + 1]
      <4>1. i - (n - 1) \in 1..Len(s) - n /\ (n - 1) + (i - (n - 1)) = i
            /\ n + (i - (n - 1)) = i + 1
        BY <1>2, <3>2, <3>4
      <4>2. t[(n - 1) + (i - (n - 1))] = b[i - (n - 1)] BY <2>8, <2>9, <3>1, <4>1
      <4>3. b[i - (n - 1)] = s[n + (i - (n - 1))] BY <2>9, <4>1
      <4> QED BY <4>1, <4>2, <4>3
    <3> QED BY <3>1, <3>2, <3>3, <3>4
  <2>13. DOMAIN t = 1..Len(t) BY <2>12, LenProperties
  <2>14. \A i \in 1..Len(t) : i \in 1..Len(s) /\ i + 1 \in 1..Len(s) BY <1>2, <2>12
  <2>15. RangeOf(t) \subseteq RangeOf(s) \ {u}
    <3> SUFFICES ASSUME NEW i \in 1..Len(t) PROVE t[i] \in RangeOf(s) \ {u}
      BY <2>13 DEF RangeOf
    <3>1. CASE i < n
      <4>1. i # n /\ i \in 1..Len(s) BY <1>2, <2>14, <3>1
      <4> QED BY <1>2, <1>4, <2>12, <3>1, <4>1 DEF RangeOf
    <3>2. CASE ~(i < n)
      <4>1. i + 1 # n /\ i + 1 \in 1..Len(s) BY <1>2, <2>14, <3>2
      <4> QED BY ZenonT(60), <1>2, <1>4, <2>12, <3>2, <4>1 DEF RangeOf
    <3> QED BY <3>1, <3>2
  <2>16. RangeOf(s) \ {u} \subseteq RangeOf(t)
    <3> SUFFICES ASSUME NEW i \in 1..Len(s), s[i] # u PROVE s[i] \in RangeOf(t)
      BY <1>2 DEF RangeOf
    <3>1. i # n BY <1>4
    <3>2. CASE i < n
      <4>1. i \in 1..Len(t) BY <1>2, <2>12, <3>2
      <4> QED BY <2>12, <2>13, <3>2, <4>1 DEF RangeOf
    <3>3. CASE i > n
      <4>1. i - 1 \in 1..Len(t) /\ ~(i - 1 < n) /\ (i - 1) + 1 = i BY <1>2, <2>12, <3>3
      <4>2. t[i - 1] = s[i] BY <2>12, <4>1
      <4> QED BY <2>13, <4>1, <4>2 DEF RangeOf
    <3> QED BY <3>1, <3>2, <3>3
  <2>17. \A i, j \in 1..Len(t) : t[i] = t[j] => i = j
    <3> SUFFICES ASSUME NEW i \in 1..Len(t), NEW j \in 1..Len(t), t[i] = t[j] PROVE i = j
      OBVIOUS
    <3> DEFINE at(k) == IF k < n THEN k ELSE k + 1
    <3>1. at(i) \in 1..Len(s) /\ at(j) \in 1..Len(s) BY <2>14
    <3>2. t[i] = s[at(i)] /\ t[j] = s[at(j)] BY <2>12
    <3>3. at(i) = at(j) BY <3>1, <3>2
    <3> QED BY <1>2, <3>3
  <2> QED BY <1>2, <2>12, <2>15, <2>16, <2>17
<1> QED BY <1>1, <1>3, <1>4

-----------------------------------------------------------------------------
(* The gate.                                                               *)

GateInv == GateTypeOK /\ GateHolds

USE DEF Turns

LEMMA QueueIndexed ==
  ASSUME GateInv
  PROVE  /\ Len(queue) \in Nat /\ DOMAIN queue = 1..Len(queue) /\ InQueue = RangeOf(queue)
         /\ active \in Nat /\ IsFiniteSet(Admitted)
         /\ \A i, j \in 1..Len(queue) : queue[i] = queue[j] => i = j
<1>1. queue \in Seq(Uploads) /\ active \in Nat BY DEF GateInv, GateTypeOK
<1>2. Len(queue) \in Nat /\ DOMAIN queue = 1..Len(queue) BY <1>1, LenProperties
<1>3. IsFiniteSet(Admitted) BY AdmissionAssumption, FS_Subset DEF Admitted
<1> QED BY <1>1, <1>2, <1>3 DEF GateInv, GateHolds, WaitersQueued, InQueue, RangeOf

LEMMA GateStarts == GateInit => GateInv
<1> SUFFICES ASSUME GateInit PROVE GateInv
  OBVIOUS
<1>1. GateTypeOK BY AdmissionAssumption DEF GateInit, GateTypeOK
<1>2. Admitted = {} BY DEF GateInit, Admitted
<1>3. PermitsCounted BY <1>2, AdmissionAssumption, FS_EmptySet DEF GateInit, PermitsCounted
<1>4. queue = <<>> /\ DOMAIN queue = {} /\ Len(queue) = 0 BY DEF GateInit
<1>5. WaitersQueued BY <1>4, AdmissionAssumption DEF GateInit, WaitersQueued, InQueue
<1> QED BY <1>1, <1>3, <1>4, <1>5 DEF GateInv, GateHolds, NoIdlePermit

LEMMA AdmitKeepsGate ==
  ASSUME GateInv, NEW u \in Uploads, Admit(u)
  PROVE  GateInv'
<1>1. GateTypeOK' BY DEF GateInv, GateTypeOK, Admit
<1>2. Admitted' = Admitted \cup {u} /\ u \notin Admitted
  BY DEF GateInv, GateTypeOK, Admit, Admitted
<1>3. Cardinality(Admitted') = Cardinality(Admitted) + 1
  BY <1>2, QueueIndexed, FS_AddElement
<1>4. PermitsCounted'
  BY <1>3, QueueIndexed, AdmissionAssumption DEF GateInv, GateHolds, PermitsCounted, Admit
<1>5. WaitersQueued'
  BY DEF GateInv, GateTypeOK, GateHolds, WaitersQueued, InQueue, Admit
<1>6. NoIdlePermit'
  BY AdmissionAssumption, QueueIndexed DEF GateInv, GateHolds, NoIdlePermit, Admit
<1> QED BY <1>1, <1>4, <1>5, <1>6 DEF GateInv, GateHolds

LEMMA SaturatedKeepsGate ==
  ASSUME GateInv, NEW u \in Uploads, Saturated(u)
  PROVE  GateInv'
<1>1. GateTypeOK' BY DEF GateInv, GateTypeOK, Saturated
<1>2. Admitted' = Admitted BY DEF GateInv, GateTypeOK, Saturated, Admitted
<1>3. PermitsCounted' BY <1>2 DEF GateInv, GateHolds, PermitsCounted, Saturated
<1>4. WaitersQueued' /\ NoIdlePermit'
  BY DEF GateInv, GateTypeOK, GateHolds, WaitersQueued, NoIdlePermit, InQueue, Saturated
<1> QED BY <1>1, <1>3, <1>4 DEF GateInv, GateHolds

LEMMA WaitKeepsGate ==
  ASSUME GateInv, NEW u \in Uploads, Wait(u)
  PROVE  GateInv'
<1>1. queue \in Seq(Uploads) /\ turn \in [Uploads -> Turns] BY DEF GateInv, GateTypeOK
<1>2. /\ queue' = Append(queue, u) /\ turn' = [turn EXCEPT ![u] = "waiting"]
      /\ UNCHANGED <<active, restarts>> /\ turn[u] = "new"
      /\ active >= MaxActive /\ Len(queue) < MaxWaiting
  BY DEF Wait
<1>3. /\ queue' \in Seq(Uploads) /\ RangeOf(queue') = RangeOf(queue) \cup {u}
      /\ Len(queue') = Len(queue) + 1 /\ queue'[Len(queue) + 1] = u
      /\ \A i \in 1..Len(queue) : queue'[i] = queue[i]
  BY <1>1, <1>2, RangeOfAppended, AppendProperties
<1>4. DOMAIN queue' = 1..Len(queue') BY <1>3, LenProperties
<1>5. u \notin RangeOf(queue)
  BY <1>2, QueueIndexed DEF GateInv, GateHolds, WaitersQueued
<1>6. GateTypeOK' BY <1>1, <1>2, <1>3 DEF GateInv, GateTypeOK
<1>7. Admitted' = Admitted BY <1>1, <1>2 DEF Admitted
<1>8. PermitsCounted' BY <1>2, <1>7 DEF GateInv, GateHolds, PermitsCounted
<1>9. \A w \in Uploads : turn'[w] = "waiting" <=> w \in RangeOf(queue')
  BY <1>1, <1>2, <1>3, QueueIndexed DEF GateInv, GateHolds, WaitersQueued
<1>10. \A i, j \in 1..Len(queue') : queue'[i] = queue'[j] => i = j
  <2> SUFFICES ASSUME NEW i \in 1..Len(queue'), NEW j \in 1..Len(queue'), queue'[i] = queue'[j]
               PROVE  i = j
    OBVIOUS
  <2>1. \A k \in 1..Len(queue') : k \in 1..Len(queue) \/ k = Len(queue) + 1
    BY <1>3, QueueIndexed
  <2>2. \A k \in 1..Len(queue) : queue[k] # u
    BY <1>5, QueueIndexed DEF RangeOf
  <2> QED BY <1>3, <2>1, <2>2, QueueIndexed
<1>11. WaitersQueued'
  <2>1. Len(queue') <= MaxWaiting BY <1>2, <1>3, QueueIndexed, AdmissionAssumption
  <2> QED BY <1>4, <1>9, <1>10, <2>1 DEF WaitersQueued, InQueue, RangeOf
<1>12. NoIdlePermit'
  BY <1>2, QueueIndexed, AdmissionAssumption
     DEF GateInv, GateHolds, PermitsCounted, NoIdlePermit
<1> QED BY <1>6, <1>8, <1>11, <1>12 DEF GateInv, GateHolds

LEMMA LeaveKeepsGate ==
  ASSUME GateInv, NEW u \in Uploads, NEW how \in {"refused", "gone"}, Leave(u, how)
  PROVE  GateInv'
<1>1. queue \in Seq(Uploads) /\ turn \in [Uploads -> Turns] BY DEF GateInv, GateTypeOK
<1>2. /\ queue' = Without(queue, u) /\ turn' = [turn EXCEPT ![u] = how]
      /\ UNCHANGED <<active, restarts>> /\ turn[u] = "waiting"
  BY DEF Leave
<1>3. /\ queue' \in Seq(Uploads) /\ Len(queue') <= Len(queue)
      /\ RangeOf(queue') = RangeOf(queue) \ {u}
      /\ \A i, j \in 1..Len(queue') : queue'[i] = queue'[j] => i = j
  BY <1>1, <1>2, QueueIndexed, WithoutTakesOneOut
<1>4. Len(queue') \in Nat /\ DOMAIN queue' = 1..Len(queue') BY <1>3, LenProperties
<1>5. GateTypeOK' BY <1>1, <1>2, <1>3 DEF GateInv, GateTypeOK
<1>6. Admitted' = Admitted BY <1>1, <1>2 DEF Admitted
<1>7. PermitsCounted' BY <1>2, <1>6 DEF GateInv, GateHolds, PermitsCounted
<1>8. \A w \in Uploads : turn'[w] = "waiting" <=> w \in RangeOf(queue')
  BY <1>1, <1>2, <1>3, QueueIndexed DEF GateInv, GateHolds, WaitersQueued
<1>9. WaitersQueued'
  <2>1. Len(queue') <= MaxWaiting
    BY <1>3, <1>4, QueueIndexed, AdmissionAssumption DEF GateInv, GateHolds, WaitersQueued
  <2> QED BY <1>3, <1>4, <1>8, <2>1 DEF WaitersQueued, InQueue, RangeOf
<1>10. NoIdlePermit'
  <2>1. queue # <<>>
    <3>1. u \in RangeOf(queue) BY <1>2, QueueIndexed DEF GateInv, GateHolds, WaitersQueued
    <3> QED BY <3>1 DEF RangeOf
  <2> QED BY <1>2, <2>1 DEF GateInv, GateHolds, NoIdlePermit
<1> QED BY <1>5, <1>7, <1>9, <1>10 DEF GateInv, GateHolds

\* A permit that comes back goes to one who waits, or is free again.
LEMMA ReleaseKeepsGate ==
  ASSUME GateInv, NEW u \in Uploads, Release(u)
  PROVE  GateInv'
<1>1. queue \in Seq(Uploads) /\ turn \in [Uploads -> Turns] /\ turn[u] = "admitted"
      /\ restarts' = restarts /\ restarts \in 0..MaxRestarts
  BY DEF GateInv, GateTypeOK, Release
<1>2. u \in Admitted BY <1>1 DEF Admitted
<1>3. Cardinality(Admitted \ {u}) = Cardinality(Admitted) - 1 /\ IsFiniteSet(Admitted \ {u})
  BY <1>2, QueueIndexed, FS_RemoveElement
<1>4. CASE queue = <<>>
  <2>1. /\ active' = active - 1 /\ turn' = [turn EXCEPT ![u] = "over"] /\ UNCHANGED queue
    BY <1>4 DEF Release
  <2>2. Admitted' = Admitted \ {u} BY <1>1, <2>1 DEF Admitted
  <2>3. Cardinality(Admitted) >= 1
    BY <1>2, <1>3, QueueIndexed, FS_CardinalityType
  <2>4. active' \in Nat
    BY <2>1, <2>3, QueueIndexed DEF GateInv, GateHolds, PermitsCounted
  <2>5. GateTypeOK' BY <1>1, <2>1, <2>4 DEF GateTypeOK
  <2>6. PermitsCounted'
    BY <1>3, <2>1, <2>2, <2>4, QueueIndexed, AdmissionAssumption
       DEF GateInv, GateHolds, PermitsCounted
  <2>7. WaitersQueued' /\ NoIdlePermit'
    BY <1>1, <1>4, <2>1 DEF GateInv, GateHolds, WaitersQueued, NoIdlePermit, InQueue
  <2> QED BY <2>5, <2>6, <2>7 DEF GateInv, GateHolds
<1>5. CASE queue # <<>>
  <2>1. PICK w : w = Head(queue) OBVIOUS
  <2>2. w \in Uploads /\ w \in RangeOf(queue) /\ w = queue[1]
    BY <1>1, <1>5, <2>1, RangeOfTail, HeadTailProperties
  <2>3. turn[w] = "waiting" BY <2>2, QueueIndexed DEF GateInv, GateHolds, WaitersQueued
  <2>4. /\ queue' = Tail(queue) /\ active' = active
        /\ turn' = [turn EXCEPT ![u] = "over", ![w] = "admitted"]
    BY <1>5, <2>1 DEF Release
  <2>5. Admitted' = (Admitted \ {u}) \cup {w} /\ w \notin Admitted
    BY <1>1, <2>2, <2>3, <2>4 DEF Admitted
  <2>6. Cardinality(Admitted') = Cardinality(Admitted \ {u}) + 1
    BY <1>3, <2>5, FS_AddElement
  <2>7. PermitsCounted'
    BY <1>2, <1>3, <2>4, <2>6, QueueIndexed, FS_CardinalityType
       DEF GateInv, GateHolds, PermitsCounted
  <2>8. /\ queue' \in Seq(Uploads) /\ Len(queue') = Len(queue) - 1
        /\ \A i \in 1..Len(queue') : queue'[i] = queue[i + 1]
    BY <1>1, <1>5, <2>4, HeadTailProperties
  <2>9. Len(queue') \in Nat /\ DOMAIN queue' = 1..Len(queue') BY <2>8, LenProperties
  <2>10. GateTypeOK' BY <1>1, <2>4, <2>8, QueueIndexed DEF GateTypeOK
  <2>11. \A i \in 1..Len(queue') : i + 1 \in 1..Len(queue) /\ i + 1 # 1
    BY <2>8, <2>9, QueueIndexed
  <2>12. RangeOf(queue') = RangeOf(queue) \ {w}
    <3>1. RangeOf(queue') \subseteq RangeOf(queue) \ {w}
      <4>1. \A i \in 1..Len(queue') : queue[i + 1] # w
        <5>1. 1 \in 1..Len(queue) BY <2>11, QueueIndexed, <1>5, <1>1, EmptySeq
        <5> QED BY <2>2, <2>11, <5>1, QueueIndexed
      <4> QED BY <2>8, <2>9, <2>11, <4>1, QueueIndexed DEF RangeOf
    <3>2. ASSUME NEW i \in 1..Len(queue), queue[i] # w PROVE queue[i] \in RangeOf(queue')
      <4>1. i # 1 BY <2>2, <3>2
      <4>2. i - 1 \in 1..Len(queue') /\ (i - 1) + 1 = i BY <2>8, <4>1, QueueIndexed
      <4>3. queue'[i - 1] = queue[i] BY <2>8, <4>2
      <4> QED BY <2>9, <4>2, <4>3 DEF RangeOf
    <3>3. RangeOf(queue) = {queue[i] : i \in 1..Len(queue)} BY QueueIndexed DEF RangeOf
    <3>4. ASSUME NEW x \in RangeOf(queue) \ {w} PROVE x \in RangeOf(queue')
      <4>1. PICK i \in 1..Len(queue) : x = queue[i] BY <3>3, <3>4
      <4> QED BY <3>2, <3>4, <4>1
    <3> QED BY <3>1, <3>4
  <2>13. \A v \in Uploads : turn'[v] = "waiting" <=> v \in RangeOf(queue')
    BY <1>1, <2>2, <2>3, <2>4, <2>12, QueueIndexed DEF GateInv, GateHolds, WaitersQueued
  <2>14. \A i, j \in 1..Len(queue') : queue'[i] = queue'[j] => i = j
    <3> SUFFICES ASSUME NEW i \in 1..Len(queue'), NEW j \in 1..Len(queue'), queue'[i] = queue'[j]
                 PROVE  i = j
      OBVIOUS
    <3>1. queue[i + 1] = queue[j + 1] BY <2>8
    <3>2. i + 1 = j + 1 BY <2>11, <3>1, QueueIndexed
    <3> QED BY <2>9, <3>2
  <2>15. WaitersQueued'
    <3>1. Len(queue') <= MaxWaiting
      BY <2>8, QueueIndexed, AdmissionAssumption DEF GateInv, GateHolds, WaitersQueued
    <3> QED BY <2>9, <2>13, <2>14, <3>1 DEF WaitersQueued, InQueue, RangeOf
  <2>16. NoIdlePermit' BY <1>5, <2>4 DEF GateInv, GateHolds, NoIdlePermit
  <2> QED BY <2>7, <2>10, <2>15, <2>16 DEF GateInv, GateHolds
<1> QED BY <1>4, <1>5

LEMMA RestartKeepsGate ==
  ASSUME GateInv, Restart
  PROVE  GateInv'
<1>1. /\ restarts < MaxRestarts /\ restarts' = restarts + 1 /\ active' = 0 /\ queue' = <<>>
      /\ turn' = [u \in Uploads |-> IF turn[u] \in {"waiting", "admitted"} THEN "gone" ELSE turn[u]]
  BY DEF Restart
<1>2. GateTypeOK' BY <1>1, AdmissionAssumption DEF GateInv, GateTypeOK
<1>3. Admitted' = {} BY <1>1 DEF Admitted
<1>4. PermitsCounted' BY <1>1, <1>3, AdmissionAssumption, FS_EmptySet DEF PermitsCounted
<1>5. Len(queue') = 0 /\ DOMAIN queue' = {} BY <1>1
<1>6. WaitersQueued' BY <1>1, <1>5, AdmissionAssumption DEF WaitersQueued, InQueue
<1> QED BY <1>1, <1>2, <1>4, <1>6 DEF GateInv, GateHolds, NoIdlePermit

LEMMA GateKept == GateInv /\ [GateNext]_gate => GateInv'
<1> SUFFICES ASSUME GateInv, [GateNext]_gate PROVE GateInv'
  OBVIOUS
<1>1. CASE UNCHANGED gate
  <2>1. GateTypeOK' BY <1>1 DEF GateInv, GateTypeOK, gate
  <2>2. GateHolds'
    BY <1>1 DEF GateInv, GateHolds, gate, PermitsCounted, Admitted, WaitersQueued, InQueue, NoIdlePermit
  <2> QED BY <2>1, <2>2 DEF GateInv
<1>2. ASSUME NEW u \in Uploads, TimeOut(u) \/ Abort(u) PROVE GateInv'
  BY <1>2, LeaveKeepsGate DEF TimeOut, Abort
<1> QED BY <1>1, <1>2, AdmitKeepsGate, SaturatedKeepsGate, WaitKeepsGate, ReleaseKeepsGate,
        RestartKeepsGate DEF GateNext

\* Permits are counted, the queue holds each waiter once and nobody else, and
\* nobody waits while a permit is free, through hand-overs, timers, clients that
\* leave and restarts (createAdmission).
THEOREM GateAlwaysHolds == GateSpec => []GateHolds
<1>1. GateInv => GateHolds BY DEF GateInv
<1> QED BY <1>1, GateStarts, GateKept, PTL DEF GateSpec

LEMMA LibraryStepsTheGate == [Next]_vars => [GateNext]_gate
<1> SUFFICES ASSUME [Next]_vars PROVE [GateNext]_gate
  OBVIOUS
<1>1. ASSUME NEW u \in Uploads, Upload(u) PROVE [GateNext]_gate
  <2>1. CASE Enter(u) \/ GiveUp(u)
    BY <2>1 DEF Enter, GiveUp, Gated, GateNext
  <2>2. CASE Refuse(u) BY <2>2 DEF Refuse, Finish, GateNext
  <2>3. CASE StartPuts(u) BY <2>3 DEF StartPuts
  <2>4. CASE Insert(u) BY <2>4 DEF Insert, Finish, GateNext
  <2>5. CASE Record(u) BY <2>5 DEF Record, Finish, GateNext
  <2>6. CASE Abandon(u) BY <2>6 DEF Abandon, Finish, GateNext
  <2> QED BY <1>1, <2>1, <2>2, <2>3, <2>4, <2>5, <2>6 DEF Upload
<1>2. ASSUME NEW u \in Uploads, Use(u) PROVE UNCHANGED gate BY <1>2 DEF Use
<1>3. ASSUME NEW k \in Keys, Put(k) PROVE UNCHANGED gate
  BY <1>3 DEF Put, StorePut, PutResolves, PutRejects
<1>4. ASSUME NEW d \in Deleters, (\E u \in Uploads : CheckReferences(d, u))
                                 \/ DeleteRow(d) \/ RemoveObjects(d)
      PROVE  UNCHANGED gate
  BY <1>4 DEF CheckReferences, DeleteRow, RemoveObjects
<1>5. CASE Sweep BY <1>5 DEF Sweep, StartSweep, SweepRemoves, SweepFails
<1>6. CASE Crash BY <1>6 DEF Crash, GateNext
<1>7. CASE UNCHANGED vars BY <1>7 DEF vars
<1> QED BY <1>1, <1>2, <1>3, <1>4, <1>5, <1>6, <1>7 DEF Next

\* The handlers of POST /media use the gate as it is meant: whatever they do,
\* each step of the library is a step of the gate or none.
THEOREM LibraryUsesTheGate == Spec => GateSpec
<1>1. Init => GateInit BY DEF Init
<1>2. [Next]_vars => [GateNext]_gate BY LibraryStepsTheGate
<1> QED BY <1>1, <1>2, PTL DEF Spec, GateSpec

-----------------------------------------------------------------------------
(* The assets.                                                             *)

LEMMA KeysAreFinite ==
  /\ IsFiniteSet(Keys)
  /\ \A u \in Uploads : KeysOf(u) \subseteq Keys /\ IsFiniteSet(KeysOf(u))
<1>1. IsFiniteSet(Keys) BY AdmissionAssumption, LibraryAssumption, FS_Product DEF Keys
<1>2. \A u \in Uploads : KeysOf(u) \subseteq Keys BY DEF Keys, KeysOf
<1>3. \A u \in Uploads : IsFiniteSet(KeysOf(u)) BY <1>1, <1>2, FS_Subset
<1> QED BY <1>1, <1>2, <1>3

LEMMA KeysApart ==
  ASSUME NEW u, NEW v, u # v
  PROVE  KeysOf(u) \cap KeysOf(v) = {}
BY DEF KeysOf

\* The keys the running pass still has to try.
Swept == IF sweep = None THEN {} ELSE RangeOf(sweep)

\* A pass starts with keys that are listed.
LEMMA SweepStartsWithTheListed ==
  ASSUME orphans \in Seq(Keys), StartSweep
  PROVE  /\ sweep' \in Seq(Keys) \ {<<>>}
         /\ RangeOf(sweep') \subseteq Listed
<1>1. PICK n : n = Len(orphans) OBVIOUS
<1>2. n \in Nat \ {0} /\ DOMAIN orphans = 1..n
  BY <1>1, LenProperties, EmptySeq DEF StartSweep
<1>3. PICK m : m = IF n < OrphanBatch THEN n ELSE OrphanBatch OBVIOUS
<1>4. m \in 1..n BY <1>2, <1>3, LibraryAssumption
<1>5. PICK t : t = SubSeq(orphans, 1, m) OBVIOUS
<1>6. \A i \in 1..m : orphans[i] \in Keys
  <2>1. \A i \in 1..m : i \in 1..Len(orphans) BY <1>1, <1>2, <1>4
  <2> QED BY <2>1, ElementOfSeq
<1>7. 1 \in Int /\ m \in Int /\ (IF 1 <= m THEN m - 1 + 1 ELSE 0) = m /\ m - 1 + 1 = m
  BY <1>2, <1>4
<1>8. t \in Seq(Keys) /\ Len(t) = IF 1 <= m THEN m - 1 + 1 ELSE 0
  BY <1>5, <1>6, <1>7, SubSeqProperties
<1>9. \A i \in 1..m - 1 + 1 : t[i] = orphans[1 + i - 1]
  BY <1>5, <1>6, <1>7, SubSeqProperties
<1>10. \A i \in 1..m : t[i] = orphans[i]
  <2>1. \A i \in 1..m : 1 + i - 1 = i BY <1>4
  <2> QED BY <1>7, <1>9, <2>1
<1>11. Len(t) = m /\ DOMAIN t = 1..m BY <1>7, <1>8, LenProperties
<1>12. t # <<>> BY <1>2, <1>4, <1>11
<1>13. RangeOf(t) \subseteq Listed
  <2>1. \A i \in 1..m : i \in 1..n BY <1>2, <1>4
  <2> QED BY <1>2, <1>10, <1>11, <2>1 DEF RangeOf, Listed
<1>14. sweep' = t BY <1>1, <1>3, <1>5 DEF StartSweep
<1> QED BY <1>8, <1>12, <1>13, <1>14

LEMMA BatchGoesOn ==
  ASSUME sweep \in Seq(Keys) \ {<<>>}
  PROVE  /\ Head(sweep) \in RangeOf(sweep) /\ Head(sweep) \in Keys
         /\ NextOfBatch = None \/ (/\ NextOfBatch \in Seq(Keys) \ {<<>>}
                                   /\ RangeOf(NextOfBatch) \subseteq RangeOf(sweep))
<1>1. /\ Head(sweep) \in RangeOf(sweep) /\ Head(sweep) = sweep[1]
      /\ Tail(sweep) \in Seq(Keys) /\ RangeOf(Tail(sweep)) \subseteq RangeOf(sweep)
  BY RangeOfTail
<1>2. Len(sweep) \in Nat \ {0} BY LenProperties, EmptySeq
<1>3. Head(sweep) \in Keys
  <2>1. 1 \in 1..Len(sweep) BY <1>2
  <2> QED BY <1>1, <2>1, ElementOfSeq
<1>4. Len(Tail(sweep)) = Len(sweep) - 1 BY HeadTailProperties
<1>5. ASSUME Len(sweep) # 1 PROVE Tail(sweep) # <<>>
  <2>1. Len(Tail(sweep)) # 0 BY <1>2, <1>4, <1>5
  <2>2. Len(<<>>) = 0 OBVIOUS
  <2> QED BY <2>1, <2>2
<1> QED BY <1>1, <1>3, <1>5 DEF NextOfBatch

LEMMA TypesStart == Init => LibraryTypeOK
<1> SUFFICES ASSUME Init PROVE LibraryTypeOK
  OBVIOUS
<1>1. GateTypeOK BY GateStarts DEF Init, GateInv
<1> QED BY <1>1 DEF Init, LibraryTypeOK, Steps, Idle, Keys

\* What finish leaves of the types, and what deletions do to the list.
LEMMA FinishTyped ==
  ASSUME LibraryTypeOK, NEW u \in Uploads, Finish(u)
  PROVE  step' \in [Uploads -> Steps]
BY DEF LibraryTypeOK, Finish, Steps

LEMMA TypesKept ==
  ASSUME LibraryTypeOK, GateInv, [Next]_vars
  PROVE  LibraryTypeOK'
<1>1. GateTypeOK' BY LibraryStepsTheGate, GateKept DEF GateInv
<1>2. orphans \in Seq(Keys) BY DEF LibraryTypeOK
<1>3. ASSUME NEW u \in Uploads, Upload(u) PROVE LibraryTypeOK'
  <2>1. CASE Enter(u) \/ GiveUp(u)
    BY <1>1, <2>1 DEF Enter, GiveUp, Gated, LibraryTypeOK, store, tables
  <2>2. CASE Refuse(u)
    BY <1>1, <2>2, FinishTyped DEF Refuse, LibraryTypeOK, store, tables
  <2>3. CASE StartPuts(u)
    BY <1>1, <2>3, KeysAreFinite DEF StartPuts, LibraryTypeOK, Steps, tables
  <2>4. CASE Insert(u)
    <3>1. step' \in [Uploads -> Steps]
      BY <2>4, FinishTyped DEF Insert, LibraryTypeOK, Steps
    <3>2. rows' \subseteq Uploads /\ used' \subseteq rows' BY <2>4 DEF Insert, LibraryTypeOK
    <3> QED BY <1>1, <2>4, <3>1, <3>2 DEF Insert, LibraryTypeOK, store
  <2>5. CASE Record(u)
    <3>1. step' \in [Uploads -> Steps]
      BY <2>5, FinishTyped DEF Record, LibraryTypeOK, Steps
    <3>2. PICK keys : keys = written \cap KeysOf(u) OBVIOUS
    <3>3. keys \subseteq Keys /\ IsFiniteSet(keys)
      BY <3>2, KeysAreFinite, FS_Subset DEF LibraryTypeOK
    <3>4. orphans' = orphans \/ orphans' = Listing(keys) BY <2>5, <3>2 DEF Record
    <3>5. orphans' \in Seq(Keys) BY <1>2, <3>3, <3>4, ListingAddsTheKeys
    <3> QED BY <1>1, <2>5, <3>1, <3>5 DEF Record, LibraryTypeOK, store
  <2>6. CASE Abandon(u)
    <3>1. step' \in [Uploads -> Steps] BY <2>6, FinishTyped DEF Abandon
    <3>2. PICK forgotten : orphans' = Unlisted(forgotten) BY <2>6 DEF Abandon
    <3>3. orphans' \in Seq(Keys) BY <1>2, <3>2, UnlistedLeavesTheOthers
    <3>4. objects' \subseteq objects /\ flight' = flight BY <2>6 DEF Abandon, StoreDeletes
    <3> QED BY <1>1, <2>6, <3>1, <3>3, <3>4 DEF Abandon, LibraryTypeOK
  <2> QED BY <1>3, <2>1, <2>2, <2>3, <2>4, <2>5, <2>6 DEF Upload
<1>4. ASSUME NEW u \in Uploads, Use(u) PROVE LibraryTypeOK'
  BY <1>1, <1>4 DEF Use, LibraryTypeOK, store
<1>5. ASSUME NEW k \in Keys, Put(k) PROVE LibraryTypeOK'
  <2>1. CASE StorePut(k) BY <1>1, <1>5, <2>1 DEF StorePut, LibraryTypeOK, tables
  <2>2. k[1] \in Uploads BY DEF Keys
  <2>3. CASE PutResolves(k)
    BY <1>1, <1>5, <2>2, <2>3 DEF PutResolves, LibraryTypeOK, tables, store, Steps
  <2>4. CASE PutRejects(k)
    BY <1>1, <1>5, <2>2, <2>4 DEF PutRejects, LibraryTypeOK, tables, store, Steps
  <2> QED BY <1>5, <2>1, <2>3, <2>4 DEF Put
<1>6. ASSUME NEW d \in Deleters, (\E u \in Uploads : CheckReferences(d, u))
                                 \/ DeleteRow(d) \/ RemoveObjects(d)
      PROVE  LibraryTypeOK'
  <2>1. CASE \E u \in Uploads : CheckReferences(d, u)
    BY <1>1, <1>6, <2>1 DEF CheckReferences, LibraryTypeOK, tables, store
  <2>2. CASE DeleteRow(d)
    <3>1. PICK u : u = deletion[d].asset OBVIOUS
    <3>2. deletion' \in [Deleters -> [phase : {"idle", "checked", "removing"},
                                      asset : Uploads \cup {None}]]
      BY <1>6, <2>2 DEF DeleteRow, LibraryTypeOK, Idle
    <3>3. rows' \subseteq Uploads /\ used' \subseteq rows'
      BY <2>2 DEF DeleteRow, LibraryTypeOK, InUse
    <3>4. orphans' = orphans \/ (u \in rows /\ orphans' = Listing(KeysOf(u)))
      BY <2>2, <3>1 DEF DeleteRow
    <3>5. orphans' \in Seq(Keys)
      BY <1>2, <3>4, KeysAreFinite, ListingAddsTheKeys DEF LibraryTypeOK
    <3> QED BY <1>1, <2>2, <3>2, <3>3, <3>5 DEF DeleteRow, LibraryTypeOK, store
  <2>3. CASE RemoveObjects(d)
    <3>1. PICK forgotten : orphans' = Unlisted(forgotten) BY <2>3 DEF RemoveObjects
    <3>2. orphans' \in Seq(Keys) BY <1>2, <3>1, UnlistedLeavesTheOthers
    <3>3. objects' \subseteq objects /\ flight' = flight
      BY <2>3 DEF RemoveObjects, StoreDeletes
    <3> QED BY <1>1, <2>3, <3>2, <3>3 DEF RemoveObjects, LibraryTypeOK, Idle
  <2> QED BY <1>6, <2>1, <2>2, <2>3
<1>7. CASE Sweep
  <2>1. CASE StartSweep
    BY <1>1, <1>2, <2>1, SweepStartsWithTheListed DEF StartSweep, LibraryTypeOK, store, tables
  <2>2. sweep # None => sweep \in Seq(Keys) \ {<<>>} BY DEF LibraryTypeOK
  <2>3. CASE SweepRemoves
    <3>1. orphans' \in Seq(Keys) BY <1>2, <2>3, UnlistedLeavesTheOthers DEF SweepRemoves
    <3>2. objects' \subseteq objects /\ flight' = flight
      BY <2>3 DEF SweepRemoves, StoreDeletes
    <3>3. sweep' = None \/ sweep' \in Seq(Keys) \ {<<>>}
      BY <2>2, <2>3, BatchGoesOn DEF SweepRemoves
    <3> QED BY <1>1, <2>3, <3>1, <3>2, <3>3 DEF SweepRemoves, LibraryTypeOK
  <2>4. CASE SweepFails
    <3>1. objects' \subseteq objects /\ flight' = flight
      BY <2>4 DEF SweepFails, StoreDeletes
    <3>2. sweep' = None \/ sweep' \in Seq(Keys) \ {<<>>}
      BY <2>2, <2>4, BatchGoesOn DEF SweepFails
    <3> QED BY <1>1, <2>4, <3>1, <3>2 DEF SweepFails, LibraryTypeOK, tables
  <2> QED BY <1>7, <2>1, <2>3, <2>4 DEF Sweep
<1>8. CASE Crash
  BY <1>1, <1>8 DEF Crash, LibraryTypeOK, store, tables, Steps, Idle
<1>9. CASE UNCHANGED vars BY <1>1, <1>9 DEF LibraryTypeOK, vars, store, tables
<1> QED BY <1>3, <1>4, <1>5, <1>6, <1>7, <1>8, <1>9 DEF Next

\* Once a key is listed it stays listed until its object is gone, and a row that
\* goes leaves its objects listed: the notes are taken away after the objects,
\* whatever fails in between (deleteMedia, abandonObjects, sweepOrphans).  A
\* deletion the store answers in part is the exception the premise leaves out.
THEOREM LeftoversStayListed == "some" \notin Deleting => (Spec => ObjectsStayListed)
<1> DEFINE Told == /\ \A u \in rows \ rows' : KeysOf(u) \subseteq RangeOf(orphans')
                   /\ \A k \in Listed : k \notin RangeOf(orphans') => k \notin objects'
<1>1. ASSUME "some" \notin Deleting, LibraryTypeOK, [Next]_vars PROVE Told
  <2>1. orphans \in Seq(Keys) /\ rows \subseteq Uploads BY <1>1 DEF LibraryTypeOK
  <2>2. ASSUME rows' = rows, NEW keys, StoreDeletes(keys, TRUE) \/ StoreDeletes(keys, FALSE),
               NEW forgotten, forgotten \subseteq keys,
               StoreDeletes(keys, TRUE) \/ forgotten = {}, orphans' = Unlisted(forgotten)
        PROVE  Told
    <3>1. RangeOf(orphans') = Listed \ forgotten BY <2>1, <2>2, UnlistedLeavesTheOthers
    <3>2. CASE forgotten = {} BY <2>2, <3>1, <3>2
    <3>3. CASE StoreDeletes(keys, TRUE)
      <4>1. objects' = objects \ keys BY <1>1, <3>3 DEF StoreDeletes
      <4> QED BY <2>2, <3>1, <4>1
    <3> QED BY <2>2, <3>2, <3>3
  <2>3. ASSUME rows' = rows, orphans' = orphans PROVE Told BY <2>3 DEF Listed, RangeOf
  <2>4. ASSUME NEW u \in Uploads, Upload(u) PROVE Told
    <3>1. CASE Enter(u) \/ GiveUp(u) \/ Refuse(u) \/ StartPuts(u)
      BY <2>3, <3>1 DEF Enter, GiveUp, Gated, Refuse, StartPuts, tables
    <3>2. CASE Insert(u)
      <4>1. orphans' = orphans /\ rows \ rows' = {} BY <3>2 DEF Insert
      <4> QED BY <4>1 DEF Listed, RangeOf
    <3>3. CASE Record(u)
      <4>1. PICK keys : keys = written \cap KeysOf(u) OBVIOUS
      <4>2. keys \subseteq Keys /\ IsFiniteSet(keys)
        BY <2>4, <4>1, KeysAreFinite, FS_Subset
      <4>3. rows' = rows /\ (orphans' = orphans \/ orphans' = Listing(keys))
        BY <3>3, <4>1 DEF Record
      <4>4. CASE orphans' = Listing(keys)
        BY <2>1, <4>2, <4>3, <4>4, ListingAddsTheKeys
      <4> QED BY <2>3, <4>3, <4>4
    <3>4. CASE Abandon(u)
      <4>1. PICK keys : keys = written \cap KeysOf(u) OBVIOUS
      <4>2. PICK resolves \in BOOLEAN :
              /\ StoreDeletes(keys, resolves)
              /\ \E forgotten \in SUBSET keys :
                   (~resolves => forgotten = {}) /\ orphans' = Unlisted(forgotten)
        BY <3>4, <4>1 DEF Abandon
      <4>3. rows' = rows BY <3>4 DEF Abandon
      <4> QED BY <2>2, <4>2, <4>3
    <3> QED BY <2>4, <3>1, <3>2, <3>3, <3>4 DEF Upload
  <2>5. ASSUME NEW u \in Uploads, Use(u) PROVE Told BY <2>3, <2>5 DEF Use
  <2>6. ASSUME NEW k \in Keys, Put(k) PROVE Told
    BY <2>3, <2>6 DEF Put, StorePut, PutResolves, PutRejects, tables
  <2>7. ASSUME NEW d \in Deleters, DeleteRow(d) PROVE Told
    <3>1. PICK u : u = deletion[d].asset OBVIOUS
    <3>2. CASE u \in rows /\ ~InUse(u)
      <4>1. rows' = rows \ {u} /\ orphans' = Listing(KeysOf(u)) BY <2>7, <3>1, <3>2 DEF DeleteRow
      <4>2. KeysOf(u) \subseteq Keys /\ IsFiniteSet(KeysOf(u)) BY <2>1, <3>2, KeysAreFinite
      <4>3. RangeOf(orphans') = Listed \cup KeysOf(u) BY <2>1, <4>1, <4>2, ListingAddsTheKeys
      <4> QED BY <4>1, <4>3
    <3>3. CASE ~(u \in rows /\ ~InUse(u)) BY <2>3, <2>7, <3>1, <3>3 DEF DeleteRow
    <3> QED BY <3>2, <3>3
  <2>8. ASSUME NEW d \in Deleters, RemoveObjects(d) PROVE Told
    <3>1. PICK keys : keys = KeysOf(deletion[d].asset) OBVIOUS
    <3>2. PICK resolves \in BOOLEAN :
            /\ StoreDeletes(keys, resolves)
            /\ \E forgotten \in SUBSET keys :
                 (~resolves => forgotten = {}) /\ orphans' = Unlisted(forgotten)
      BY <2>8, <3>1 DEF RemoveObjects
    <3>3. rows' = rows BY <2>8 DEF RemoveObjects
    <3> QED BY <2>2, <3>2, <3>3
  <2>9. ASSUME NEW d \in Deleters, NEW u \in Uploads, CheckReferences(d, u) PROVE Told
    BY <2>3, <2>9 DEF CheckReferences, tables
  <2>10. CASE Sweep
    <3>1. CASE StartSweep BY <2>3, <3>1 DEF StartSweep, tables
    <3>2. CASE SweepFails BY <2>3, <3>2 DEF SweepFails, tables
    <3>3. CASE SweepRemoves
      <4>1. PICK keys : keys = {Head(sweep)} OBVIOUS
      <4>2. rows' = rows /\ StoreDeletes(keys, TRUE) /\ orphans' = Unlisted(keys)
        BY <3>3, <4>1 DEF SweepRemoves
      <4> QED BY <2>2, <4>2
    <3> QED BY <2>10, <3>1, <3>2, <3>3 DEF Sweep
  <2>11. CASE Crash BY <2>3, <2>11 DEF Crash, tables
  <2>12. CASE UNCHANGED vars BY <2>3, <2>12 DEF vars, tables
  <2> HIDE DEF Told
  <2> QED BY <1>1, <2>4, <2>5, <2>6, <2>7, <2>8, <2>9, <2>10, <2>11, <2>12 DEF Next
<1>2. LibraryTypeOK /\ GateInv /\ [Next]_vars => LibraryTypeOK' /\ GateInv'
  BY TypesKept, GateKept, LibraryStepsTheGate
<1>3. Init => LibraryTypeOK /\ GateInv BY TypesStart, GateStarts DEF Init
<1>4. "some" \notin Deleting /\ LibraryTypeOK /\ [Next]_vars
      => [\A u \in rows \ rows' : KeysOf(u) \subseteq {orphans'[i] : i \in DOMAIN orphans'}]_vars
  BY <1>1 DEF RangeOf
<1>5. "some" \notin Deleting /\ LibraryTypeOK /\ [Next]_vars
      => [\A k \in Listed : k \notin {orphans'[i] : i \in DOMAIN orphans'} => k \notin objects']_vars
  BY <1>1 DEF RangeOf
<1>6. ASSUME "some" \notin Deleting PROVE Spec => ObjectsStayListed
  <2>1. LibraryTypeOK /\ [Next]_vars
      => [\A u \in rows \ rows' : KeysOf(u) \subseteq {orphans'[i] : i \in DOMAIN orphans'}]_vars
    BY <1>4, <1>6
  <2>2. LibraryTypeOK /\ [Next]_vars
      => [\A k \in Listed : k \notin {orphans'[i] : i \in DOMAIN orphans'} => k \notin objects']_vars
    BY <1>5, <1>6
  <2> QED BY <1>2, <1>3, <2>1, <2>2, PTL
          DEF Spec, ObjectsStayListed, DeletionsAreListed, NotesOutliveObjects
<1> QED BY <1>6

-----------------------------------------------------------------------------
(* An asset with a row is stored, and none of its keys is on the way out.  *)

\* A request that has not sent its objects yet, and one that has and may still
\* come to write its row.
Fresh(u) == turn[u] \in {"new", "waiting"} \/ (turn[u] = "admitted" /\ step[u] = "idle")
Active(u) == step[u] \in {"putting", "inserting"}
Live(u) == Fresh(u) \/ Active(u) \/ u \in rows

\* The objects of u are being removed by a request that took its row away.
Removing(u) == \E d \in Deleters : deletion[d].phase = "removing" /\ deletion[d].asset = u

\* What holds of each asset.
Sound(u) ==
  /\ step[u] # "idle" => turn[u] = "admitted"
  /\ u \in rows => turn[u] = "over" /\ KeysOf(u) \subseteq objects
  /\ Fresh(u) => KeysOf(u) \cap (owed \cup written) = {}
  /\ Active(u) => written \cap KeysOf(u) \subseteq objects
  /\ step[u] = "inserting" => KeysOf(u) \subseteq written
  /\ Live(u) => KeysOf(u) \cap (Listed \cup Swept) = {} /\ ~Removing(u)

AssetsInv == LibraryTypeOK /\ GateInv /\ \A u \in Uploads : Sound(u)

\* The turn of a request others may move: from the queue to a permit.
Handed(u) == turn'[u] = turn[u] \/ (turn[u] = "waiting" /\ turn'[u] = "admitted")

\* A step that does not touch an asset leaves it sound.
LEMMA UntouchedStaysSound ==
  ASSUME NEW v, Sound(v), Handed(v),
         step'[v] = step[v],
         v \in rows' => v \in rows,
         KeysOf(v) \cap owed' \subseteq owed,
         KeysOf(v) \cap written' = KeysOf(v) \cap written,
         Live(v) => KeysOf(v) \cap objects \subseteq objects',
         Live(v) => KeysOf(v) \cap (Listed' \cup Swept') \subseteq Listed \cup Swept,
         Live(v) /\ Removing(v)' => Removing(v)
  PROVE  Sound(v)'
<1>1. Fresh(v)' => Fresh(v) BY DEF Fresh, Handed, Sound
<1>2. Active(v)' => Active(v) BY DEF Active
<1>3. Live(v)' => Live(v) BY <1>1, <1>2 DEF Live
<1>4. step'[v] # "idle" => turn'[v] = "admitted" BY DEF Handed, Sound
<1>5. v \in rows' => turn'[v] = "over" /\ KeysOf(v) \subseteq objects'
  BY DEF Handed, Sound, Live
<1>6. Fresh(v)' => KeysOf(v) \cap (owed' \cup written') = {} BY <1>1 DEF Sound
<1>7. Active(v)' => written' \cap KeysOf(v) \subseteq objects'
  BY <1>2 DEF Sound, Live
<1>8. step'[v] = "inserting" => KeysOf(v) \subseteq written' BY DEF Sound
<1>9. Live(v)' => KeysOf(v) \cap (Listed' \cup Swept') = {} /\ ~Removing(v)'
  BY <1>3 DEF Sound
<1> QED BY <1>4, <1>5, <1>6, <1>7, <1>8, <1>9 DEF Sound, KeysOf

\* A request that is through, without a row, asks for nothing.
LEMMA ThroughIsSound ==
  ASSUME NEW v, step'[v] = "idle", turn'[v] \in {"refused", "gone", "over"}, v \notin rows'
  PROVE  Sound(v)'
BY DEF Sound, Live, Fresh, Active

\* What finish does to the requests.
LEMMA FinishHands ==
  ASSUME AssetsInv, NEW u \in Uploads, Finish(u)
  PROVE  /\ turn[u] = "admitted" /\ turn'[u] = "over" /\ step'[u] = "idle"
         /\ u \notin rows
         /\ \A v \in Uploads : v # u => Handed(v) /\ step'[v] = step[v]
<1>1. Release(u) /\ step' = [step EXCEPT ![u] = "idle"] BY DEF Finish
<1>2. /\ queue \in Seq(Uploads) /\ turn \in [Uploads -> Turns] /\ step \in [Uploads -> Steps]
      /\ turn[u] = "admitted"
  BY <1>1 DEF AssetsInv, LibraryTypeOK, GateTypeOK, Release
<1>3. CASE queue = <<>>
  BY <1>1, <1>2, <1>3 DEF Release, Handed, AssetsInv, Sound
<1>4. CASE queue # <<>>
  <2>1. PICK w : w = Head(queue) OBVIOUS
  <2>2. w \in Uploads /\ w \in RangeOf(queue)
    <3>1. w \in RangeOf(queue) /\ w = queue[1] BY <1>2, <1>4, <2>1, RangeOfTail
    <3>2. 1 \in 1..Len(queue) BY <1>2, <1>4, LenProperties, EmptySeq
    <3> QED BY <1>2, <3>1, <3>2, ElementOfSeq
  <2>3. turn[w] = "waiting"
    BY <2>2 DEF AssetsInv, GateInv, GateHolds, WaitersQueued, InQueue, RangeOf
  <2>4. turn' = [turn EXCEPT ![u] = "over", ![w] = "admitted"] BY <1>1, <1>4, <2>1 DEF Release
  <2> QED BY <1>1, <1>2, <2>2, <2>3, <2>4 DEF Handed, AssetsInv, Sound
<1> QED BY <1>3, <1>4

LEMMA AssetsStart == Init => AssetsInv
<1> SUFFICES ASSUME Init PROVE AssetsInv
  OBVIOUS
<1>1. LibraryTypeOK /\ GateInv BY TypesStart, GateStarts DEF Init
<1>2. ASSUME NEW u \in Uploads PROVE Sound(u)
  <2>1. Listed = {} BY DEF Init, Listed
  <2>2. Swept = {} BY DEF Init, Swept
  <2>3. ~Removing(u) BY DEF Init, Removing, Idle
  <2> QED BY <2>1, <2>2, <2>3 DEF Init, Sound, Live, Fresh, Active
<1> QED BY <1>1, <1>2 DEF AssetsInv

\* The handler of an upload.
LEMMA UploadKeepsAssets ==
  ASSUME AssetsInv, "lost" \notin Inserting, NEW u \in Uploads, Upload(u), NEW v \in Uploads
  PROVE  Sound(v)'
<1>1. Sound(v) /\ Sound(u) BY DEF AssetsInv
<1>2. step \in [Uploads -> Steps] /\ turn \in [Uploads -> Turns] /\ orphans \in Seq(Keys)
  BY DEF AssetsInv, LibraryTypeOK, GateTypeOK
<1>3. v # u => KeysOf(v) \cap KeysOf(u) = {} BY KeysApart
<1>4. ASSUME UNCHANGED <<orphans, sweep>>
      PROVE  Listed' = Listed /\ Swept' = Swept
  BY <1>4 DEF Listed, Swept, RangeOf
<1>5. deletion' = deletion => (Removing(v)' = Removing(v)) BY DEF Removing
<1>6. CASE Enter(u) \/ GiveUp(u)
  <2>1. UNCHANGED <<step, owed, written, store, tables, deletion, sweep>>
    BY <1>6 DEF Enter, GiveUp, Gated
  <2>2. /\ turn[u] \in {"new", "waiting"}
        /\ turn'[u] \in {"admitted", "refused", "waiting", "gone"}
        /\ v # u => turn'[v] = turn[v]
    BY <1>2, <1>6 DEF Enter, GiveUp, Gated, Admit, Saturated, Wait, TimeOut, Abort, Leave
  <2>3. CASE v # u
    BY <1>1, <1>4, <1>5, <2>1, <2>2, <2>3, UntouchedStaysSound DEF Handed, store, tables
  <2>4. CASE v = u
    <3>1. step[u] = "idle" /\ u \notin rows /\ Fresh(u) BY <1>1, <2>2 DEF Sound, Fresh
    <3>2. CASE turn'[u] \in {"refused", "gone"}
      BY <2>1, <2>4, <3>1, <3>2, ThroughIsSound DEF tables
    <3>3. CASE turn'[u] \in {"waiting", "admitted"}
      BY <1>1, <1>4, <1>5, <2>1, <2>4, <3>1, <3>3 DEF Sound, Live, Fresh, Active, store, tables
    <3> QED BY <2>2, <3>2, <3>3
  <2> QED BY <2>3, <2>4
<1>7. CASE Refuse(u)
  <2>1. Finish(u) /\ UNCHANGED <<owed, written, store, tables, deletion, sweep>>
    BY <1>7 DEF Refuse
  <2>2. CASE v # u
    BY <1>1, <1>4, <1>5, <2>1, <2>2, FinishHands, UntouchedStaysSound DEF store, tables
  <2>3. CASE v = u BY <2>1, <2>3, FinishHands, ThroughIsSound DEF tables
  <2> QED BY <2>2, <2>3
<1>8. CASE StartPuts(u)
  <2>1. /\ turn[u] = "admitted" /\ step[u] = "idle" /\ turn' = turn
        /\ step' = [step EXCEPT ![u] = "putting"] /\ owed' = owed \cup KeysOf(u)
        /\ UNCHANGED <<written, objects, rows, orphans, deletion, sweep>>
    BY <1>8 DEF StartPuts, gate, tables
  <2>2. CASE v # u
    BY <1>1, <1>2, <1>3, <1>4, <1>5, <2>1, <2>2, UntouchedStaysSound DEF Handed
  <2>3. CASE v = u
    <3>1. Fresh(u) /\ step'[u] = "putting" /\ u \notin rows
      BY <1>1, <1>2, <2>1 DEF Fresh, Sound
    <3>2. KeysOf(u) \cap written = {} BY <1>1, <3>1 DEF Sound
    <3> QED BY <1>1, <1>4, <1>5, <2>1, <2>3, <3>1, <3>2 DEF Sound, Live, Fresh, Active
  <2> QED BY <2>2, <2>3
<1>9. CASE Insert(u)
  <2>1. PICK end \in Inserting :
          /\ rows' = IF end = "failed" THEN rows ELSE rows \cup {u}
          /\ IF end = "ok" THEN Finish(u)
             ELSE step' = [step EXCEPT ![u] = "recording"] /\ UNCHANGED gate
    BY <1>9 DEF Insert
  <2>2. end = "ok" \/ end = "failed" BY <2>1, LibraryAssumption
  <2>3. step[u] = "inserting" /\ UNCHANGED <<owed, written, objects, orphans, deletion, sweep>>
    BY <1>9 DEF Insert, store
  <2>4. CASE end = "ok"
    <3>1. Finish(u) /\ rows' = rows \cup {u} BY <2>1, <2>4
    <3>2. CASE v # u
      BY <1>1, <1>4, <1>5, <2>3, <3>1, <3>2, FinishHands, UntouchedStaysSound
    <3>3. CASE v = u
      <4>1. Active(u) /\ Live(u) BY <2>3 DEF Active, Live
      <4>2. KeysOf(u) \subseteq objects BY <1>1, <2>3, <4>1 DEF Sound
      <4>3. turn'[u] = "over" /\ step'[u] = "idle" BY <3>1, FinishHands
      <4> QED BY <1>1, <1>4, <1>5, <2>3, <3>3, <4>1, <4>2, <4>3 DEF Sound, Live, Fresh, Active
    <3> QED BY <3>2, <3>3
  <2>5. CASE end = "failed"
    <3>1. rows' = rows /\ step' = [step EXCEPT ![u] = "recording"] /\ turn' = turn
      BY <2>1, <2>5 DEF gate
    <3>2. CASE v # u
      BY <1>1, <1>2, <1>4, <1>5, <2>3, <3>1, <3>2, UntouchedStaysSound DEF Handed
    <3>3. CASE v = u
      <4>1. step'[u] = "recording" /\ turn'[u] = "admitted" /\ u \notin rows'
        BY <1>1, <1>2, <2>3, <3>1 DEF Sound
      <4> QED BY <3>3, <4>1 DEF Sound, Live, Fresh, Active
    <3> QED BY <3>2, <3>3
  <2> QED BY <2>2, <2>4, <2>5
<1>10. CASE Record(u)
  <2>1. step[u] = "recording" /\ UNCHANGED <<owed, written, objects, rows, deletion, sweep>>
    BY <1>10 DEF Record, store
  <2>2. turn[u] = "admitted" /\ u \notin rows BY <1>1, <2>1 DEF Sound
  <2>3. PICK keys : keys = written \cap KeysOf(u) OBVIOUS
  <2>4. keys \subseteq Keys /\ IsFiniteSet(keys) /\ keys \subseteq KeysOf(u)
    BY <2>3, KeysAreFinite, FS_Subset
  <2>5. CASE Finish(u) /\ UNCHANGED orphans
    <3>1. CASE v # u
      BY <1>1, <1>4, <1>5, <2>1, <2>5, <3>1, FinishHands, UntouchedStaysSound
    <3>2. CASE v = u BY <2>1, <2>5, <3>2, FinishHands, ThroughIsSound
    <3> QED BY <3>1, <3>2
  <2>6. CASE /\ step' = [step EXCEPT ![u] = "removing"] /\ UNCHANGED gate
             /\ orphans' = orphans \/ orphans' = Listing(keys)
    <3>1. turn' = turn BY <2>6 DEF gate
    <3>2. Listed' \subseteq Listed \cup KeysOf(u)
      BY <1>2, <2>4, <2>6, ListingAddsTheKeys DEF Listed, RangeOf
    <3>3. Swept' = Swept BY <2>1 DEF Swept
    <3>4. CASE v # u
      BY <1>1, <1>2, <1>3, <1>5, <2>1, <2>6, <3>1, <3>2, <3>3, <3>4, UntouchedStaysSound
         DEF Handed
    <3>5. CASE v = u
      <4>1. step'[u] = "removing" /\ turn'[u] = "admitted" /\ u \notin rows'
        BY <1>2, <2>1, <2>2, <2>6, <3>1
      <4> QED BY <3>5, <4>1 DEF Sound, Live, Fresh, Active
    <3> QED BY <3>4, <3>5
  <2> QED BY <1>10, <2>3, <2>5, <2>6 DEF Record
<1>11. CASE Abandon(u)
  <2>1. PICK keys : keys = written \cap KeysOf(u) OBVIOUS
  <2>2. PICK forgotten : orphans' = Unlisted(forgotten) BY <1>11 DEF Abandon
  <2>3. /\ Finish(u) /\ UNCHANGED <<owed, written, rows, deletion, sweep>>
        /\ objects \ KeysOf(u) \subseteq objects'
    BY <1>11, <2>1 DEF Abandon, StoreDeletes
  <2>4. Listed' \subseteq Listed
    <3>1. RangeOf(orphans') = Listed \ forgotten BY <1>2, <2>2, UnlistedLeavesTheOthers
    <3> QED BY <3>1 DEF Listed, RangeOf
  <2>5. Swept' = Swept BY <2>3 DEF Swept
  <2>6. CASE v # u
    BY <1>1, <1>3, <1>5, <2>3, <2>4, <2>5, <2>6, FinishHands, UntouchedStaysSound
  <2>7. CASE v = u BY <2>3, <2>7, FinishHands, ThroughIsSound
  <2> QED BY <2>6, <2>7
<1> QED BY <1>6, <1>7, <1>8, <1>9, <1>10, <1>11 DEF Upload

\* The store, and the puts that settle.
LEMMA PutKeepsAssets ==
  ASSUME AssetsInv, NEW k \in Keys, Put(k), NEW v \in Uploads
  PROVE  Sound(v)'
<1>1. Sound(v) BY DEF AssetsInv
<1>2. step \in [Uploads -> Steps] BY DEF AssetsInv, LibraryTypeOK
<1>3. turn' = turn /\ UNCHANGED <<rows, orphans, deletion, sweep>>
  BY DEF Put, StorePut, PutResolves, PutRejects, gate, tables
<1>4. Listed' = Listed /\ Swept' = Swept BY <1>3 DEF Listed, Swept, RangeOf
<1>5. Removing(v)' = Removing(v) BY <1>3 DEF Removing
<1>6. PICK u \in Uploads : u = k[1] BY DEF Keys
<1>7. k \in KeysOf(u) BY <1>6 DEF Keys, KeysOf
<1>8. v # u => k \notin KeysOf(v) BY <1>6, <1>7, KeysApart
<1>9. CASE StorePut(k)
  BY <1>1, <1>3, <1>4, <1>5, <1>9, UntouchedStaysSound DEF StorePut, Handed
<1>10. CASE PutResolves(k)
  <2>1. /\ k \in owed /\ k \in objects /\ owed' = owed \ {k} /\ written' = written \cup {k}
        /\ step' = IF step[u] = "putting" /\ KeysOf(u) \subseteq written'
                   THEN [step EXCEPT ![u] = "inserting"] ELSE step
        /\ objects' = objects
    BY <1>6, <1>10 DEF PutResolves, store
  <2>2. CASE v # u
    BY <1>1, <1>2, <1>3, <1>4, <1>5, <1>8, <2>1, <2>2, UntouchedStaysSound DEF Handed
  <2>3. CASE v = u
    <3>1. ~Fresh(u) BY <1>1, <1>7, <2>1, <2>3 DEF Sound
    <3>2. step'[u] = step[u] \/ (step[u] = "putting" /\ step'[u] = "inserting"
                                 /\ KeysOf(u) \subseteq written')
      BY <1>2, <2>1
    <3>3. ~Fresh(u)' BY <1>3, <3>1, <3>2 DEF Fresh
    <3>4. Active(u)' => Active(u) BY <3>2 DEF Active
    <3>5. Live(u)' => Live(u) BY <1>3, <3>3, <3>4 DEF Live
    <3> QED BY <1>1, <1>3, <1>4, <1>5, <2>1, <2>3, <3>2, <3>3, <3>4, <3>5 DEF Sound, Active, KeysOf
  <2> QED BY <2>2, <2>3
<1>11. CASE PutRejects(k)
  <2>1. /\ k \in owed /\ owed' = owed \ {k} /\ written' = written /\ objects' = objects
        /\ step' = IF step[u] = "putting" THEN [step EXCEPT ![u] = "recording"] ELSE step
    BY <1>6, <1>11 DEF PutRejects, store
  <2>2. CASE step'[v] = step[v]
    BY <1>1, <1>3, <1>4, <1>5, <2>1, <2>2, UntouchedStaysSound DEF Handed
  <2>3. CASE step'[v] # step[v]
    <3>1. v = u /\ step[v] = "putting" /\ step'[v] = "recording" BY <1>2, <2>1, <2>3
    <3>2. turn'[v] = "admitted" /\ v \notin rows' BY <1>1, <1>3, <3>1 DEF Sound
    <3> QED BY <3>1, <3>2 DEF Sound, Live, Fresh, Active
  <2> QED BY <2>2, <2>3
<1> QED BY <1>9, <1>10, <1>11 DEF Put

\* DELETE /media/:id.
LEMMA DeletionKeepsAssets ==
  ASSUME AssetsInv, NEW d \in Deleters,
         (\E u \in Uploads : CheckReferences(d, u)) \/ DeleteRow(d) \/ RemoveObjects(d),
         NEW v \in Uploads
  PROVE  Sound(v)'
<1>1. Sound(v) BY DEF AssetsInv
<1>2. /\ deletion \in [Deleters -> [phase : {"idle", "checked", "removing"},
                                    asset : Uploads \cup {None}]]
      /\ orphans \in Seq(Keys) /\ rows \subseteq Uploads
  BY DEF AssetsInv, LibraryTypeOK
<1>3. turn' = turn /\ UNCHANGED <<step, owed, written, sweep>>
  BY DEF CheckReferences, DeleteRow, RemoveObjects, gate
<1>4. Swept' = Swept /\ Handed(v) BY <1>3 DEF Swept, Handed
<1>5. ASSUME NEW u \in Uploads, CheckReferences(d, u) PROVE Sound(v)'
  <2>1. UNCHANGED <<objects, rows, orphans>> BY <1>5 DEF CheckReferences, store, tables
  <2>2. Listed' = Listed BY <2>1 DEF Listed
  <2>3. Removing(v)' => Removing(v) BY <1>2, <1>5 DEF CheckReferences, Removing
  <2> QED BY <1>1, <1>3, <1>4, <2>1, <2>2, <2>3, UntouchedStaysSound
<1>6. PICK u : u = deletion[d].asset OBVIOUS
<1>7. v # u => KeysOf(v) \cap KeysOf(u) = {} BY KeysApart
<1>8. CASE DeleteRow(d)
  <2>1. objects' = objects /\ deletion[d].phase = "checked" BY <1>8 DEF DeleteRow, store
  <2>2. CASE u \in rows /\ ~InUse(u)
    <3>1. /\ rows' = rows \ {u} /\ orphans' = Listing(KeysOf(u))
          /\ deletion' = [deletion EXCEPT ![d].phase = "removing"]
      BY <1>6, <1>8, <2>2 DEF DeleteRow
    <3>2. Listed' = Listed \cup KeysOf(u)
      <4>1. KeysOf(u) \subseteq Keys /\ IsFiniteSet(KeysOf(u)) BY <1>2, <2>2, KeysAreFinite
      <4> QED BY ZenonT(60), <1>2, <3>1, <4>1, ListingAddsTheKeys DEF Listed, RangeOf
    <3>3. CASE v # u
      <4>1. Removing(v)' => Removing(v) BY <1>2, <1>6, <3>1, <3>3 DEF Removing
      <4> QED BY <1>1, <1>3, <1>4, <1>7, <2>1, <3>1, <3>2, <3>3, <4>1, UntouchedStaysSound
    <3>4. CASE v = u
      <4>1. turn'[v] = "over" /\ step'[v] = "idle" /\ v \notin rows'
        BY <1>1, <1>3, <2>2, <3>1, <3>4 DEF Sound
      <4> QED BY <4>1, ThroughIsSound
    <3> QED BY <3>3, <3>4
  <2>3. CASE ~(u \in rows /\ ~InUse(u))
    <3>1. /\ UNCHANGED <<rows, orphans>>
          /\ deletion' = [deletion EXCEPT ![d] = Idle]
      BY <1>6, <1>8, <2>3 DEF DeleteRow
    <3>2. Removing(v)' => Removing(v) BY <1>2, <3>1 DEF Removing, Idle
    <3>3. Listed' = Listed BY <3>1 DEF Listed
    <3> QED BY <1>1, <1>3, <1>4, <2>1, <3>1, <3>2, <3>3, UntouchedStaysSound
  <2> QED BY <2>2, <2>3
<1>9. CASE RemoveObjects(d)
  <2>1. PICK forgotten : orphans' = Unlisted(forgotten) BY <1>9 DEF RemoveObjects
  <2>2. /\ deletion[d].phase = "removing" /\ rows' = rows
        /\ deletion' = [deletion EXCEPT ![d] = Idle]
        /\ objects \ KeysOf(u) \subseteq objects'
    BY <1>6, <1>9 DEF RemoveObjects, StoreDeletes
  <2>3. Listed' \subseteq Listed
    <3>1. RangeOf(orphans') = Listed \ forgotten BY <1>2, <2>1, UnlistedLeavesTheOthers
    <3> QED BY <3>1 DEF Listed, RangeOf
  <2>4. Removing(v)' => Removing(v) BY <1>2, <2>2 DEF Removing, Idle
  <2>5. Live(v) => v # u BY <1>1, <1>6, <2>2 DEF Sound, Removing
  <2> QED BY <1>1, <1>3, <1>4, <1>7, <2>2, <2>3, <2>4, <2>5, UntouchedStaysSound
<1> QED BY <1>5, <1>8, <1>9

\* The sweep, and the documents that name assets.
LEMMA SweepKeepsAssets ==
  ASSUME AssetsInv, Sweep, NEW v \in Uploads
  PROVE  Sound(v)'
<1>1. Sound(v) BY DEF AssetsInv
<1>2. orphans \in Seq(Keys) /\ (sweep # None => sweep \in Seq(Keys) \ {<<>>})
  BY DEF AssetsInv, LibraryTypeOK
<1>3. turn' = turn /\ UNCHANGED <<step, owed, written, rows, deletion>>
  BY DEF Sweep, StartSweep, SweepRemoves, SweepFails, gate, tables
<1>4. Handed(v) /\ Removing(v)' = Removing(v) BY <1>3 DEF Handed, Removing
<1>5. CASE StartSweep
  <2>1. objects' = objects /\ orphans' = orphans BY <1>5 DEF StartSweep, store, tables
  <2>2. Listed' = Listed BY <2>1 DEF Listed
  <2>3. Swept' \subseteq Listed BY <1>2, <1>5, SweepStartsWithTheListed DEF Swept
  <2> QED BY <1>1, <1>3, <1>4, <2>1, <2>2, <2>3, UntouchedStaysSound
<1>6. CASE SweepRemoves \/ SweepFails
  <2>1. /\ sweep # None /\ sweep' \in {NextOfBatch, None}
        /\ objects \ {Head(sweep)} \subseteq objects'
    BY <1>6 DEF SweepRemoves, SweepFails, StoreDeletes
  <2>2. Listed' \subseteq Listed
    <3>1. CASE SweepRemoves
      BY SMTT(60), <1>2, <3>1, UnlistedLeavesTheOthers DEF SweepRemoves, Listed, RangeOf
    <3>2. CASE SweepFails BY <3>2 DEF SweepFails, tables, Listed
    <3> QED BY <1>6, <3>1, <3>2
  <2>3. Head(sweep) \in Swept /\ Swept' \subseteq Swept
    BY <1>2, <2>1, BatchGoesOn DEF Swept
  <2>4. Live(v) => Head(sweep) \notin KeysOf(v) BY <1>1, <2>3 DEF Sound
  <2> QED BY <1>1, <1>3, <1>4, <2>1, <2>2, <2>3, <2>4, UntouchedStaysSound
<1> QED BY <1>5, <1>6 DEF Sweep

\* A restart takes what was in memory away, and no one who was in the gate comes back.
LEMMA CrashKeepsAssets ==
  ASSUME AssetsInv, Crash, NEW v \in Uploads
  PROVE  Sound(v)'
<1>1. Sound(v) BY DEF AssetsInv
<1>2. /\ turn'[v] = IF turn[v] \in {"waiting", "admitted"} THEN "gone" ELSE turn[v]
      /\ step'[v] = "idle" /\ owed' = {} /\ written' = {} /\ sweep' = None
      /\ UNCHANGED <<objects, rows, orphans>>
  BY DEF Crash, Restart, store, tables
<1>3. ~Removing(v)' BY DEF Crash, Removing, Idle
<1>4. Listed' = Listed /\ Swept' = {} BY <1>2 DEF Listed, Swept
<1>5. Fresh(v)' => Fresh(v) /\ turn'[v] = turn[v] BY <1>2 DEF Fresh
<1>6. Live(v)' => Live(v) BY <1>2, <1>5 DEF Live, Active
<1> QED BY <1>1, <1>2, <1>3, <1>4, <1>5, <1>6 DEF Sound, Active

LEMMA AssetsKept ==
  ASSUME "lost" \notin Inserting, AssetsInv, [Next]_vars
  PROVE  AssetsInv'
<1>1. LibraryTypeOK' /\ GateInv'
  BY TypesKept, GateKept, LibraryStepsTheGate DEF AssetsInv
<1>2. ASSUME NEW v \in Uploads PROVE Sound(v)'
  <2>1. Sound(v) BY DEF AssetsInv
  <2>2. ASSUME NEW u \in Uploads, Use(u) PROVE Sound(v)'
    <3>1. turn' = turn /\ UNCHANGED <<step, owed, written, objects, rows, orphans, deletion, sweep>>
      BY <2>2 DEF Use, gate, store
    <3>2. Listed' = Listed /\ Swept' = Swept /\ Removing(v)' = Removing(v) /\ Handed(v)
      BY <3>1 DEF Listed, Swept, RangeOf, Removing, Handed
    <3> QED BY <2>1, <3>1, <3>2, UntouchedStaysSound
  <2>3. CASE UNCHANGED vars
    <3>1. turn' = turn /\ UNCHANGED <<step, owed, written, objects, rows, orphans, deletion, sweep>>
      BY <2>3 DEF vars, gate, store, tables
    <3>2. Listed' = Listed /\ Swept' = Swept /\ Removing(v)' = Removing(v) /\ Handed(v)
      BY <3>1 DEF Listed, Swept, RangeOf, Removing, Handed
    <3> QED BY <2>1, <3>1, <3>2, UntouchedStaysSound
  <2> QED BY <2>2, <2>3, UploadKeepsAssets, PutKeepsAssets, DeletionKeepsAssets,
             SweepKeepsAssets, CrashKeepsAssets DEF Next
<1> QED BY <1>1, <1>2 DEF AssetsInv

\* A row names only objects the store has, and none of its keys is listed for
\* removal or in a batch the sweep read before, whatever uploads, deletions and
\* sweeps are doing and wherever the process dies (media/routes.ts).  The premise
\* leaves out the insert that is committed and whose answer is lost: there the
\* clean-up deletes the objects of an asset that exists.
THEOREM AssetsAlwaysHold == "lost" \notin Inserting => (Spec => []AssetsHold)
<1>1. ASSUME AssetsInv PROVE AssetsHold
  <2>1. rows \subseteq Uploads BY <1>1 DEF AssetsInv, LibraryTypeOK
  <2>2. RowsAreStored BY <1>1, <2>1 DEF AssetsInv, Sound, RowsAreStored
  <2>3. RowsAreNotOrphans
    BY <1>1, <2>1 DEF AssetsInv, Sound, Live, RowsAreNotOrphans, Swept, RangeOf
  <2> QED BY <1>1, <2>2, <2>3 DEF AssetsInv, AssetsHold
<1>2. ASSUME "lost" \notin Inserting PROVE Spec => []AssetsHold
  <2>1. AssetsInv /\ [Next]_vars => AssetsInv' BY <1>2, AssetsKept
  <2> QED BY <1>1, <2>1, AssetsStart, PTL DEF Spec
<1> QED BY <1>2

=============================================================================
