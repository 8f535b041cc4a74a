-------------------------------- MODULE Facts ---------------------------------
(***************************************************************************)
(* Lemmas about numbers and sequences that the proofs of the components    *)
(* share.                                                                  *)
(***************************************************************************)
EXTENDS Integers, SequencesExt, SequenceTheorems, WellFoundedInduction, TLAPS

(* A set of natural numbers has a least element, a bounded one a greatest. *)
LEMMA LeastExists ==
  ASSUME NEW S, S \subseteq Nat, S # {}
  PROVE  \E m \in S : \A j \in S : m <= j
<1> DEFINE R == OpToRel(<, Nat)
<1>1. IsWellFoundedOn(R, Nat)
  BY NatLessThanWellFounded
<1>2. \A x, y \in Nat : x < y => <<x, y>> \in R
  BY DEF OpToRel
<1>3. \E x \in S : \A y \in S : ~(<<y, x>> \in R)
  <2> HIDE DEF R
  <2> QED BY <1>1, WFMin
<1> HIDE DEF R
<1>4. PICK m \in S : \A y \in S : ~(<<y, m>> \in R)
  BY <1>3
<1>5. ASSUME NEW j \in S PROVE m <= j
  <2>1. ~(<<j, m>> \in R) /\ j \in Nat /\ m \in Nat
    BY <1>4
  <2>2. ~(j < m)
    BY <1>2, <2>1
  <2> QED BY <2>1, <2>2
<1> QED BY <1>5

LEMMA GreatestExists ==
  ASSUME NEW n \in Nat, NEW S, S \subseteq 1 .. n, S # {}
  PROVE  \E m \in S : \A j \in S : j <= m
<1> DEFINE T == {n - i : i \in S}
<1>1. T \subseteq Nat /\ T # {}
  <2>1. \A i \in S : i \in Nat /\ n - i \in Nat
    OBVIOUS
  <2>2. PICK i \in S : TRUE
    OBVIOUS
  <2>3. n - i \in T
    BY <2>2
  <2> QED BY <2>1, <2>3
<1>2. PICK t \in T : \A u \in T : t <= u
  <2> HIDE DEF T
  <2> QED BY <1>1, LeastExists
<1>3. PICK m \in S : t = n - m
  BY <1>2
<1>4. ASSUME NEW j \in S PROVE j <= m
  <2>1. n - j \in T
    OBVIOUS
  <2>2. n - m <= n - j
    BY <1>2, <1>3, <2>1
  <2>3. j \in 1 .. n /\ m \in 1 .. n
    OBVIOUS
  <2> HIDE DEF T
  <2> QED BY <2>2, <2>3
<1> QED BY <1>4

(* Prepending to a sequence.                                              *)
LEMMA PrependFacts ==
  ASSUME NEW S, NEW e \in S, NEW s \in Seq(S)
  PROVE  /\ <<e>> \o s \in Seq(S)
         /\ DOMAIN (<<e>> \o s) = 1 .. Len(s) + 1
         /\ (<<e>> \o s)[1] = e
         /\ \A k \in 1 .. Len(s) : (<<e>> \o s)[k + 1] = s[k]
<1>1. <<e>> \in Seq(S) /\ Len(<<e>>) = 1 /\ <<e>>[1] = e
  OBVIOUS
<1>2. <<e>> \o s \in Seq(S) /\ Len(<<e>> \o s) = Len(s) + 1
  BY <1>1
<1>3. \A k \in 1 .. Len(s) : (<<e>> \o s)[k + 1] = s[k]
  BY <1>1
<1> QED BY <1>1, <1>2, <1>3

(* A sequence without its last element, written in two ways.               *)
LEMMA WithoutLast ==
  ASSUME NEW S, NEW s \in Seq(S), Len(s) > 1
  PROVE  LET t == SubSeq(s, 1, Len(s) - 1)
         IN  /\ t \in Seq(S)
             /\ Len(t) = Len(s) - 1
             /\ \A i \in 1 .. Len(s) - 1 : t[i] = s[i]
<1> DEFINE n == Len(s) - 1
<1>1. n \in Nat /\ n >= 1 /\ n <= Len(s)
  OBVIOUS
<1> HIDE DEF n
<1>2. SubSeq(s, 1, n) = [i \in 1 .. n |-> s[i]]
  BY <1>1
<1>3. \A i \in 1 .. n : s[i] \in S
  BY <1>1
<1>4. SubSeq(s, 1, n) \in Seq(S) /\ Len(SubSeq(s, 1, n)) = n
  BY <1>1, <1>2, <1>3
<1> QED BY <1>2, <1>4 DEF n

LEMMA FrontFacts ==
  ASSUME NEW S, NEW s \in Seq(S), s # <<>>
  PROVE  /\ Len(s) \in Nat \ {0}
         /\ Front(s) \in Seq(S)
         /\ Len(Front(s)) = Len(s) - 1
         /\ \A i \in 1 .. Len(s) - 1 : Front(s)[i] = s[i]
  <1> DEFINE n == Len(s) - 1
  <1>1. Len(s) \in Nat \ {0}
    BY EmptySeq
  <1>2. /\ Front(s) \in Seq(S)
        /\ \A i \in 1 .. Len(s) - 1 : Front(s)[i] = s[i]
    BY <1>1 DEF Front
  <1>3. SubSeq(s, 1, n) = [i \in 1 .. n |-> s[i]]
    BY <1>1
  <1>4. Len([i \in 1 .. n |-> s[i]]) = n
    BY <1>1
  <1>5. Front(s) = SubSeq(s, 1, n)
    BY DEF Front
  <1> HIDE DEF n
  <1>6. Len(Front(s)) = n
    BY <1>3, <1>4, <1>5
  <1>7. QED
    BY <1>1, <1>2, <1>6 DEF n

(* A sequence in which one element is replaced.                            *)
LEMMA Replaced ==
  ASSUME NEW S, NEW s \in Seq(S), NEW n \in 1 .. Len(s), NEW e \in S
  PROVE  /\ [s EXCEPT ![n] = e] \in Seq(S)
         /\ Len([s EXCEPT ![n] = e]) = Len(s)
         /\ DOMAIN [s EXCEPT ![n] = e] = 1 .. Len(s)
         /\ [s EXCEPT ![n] = e][n] = e
         /\ \A i \in 1 .. Len(s) : i # n => [s EXCEPT ![n] = e][i] = s[i]
  OBVIOUS
-----------------------------------------------------------------------------
(* Induction over an interval, with the set of the numbers that have the   *)
(* property in the place of the property.                                  *)
LEMMA UpTo ==
  ASSUME NEW n \in Nat, NEW S, 0 \in S,
         \A k \in 0 .. n - 1 : k \in S => k + 1 \in S
  PROVE  \A k \in 0 .. n : k \in S
<1> DEFINE Out == {k \in 0 .. n : k \notin S}
<1> SUFFICES ASSUME Out # {} PROVE FALSE
  OBVIOUS
<1>1. Out \subseteq Nat
  OBVIOUS
<1>2. PICK m \in Out : \A j \in Out : m <= j
  <2> HIDE DEF Out
  <2> QED BY <1>1, LeastExists
<1>3. m \in 0 .. n /\ m \notin S /\ m # 0
  BY <1>2
<1>4. m - 1 \in 0 .. n - 1 /\ m - 1 \in 0 .. n /\ m - 1 + 1 = m /\ ~(m <= m - 1)
  BY <1>3
<1>5. m - 1 \notin Out
  BY <1>2, <1>4
<1> QED BY <1>3, <1>4, <1>5

LEMMA DownTo ==
  ASSUME NEW n \in Nat, NEW S, n \in S,
         \A k \in 0 .. n - 1 : k + 1 \in S => k \in S
  PROVE  \A k \in 0 .. n : k \in S
<1> DEFINE R == {k \in 0 .. n : n - k \in S}
<1>1. 0 \in R
  OBVIOUS
<1>2. ASSUME NEW k \in 0 .. n - 1, k \in R PROVE k + 1 \in R
  <2>1. n - (k + 1) \in 0 .. n - 1 /\ n - (k + 1) + 1 = n - k /\ k + 1 \in 0 .. n
    OBVIOUS
  <2>2. n - k \in S
    BY <1>2
  <2> QED BY <2>1, <2>2
<1>3. \A k \in 0 .. n : k \in R
  <2> HIDE DEF R
  <2> QED BY <1>1, <1>2, UpTo
<1>4. ASSUME NEW k \in 0 .. n PROVE k \in S
  <2>1. n - k \in 0 .. n /\ n - (n - k) = k
    OBVIOUS
  <2>2. n - k \in R
    BY <1>3, <2>1
  <2> QED BY <2>1, <2>2
<1> QED BY <1>4

LEMMA FromAbove ==
  ASSUME NEW n \in Nat, NEW S,
         \A k \in 1 .. n : (\A j \in k + 1 .. n : j \in S) => k \in S
  PROVE  \A k \in 1 .. n : k \in S
<1> DEFINE R == {k \in 0 .. n : \A j \in k + 1 .. n : j \in S}
<1>1. n \in R
  OBVIOUS
<1>2. ASSUME NEW k \in 0 .. n - 1, k + 1 \in R PROVE k \in R
  <2>1. k + 1 \in 1 .. n /\ \A j \in k + 1 .. n : j = k + 1 \/ j \in k + 1 + 1 .. n
    OBVIOUS
  <2> QED BY <1>2, <2>1
<1>3. \A k \in 0 .. n : k \in R
  <2> HIDE DEF R
  <2> QED BY <1>1, <1>2, DownTo
<1>4. 0 \in R /\ 0 + 1 = 1
  BY <1>3
<1> QED BY <1>4

(* A recursive definition whose value at a number depends on the values at *)
(* larger numbers has a solution.                                          *)
Backward(n, V, step) ==
  /\ step \in [1 .. n -> [[1 .. n -> V] -> V]]
  /\ \A i \in 1 .. n : \A g, h \in [1 .. n -> V] :
       (\A j \in i + 1 .. n : g[j] = h[j]) => step[i][g] = step[i][h]

Solvable(n, V, step) == \E f \in [1 .. n -> V] : \A i \in 1 .. n : f[i] = step[i][f]

LEMMA Recursion ==
  ASSUME NEW n \in Nat \ {0}, NEW V, V # {}, NEW step, Backward(n, V, step)
  PROVE  Solvable(n, V, step)
<1>0. /\ step \in [1 .. n -> [[1 .. n -> V] -> V]]
      /\ \A i \in 1 .. n : \A g, h \in [1 .. n -> V] :
           (\A j \in i + 1 .. n : g[j] = h[j]) => step[i][g] = step[i][h]
  BY DEF Backward
<1> PICK v \in V : TRUE
  OBVIOUS
<1> DEFINE F == [1 .. n -> V]
           From(k) == \E f \in F : \A i \in k .. n : f[i] = step[i][f]
           S == {k \in 0 .. n - 1 : From(k + 1)}
<1>1. ASSUME NEW k \in 1 .. n, NEW f \in F, \A i \in k + 1 .. n : f[i] = step[i][f]
      PROVE  From(k)
  <2> DEFINE h == [f EXCEPT ![k] = step[k][f]]
  <2>1. step[k][f] \in V /\ h \in F /\ h[k] = step[k][f]
    BY <1>0
  <2>2. \A j \in 1 .. n : j # k => h[j] = f[j]
    OBVIOUS
  <2>3. ASSUME NEW i \in k .. n PROVE h[i] = step[i][h]
    <3> HIDE DEF h
    <3>1. i \in 1 .. n /\ \A j \in i + 1 .. n : j \in 1 .. n /\ j # k
      OBVIOUS
    <3>2. \A j \in i + 1 .. n : h[j] = f[j]
      BY <2>2, <3>1
    <3>21. step[i][h] = step[i][f]
      <4>1. h \in [1 .. n -> V] /\ f \in [1 .. n -> V]
        BY <2>1
      <4> QED BY <1>0, <3>1, <3>2, <4>1
    <3>3. CASE i = k
      BY <2>1, <3>21, <3>3
    <3>4. CASE i # k
      <4>1. i \in k + 1 .. n
        BY <3>4
      <4> QED BY <1>1, <2>2, <3>1, <3>21, <3>4, <4>1
    <3> QED BY <3>3, <3>4
  <2> HIDE DEF h
  <2> QED BY <2>1, <2>3
<1>2. n - 1 \in S
  <2>1. [i \in 1 .. n |-> v] \in F /\ n + 1 .. n = {} /\ n \in 1 .. n /\ n - 1 + 1 = n
    OBVIOUS
  <2> HIDE DEF F, From
  <2>2. From(n)
    BY <1>1, <2>1
  <2> QED BY <2>1, <2>2
<1>3. ASSUME NEW k \in 0 .. n - 1 - 1, k + 1 \in S PROVE k \in S
  <2>1. k \in 0 .. n - 1 /\ k + 1 \in 1 .. n
    OBVIOUS
  <2>2. PICK f \in F : \A i \in k + 1 + 1 .. n : f[i] = step[i][f]
    BY <1>3
  <2> HIDE DEF F, From
  <2>3. From(k + 1)
    BY <1>1, <2>1, <2>2
  <2> QED BY <2>1, <2>3
<1>4. 0 \in S
  <2> HIDE DEF S
  <2>1. \A k \in 0 .. n - 1 : k \in S
    BY <1>2, <1>3, DownTo
  <2> QED BY <2>1
<1> QED BY <1>4 DEF Solvable

(* What FlattenSeq computes, from the left and from the right.             *)
LEMMA Flattened ==
  ASSUME NEW T, NEW s \in Seq(Seq(T))
  PROVE  \E h \in [1 .. Len(s) + 1 -> Seq(T)] :
           /\ h[1] = FlattenSeq(s)
           /\ h[Len(s) + 1] = <<>>
           /\ \A i \in 1 .. Len(s) : h[i] = s[i] \o h[i + 1]
<1> DEFINE n == Len(s)
           F == [1 .. n -> Seq(T)]
           Up(k) == \E f \in F : \A i \in 1 .. k : f[i] = IF i = 1 THEN s[i] ELSE f[i - 1] \o s[i]
           A == {k \in 0 .. n : Up(k)}
           H == [1 .. n + 1 -> Seq(T)]
           Down(k) == \E h \in H : h[n + 1] = <<>> /\ \A i \in k + 1 .. n : h[i] = s[i] \o h[i + 1]
           B == {k \in 0 .. n : Down(k)}
<1>0. n \in Nat /\ (\A i \in 1 .. n : s[i] \in Seq(T)) /\ <<>> \in Seq(T)
  OBVIOUS
<1>01. \A a, b \in Seq(T) : a \o b \in Seq(T)
  OBVIOUS
<1>02. \A a, b, c \in Seq(T) : (a \o b) \o c = a \o (b \o c)
  BY ConcatAssociative
<1>03. \A a \in Seq(T) : a \o <<>> = a
  OBVIOUS
<1>1. A = 0 .. n
  <2>1. 0 \in A
    <3>1. [i \in 1 .. n |-> <<>>] \in F /\ 1 .. 0 = {}
      BY <1>0
    <3> QED BY <1>0, <3>1
  <2>2. ASSUME NEW k \in 0 .. n - 1, k \in A PROVE k + 1 \in A
    <3>1. PICK f \in F : \A i \in 1 .. k : f[i] = IF i = 1 THEN s[i] ELSE f[i - 1] \o s[i]
      BY <2>2
    <3> DEFINE v == IF k + 1 = 1 THEN s[k + 1] ELSE f[k] \o s[k + 1]
               g == [f EXCEPT ![k + 1] = v]
    <3>2. v \in Seq(T) /\ k + 1 \in 1 .. n
      <4>1. k + 1 \in 1 .. n /\ (k # 0 => k \in 1 .. n)
        BY <1>0
      <4>2. s[k + 1] \in Seq(T) /\ (k # 0 => f[k] \in Seq(T))
        BY <1>0, <4>1
      <4> QED BY <1>0, <1>01, <4>1, <4>2
    <3>3. g \in F /\ g[k + 1] = v /\ \A i \in 1 .. n : i # k + 1 => g[i] = f[i]
      <4> HIDE DEF v
      <4> QED BY <3>2
    <3>4. ASSUME NEW i \in 1 .. k + 1
          PROVE  g[i] = IF i = 1 THEN s[i] ELSE g[i - 1] \o s[i]
      <4>1. i \in 1 .. n /\ (i # 1 => i - 1 \in 1 .. n /\ i - 1 # k + 1) /\ (i # k + 1 => i \in 1 .. k)
        BY <1>0
      <4>2. i # 1 => g[i - 1] = f[i - 1]
        BY <3>3, <4>1
      <4>3. i # k + 1 => g[i] = f[i]
        BY <3>3, <4>1
      <4>4. CASE i = k + 1
        <5>1. i - 1 = k /\ g[i] = v
          BY <3>3, <4>4
        <5> HIDE DEF g
        <5> QED BY <4>2, <4>4, <5>1
      <4>5. CASE i # k + 1
        <5> HIDE DEF g
        <5> QED BY <3>1, <4>1, <4>2, <4>3, <4>5
      <4> QED BY <4>4, <4>5
    <3> HIDE DEF g, v, F
    <3> QED BY <1>0, <3>2, <3>3, <3>4
  <2> HIDE DEF A
  <2>3. \A k \in 0 .. n : k \in A
    BY <1>0, <2>1, <2>2, UpTo
  <2> QED BY <2>3 DEF A
<1>2. B = 0 .. n
  <2>1. n \in B
    <3>1. [i \in 1 .. n + 1 |-> <<>>] \in H /\ n + 1 .. n = {} /\ n \in 0 .. n /\ n + 1 \in 1 .. n + 1
      BY <1>0
    <3> QED BY <1>0, <3>1
  <2>2. ASSUME NEW k \in 0 .. n - 1, k + 1 \in B PROVE k \in B
    <3>1. PICK f \in H : f[n + 1] = <<>> /\ \A i \in k + 2 .. n : f[i] = s[i] \o f[i + 1]
      <4>1. Down(k + 1) /\ k + 1 + 1 = k + 2
        <5> HIDE DEF Down, n
        <5> QED BY <2>2, <1>0
      <4> HIDE DEF H, n
      <4> QED BY <4>1
    <3> DEFINE v == s[k + 1] \o f[k + 2]
               g == [f EXCEPT ![k + 1] = v]
    <3>2. v \in Seq(T) /\ k + 1 \in 1 .. n + 1 /\ k + 1 # n + 1
      <4>1. k + 1 \in 1 .. n /\ k + 2 \in 1 .. n + 1
        BY <1>0
      <4>2. s[k + 1] \in Seq(T) /\ f[k + 2] \in Seq(T)
        BY <1>0, <4>1
      <4> QED BY <1>0, <1>01, <4>1, <4>2
    <3>3. g \in H /\ g[k + 1] = v /\ \A i \in 1 .. n + 1 : i # k + 1 => g[i] = f[i]
      <4> HIDE DEF v
      <4> QED BY <3>2
    <3>4. ASSUME NEW i \in k + 1 .. n PROVE g[i] = s[i] \o g[i + 1]
      <4>1. i + 1 \in 1 .. n + 1 /\ i \in 1 .. n + 1 /\ i + 1 # k + 1
        BY <1>0
      <4>2. g[i + 1] = f[i + 1]
        BY <3>3, <4>1
      <4>4. CASE i = k + 1
        <5>0. i + 1 = k + 2
          BY <4>4, <1>0
        <5>1. g[i] = v
          BY <3>3, <4>4, Zenon
        <5> HIDE DEF g
        <5> QED BY <4>2, <4>4, <5>0, <5>1
      <4>5. CASE i # k + 1
        <5>1. i \in k + 2 .. n
          BY <4>5, <1>0
        <5>2. g[i] = f[i]
          BY <3>3, <4>1, <4>5
        <5> HIDE DEF g
        <5> QED BY <3>1, <4>2, <5>1, <5>2
      <4> QED BY <4>4, <4>5
    <3>5. g[n + 1] = <<>>
      <4>1. n + 1 \in 1 .. n + 1
        BY <1>0
      <4> QED BY <3>1, <3>2, <3>3, <4>1
    <3>6. Down(k) /\ k \in 0 .. n
      <4>1. k \in 0 .. n
        BY <1>0
      <4> HIDE DEF g, v, H
      <4> QED BY <3>3, <3>4, <3>5, <4>1
    <3> HIDE DEF Down
    <3> QED BY <3>6
  <2> HIDE DEF B
  <2>3. \A k \in 0 .. n : k \in B
    BY <1>0, <2>1, <2>2, DownTo
  <2> QED BY <2>3 DEF B
<1>3. PICK h \in H : h[n + 1] = <<>> /\ \A i \in 1 .. n : h[i] = s[i] \o h[i + 1]
  <2>1. 0 \in 0 .. n /\ 0 + 1 = 1
    BY <1>0
  <2>2. Down(0)
    <3>1. 0 \in B
      BY <1>2, <2>1
    <3> HIDE DEF Down
    <3> QED BY <3>1
  <2> HIDE DEF H, n
  <2> QED BY <2>1, <2>2
<1>4. h[1] = FlattenSeq(s)
  <2>1. CASE n = 0
    <3>1. s = <<>>
      BY <2>1
    <3> QED BY <1>3, <2>1, <3>1 DEF FlattenSeq
  <2>2. CASE n # 0
    <3> DEFINE flat == CHOOSE f : f = [i \in 1 .. n |-> IF i = 1 THEN s[i] ELSE f[i - 1] \o s[i]]
    <3>1. FlattenSeq(s) = flat[n]
      BY <2>2, Zenon DEF FlattenSeq
    <3>2. \E f : f = [i \in 1 .. n |-> IF i = 1 THEN s[i] ELSE f[i - 1] \o s[i]]
      <4>1. n \in A
        <5> HIDE DEF A
        <5>1. n \in 0 .. n
          BY <1>0
        <5> QED BY <1>1, <5>1
      <4>2. PICK f \in F : \A i \in 1 .. n : f[i] = IF i = 1 THEN s[i] ELSE f[i - 1] \o s[i]
        <5>1. Up(n)
          <6> HIDE DEF Up
          <6> QED BY <4>1
        <5> QED BY <5>1
      <4>3. f = [i \in 1 .. n |-> IF i = 1 THEN s[i] ELSE f[i - 1] \o s[i]]
        <5> HIDE DEF n
        <5> QED BY <4>2
      <4> QED BY <4>3, Zenon
    <3>3. flat = [i \in 1 .. n |-> IF i = 1 THEN s[i] ELSE flat[i - 1] \o s[i]]
      BY <3>2, Zenon
    <3> HIDE DEF flat
    <3>4. flat[1] = s[1] /\ \A i \in 1 .. n : i # 1 => flat[i] = flat[i - 1] \o s[i]
      <4>1. 1 \in 1 .. n
        BY <1>0, <2>2
      <4> HIDE DEF n
      <4> QED BY <3>3, <4>1
    <3>5. ASSUME NEW k \in 0 .. n - 1,
                 k # 0 => flat[k] \in Seq(T) /\ h[1] = flat[k] \o h[k + 1]
          PROVE  flat[k + 1] \in Seq(T) /\ h[1] = flat[k + 1] \o h[k + 1 + 1]
      <4>1. k + 1 \in 1 .. n /\ k + 1 + 1 \in 1 .. n + 1 /\ k + 1 - 1 = k /\ (k = 0 => k + 1 = 1)
            /\ (k # 0 => k + 1 # 1)
        BY <1>0, <2>2
      <4>2. PICK i : i = k + 1
        OBVIOUS
      <4>3. i \in 1 .. n /\ i + 1 \in 1 .. n + 1 /\ i - 1 = k /\ (k = 0 => i = 1) /\ (k # 0 => i # 1)
        BY <4>1, <4>2
      <4>4. h[i] = s[i] \o h[i + 1] /\ s[i] \in Seq(T) /\ h[i + 1] \in Seq(T)
        BY <1>0, <1>3, <4>3
      <4>5. CASE k = 0
        BY <3>4, <4>2, <4>3, <4>4, <4>5
      <4>6. CASE k # 0
        <5>1. flat[i] = flat[k] \o s[i] /\ flat[k] \in Seq(T) /\ h[1] = flat[k] \o h[i]
          BY <3>4, <3>5, <4>2, <4>3, <4>6
        <5>2. (flat[k] \o s[i]) \o h[i + 1] = flat[k] \o (s[i] \o h[i + 1]) /\ flat[k] \o s[i] \in Seq(T)
          BY <1>01, <1>02, <4>4, <5>1
        <5>3. flat[i] \in Seq(T) /\ h[1] = flat[i] \o h[i + 1]
          BY <4>4, <5>1, <5>2
        <5> QED BY <4>2, <5>3
      <4> QED BY <4>5, <4>6
    <3> DEFINE C == {k \in 0 .. n : k # 0 => flat[k] \in Seq(T) /\ h[1] = flat[k] \o h[k + 1]}
    <3>6. 0 \in C
      BY <1>0
    <3>7. ASSUME NEW k \in 0 .. n - 1, k \in C PROVE k + 1 \in C
      <4>1. k + 1 \in 0 .. n
        BY <1>0
      <4> HIDE DEF n
      <4> QED BY <3>5, <3>7, <4>1
    <3>8. n \in C
      <4> HIDE DEF C
      <4>1. n \in 0 .. n
        BY <1>0
      <4>2. \A k \in 0 .. n : k \in C
        BY <1>0, <3>6, <3>7, UpTo
      <4> QED BY <4>1, <4>2
    <3> QED BY <1>03, <1>3, <2>2, <3>1, <3>8
  <2> QED BY <2>1, <2>2
<1> QED BY <1>3, <1>4
=============================================================================
