----------------------------- MODULE MacrosProofs -----------------------------
(***************************************************************************)
(* expand_line does to a line what its reader expects, for every macro     *)
(* table and every line.                                                   *)
(***************************************************************************)
EXTENDS Expansion, Facts, FiniteSetTheorems

-----------------------------------------------------------------------------
(* Counting, one position at a time.                                       *)
LEMMA Counted ==
  ASSUME NEW a \in Nat, NEW k \in Nat, a <= k + 1, NEW S
  PROVE  /\ IsFiniteSet(S \cap (a .. k)) /\ Cardinality(S \cap (a .. k)) \in Nat
         /\ Cardinality(S \cap (a .. k + 1)) =
              Cardinality(S \cap (a .. k)) + (IF k + 1 \in S THEN 1 ELSE 0)
<1>1. IsFiniteSet(S \cap (a .. k)) /\ Cardinality(S \cap (a .. k)) \in Nat
  <2>1. IsFiniteSet(a .. k)
    BY FS_Interval
  <2>2. IsFiniteSet(S \cap (a .. k))
    BY <2>1, FS_Intersection
  <2> QED BY <2>2, FS_CardinalityType
<1>2. a .. k + 1 = (a .. k) \cup {k + 1} /\ k + 1 \notin a .. k
  OBVIOUS
<1>3. CASE k + 1 \in S
  <2>1. S \cap (a .. k + 1) = (S \cap (a .. k)) \cup {k + 1} /\ k + 1 \notin S \cap (a .. k)
    BY <1>2, <1>3
  <2> QED BY <1>1, <1>3, <2>1, FS_AddElement
<1>4. CASE k + 1 \notin S
  <2>1. S \cap (a .. k + 1) = S \cap (a .. k)
    BY <1>2, <1>4
  <2> QED BY <1>1, <1>4, <2>1
<1> QED BY <1>1, <1>3, <1>4

LEMMA NoneCounted ==
  ASSUME NEW a \in Nat, NEW S
  PROVE  Cardinality(S \cap (a .. a - 1)) = 0
<1>1. S \cap (a .. a - 1) = {}
  OBVIOUS
<1> QED BY <1>1, FS_EmptySet

(* Every rank is taken.                                                    *)
LEMMA NthExists ==
  ASSUME NEW n \in Nat, NEW S, S \subseteq 1 .. n, NEW q \in 1 .. Cardinality(S)
  PROVE  Nth(S, q) \in S
<1> DEFINE r(k) == Cardinality(S \cap (1 .. k))
           K == {k \in 0 .. n : r(k) >= q}
<1>1. ASSUME NEW k \in Nat
      PROVE  r(k) \in Nat /\ r(k + 1) = r(k) + IF k + 1 \in S THEN 1 ELSE 0
  <2>1. 1 \in Nat /\ 1 <= k + 1
    OBVIOUS
  <2> QED BY <2>1, Counted
<1>2. r(0) = 0
  <2>1. S \cap (1 .. 0) = {}
    OBVIOUS
  <2> QED BY <2>1, FS_EmptySet
<1>3. n \in K
  <2>1. S \cap (1 .. n) = S
    OBVIOUS
  <2>2. r(n) = Cardinality(S) /\ Cardinality(S) \in Nat
    BY <1>1, <2>1
  <2> HIDE DEF r
  <2> QED BY <2>2
<1>4. PICK k \in K : \A j \in K : k <= j
  <2>1. K \subseteq Nat
    OBVIOUS
  <2> HIDE DEF K
  <2> QED BY <1>3, <2>1, LeastExists
<1>5. k \in 0 .. n /\ r(k) >= q /\ q \in Nat \ {0}
  BY <1>4
<1>6. k # 0
  BY <1>2, <1>5
<1>7. PICK p \in 0 .. n : k = p + 1
  BY <1>5, <1>6
<1>8. p \notin K
  BY <1>4, <1>7
<1> HIDE DEF r
<1>9. r(p) \in Nat /\ ~(r(p) >= q) /\ r(k) = r(p) + IF k \in S THEN 1 ELSE 0
  BY <1>1, <1>7, <1>8
<1>10. k \in S /\ r(k) = q
  BY <1>5, <1>9
<1>11. {c \in S : c <= k} = S \cap (1 .. k)
  <2>1. \A c \in S : c \in 1 .. n /\ (c <= k <=> c \in 1 .. k)
    BY <1>5
  <2> QED BY <2>1
<1>12. Cardinality({c \in S : c <= k}) = q
  BY <1>10, <1>11 DEF r
<1> QED BY <1>10, <1>12 DEF Nth

(* A rising sequence enumerates its range.                                 *)
LEMMA Rises ==
  ASSUME NEW n \in Nat, NEW e \in [0 .. n -> Nat], \A q \in 1 .. n : e[q - 1] < e[q],
         NEW p \in 0 .. n, NEW q \in 0 .. n, p < q
  PROVE  e[p] < e[q]
<1> DEFINE S == {d \in 0 .. n - p - 1 : e[p] < e[p + d + 1]}
<1>1. 0 \in S
  <2>1. p + 0 + 1 = p + 1 /\ p + 1 \in 1 .. n /\ p + 1 - 1 = p /\ 0 \in 0 .. n - p - 1
    OBVIOUS
  <2>2. e[p] < e[p + 1]
    BY <2>1
  <2> QED BY <2>1, <2>2
<1>2. ASSUME NEW d \in 0 .. n - p - 1 - 1, d \in S PROVE d + 1 \in S
  <2>1. PICK x : x = p + d + 1
    OBVIOUS
  <2>2. x \in 0 .. n /\ x + 1 \in 1 .. n /\ x + 1 - 1 = x /\ x + 1 \in 0 .. n
        /\ p + (d + 1) + 1 = x + 1 /\ d + 1 \in 0 .. n - p - 1
    BY <2>1
  <2>3. e[x] < e[x + 1]
    BY <2>2
  <2>4. e[p] < e[x]
    BY <1>2, <2>1
  <2>5. e[p] \in Nat /\ e[x] \in Nat /\ e[x + 1] \in Nat
    BY <2>2
  <2>6. e[p] < e[x + 1]
    BY <2>3, <2>4, <2>5
  <2> QED BY <2>2, <2>6
<1>3. n - p - 1 \in Nat /\ q - p - 1 \in 0 .. n - p - 1 /\ p + (q - p - 1) + 1 = q
  OBVIOUS
<1>4. \A d \in 0 .. n - p - 1 : d \in S
  <2> HIDE DEF S
  <2> QED BY <1>1, <1>2, <1>3, UpTo
<1>5. q - p - 1 \in S
  BY <1>3, <1>4
<1> QED BY <1>3, <1>5

LEMMA Ranked ==
  ASSUME NEW n \in Nat, NEW e \in [0 .. n -> Nat], \A q \in 1 .. n : e[q - 1] < e[q]
  PROVE  LET S == {e[p] : p \in 1 .. n}
         IN  Cardinality(S) = n /\ \A q \in 1 .. n : Nth(S, q) = e[q]
<1> DEFINE S == {e[p] : p \in 1 .. n}
           T(q) == {e[p] : p \in 1 .. q}
           C == {q \in 0 .. n : IsFiniteSet(T(q)) /\ Cardinality(T(q)) = q}
<1>1. \A p, q \in 0 .. n : p < q => e[p] < e[q]
  BY Rises
<1>2. 0 \in C
  <2>1. T(0) = {} /\ 0 \in 0 .. n
    OBVIOUS
  <2> HIDE DEF T
  <2> QED BY <2>1, FS_EmptySet
<1>3. ASSUME NEW q \in 0 .. n - 1, q \in C PROVE q + 1 \in C
  <2>1. q + 1 \in 0 .. n /\ 1 .. q + 1 = (1 .. q) \cup {q + 1}
        /\ \A p \in 1 .. q : p \in 0 .. n /\ p < q + 1
    OBVIOUS
  <2>2. T(q + 1) = T(q) \cup {e[q + 1]}
    BY <2>1
  <2>3. e[q + 1] \notin T(q)
    <3> SUFFICES ASSUME NEW p \in 1 .. q, e[q + 1] = e[p] PROVE FALSE
      OBVIOUS
    <3>1. e[p] < e[q + 1] /\ e[p] \in Nat
      BY <1>1, <2>1
    <3> QED BY <3>1
  <2>4. IsFiniteSet(T(q)) /\ Cardinality(T(q)) = q
    BY <1>3
  <2> HIDE DEF T
  <2>5. /\ IsFiniteSet(T(q) \cup {e[q + 1]})
        /\ Cardinality(T(q) \cup {e[q + 1]}) = Cardinality(T(q)) + 1
    BY <2>3, <2>4, FS_AddElement
  <2> QED BY <2>1, <2>2, <2>4, <2>5
<1>4. \A q \in 0 .. n : Cardinality(T(q)) = q
  <2>1. \A q \in 0 .. n : q \in C
    <3> HIDE DEF C
    <3> QED BY <1>2, <1>3, UpTo
  <2> HIDE DEF T
  <2> QED BY <2>1
<1>5. Cardinality(S) = n
  <2>1. S = T(n) /\ n \in 0 .. n
    OBVIOUS
  <2> QED BY <1>4, <2>1
<1>6. ASSUME NEW p \in 1 .. n PROVE Cardinality({c \in S : c <= e[p]}) = p
  <2>1. ASSUME NEW q \in 1 .. n PROVE e[q] <= e[p] <=> q <= p
    <3>1. p \in 0 .. n /\ q \in 0 .. n /\ e[p] \in Nat /\ e[q] \in Nat
      OBVIOUS
    <3>2. (p < q => e[p] < e[q]) /\ (q < p => e[q] < e[p])
      BY <1>1, <3>1
    <3> QED BY <3>1, <3>2
  <2>2. \A q \in 1 .. p : q \in 1 .. n
    OBVIOUS
  <2>3. {c \in S : c <= e[p]} = T(p)
    <3>1. ASSUME NEW c \in S, c <= e[p] PROVE c \in T(p)
      <4>1. PICK q \in 1 .. n : c = e[q]
        OBVIOUS
      <4>2. q \in 1 .. p
        BY <2>1, <3>1, <4>1
      <4> QED BY <4>1, <4>2
    <3>2. ASSUME NEW c \in T(p) PROVE c \in S /\ c <= e[p]
      <4>1. PICK q \in 1 .. p : c = e[q]
        OBVIOUS
      <4>2. q \in 1 .. n /\ q <= p
        BY <2>2
      <4> QED BY <2>1, <4>1, <4>2
    <3> HIDE DEF S, T
    <3> QED BY <3>1, <3>2
  <2>4. p \in 0 .. n
    OBVIOUS
  <2> HIDE DEF T, S
  <2> QED BY <1>4, <2>3, <2>4
<1>7. ASSUME NEW q \in 1 .. n PROVE Nth(S, q) = e[q]
  <2>1. e[q] \in S
    OBVIOUS
  <2>2. ASSUME NEW x \in S, Cardinality({c \in S : c <= x}) = q PROVE x = e[q]
    <3>1. PICK p \in 1 .. n : x = e[p]
      OBVIOUS
    <3>2. p = q
      <4> HIDE DEF S
      <4> QED BY <1>6, <2>2, <3>1
    <3> QED BY <3>1, <3>2
  <2>3. Cardinality({c \in S : c <= e[q]}) = q
    <3> HIDE DEF S
    <3> QED BY <1>6
  <2> HIDE DEF S
  <2> QED BY <2>1, <2>2, <2>3 DEF Nth
<1> QED BY <1>5, <1>7
-----------------------------------------------------------------------------
(* Parentheses and the arguments of a call.                                *)
LEMMA Part ==
  ASSUME NEW T, NEW l \in Seq(T), NEW a \in Nat, NEW b \in Nat, a < b, b <= Len(l) + 1
  PROVE  LET s == SubSeq(l, a + 1, b - 1)
         IN  /\ s \in Seq(T) /\ Len(s) = b - a - 1 /\ DOMAIN s = 1 .. b - a - 1
             /\ \A m \in 1 .. b - a - 1 : s[m] = l[a + m] /\ a + m \in 1 .. Len(l)
<1>1. PICK n \in Nat : b = a + n + 1
  <2>1. b - a - 1 \in Nat /\ b = a + (b - a - 1) + 1
    OBVIOUS
  <2> QED BY <2>1
<1>2. a + n + 1 - 1 = a + n /\ b - a - 1 = n /\ a + n - (a + 1) + 1 = n /\ a + n <= Len(l)
  BY <1>1
<1>3. SubSeq(l, a + 1, b - 1) = SubSeq(l, a + 1, a + n)
  BY <1>1, <1>2
<1>4. SubSeq(l, a + 1, a + n) = [m \in 1 .. n |-> l[a + m]]
  <2>1. SubSeq(l, a + 1, a + n) = [m \in 1 .. a + n - (a + 1) + 1 |-> l[a + 1 + m - 1]]
    BY <1>2
  <2>2. \A m \in 1 .. n : a + 1 + m - 1 = a + m
    OBVIOUS
  <2> QED BY <1>2, <2>1, <2>2
<1>5. \A m \in 1 .. n : a + m \in 1 .. Len(l) /\ l[a + m] \in T
  BY <1>2
<1> QED BY <1>2, <1>3, <1>4, <1>5

LEMMA DepthStep ==
  ASSUME NEW l \in Seq(STRING), NEW o \in Nat \ {0}, NEW k \in Nat, o <= k + 1, k < Len(l)
  PROVE  /\ ParenDepth(l, o, k) \in Int
         /\ ParenDepth(l, o, k + 1) =
              ParenDepth(l, o, k) + IF l[k + 1] = "(" THEN 1 ELSE IF l[k + 1] = ")" THEN -1 ELSE 0
<1> DEFINE P(c) == {j \in 1 .. Len(l) : l[j] = c}
<1>1. ASSUME NEW c, NEW m \in Nat, m <= Len(l)
      PROVE  {j \in o .. m : l[j] = c} = P(c) \cap (o .. m)
  BY <1>1
<1>2. ASSUME NEW c
      PROVE  /\ Cardinality(P(c) \cap (o .. k)) \in Nat
             /\ Cardinality(P(c) \cap (o .. k + 1)) =
                  Cardinality(P(c) \cap (o .. k)) + (IF l[k + 1] = c THEN 1 ELSE 0)
  <2>1. k + 1 \in P(c) <=> l[k + 1] = c
    OBVIOUS
  <2> HIDE DEF P
  <2> QED BY <2>1, Counted
<1>3. k <= Len(l) /\ k + 1 <= Len(l) /\ k + 1 \in Nat /\ "(" # ")"
  OBVIOUS
<1> HIDE DEF P
<1>4. /\ ParenDepth(l, o, k) = Cardinality(P("(") \cap (o .. k)) - Cardinality(P(")") \cap (o .. k))
      /\ ParenDepth(l, o, k + 1) =
           Cardinality(P("(") \cap (o .. k + 1)) - Cardinality(P(")") \cap (o .. k + 1))
  BY <1>1, <1>3 DEF ParenDepth
<1>5. /\ Cardinality(P("(") \cap (o .. k)) \in Nat
      /\ Cardinality(P(")") \cap (o .. k)) \in Nat
      /\ Cardinality(P("(") \cap (o .. k + 1)) =
           Cardinality(P("(") \cap (o .. k)) + (IF l[k + 1] = "(" THEN 1 ELSE 0)
      /\ Cardinality(P(")") \cap (o .. k + 1)) =
           Cardinality(P(")") \cap (o .. k)) + (IF l[k + 1] = ")" THEN 1 ELSE 0)
  BY <1>2
<1> QED BY ONLY <1>3, <1>4, <1>5

LEMMA DepthStart ==
  ASSUME NEW l, NEW o \in Nat
  PROVE  ParenDepth(l, o, o - 1) = 0
<1>1. {j \in o .. o - 1 : l[j] = "("} = {} /\ {j \in o .. o - 1 : l[j] = ")"} = {}
  OBVIOUS
<1> QED BY <1>1, FS_EmptySet DEF ParenDepth

(* The depth after a part of the line is the depth before it and its own.  *)
LEMMA DepthOfPart ==
  ASSUME NEW l \in Seq(STRING), NEW o \in Nat \ {0}, NEW a \in Nat, NEW b \in Nat,
         o <= a, a < b, b <= Len(l), ParenDepth(l, o, a) \in Int,
         NEW m \in 0 .. b - a - 1
  PROVE  LET s == SubSeq(l, a + 1, b - 1)
         IN  /\ ParenDepth(s, 1, m) \in Int
             /\ ParenDepth(l, o, a + m) = ParenDepth(l, o, a) + ParenDepth(s, 1, m)
<1> DEFINE s == SubSeq(l, a + 1, b - 1)
           n == b - a - 1
           C == {k \in 0 .. n : /\ ParenDepth(s, 1, k) \in Int
                                /\ ParenDepth(l, o, a + k) = ParenDepth(l, o, a) + ParenDepth(s, 1, k)}
<1>1. s \in Seq(STRING) /\ Len(s) = n /\ \A k \in 1 .. n : s[k] = l[a + k]
  BY Part
<1>2. n \in Nat /\ a + n < Len(l)
  OBVIOUS
<1> HIDE DEF s, n
<1>3. 0 \in C
  <2>1. ParenDepth(s, 1, 0) = 0
    <3>1. ParenDepth(s, 1, 1 - 1) = 0
      BY DepthStart
    <3> QED BY <3>1
  <2>2. a + 0 = a /\ 0 \in 0 .. n
    BY <1>2
  <2> QED BY <2>1, <2>2
<1>4. ASSUME NEW k \in 0 .. n - 1, k \in C PROVE k + 1 \in C
  <2>1. /\ k \in Nat /\ k < Len(s) /\ 1 <= k + 1 /\ k + 1 \in 1 .. n /\ k + 1 \in 0 .. n
        /\ 1 \in Nat \ {0} /\ a + (k + 1) = a + k + 1 /\ a + k \in Nat /\ o <= a + k + 1 /\ a + k < Len(l)
    BY <1>1, <1>2
  <2>2. s[k + 1] = l[a + k + 1]
    BY <1>1, <2>1
  <2>3. /\ ParenDepth(s, 1, k) \in Int
        /\ ParenDepth(s, 1, k + 1) =
             ParenDepth(s, 1, k) + IF s[k + 1] = "(" THEN 1 ELSE IF s[k + 1] = ")" THEN -1 ELSE 0
    BY <1>1, <2>1, DepthStep
  <2>4. /\ ParenDepth(l, o, a + k) \in Int
        /\ ParenDepth(l, o, a + k + 1) =
             ParenDepth(l, o, a + k)
               + IF l[a + k + 1] = "(" THEN 1 ELSE IF l[a + k + 1] = ")" THEN -1 ELSE 0
    BY <2>1, DepthStep
  <2>5. ParenDepth(l, o, a + k) = ParenDepth(l, o, a) + ParenDepth(s, 1, k)
    BY <1>4
  <2>6. ParenDepth(l, o, a + k + 1) = ParenDepth(l, o, a) + ParenDepth(s, 1, k + 1)
        /\ ParenDepth(s, 1, k + 1) \in Int
    BY <2>2, <2>3, <2>4, <2>5
  <2> QED BY <2>1, <2>6
<1>5. m \in C
  <2> HIDE DEF C
  <2>1. \A k \in 0 .. n : k \in C
    BY <1>2, <1>3, <1>4, UpTo
  <2> QED BY <2>1 DEF n
<1> QED BY <1>5 DEF s
LEMMA Located ==
  ASSUME NEW n \in Nat, NEW e \in [0 .. n -> Nat], NEW k \in Nat, e[0] <= k, k < e[n]
  PROVE  \E q \in 1 .. n : e[q - 1] <= k /\ k < e[q]
<1> DEFINE Q == {q \in 0 .. n : k < e[q]}
<1>1. n \in Q /\ Q \subseteq Nat
  OBVIOUS
<1>2. PICK q \in Q : \A p \in Q : q <= p
  <2> HIDE DEF Q
  <2> QED BY <1>1, LeastExists
<1>3. q \in 0 .. n /\ k < e[q]
  BY <1>2
<1>4. q # 0
  <2> SUFFICES ASSUME q = 0 PROVE FALSE
    OBVIOUS
  <2>1. e[0] \in Nat /\ k < e[0]
    BY <1>3
  <2> QED BY <2>1
<1>5. q \in 1 .. n /\ q - 1 \in 0 .. n /\ ~(q <= q - 1)
  BY <1>3, <1>4
<1>6. ~(k < e[q - 1])
  BY <1>2, <1>5
<1>7. e[q - 1] \in Nat
  BY <1>5
<1> QED BY <1>3, <1>5, <1>6, <1>7

(* A list of arguments is read as it is cut.                               *)
LEMMA CallAtCut ==
  ASSUME NEW l \in Seq(STRING), NEW o \in 1 .. Len(l), l[o] = "(",
         NEW n \in Nat \ {0}, NEW cut \in [0 .. n -> o .. Len(l)], cut[0] = o,
         \A q \in 1 .. n :
           /\ cut[q - 1] < cut[q]
           /\ SimpleArg(SubSeq(l, cut[q - 1] + 1, cut[q] - 1))
           /\ IF q = n THEN l[cut[q]] = ")" ELSE l[cut[q]] = Comma
  PROVE  CallAt(l, o) = [args |-> [q \in 1 .. n |-> SubSeq(l, cut[q - 1] + 1, cut[q] - 1)],
                         next |-> cut[n] + 1]
<1> DEFINE D(k) == ParenDepth(l, o, k)
           A(q) == SubSeq(l, cut[q - 1] + 1, cut[q] - 1)
<1>1. /\ cut \in [0 .. n -> Nat] /\ n \in Nat /\ o \in Nat \ {0}
      /\ \A q \in 0 .. n : cut[q] \in Nat /\ o <= cut[q] /\ cut[q] <= Len(l)
  OBVIOUS
<1>2. \A q \in 1 .. n : q \in 0 .. n /\ q - 1 \in 0 .. n
  BY <1>1
(* Within an argument.                                                     *)
<1>3. ASSUME NEW q \in 1 .. n, D(cut[q - 1]) = 1
      PROVE  /\ \A k \in cut[q - 1] + 1 .. cut[q] - 1 :
                   D(k) \in Int /\ D(k) >= 1 /\ (l[k] = Comma => D(k) >= 2)
             /\ D(cut[q]) = IF q = n THEN 0 ELSE 1
  <2>0. PICK a, b : a = cut[q - 1] /\ b = cut[q]
    OBVIOUS
  <2>1. a \in Nat /\ b \in Nat /\ o <= a /\ a < b /\ b <= Len(l)
    BY <1>1, <1>2, <2>0
  <2>2. /\ \A k \in DOMAIN A(q) : ParenDepth(A(q), 1, k) >= IF A(q)[k] = Comma THEN 1 ELSE 0
        /\ ParenDepth(A(q), 1, Len(A(q))) = 0
    BY DEF SimpleArg
  <2>3. /\ Len(A(q)) = b - a - 1 /\ DOMAIN A(q) = 1 .. b - a - 1
        /\ \A m \in 1 .. b - a - 1 : A(q)[m] = l[a + m]
    <3>1. b <= Len(l) + 1
      BY <2>1
    <3>2. /\ Len(SubSeq(l, a + 1, b - 1)) = b - a - 1 /\ DOMAIN SubSeq(l, a + 1, b - 1) = 1 .. b - a - 1
          /\ \A m \in 1 .. b - a - 1 : SubSeq(l, a + 1, b - 1)[m] = l[a + m]
      BY <2>1, <3>1, Part
    <3> QED BY <2>0, <3>2
  <2>4. ASSUME NEW m \in 0 .. b - a - 1
        PROVE  ParenDepth(A(q), 1, m) \in Int /\ D(a + m) = 1 + ParenDepth(A(q), 1, m)
    <3>1. ParenDepth(l, o, a) = 1 /\ ParenDepth(l, o, a) \in Int
      BY <1>3, <2>0
    <3>2. /\ ParenDepth(SubSeq(l, a + 1, b - 1), 1, m) \in Int
          /\ ParenDepth(l, o, a + m) = ParenDepth(l, o, a) + ParenDepth(SubSeq(l, a + 1, b - 1), 1, m)
      <4>1. l \in Seq(STRING) /\ o \in Nat \ {0} /\ m \in 0 .. b - a - 1
        BY <1>1
      <4> QED BY ONLY <2>1, <3>1, <4>1, DepthOfPart
    <3> QED BY <2>0, <3>1, <3>2
  <2> HIDE DEF D, A
  <2>5. ASSUME NEW k \in a + 1 .. b - 1
        PROVE  D(k) \in Int /\ D(k) >= 1 /\ (l[k] = Comma => D(k) >= 2)
    <3>1. PICK m \in 1 .. b - a - 1 : k = a + m
      <4>1. k - a \in 1 .. b - a - 1 /\ k = a + (k - a)
        BY <2>1
      <4> QED BY <4>1
    <3>2. m \in 0 .. b - a - 1 /\ m \in DOMAIN A(q) /\ A(q)[m] = l[k]
      <4>1. m \in 0 .. b - a - 1
        BY <2>1, <3>1
      <4>2. m \in DOMAIN A(q) /\ A(q)[m] = l[a + m]
        BY <2>3, <3>1
      <4> QED BY <3>1, <4>1, <4>2
    <3>3. ParenDepth(A(q), 1, m) \in Int /\ D(k) = 1 + ParenDepth(A(q), 1, m)
      BY <2>4, <3>1, <3>2
    <3>4. ParenDepth(A(q), 1, m) >= IF l[k] = Comma THEN 1 ELSE 0
      BY <2>2, <3>2
    <3> QED BY ONLY <3>3, <3>4
  <2>6. D(b) = IF q = n THEN 0 ELSE 1
    <3>1. PICK m : m = b - a - 1
      OBVIOUS
    <3>2. m \in 0 .. b - a - 1 /\ m = Len(A(q)) /\ a + m + 1 = b
          /\ a + m \in Nat /\ o <= a + m + 1 /\ a + m < Len(l)
      BY <2>1, <2>3, <3>1
    <3>3. D(a + m) = 1
      <4>1. ParenDepth(A(q), 1, m) = 0
        BY <2>2, <3>2
      <4>2. D(a + m) = 1 + ParenDepth(A(q), 1, m)
        BY <2>4, <3>2
      <4> QED BY <4>1, <4>2
    <3>4. ParenDepth(l, o, a + m + 1) =
            ParenDepth(l, o, a + m) + IF l[a + m + 1] = "(" THEN 1 ELSE IF l[a + m + 1] = ")" THEN -1 ELSE 0
      BY <1>1, <3>2, DepthStep
    <3>5. IF q = n THEN l[b] = ")" ELSE l[b] = Comma
      BY <2>0
    <3>6. D(b) = 1 + IF l[b] = "(" THEN 1 ELSE IF l[b] = ")" THEN -1 ELSE 0
      BY <3>2, <3>3, <3>4 DEF D
    <3>7. "(" # ")" /\ "(" # Comma /\ ")" # Comma
      BY Zenon DEF Comma
    <3> QED BY ONLY <3>5, <3>6, <3>7
  <2> QED BY <2>0, <2>5, <2>6
<1> DEFINE C == {q \in 0 .. n - 1 : D(cut[q]) = 1}
<1>4. 0 \in C
  <2>1. ParenDepth(l, o, o - 1) = 0
    BY <1>1, DepthStart
  <2>2. o - 1 \in Nat /\ o <= o - 1 + 1 /\ o - 1 < Len(l) /\ o - 1 + 1 = o /\ 0 \in 0 .. n - 1
    BY <1>1
  <2>3. ParenDepth(l, o, o - 1 + 1) =
          ParenDepth(l, o, o - 1) + IF l[o - 1 + 1] = "(" THEN 1 ELSE IF l[o - 1 + 1] = ")" THEN -1 ELSE 0
    BY <1>1, <2>2, DepthStep
  <2>4. D(o) = 1
    BY <2>1, <2>2, <2>3
  <2> QED BY <2>2, <2>4
<1>5. ASSUME NEW q \in 0 .. n - 1 - 1, q \in C PROVE q + 1 \in C
  <2>1. q + 1 \in 1 .. n /\ q + 1 - 1 = q /\ q + 1 # n /\ q + 1 \in 0 .. n - 1
    BY <1>1
  <2>2. PICK p : p = q + 1
    OBVIOUS
  <2> HIDE DEF D
  <2>3. D(cut[p - 1]) = 1 /\ p \in 1 .. n /\ p # n
    BY <1>5, <2>1, <2>2
  <2>4. D(cut[p]) = 1
    BY <1>3, <2>3
  <2> QED BY <2>1, <2>2, <2>4
<1>6. \A q \in 1 .. n : D(cut[q - 1]) = 1
  <2>1. n - 1 \in Nat
    BY <1>1
  <2>2. \A q \in 0 .. n - 1 : q \in C
    <3> HIDE DEF C
    <3> QED BY <1>4, <1>5, <2>1, UpTo
  <2> HIDE DEF D
  <2>3. ASSUME NEW q \in 1 .. n PROVE D(cut[q - 1]) = 1
    <3>1. q - 1 \in 0 .. n - 1
      BY <1>1
    <3> QED BY <2>2, <3>1
  <2> QED BY <2>3
<1> HIDE DEF D
<1>7. \A q \in 1 .. n : D(cut[q]) = IF q = n THEN 0 ELSE 1
  BY <1>3, <1>6
<1>8. cut[n] \in o + 1 .. Len(l) /\ \A q \in 1 .. n : cut[q] \in o + 1 .. cut[n] /\ (q # n => cut[q] < cut[n])
  <2>1. \A p, q \in 0 .. n : p < q => cut[p] < cut[q]
    BY <1>1, Rises
  <2>2. ASSUME NEW q \in 1 .. n PROVE cut[q] \in o + 1 .. cut[n] /\ (q # n => cut[q] < cut[n])
    <3>1. 0 < q /\ q <= n /\ q \in 0 .. n /\ 0 \in 0 .. n /\ n \in 0 .. n
      BY <1>1
    <3>2. o < cut[q]
      BY <2>1, <3>1
    <3>3. CASE q = n
      BY <1>1, <3>1, <3>2, <3>3
    <3>4. CASE q # n
      <4>1. cut[q] < cut[n]
        BY <2>1, <3>1, <3>4
      <4> QED BY <1>1, <3>1, <3>2, <4>1
    <3> QED BY <3>3, <3>4
  <2>3. n \in 1 .. n /\ n \in 0 .. n
    BY <1>1
  <2>4. cut[n] \in o + 1 .. cut[n] /\ cut[n] \in Nat /\ cut[n] <= Len(l)
    BY <1>1, <2>2, <2>3
  <2> QED BY <2>2, <2>4
<1>9. ASSUME NEW k \in o + 1 .. cut[n] - 1
      PROVE  D(k) \in Int /\ D(k) >= 1 /\ (l[k] = Comma /\ D(k) = 1 <=> \E q \in 1 .. n - 1 : k = cut[q])
  <2>1. PICK q \in 1 .. n : cut[q - 1] <= k /\ k < cut[q]
    <3>1. k \in Nat /\ cut[0] <= k /\ k < cut[n]
      BY <1>1, <1>8
    <3> QED BY <1>1, <3>1, Located
  <2>2. CASE cut[q - 1] = k
    <3>1. q # 1 /\ q - 1 \in 1 .. n - 1 /\ q - 1 \in 1 .. n /\ q - 1 # n
      <4>1. q # 1
        <5> SUFFICES ASSUME q = 1 PROVE FALSE
          OBVIOUS
        <5>1. k = o
          BY <2>2
        <5> QED BY <1>1, <5>1
      <4> QED BY <1>1, <4>1
    <3>2. PICK p : p = q - 1
      OBVIOUS
    <3>3. p \in 1 .. n - 1 /\ p \in 1 .. n /\ p # n /\ k = cut[p]
      BY <2>2, <3>1, <3>2
    <3>4. D(k) = 1 /\ l[k] = Comma
      BY <1>7, <3>3
    <3> QED BY <3>3, <3>4
  <2>3. CASE cut[q - 1] # k
    <3>1. k \in cut[q - 1] + 1 .. cut[q] - 1
      BY <1>1, <1>2, <2>1, <2>3
    <3>2. D(k) \in Int /\ D(k) >= 1 /\ (l[k] = Comma => D(k) >= 2)
      BY <1>3, <1>6, <3>1
    <3>3. ASSUME NEW p \in 1 .. n - 1 PROVE k # cut[p]
      <4>1. p \in 0 .. n /\ q - 1 \in 0 .. n /\ q \in 0 .. n
        BY <1>1
      <4>2. \A x, y \in 0 .. n : x < y => cut[x] < cut[y]
        BY <1>1, Rises
      <4>3. CASE p = q
        BY <2>1, <4>3, <1>1, <4>1
      <4>4. CASE p > q
        <5>1. cut[q] < cut[p]
          BY <4>1, <4>2, <4>4
        <5> QED BY <1>1, <2>1, <4>1, <5>1
      <4>5. CASE p = q - 1
        BY <2>3, <4>5
      <4>6. CASE p < q - 1
        <5>1. cut[p] < cut[q - 1]
          BY <4>1, <4>2, <4>6
        <5> QED BY <1>1, <2>1, <4>1, <5>1
      <4> QED BY <4>1, <4>3, <4>4, <4>5, <4>6
    <3> QED BY <3>2, <3>3
  <2> QED BY <2>2, <2>3
<1> DEFINE closers == {k \in o + 1 .. Len(l) : ParenDepth(l, o, k) = 0}
           commas == {k \in o + 1 .. cut[n] - 1 : l[k] = Comma /\ ParenDepth(l, o, k) = 1}
           ends == {cut[q] : q \in 1 .. n}
<1>10. closers # {} /\ Min(closers) = cut[n]
  <2>1. cut[n] \in closers
    BY <1>1, <1>7, <1>8 DEF D
  <2>2. \A k \in closers : k \in Nat /\ cut[n] <= k
    <3> SUFFICES ASSUME NEW k \in closers, ~(cut[n] <= k) PROVE FALSE
      BY <1>1
    <3>1. k \in o + 1 .. cut[n] - 1 /\ D(k) = 0
      BY <1>1, <1>8 DEF D
    <3> QED BY <1>9, <3>1
  <2> HIDE DEF closers
  <2>3. cut[n] \in Nat
    BY <1>8, <1>1
  <2>4. \A m \in closers : (\A y \in closers : m <= y) => m = cut[n]
    BY <2>1, <2>2, <2>3
  <2> QED BY <2>1, <2>2, <2>4 DEF Min
<1>11. commas \cup {cut[n]} = ends
  <2>1. ASSUME NEW k \in commas PROVE k \in ends
    <3>1. PICK q \in 1 .. n - 1 : k = cut[q]
      BY <1>9 DEF D
    <3>2. q \in 1 .. n
      BY <1>1
    <3> QED BY <3>1, <3>2
  <2>2. ASSUME NEW q \in 1 .. n PROVE cut[q] \in commas \cup {cut[n]}
    <3>1. CASE q = n
      BY <3>1
    <3>2. CASE q # n
      <4>1. q \in 1 .. n - 1 /\ cut[q] \in o + 1 .. cut[n] - 1
        BY <1>1, <1>8, <3>2
      <4>2. l[cut[q]] = Comma /\ D(cut[q]) = 1
        BY <1>9, <4>1
      <4> QED BY <4>1, <4>2 DEF D
    <3> QED BY <3>1, <3>2
  <2>3. n \in 1 .. n
    BY <1>1
  <2> HIDE DEF commas
  <2> QED BY <2>1, <2>2, <2>3
<1>12. Cardinality(ends) = n /\ \A q \in 1 .. n : Nth(ends, q) = cut[q]
  BY <1>1, Ranked
<1>13. CallAt(l, o) = [args |-> Parts(l, o, commas \cup {cut[n]}), next |-> cut[n] + 1]
  <2>1. CallAt(l, o) = LET last == Min(closers)
                           cs   == {k \in o + 1 .. last - 1 : l[k] = Comma /\ ParenDepth(l, o, k) = 1}
                       IN  [args |-> Parts(l, o, cs \cup {last}), next |-> last + 1]
    BY <1>10 DEF CallAt
  <2> HIDE DEF closers
  <2> QED BY <1>10, <2>1
<1>14. Parts(l, o, ends) = [q \in 1 .. n |-> A(q)]
  <2>1. Parts(l, o, ends) =
          [q \in 1 .. n |-> SubSeq(l, (IF q = 1 THEN o ELSE Nth(ends, q - 1)) + 1, Nth(ends, q) - 1)]
    BY <1>12 DEF Parts
  <2>2. ASSUME NEW q \in 1 .. n
        PROVE  (IF q = 1 THEN o ELSE Nth(ends, q - 1)) = cut[q - 1] /\ Nth(ends, q) = cut[q]
    <3>1. CASE q = 1
      <4>1. q - 1 = 0
        BY <3>1
      <4> HIDE DEF ends
      <4> QED BY <1>12, <3>1, <4>1
    <3>2. CASE q # 1
      <4>1. q - 1 \in 1 .. n
        BY <1>1, <3>2
      <4> HIDE DEF ends
      <4> QED BY <1>12, <3>2, <4>1
    <3> QED BY <3>1, <3>2
  <2> HIDE DEF ends
  <2> QED BY <2>1, <2>2
<1> HIDE DEF commas, ends
<1> QED BY <1>11, <1>13, <1>14
-----------------------------------------------------------------------------
(* What the scan computes.                                                 *)
Outcome == [toks : Seq(STRING), errs : Nat]

LEMMA PartType ==
  ASSUME NEW T, NEW l \in Seq(T), NEW a \in Nat \ {0}, NEW b \in Nat, b <= Len(l)
  PROVE  SubSeq(l, a, b) \in Seq(T)
<1>1. SubSeq(l, a, b) = [k \in 1 .. b - a + 1 |-> l[a + k - 1]]
  OBVIOUS
<1>2. \A k \in 1 .. b - a + 1 : l[a + k - 1] \in T
  OBVIOUS
<1>3. CASE b - a + 1 \in Nat
  BY <1>1, <1>2, <1>3
<1>4. CASE b - a + 1 \notin Nat
  <2>1. 1 .. b - a + 1 = 1 .. 0 /\ 0 \in Nat
    BY <1>4
  <2> QED BY <1>1, <1>2, <2>1
<1> QED BY <1>3, <1>4

LEMMA CallAtType ==
  ASSUME NEW l \in Seq(STRING), NEW o \in 1 .. Len(l)
  PROVE  /\ CallAt(l, o).args \in Seq(Seq(STRING))
         /\ CallAt(l, o).next \in o + 1 .. Len(l) + 1
<1> DEFINE closers == {k \in o + 1 .. Len(l) : ParenDepth(l, o, k) = 0}
           last    == IF closers = {} THEN Len(l) + 1 ELSE Min(closers)
           commas  == {k \in o + 1 .. last - 1 : l[k] = Comma /\ ParenDepth(l, o, k) = 1}
           ends    == commas \cup (IF closers = {} THEN {} ELSE {last})
<1>1. CallAt(l, o) = [args |-> Parts(l, o, ends),
                      next |-> IF closers = {} THEN Len(l) + 1 ELSE last + 1]
  BY DEF CallAt
<1>2. closers # {} => last \in o + 1 .. Len(l)
  <2> SUFFICES ASSUME closers # {} PROVE last \in o + 1 .. Len(l)
    OBVIOUS
  <2>1. closers \subseteq Nat /\ closers \subseteq o + 1 .. Len(l)
    OBVIOUS
  <2> HIDE DEF closers
  <2>2. PICK m \in closers : \A j \in closers : m <= j
    BY <2>1, LeastExists
  <2>3. Min(closers) \in closers
    BY <2>2 DEF Min
  <2> QED BY <2>1, <2>3
<1>3. o \in Nat \ {0} /\ Len(l) \in Nat /\ o <= Len(l)
  OBVIOUS
<1>4. ends \subseteq o + 1 .. Len(l) /\ ends \subseteq 1 .. Len(l)
  <2>1. last \in o + 1 .. Len(l) + 1
    BY <1>2, <1>3
  <2>2. commas \subseteq o + 1 .. Len(l)
    <3> HIDE DEF last
    <3> QED BY <1>3, <2>1
  <2>3. ends \subseteq o + 1 .. Len(l)
    <3> HIDE DEF closers, commas, last
    <3> QED BY <1>2, <2>2
  <2> HIDE DEF ends
  <2> QED BY <1>3, <2>3
<1> HIDE DEF closers, last, ends
<1>5. Cardinality(ends) \in Nat
  <2>1. IsFiniteSet(1 .. Len(l))
    BY <1>3, FS_Interval
  <2> QED BY <1>4, <2>1, FS_Subset, FS_CardinalityType
<1>6. ASSUME NEW q \in 1 .. Cardinality(ends)
      PROVE  SubSeq(l, (IF q = 1 THEN o ELSE Nth(ends, q - 1)) + 1, Nth(ends, q) - 1) \in Seq(STRING)
  <2>1. Nth(ends, q) \in ends
    BY <1>3, <1>4, NthExists
  <2>2. q # 1 => Nth(ends, q - 1) \in ends
    <3>1. q # 1 => q - 1 \in 1 .. Cardinality(ends)
      BY <1>5
    <3> QED BY <1>3, <1>4, <3>1, NthExists
  <2>3. PICK a, b : a = (IF q = 1 THEN o ELSE Nth(ends, q - 1)) + 1 /\ b = Nth(ends, q) - 1
    OBVIOUS
  <2>4. a \in Nat \ {0} /\ b \in Nat /\ b <= Len(l)
    <3>1. Nth(ends, q) \in o + 1 .. Len(l) /\ (q # 1 => Nth(ends, q - 1) \in o + 1 .. Len(l))
      BY <1>4, <2>1, <2>2
    <3>2. CASE q = 1
      BY <1>3, <2>3, <3>1, <3>2
    <3>3. CASE q # 1
      BY <1>3, <2>3, <3>1, <3>3
    <3> QED BY <3>2, <3>3
  <2> QED BY <2>3, <2>4, PartType
<1>7. Parts(l, o, ends) \in Seq(Seq(STRING))
  <2>1. Parts(l, o, ends) \in [1 .. Cardinality(ends) -> Seq(STRING)]
    BY <1>6, Zenon DEF Parts
  <2> QED BY <1>5, <2>1
<1>8. CallAt(l, o).next \in o + 1 .. Len(l) + 1
  BY <1>1, <1>2, <1>3
<1> QED BY <1>1, <1>7, <1>8

LEMMA FlattenType ==
  ASSUME NEW T, NEW s \in Seq(Seq(T))
  PROVE  FlattenSeq(s) \in Seq(T)
<1>1. PICK h \in [1 .. Len(s) + 1 -> Seq(T)] : h[1] = FlattenSeq(s)
  BY Flattened
<1>2. 1 \in 1 .. Len(s) + 1
  OBVIOUS
<1> QED BY <1>1, <1>2

LEMMA LeastPosition ==
  ASSUME NEW n \in Nat, NEW S, S \subseteq 1 .. n, S # {}
  PROVE  Min(S) \in S /\ Min(S) \in 1 .. n
<1>1. PICK m \in S : \A j \in S : m <= j
  <2>1. S \subseteq Nat
    OBVIOUS
  <2> QED BY <2>1, LeastExists
<1>2. Min(S) \in S
  BY <1>1 DEF Min
<1> QED BY <1>2

LEMMA SubstituteType ==
  ASSUME NEW macro \in Macro, NEW args \in Seq(Seq(STRING)), Len(args) = Len(macro.params)
  PROVE  Substitute(macro, args) \in Seq(STRING)
<1>1. macro.body \in Seq(STRING) /\ macro.params \in Seq(STRING)
  BY DEF Macro
<1> DEFINE Q(k) == {q \in DOMAIN macro.params : macro.params[q] = macro.body[k]}
<1>2. ASSUME NEW k \in DOMAIN macro.body
      PROVE  (IF Q(k) = {} THEN <<macro.body[k]>> ELSE args[Min(Q(k))]) \in Seq(STRING)
  <2>1. macro.body[k] \in STRING
    BY <1>1
  <2>2. Len(macro.params) \in Nat /\ Q(k) \subseteq 1 .. Len(macro.params)
    BY <1>1
  <2> HIDE DEF Q
  <2>3. Q(k) # {} => Min(Q(k)) \in 1 .. Len(args)
    BY <2>2, LeastPosition
  <2>4. \A q \in 1 .. Len(args) : args[q] \in Seq(STRING)
    OBVIOUS
  <2>5. <<macro.body[k]>> \in Seq(STRING)
    BY <2>1
  <2> QED BY <2>3, <2>4, <2>5
<1> DEFINE pieces == [k \in DOMAIN macro.body |-> IF Q(k) = {} THEN <<macro.body[k]>> ELSE args[Min(Q(k))]]
<1>3. pieces \in Seq(Seq(STRING))
  <2>1. DOMAIN macro.body = 1 .. Len(macro.body) /\ Len(macro.body) \in Nat
    BY <1>1
  <2> HIDE DEF Q
  <2>2. pieces \in [1 .. Len(macro.body) -> Seq(STRING)]
    BY <1>2, <2>1
  <2>3. PICK n \in Nat : n = Len(macro.body)
    BY <2>1
  <2> HIDE DEF pieces
  <2>4. pieces \in [1 .. n -> Seq(STRING)]
    BY <2>2, <2>3
  <2> QED BY <2>4
<1>4. Substitute(macro, args) = FlattenSeq(pieces)
  BY DEF Substitute
<1> HIDE DEF pieces
<1> QED BY <1>3, <1>4, FlattenType
LEMMA TypedStep ==
  ASSUME NEW l \in Seq(STRING), NEW i \in 1 .. Len(l) + 1, NEW inStr \in BOOLEAN,
         NEW rest \in [1 .. Len(l) + 1 -> [BOOLEAN -> Outcome]]
  PROVE  ExpandFrom(Table, l, i, inStr, rest) \in Outcome
<1> DEFINE Then(toks, later) == [toks |-> toks \o later.toks, errs |-> later.errs]
<1>1. ASSUME NEW toks \in Seq(STRING), NEW later \in Outcome
      PROVE  Then(toks, later) \in Outcome
  BY DEF Outcome
<1>2. ASSUME NEW later \in Outcome PROVE [later EXCEPT !.errs = @ + 1] \in Outcome
  BY DEF Outcome
<1>3. ASSUME NEW j \in 1 .. Len(l) + 1, NEW b \in BOOLEAN PROVE rest[j][b] \in Outcome
  OBVIOUS
<1> HIDE DEF Then
<1>4. CASE i > Len(l)
  <2>1. ExpandFrom(Table, l, i, inStr, rest) = [toks |-> <<>>, errs |-> 0]
    BY <1>4 DEF ExpandFrom
  <2> QED BY <2>1 DEF Outcome
<1>5. CASE i <= Len(l)
  <2>1. i \in 1 .. Len(l) /\ ~(i > Len(l)) /\ i + 1 \in 1 .. Len(l) + 1 /\ l[i] \in STRING
    BY <1>5
  <2>2. <<l[i]>> \in Seq(STRING)
    BY <2>1
  <2>3. CASE inStr
    <3>1. ExpandFrom(Table, l, i, inStr, rest) = Then(<<l[i]>>, rest[i + 1][l[i] # Quote])
      BY <1>5, <2>1, <2>3 DEF ExpandFrom, Then
    <3> QED BY <1>1, <1>3, <2>1, <2>2, <3>1
  <2>4. CASE ~inStr /\ l[i] = Quote
    <3>1. ExpandFrom(Table, l, i, inStr, rest) = Then(<<Quote>>, rest[i + 1][TRUE])
      BY <1>5, <2>1, <2>4 DEF ExpandFrom, Then
    <3> QED BY <1>1, <1>3, <2>1, <2>2, <2>4, <3>1
  <2>5. CASE ~inStr /\ l[i] # Quote /\ l[i] = Comment
    <3>1. ExpandFrom(Table, l, i, inStr, rest) = [toks |-> SubSeq(l, i, Len(l)), errs |-> 0]
      BY <1>5, <2>1, <2>5 DEF ExpandFrom, Then
    <3>2. SubSeq(l, i, Len(l)) \in Seq(STRING)
      BY <2>1, PartType
    <3> QED BY <3>1, <3>2 DEF Outcome
  <2> DEFINE Other == ~inStr /\ l[i] # Quote /\ l[i] # Comment
  <2>6. CASE Other /\ IsObjectLike(Table, l[i])
    <3>1. ExpandFrom(Table, l, i, inStr, rest) = Then(Table[l[i]].body, rest[i + 1][FALSE])
      BY <1>5, <2>1, <2>6 DEF ExpandFrom, Then
    <3>2. Table[l[i]].body \in Seq(STRING)
      BY <2>6, ExpansionAssumption DEF IsObjectLike, ExpansionAssumption, Macro
    <3> QED BY <1>1, <1>3, <2>1, <3>1, <3>2
  <2> DEFINE Called == IsFunctionLike(Table, l[i]) /\ i < Len(l) /\ l[i + 1] = "("
  <2>7. CASE Other /\ ~IsObjectLike(Table, l[i]) /\ Called
    <3> DEFINE call == CallAt(l, i + 1)
    <3>1. ExpandFrom(Table, l, i, inStr, rest) =
            IF Len(call.args) = Len(Table[l[i]].params)
              THEN Then(Substitute(Table[l[i]], call.args), rest[call.next][FALSE])
              ELSE [rest[call.next][FALSE] EXCEPT !.errs = @ + 1]
      BY <1>5, <2>1, <2>7 DEF ExpandFrom, Then
    <3>2. Table[l[i]] \in Macro
      BY <2>7, ExpansionAssumption DEF IsFunctionLike, ExpansionAssumption
    <3>3. i + 1 \in 1 .. Len(l)
      BY <2>1, <2>7
    <3>4. call.args \in Seq(Seq(STRING)) /\ call.next \in i + 1 + 1 .. Len(l) + 1
      BY <3>3, CallAtType
    <3>5. rest[call.next][FALSE] \in Outcome
      <4>1. call.next \in 1 .. Len(l) + 1
        BY <2>1, <3>4
      <4> HIDE DEF call
      <4> QED BY <1>3, <4>1
    <3> HIDE DEF call
    <3>6. CASE Len(call.args) = Len(Table[l[i]].params)
      <4>1. Substitute(Table[l[i]], call.args) \in Seq(STRING)
        BY <3>2, <3>4, <3>6, SubstituteType
      <4> QED BY <1>1, <3>1, <3>5, <3>6, <4>1
    <3>7. CASE Len(call.args) # Len(Table[l[i]].params)
      BY <1>2, <3>1, <3>5, <3>7
    <3> QED BY <3>6, <3>7
  <2>8. CASE Other /\ ~IsObjectLike(Table, l[i]) /\ ~Called
    <3>1. ExpandFrom(Table, l, i, inStr, rest) = Then(<<l[i]>>, rest[i + 1][FALSE])
      BY <1>5, <2>1, <2>8 DEF ExpandFrom, Then
    <3> QED BY <1>1, <1>3, <2>1, <2>2, <3>1
  <2> QED BY <2>3, <2>4, <2>5, <2>6, <2>7, <2>8
<1> QED BY <1>4, <1>5

LEMMA LocalStep ==
  ASSUME NEW l \in Seq(STRING), NEW i \in 1 .. Len(l) + 1, NEW inStr \in BOOLEAN, NEW f, NEW g,
         \A j \in i + 1 .. Len(l) + 1 : f[j] = g[j]
  PROVE  ExpandFrom(Table, l, i, inStr, f) = ExpandFrom(Table, l, i, inStr, g)
<1>1. i <= Len(l) => f[i + 1] = g[i + 1]
  OBVIOUS
<1>2. i < Len(l) => f[CallAt(l, i + 1).next] = g[CallAt(l, i + 1).next]
  <2> SUFFICES ASSUME i < Len(l) PROVE f[CallAt(l, i + 1).next] = g[CallAt(l, i + 1).next]
    OBVIOUS
  <2>1. i + 1 \in 1 .. Len(l)
    OBVIOUS
  <2>2. CallAt(l, i + 1).next \in i + 1 + 1 .. Len(l) + 1
    BY <2>1, CallAtType
  <2>3. CallAt(l, i + 1).next \in i + 1 .. Len(l) + 1
    BY <2>2
  <2> QED BY <2>3
<1>3. CASE i > Len(l)
  BY <1>3 DEF ExpandFrom
<1>4. CASE i = Len(l)
  <2>1. ~(i > Len(l)) /\ ~(i < Len(l)) /\ f[i + 1] = g[i + 1]
    BY <1>1, <1>4
  <2> QED BY <2>1, Zenon DEF ExpandFrom
<1>5. CASE i < Len(l)
  <2>1. ~(i > Len(l)) /\ f[i + 1] = g[i + 1]
    BY <1>1, <1>5
  <2> QED BY <1>2, <1>5, <2>1, Zenon DEF ExpandFrom
<1> QED BY <1>3, <1>4, <1>5

LEMMA ScanExists ==
  ASSUME NEW l \in Seq(STRING)
  PROVE  \E scan \in [1 .. Len(l) + 1 -> [BOOLEAN -> Outcome]] :
           /\ ExpandLine(Table, l) = scan[1][FALSE]
           /\ \A i \in 1 .. Len(l) + 1, b \in BOOLEAN : scan[i][b] = ExpandFrom(Table, l, i, b, scan)
<1> DEFINE n == Len(l) + 1
           V == [BOOLEAN -> Outcome]
           F == [1 .. n -> V]
           step == [i \in 1 .. n |-> [f \in F |-> [b \in BOOLEAN |-> ExpandFrom(Table, l, i, b, f)]]]
<1>1. n \in Nat \ {0}
  OBVIOUS
<1>2. [b \in BOOLEAN |-> [toks |-> <<>>, errs |-> 0]] \in V
  BY DEF Outcome
<1>3. step \in [1 .. n -> [F -> V]]
  BY TypedStep
<1>4. ASSUME NEW i \in 1 .. n, NEW g \in F, NEW h \in F, \A j \in i + 1 .. n : g[j] = h[j]
      PROVE  step[i][g] = step[i][h]
  <2>1. \A b \in BOOLEAN : ExpandFrom(Table, l, i, b, g) = ExpandFrom(Table, l, i, b, h)
    BY <1>4, LocalStep
  <2> HIDE DEF F
  <2> QED BY <2>1
<1>5. PICK scan \in F : \A i \in 1 .. n : scan[i] = step[i][scan]
  <2> HIDE DEF V, step, n
  <2>1. \A i \in 1 .. n : \A g, h \in [1 .. n -> V] :
          (\A j \in i + 1 .. n : g[j] = h[j]) => step[i][g] = step[i][h]
    BY <1>4
  <2>2. \E f \in [1 .. n -> V] : \A i \in 1 .. n : f[i] = step[i][f]
    <3>1. Backward(n, V, step)
      BY <1>3, <2>1 DEF Backward
    <3>2. V # {}
      BY <1>2
    <3>3. Solvable(n, V, step)
      BY <1>1, <3>1, <3>2, Recursion
    <3> QED BY <3>3 DEF Solvable
  <2> QED BY <2>2
<1>6. \A i \in 1 .. n : scan[i] = [b \in BOOLEAN |-> ExpandFrom(Table, l, i, b, scan)]
  <2> HIDE DEF F, n
  <2> QED BY <1>5
<1> DEFINE G(f) == [i \in 1 .. n |-> [b \in BOOLEAN |-> ExpandFrom(Table, l, i, b, f)]]
           rec == CHOOSE f : f = G(f)
<1>7. rec = G(rec)
  <2>1. scan = G(scan)
    <3> HIDE DEF n
    <3> QED BY <1>6
  <2> HIDE DEF G
  <2> QED BY <2>1, Zenon
<1>8. ExpandLine(Table, l) = rec[1][FALSE]
  BY Zenon DEF ExpandLine
<1> HIDE DEF rec
<1>9. \A i \in 1 .. n : rec[i] = [b \in BOOLEAN |-> ExpandFrom(Table, l, i, b, rec)]
  <2> HIDE DEF n
  <2>1. \A i \in 1 .. n : G(rec)[i] = [b \in BOOLEAN |-> ExpandFrom(Table, l, i, b, rec)]
    OBVIOUS
  <2> HIDE DEF G
  <2> QED BY <1>7, <2>1
<1>10. \A i \in 1 .. n : rec[i] = scan[i]
  <2> DEFINE S == {k \in 0 .. n - 1 : \A i \in k + 1 .. n : rec[i] = scan[i]}
  <2>1. ASSUME NEW k \in 1 .. n, \A i \in k + 1 .. n : rec[i] = scan[i]
        PROVE  rec[k] = scan[k]
    <3>1. \A b \in BOOLEAN : ExpandFrom(Table, l, k, b, rec) = ExpandFrom(Table, l, k, b, scan)
      BY <2>1, LocalStep
    <3> HIDE DEF n
    <3> QED BY <1>6, <1>9, <3>1
  <2>2. n - 1 \in S
    <3>1. n - 1 + 1 = n /\ n - 1 \in 0 .. n - 1 /\ n + 1 .. n = {} /\ n \in 1 .. n
      BY <1>1
    <3>2. rec[n] = scan[n]
      BY <2>1, <3>1
    <3> HIDE DEF n
    <3> QED BY <3>1, <3>2
  <2>3. ASSUME NEW k \in 0 .. n - 1 - 1, k + 1 \in S PROVE k \in S
    <3>1. k + 1 \in 1 .. n /\ k \in 0 .. n - 1
      BY <1>1
    <3>2. \A i \in k + 1 + 1 .. n : rec[i] = scan[i]
      BY <2>3
    <3>3. rec[k + 1] = scan[k + 1]
      BY <2>1, <3>1, <3>2
    <3>4. \A i \in k + 1 .. n : i = k + 1 \/ i \in k + 1 + 1 .. n
      OBVIOUS
    <3>5. \A i \in k + 1 .. n : rec[i] = scan[i]
      BY <3>2, <3>3, <3>4
    <3> QED BY <3>1, <3>5
  <2>4. 0 \in S
    <3>1. n - 1 \in Nat
      BY <1>1
    <3> HIDE DEF S, n
    <3> QED BY <2>2, <2>3, <3>1, DownTo
  <2> HIDE DEF n
  <2> QED BY <2>4
<1>11. ExpandLine(Table, l) = scan[1][FALSE]
  <2>1. 1 \in 1 .. n
    BY <1>1
  <2> QED BY <1>8, <1>10, <2>1
<1>12. \A i \in 1 .. n, b \in BOOLEAN : scan[i][b] = ExpandFrom(Table, l, i, b, scan)
  <2> HIDE DEF F, n
  <2> QED BY <1>6
<1> QED BY <1>11, <1>12

-----------------------------------------------------------------------------
(* The line and what it says.                                              *)
LEMMA StringStep ==
  ASSUME NEW inside, NEW i \in Nat \ {0}
  PROVE  /\ ~InString(1, inside)
         /\ InString(i + 1, inside) <=>
              ~(InString(i, inside) <=> line[i] = Quote /\ i \notin inside)
<1> DEFINE Q == {j \in Nat : line[j] = Quote /\ j \notin inside}
           C(k) == Cardinality(Q \cap (1 .. k))
<1>1. ASSUME NEW k \in Nat PROVE {j \in 1 .. k : line[j] = Quote /\ j \notin inside} = Q \cap (1 .. k)
  OBVIOUS
<1>2. PICK k \in Nat : i = k + 1
  <2>1. i - 1 \in Nat /\ i = i - 1 + 1
    OBVIOUS
  <2> QED BY <2>1
<1>3. C(k) \in Nat /\ C(k + 1) = C(k) + IF i \in Q THEN 1 ELSE 0
  <2>1. 1 \in Nat /\ 1 <= k + 1
    BY <1>2
  <2> HIDE DEF Q
  <2> QED BY <1>2, <2>1, Counted
<1>4. C(0) = 0
  <2>1. Q \cap (1 .. 0) = {}
    OBVIOUS
  <2> QED BY <2>1, FS_EmptySet
<1>5. /\ InString(i, inside) <=> C(k) % 2 = 1
      /\ InString(i + 1, inside) <=> C(k + 1) % 2 = 1
      /\ InString(1, inside) <=> C(0) % 2 = 1
  <2>1. i - 1 = k /\ i + 1 - 1 = k + 1 /\ 1 - 1 = 0 /\ k + 1 \in Nat /\ 0 \in Nat
    BY <1>2
  <2>2. /\ {j \in 1 .. i - 1 : line[j] = Quote /\ j \notin inside} = Q \cap (1 .. k)
        /\ {j \in 1 .. i + 1 - 1 : line[j] = Quote /\ j \notin inside} = Q \cap (1 .. k + 1)
        /\ {j \in 1 .. 1 - 1 : line[j] = Quote /\ j \notin inside} = Q \cap (1 .. 0)
    BY <1>1, <2>1
  <2> HIDE DEF Q
  <2>3. InString(i, inside) <=> C(k) % 2 = 1
    BY <2>2, Zenon DEF InString
  <2>4. InString(i + 1, inside) <=> C(k + 1) % 2 = 1
    <3>1. PICK m : m = i + 1
      OBVIOUS
    <3> DEFINE X == {j \in 1 .. m - 1 : line[j] = Quote /\ j \notin inside}
    <3>2. InString(m, inside) <=> Cardinality(X) % 2 = 1
      BY Zenon DEF InString
    <3>3. X = Q \cap (1 .. k + 1)
      BY <2>2, <3>1
    <3> HIDE DEF X
    <3> QED BY <3>1, <3>2, <3>3
  <2>5. InString(1, inside) <=> C(0) % 2 = 1
    <3> DEFINE X == {j \in 1 .. 1 - 1 : line[j] = Quote /\ j \notin inside}
    <3>1. InString(1, inside) <=> Cardinality(X) % 2 = 1
      BY Zenon DEF InString
    <3>2. X = Q \cap (1 .. 0)
      BY <2>2
    <3> HIDE DEF X
    <3> QED BY <3>1, <3>2
  <2> QED BY <2>3, <2>4, <2>5, Zenon
<1>6. i \in Q <=> line[i] = Quote /\ i \notin inside
  OBVIOUS
<1> HIDE DEF Q, C
<1>7. C(k) % 2 = 0 \/ C(k) % 2 = 1
  BY <1>3
<1>8. (C(k) + 1) % 2 = 1 <=> C(k) % 2 # 1
  BY <1>3
<1>9. ~InString(1, inside)
  BY <1>4, <1>5
<1> QED BY <1>3, <1>5, <1>6, <1>8, <1>9

(* No comment opens before position i.                                     *)
Clear(i, inside) ==
  \A j \in 1 .. i - 1 : ~(line[j] = Comment /\ j \notin inside /\ ~InString(j, inside))

LEMMA ClearStep ==
  ASSUME NEW inside, NEW i \in Nat \ {0}
  PROVE  /\ Clear(1, inside)
         /\ Clear(i + 1, inside) <=>
              Clear(i, inside) /\ ~(line[i] = Comment /\ i \notin inside /\ ~InString(i, inside))
         /\ Commented(i, inside) <=> ~Clear(i + 1, inside)
<1> DEFINE O(j) == line[j] = Comment /\ j \notin inside /\ ~InString(j, inside)
<1>1. Clear(1, inside)
  BY DEF Clear
<1>2. /\ 1 .. i = (1 .. i - 1) \cup {i} /\ i + 1 - 1 = i
  OBVIOUS
<1>3. /\ Clear(i, inside) <=> \A j \in 1 .. i - 1 : ~O(j)
      /\ Commented(i, inside) <=> \E j \in 1 .. i : O(j)
  BY Zenon DEF Clear, Commented
<1>4. Clear(i + 1, inside) <=> \A j \in 1 .. i : ~O(j)
  <2>1. PICK m : m = i + 1
    OBVIOUS
  <2>2. Clear(m, inside) <=> \A j \in 1 .. m - 1 : ~O(j)
    BY Zenon DEF Clear
  <2>3. m - 1 = i
    BY <2>1
  <2> HIDE DEF O
  <2> QED BY <2>1, <2>2, <2>3
<1>5. O(i) <=> line[i] = Comment /\ i \notin inside /\ ~InString(i, inside)
  OBVIOUS
<1> HIDE DEF O
<1>6. (\A j \in 1 .. i : ~O(j)) <=> (\A j \in 1 .. i - 1 : ~O(j)) /\ ~O(i)
  BY <1>2
<1> QED BY <1>1, <1>3, <1>4, <1>5, <1>6

(* The calls outside the arguments of others, and the positions of their   *)
(* argument lists.                                                         *)
Outermost(calls, inside, cut) ==
  /\ calls \subseteq Callable /\ calls = Calls(inside)
  /\ \A i \in calls : cut[i] \in Cuts(i)
  /\ inside = UNION {i + 1 .. cut[i][Arity(i)] : i \in calls}

LEMMA OneCall ==
  ASSUME ExpansionAssumption, line \in Seq(STRING),
         NEW i \in Callable, NEW cut \in Cuts(i)
  PROVE  /\ i \in 1 .. Len(line) - 1
         /\ Arity(i) \in Nat \ {0}
         /\ cut[Arity(i)] \in i + 2 .. Len(line)
         /\ CallAt(line, i + 1) = [args |-> [q \in 1 .. Arity(i) |-> Arg(cut, q)],
                                   next |-> cut[Arity(i)] + 1]
<1>1. /\ i \in 1 .. Len(line) - 1 /\ Len(line) \in Nat /\ line[i] \in DOMAIN Table /\ Table[line[i]].func
      /\ line[i + 1] = "("
  BY DEF Callable
<1>2. Table[line[i]] \in Macro
  BY <1>1 DEF ExpansionAssumption
<1>3. PICK n : n = Arity(i)
  OBVIOUS
<1>4. PICK o : o = i + 1
  OBVIOUS
<1>5. /\ cut \in [0 .. n -> o .. Len(line)] /\ n > 0 /\ cut[0] = o
      /\ \A q \in 1 .. n :
           /\ cut[q - 1] < cut[q]
           /\ SimpleArg(SubSeq(line, cut[q - 1] + 1, cut[q] - 1))
           /\ IF q = n THEN line[cut[q]] = ")" ELSE line[cut[q]] = Comma
  BY <1>3, <1>4, Zenon DEF Cuts, Arg
<1>6. n \in Nat \ {0}
  <2>1. n \in Nat
    BY <1>2, <1>3 DEF Arity, Macro
  <2> QED BY <1>5, <2>1
<1>7. o \in 1 .. Len(line) /\ line[o] = "("
  BY <1>1, <1>4
<1>8. CallAt(line, o) = [args |-> [q \in 1 .. n |-> SubSeq(line, cut[q - 1] + 1, cut[q] - 1)],
                         next |-> cut[n] + 1]
  BY <1>5, <1>6, <1>7, CallAtCut
<1>9. cut[n] \in i + 2 .. Len(line)
  <2>1. cut \in [0 .. n -> Nat] /\ 0 \in 0 .. n /\ n \in 0 .. n /\ 0 < n /\ n \in Nat
    BY <1>5, <1>6, <1>7
  <2>2. cut[0] < cut[n]
    BY <1>5, <2>1, Rises
  <2>3. cut[n] \in o .. Len(line)
    BY <1>5, <2>1
  <2> QED BY <1>1, <1>4, <1>5, <2>2, <2>3
<1>10. [q \in 1 .. n |-> SubSeq(line, cut[q - 1] + 1, cut[q] - 1)] = [q \in 1 .. n |-> Arg(cut, q)]
  BY DEF Arg
<1> QED BY <1>1, <1>3, <1>4, <1>6, <1>8, <1>9, <1>10

(* The argument lists lie apart.                                           *)
LEMMA Apart ==
  ASSUME ExpansionAssumption, line \in Seq(STRING),
         NEW calls, NEW inside, NEW cut, Outermost(calls, inside, cut)
  PROVE  /\ inside \subseteq 2 .. Len(line)
         /\ calls \cap inside = {}
         /\ \A i \in 1 .. Len(line) : i \notin inside /\ i \notin calls => i + 1 \notin inside
         /\ \A i \in calls : /\ cut[i][Arity(i)] \in i + 2 .. Len(line)
                             /\ i + 1 .. cut[i][Arity(i)] \subseteq inside
                             /\ cut[i][Arity(i)] + 1 \notin inside
<1>1. ASSUME NEW i \in calls
      PROVE  /\ i \in 1 .. Len(line) - 1 /\ cut[i][Arity(i)] \in i + 2 .. Len(line)
             /\ i + 1 .. cut[i][Arity(i)] \subseteq inside
             /\ i \notin inside
  <2>1. i \in Callable /\ cut[i] \in Cuts(i)
    BY DEF Outermost
  <2>2. i \in 1 .. Len(line) - 1 /\ cut[i][Arity(i)] \in i + 2 .. Len(line)
    BY <2>1, OneCall
  <2>3. i \notin inside
    BY DEF Outermost, Calls
  <2>4. i + 1 .. cut[i][Arity(i)] \subseteq inside
    <3> DEFINE E(j) == j + 1 .. cut[j][Arity(j)]
    <3>1. inside = UNION {E(j) : j \in calls}
      BY Zenon DEF Outermost
    <3> HIDE DEF E
    <3>2. E(i) \subseteq inside
      BY <3>1
    <3> QED BY <3>2 DEF E
  <2> QED BY <2>2, <2>3, <2>4
<1>2. ASSUME NEW j \in inside
      PROVE  \E i \in calls : j \in i + 1 .. cut[i][Arity(i)]
  <2> DEFINE E(i) == i + 1 .. cut[i][Arity(i)]
  <2>1. inside = UNION {E(i) : i \in calls}
    BY Zenon DEF Outermost
  <2> HIDE DEF E
  <2>2. \E i \in calls : j \in E(i)
    BY <2>1
  <2> QED BY <2>2 DEF E
<1> DEFINE L(i) == cut[i][Arity(i)]
<1>3. /\ \A i \in calls : /\ i \in 1 .. Len(line) - 1 /\ L(i) \in i + 2 .. Len(line)
                          /\ i + 1 .. L(i) \subseteq inside /\ i \notin inside
      /\ \A j \in inside : \E i \in calls : j \in i + 1 .. L(i)
      /\ Len(line) \in Nat
  BY <1>1, <1>2
<1> HIDE DEF L
<1>4. inside \subseteq 2 .. Len(line)
  BY <1>3
<1>5. ASSUME NEW i \in 1 .. Len(line), i \notin inside, i \notin calls PROVE i + 1 \notin inside
  <2> SUFFICES ASSUME i + 1 \in inside PROVE FALSE
    OBVIOUS
  <2>1. PICK c \in calls : i + 1 \in c + 1 .. L(c)
    BY <1>3
  <2>2. c # i
    BY <1>5
  <2>3. c \in 1 .. Len(line) - 1 /\ L(c) \in c + 2 .. Len(line) /\ c + 1 .. L(c) \subseteq inside
    BY <1>3
  <2>4. i \in c + 1 .. L(c)
    BY <2>1, <2>2, <2>3
  <2> QED BY <1>5, <2>3, <2>4
<1>6. ASSUME NEW i \in calls PROVE L(i) + 1 \notin inside
  <2> SUFFICES ASSUME L(i) + 1 \in inside PROVE FALSE
    OBVIOUS
  <2>1. PICK c \in calls : L(i) + 1 \in c + 1 .. L(c)
    BY <1>3
  <2>2. /\ i \in 1 .. Len(line) - 1 /\ L(i) \in i + 2 .. Len(line) /\ i + 1 .. L(i) \subseteq inside
        /\ i \notin inside
    BY <1>3
  <2>3. /\ c \in 1 .. Len(line) - 1 /\ L(c) \in c + 2 .. Len(line) /\ c + 1 .. L(c) \subseteq inside
        /\ c \notin inside
    BY <1>3
  <2>4. CASE c = i
    BY <2>1, <2>2, <2>4
  <2>5. CASE c < i
    <3>1. i \in c + 1 .. L(c)
      BY <2>1, <2>2, <2>3, <2>5
    <3> QED BY <2>2, <2>3, <3>1
  <2>6. CASE i < c
    <3>1. c \in i + 1 .. L(i)
      BY <2>1, <2>2, <2>3, <2>6
    <3> QED BY <2>2, <2>3, <3>1
  <2> QED BY <2>2, <2>3, <2>4, <2>5, <2>6
<1> QED BY <1>3, <1>4, <1>5, <1>6 DEF L

(* After a call the scan is in no string and no comment.                   *)
LEMMA PastCall ==
  ASSUME ExpansionAssumption, line \in Seq(STRING),
         NEW calls, NEW inside, NEW cut, Outermost(calls, inside, cut), NEW i \in calls
  PROVE  LET next == cut[i][Arity(i)] + 1
         IN  ~InString(next, inside) /\ Clear(next, inside)
<1>1. i \in Callable /\ i \in Calls(inside)
  BY DEF Outermost
<1>2. /\ i \in 1 .. Len(line) - 1 /\ line[i] \in DOMAIN Table /\ i \notin inside
      /\ ~InString(i, inside) /\ ~Commented(i, inside)
  BY <1>1 DEF Callable, Calls, Plain
<1>3. i \in Nat \ {0} /\ line[i] # Quote
  BY <1>2 DEF ExpansionAssumption
<1>4. ~InString(i + 1, inside) /\ Clear(i + 1, inside)
  <2>1. InString(i + 1, inside) <=> ~(InString(i, inside) <=> line[i] = Quote /\ i \notin inside)
    BY <1>3, StringStep
  <2>2. Clear(i + 1, inside)
    BY <1>2, <1>3, ClearStep
  <2> QED BY <1>2, <1>3, <2>1, <2>2
<1>5. PICK last : last = cut[i][Arity(i)]
  OBVIOUS
<1>6. last \in i + 2 .. Len(line) /\ i + 1 .. last \subseteq inside
  BY <1>5, Apart
<1> DEFINE S == {k \in 0 .. last - i : ~InString(i + 1 + k, inside) /\ Clear(i + 1 + k, inside)}
<1>7. 0 \in S
  <2>1. i + 1 + 0 = i + 1 /\ 0 \in 0 .. last - i
    BY <1>3, <1>6
  <2> QED BY <1>4, <2>1
<1>8. ASSUME NEW k \in 0 .. last - i - 1, k \in S PROVE k + 1 \in S
  <2>1. PICK m : m = i + 1 + k
    OBVIOUS
  <2>2. m \in Nat \ {0} /\ m \in i + 1 .. last /\ i + 1 + (k + 1) = m + 1 /\ k + 1 \in 0 .. last - i
    BY <1>3, <1>6, <2>1
  <2>3. m \in inside
    BY <1>6, <2>2
  <2>4. ~InString(m, inside) /\ Clear(m, inside)
    BY <1>8, <2>1
  <2>5. InString(m + 1, inside) <=> ~(InString(m, inside) <=> line[m] = Quote /\ m \notin inside)
    BY <2>2, StringStep
  <2>6. Clear(m + 1, inside) <=>
          Clear(m, inside) /\ ~(line[m] = Comment /\ m \notin inside /\ ~InString(m, inside))
    BY <2>2, ClearStep
  <2>7. ~InString(m + 1, inside) /\ Clear(m + 1, inside)
    BY <2>3, <2>4, <2>5, <2>6
  <2> QED BY <2>2, <2>7
<1>9. last - i \in S
  <2>1. last - i \in Nat /\ last - i \in 0 .. last - i
    BY <1>3, <1>6
  <2> HIDE DEF S
  <2> QED BY <1>7, <1>8, <2>1, UpTo
<1>10. PICK m : m = i + 1 + (last - i)
  OBVIOUS
<1>11. m = last + 1
  BY <1>3, <1>6, <1>10
<1>12. ~InString(m, inside) /\ Clear(m, inside)
  BY <1>9, <1>10
<1> QED BY <1>5, <1>11, <1>12

(* What becomes of each position.                                          *)
Piece(i, calls, inside, cut) ==
  IF i \in calls THEN Filled(i, cut[i])
  ELSE IF i \in inside THEN <<>> ELSE Rewritten(i, inside)

LEMMA CallFilled ==
  ASSUME ExpansionAssumption, line \in Seq(STRING),
         NEW i \in Callable, NEW cut \in Cuts(i)
  PROVE  LET args == CallAt(line, i + 1).args
         IN  /\ args \in Seq(Seq(STRING)) /\ Len(args) = Len(Table[line[i]].params)
             /\ Substitute(Table[line[i]], args) = Filled(i, cut)
             /\ Filled(i, cut) \in Seq(STRING)
<1>1. /\ i \in 1 .. Len(line) - 1 /\ Arity(i) \in Nat \ {0} /\ cut[Arity(i)] \in i + 2 .. Len(line)
      /\ CallAt(line, i + 1) = [args |-> [q \in 1 .. Arity(i) |-> Arg(cut, q)],
                                next |-> cut[Arity(i)] + 1]
  BY OneCall
<1>2. PICK args : args = CallAt(line, i + 1).args
  OBVIOUS
<1>3. args = [q \in 1 .. Arity(i) |-> Arg(cut, q)]
  BY <1>1, <1>2
<1>4. PICK macro : macro = Table[line[i]]
  OBVIOUS
<1>5. macro \in Macro
  BY <1>4 DEF Callable, ExpansionAssumption
<1>6. macro.body \in Seq(STRING) /\ macro.params \in Seq(STRING) /\ Arity(i) = Len(macro.params)
  BY <1>4, <1>5 DEF Macro, Arity
<1>7. args \in Seq(Seq(STRING)) /\ Len(args) = Len(macro.params)
  <2>1. i + 1 \in 1 .. Len(line)
    BY <1>1
  <2>2. args \in Seq(Seq(STRING))
    BY <1>2, <2>1, CallAtType
  <2>3. Len(args) = Arity(i)
    BY <1>1, <1>3
  <2> QED BY <1>6, <2>2, <2>3
<1> DEFINE qs(k) == {q \in DOMAIN macro.params : macro.params[q] = macro.body[k]}
           one == [k \in DOMAIN macro.body |-> IF qs(k) = {} THEN <<macro.body[k]>> ELSE args[Min(qs(k))]]
           two == [k \in DOMAIN macro.body |->
                     IF \E q \in DOMAIN macro.params : macro.params[q] = macro.body[k]
                       THEN Arg(cut, Min(qs(k))) ELSE <<macro.body[k]>>]
<1>8. Substitute(macro, args) = FlattenSeq(one) /\ Filled(i, cut) = FlattenSeq(two)
  BY <1>4, Zenon DEF Substitute, Filled
<1>9. ASSUME NEW k \in DOMAIN macro.body
      PROVE  (IF qs(k) = {} THEN <<macro.body[k]>> ELSE args[Min(qs(k))])
               = (IF \E q \in DOMAIN macro.params : macro.params[q] = macro.body[k]
                    THEN Arg(cut, Min(qs(k))) ELSE <<macro.body[k]>>)
  <2>1. (\E q \in DOMAIN macro.params : macro.params[q] = macro.body[k]) <=> qs(k) # {}
    OBVIOUS
  <2>2. qs(k) \subseteq 1 .. Arity(i) /\ Arity(i) \in Nat
    BY <1>1, <1>6
  <2> HIDE DEF qs
  <2>3. qs(k) # {} => Min(qs(k)) \in 1 .. Arity(i)
    BY <2>2, LeastPosition
  <2> QED BY <1>3, <2>1, <2>3
<1>10. one = two
  <2> HIDE DEF qs
  <2> QED BY <1>9
<1>11. Substitute(macro, args) = Filled(i, cut)
  BY <1>8, <1>10
<1>12. Substitute(macro, args) \in Seq(STRING)
  BY <1>5, <1>7, SubstituteType
<1> QED BY <1>2, <1>4, <1>7, <1>11, <1>12

LEMMA PieceType ==
  ASSUME ExpansionAssumption, line \in Seq(STRING),
         NEW calls, NEW inside, NEW cut, Outermost(calls, inside, cut), NEW i \in 1 .. Len(line)
  PROVE  Piece(i, calls, inside, cut) \in Seq(STRING)
<1>1. CASE i \in calls
  <2>1. i \in Callable /\ cut[i] \in Cuts(i)
    BY <1>1 DEF Outermost
  <2>2. Filled(i, cut[i]) \in Seq(STRING)
    BY <2>1, CallFilled
  <2> QED BY <1>1, <2>2 DEF Piece
<1>2. CASE i \notin calls
  <2>1. Rewritten(i, inside) \in Seq(STRING)
    <3>1. line[i] \in DOMAIN Table => Table[line[i]].body \in Seq(STRING)
      BY DEF ExpansionAssumption, Macro
    <3>2. <<line[i]>> \in Seq(STRING)
      OBVIOUS
    <3> QED BY <3>1, <3>2 DEF Rewritten
  <2>2. <<>> \in Seq(STRING)
    OBVIOUS
  <2> QED BY <1>2, <2>1, <2>2 DEF Piece
<1> QED BY <1>1, <1>2

-----------------------------------------------------------------------------
(* What the scan returns.                                                  *)
LEMMA RestKept ==
  ASSUME NEW l \in Seq(STRING), NEW h \in [1 .. Len(l) + 1 -> Seq(STRING)], h[Len(l) + 1] = <<>>,
         NEW i \in 1 .. Len(l), \A j \in i .. Len(l) : h[j] = <<l[j]>> \o h[j + 1]
  PROVE  h[i] = SubSeq(l, i, Len(l))
<1> DEFINE n == Len(l)
           S == {k \in 0 .. n - i : h[i + k] = SubSeq(l, i + k, n)}
<1>1. n \in Nat /\ i \in Nat \ {0} /\ i <= n /\ n - i \in Nat
  OBVIOUS
<1>2. n - i \in S
  <2>1. i + (n - i) = n /\ n \in i .. n /\ n - i \in 0 .. n - i
    BY <1>1
  <2>2. h[n] = <<l[n]>> \o <<>>
    BY <2>1
  <2>3. SubSeq(l, n, n) = <<l[n]>> /\ <<l[n]>> \o <<>> = <<l[n]>>
    <3>1. PICK m : m = n
      OBVIOUS
    <3>2. m \in 1 .. Len(l)
      BY <1>1, <3>1
    <3>3. SubSeq(l, m, m) = <<l[m]>>
      <4>1. PICK s : s = SubSeq(l, m, m)
        OBVIOUS
      <4>2. m \in Nat /\ m - m + 1 = 1 /\ m + 1 - 1 = m /\ m <= m /\ \A j \in m .. m : l[j] \in STRING
        BY <3>2
      <4>3. /\ SubSeq(l, m, m) \in Seq(STRING) /\ Len(SubSeq(l, m, m)) = m - m + 1
            /\ \A j \in 1 .. m - m + 1 : SubSeq(l, m, m)[j] = l[m + j - 1]
        BY <4>2, SubSeqProperties
      <4>4. s \in Seq(STRING) /\ Len(s) = 1 /\ s[1] = l[m]
        BY <4>1, <4>2, <4>3
      <4>5. s = <<l[m]>>
        BY ONLY <4>4
      <4> QED BY <4>1, <4>5
    <3>4. <<l[m]>> \o <<>> = <<l[m]>>
      <4>1. <<l[m]>> \in Seq(STRING)
        BY <3>2
      <4> HIDE DEF n
      <4> QED BY <4>1
    <3> QED BY <3>1, <3>3, <3>4
  <2> HIDE DEF n
  <2>4. PICK k : k = n - i
    OBVIOUS
  <2>5. i + k = n /\ k \in 0 .. n - i
    BY <2>1, <2>4
  <2>6. h[i + k] = SubSeq(l, i + k, n)
    BY <2>2, <2>3, <2>5
  <2> QED BY <2>4, <2>5, <2>6
<1>3. ASSUME NEW k \in 0 .. n - i - 1, k + 1 \in S PROVE k \in S
  <2>1. PICK m : m = i + k
    OBVIOUS
  <2>2. m \in i .. n /\ m \in 1 .. n /\ m < n /\ m + 1 = i + (k + 1) /\ k \in 0 .. n - i
    BY <1>1, <2>1
  <2>3. h[m + 1] = SubSeq(l, m + 1, n)
    BY <1>3, <2>2
  <2>4. h[m] = <<l[m]>> \o SubSeq(l, m + 1, n)
    BY <2>2, <2>3
  <2>5. <<l[m]>> \o SubSeq(l, m + 1, n) = SubSeq(l, m, n)
    <3>1. PICK d \in Nat : n = m + d
      <4>1. n - m \in Nat /\ n = m + (n - m)
        BY <2>2
      <4> QED BY <4>1
    <3> HIDE DEF n
    <3> QED BY <2>2, <3>1
  <2> QED BY <2>1, <2>2, <2>4, <2>5
<1>4. 0 \in S
  <2> HIDE DEF S
  <2>1. \A k \in 0 .. n - i : k \in S
    BY <1>1, <1>2, <1>3, DownTo
  <2> QED BY <1>1, <2>1
<1>5. PICK k : k = 0
  OBVIOUS
<1>6. PICK m : m = i + k
  OBVIOUS
<1>7. m = i /\ h[m] = SubSeq(l, m, n)
  BY <1>4, <1>5, <1>6
<1> HIDE DEF S
<1> QED BY ONLY <1>7

LEMMA Gap ==
  ASSUME NEW n \in Nat, NEW h \in [1 .. n -> Seq(STRING)],
         NEW a \in 1 .. n, NEW b \in a .. n, \A j \in a .. b - 1 : h[j] = <<>> \o h[j + 1]
  PROVE  h[a] = h[b]
<1> DEFINE S == {k \in 0 .. b - a : h[a + k] = h[a]}
<1>1. 0 \in S
  <2>1. a + 0 = a /\ 0 \in 0 .. b - a
    OBVIOUS
  <2> QED BY <2>1
<1>2. ASSUME NEW k \in 0 .. b - a - 1, k \in S PROVE k + 1 \in S
  <2>1. PICK m : m = a + k
    OBVIOUS
  <2>2. m \in a .. b - 1 /\ m + 1 \in 1 .. n /\ a + (k + 1) = m + 1 /\ k + 1 \in 0 .. b - a
    BY <2>1
  <2>3. h[m] = <<>> \o h[m + 1] /\ h[m + 1] \in Seq(STRING)
    BY <2>2
  <2>4. h[m + 1] = h[m]
    BY <2>3
  <2> QED BY <1>2, <2>1, <2>2, <2>4
<1>3. b - a \in S
  <2>1. b - a \in Nat /\ b - a \in 0 .. b - a
    OBVIOUS
  <2> HIDE DEF S
  <2> QED BY <1>1, <1>2, <2>1, UpTo
<1>4. a + (b - a) = b
  OBVIOUS
<1> QED BY <1>3, <1>4

Follows(scan, h, calls, inside, cut) ==
  /\ \A i \in 1 .. Len(line) + 1, b \in BOOLEAN : scan[i][b] = ExpandFrom(Table, line, i, b, scan)
  /\ h \in [1 .. Len(line) + 1 -> Seq(STRING)]
  /\ h[Len(line) + 1] = <<>>
  /\ \A i \in 1 .. Len(line) : h[i] = Piece(i, calls, inside, cut) \o h[i + 1]

Reads(scan, h, inside, i) ==
  i \notin inside /\ Clear(i, inside) =>
    \A b \in BOOLEAN : (b <=> InString(i, inside)) => scan[i][b] = [toks |-> h[i], errs |-> 0]

ReadsAfter(scan, h, inside, i) == \A j \in i + 1 .. Len(line) + 1 : Reads(scan, h, inside, j)

(* One token that stands for itself or for its body.                       *)
LEMMA OneToken ==
  ASSUME ExpansionAssumption, line \in Seq(STRING),
         NEW calls, NEW inside, NEW cut, Outermost(calls, inside, cut),
         NEW scan, NEW h, Follows(scan, h, calls, inside, cut),
         NEW i \in 1 .. Len(line), Reads(scan, h, inside, i + 1),
         i \notin inside, Clear(i, inside), ~(line[i] = Comment /\ ~InString(i, inside)),
         i \notin calls,
         NEW b \in BOOLEAN, b <=> ~(InString(i, inside) <=> line[i] = Quote)
  PROVE  /\ scan[i + 1][b] = [toks |-> h[i + 1], errs |-> 0]
         /\ h[i] = Rewritten(i, inside) \o h[i + 1]
         /\ Plain(i, inside) <=> ~InString(i, inside)
<1>1. i \in Nat \ {0}
  OBVIOUS
<1>2. i + 1 \notin inside
  BY Apart
<1>3. Clear(i + 1, inside) /\ (Commented(i, inside) <=> ~Clear(i + 1, inside))
  BY <1>1, ClearStep
<1>4. InString(i + 1, inside) <=> b
  BY <1>1, StringStep
<1>5. h[i] = Rewritten(i, inside) \o h[i + 1]
  BY DEF Follows, Piece
<1> QED BY <1>2, <1>3, <1>4, <1>5 DEF Reads, Plain

(* A comment keeps the rest of the line as it is.                          *)
LEMMA AfterComment ==
  ASSUME ExpansionAssumption, line \in Seq(STRING),
         NEW calls, NEW inside, NEW cut, Outermost(calls, inside, cut),
         NEW scan, NEW h, Follows(scan, h, calls, inside, cut),
         NEW i \in 1 .. Len(line), i \notin inside, line[i] = Comment, ~InString(i, inside)
  PROVE  h[i] = SubSeq(line, i, Len(line))
<1>1. ASSUME NEW j \in i .. Len(line) PROVE ~Plain(j, inside)
  <2>1. i \in 1 .. j
    OBVIOUS
  <2> QED BY <2>1 DEF Plain, Commented
<1>2. ASSUME NEW j \in i .. Len(line) PROVE j \notin calls
  <2>1. calls = Calls(inside)
    BY DEF Outermost
  <2> QED BY <1>1, <2>1 DEF Calls
<1>3. ASSUME NEW j \in i .. Len(line) PROVE j \notin inside
  <2> SUFFICES ASSUME j \in inside PROVE FALSE
    OBVIOUS
  <2> DEFINE E(c) == c + 1 .. cut[c][Arity(c)]
  <2>1. inside = UNION {E(c) : c \in calls}
    BY Zenon DEF Outermost
  <2>2. PICK c \in calls : j \in c + 1 .. cut[c][Arity(c)]
    <3> HIDE DEF E
    <3>1. \E c \in calls : j \in E(c)
      BY <2>1
    <3> QED BY <3>1 DEF E
  <2>3. PICK last : last = cut[c][Arity(c)]
    OBVIOUS
  <2>4. last \in Nat /\ c + 1 .. last \subseteq inside /\ c \in 1 .. Len(line)
    <3>1. cut[c][Arity(c)] \in c + 2 .. Len(line) /\ c + 1 .. cut[c][Arity(c)] \subseteq inside
      BY Apart
    <3>2. c \in 1 .. Len(line)
      BY DEF Outermost, Callable
    <3> QED BY <2>3, <3>1, <3>2
  <2>5. c \notin i .. Len(line)
    BY <1>2
  <2>6. i \in c + 1 .. last
    BY <2>2, <2>3, <2>4, <2>5
  <2> QED BY <2>4, <2>6
<1>4. ASSUME NEW j \in i .. Len(line) PROVE h[j] = <<line[j]>> \o h[j + 1]
  <2>1. j \in 1 .. Len(line)
    OBVIOUS
  <2>2. Piece(j, calls, inside, cut) = <<line[j]>>
    BY <1>1, <1>2, <1>3 DEF Piece, Rewritten
  <2> QED BY <2>1, <2>2 DEF Follows
<1>5. h \in [1 .. Len(line) + 1 -> Seq(STRING)] /\ h[Len(line) + 1] = <<>>
  BY DEF Follows
<1>6. line \in Seq(STRING) /\ i \in 1 .. Len(line)
  OBVIOUS
<1>7. \A j \in i .. Len(line) : h[j] = <<line[j]>> \o h[j + 1]
  BY <1>4
<1> QED BY ONLY <1>5, <1>6, <1>7, RestKept

(* A call becomes its body, and the scan goes on after it.                 *)
CallReads(scan, h, i) ==
  LET call == CallAt(line, i + 1)
  IN  /\ Len(call.args) = Len(Table[line[i]].params)
      /\ scan[call.next][FALSE] = [toks |-> h[i + 1], errs |-> 0]
      /\ h[i] = Substitute(Table[line[i]], call.args) \o h[i + 1]

LEMMA CallStep ==
  ASSUME ExpansionAssumption, line \in Seq(STRING),
         NEW calls, NEW inside, NEW cut, Outermost(calls, inside, cut),
         NEW scan, NEW h, Follows(scan, h, calls, inside, cut),
         NEW i \in calls, ReadsAfter(scan, h, inside, i)
  PROVE  CallReads(scan, h, i)
<1>1. i \in Callable /\ cut[i] \in Cuts(i)
  BY DEF Outermost
<1>2. PICK last : last = cut[i][Arity(i)]
  OBVIOUS
<1>3. i \in 1 .. Len(line) - 1 /\ last \in i + 2 .. Len(line) /\ CallAt(line, i + 1).next = last + 1
  <2>1. /\ i \in 1 .. Len(line) - 1 /\ cut[i][Arity(i)] \in i + 2 .. Len(line)
        /\ CallAt(line, i + 1) = [args |-> [q \in 1 .. Arity(i) |-> Arg(cut[i], q)],
                                  next |-> cut[i][Arity(i)] + 1]
    BY <1>1, OneCall
  <2> QED BY <1>2, <2>1
<1>4. PICK next : next = last + 1
  OBVIOUS
<1>5. /\ next \in i + 1 .. Len(line) + 1 /\ next \in 1 .. Len(line) + 1 /\ i + 1 \in 1 .. Len(line) + 1
      /\ next \in i + 1 .. Len(line) + 1
  BY <1>3, <1>4
<1>6. ~InString(next, inside) /\ Clear(next, inside)
  BY <1>2, <1>4, PastCall
<1>7. next \notin inside /\ i + 1 .. last \subseteq inside /\ calls \cap inside = {}
  BY <1>2, <1>4, Apart
<1>8. scan[next][FALSE] = [toks |-> h[next], errs |-> 0]
  BY <1>5, <1>6, <1>7 DEF Reads, ReadsAfter
<1>9. h[i + 1] = h[next]
  <2>1. ASSUME NEW j \in i + 1 .. next - 1 PROVE h[j] = <<>> \o h[j + 1]
    <3>1. j \in 1 .. Len(line) /\ j \in i + 1 .. last
      BY <1>3, <1>4
    <3>2. j \in inside /\ j \notin calls
      BY <1>7, <3>1
    <3>3. Piece(j, calls, inside, cut) = <<>>
      BY <3>2 DEF Piece
    <3> QED BY <3>1, <3>3 DEF Follows
  <2>2. PICK a : a = i + 1
    OBVIOUS
  <2>3. PICK n : n = Len(line) + 1
    OBVIOUS
  <2>4. n \in Nat /\ a \in 1 .. n /\ next \in a .. n /\ h \in [1 .. n -> Seq(STRING)]
    BY <1>5, <2>2, <2>3 DEF Follows
  <2>5. \A j \in a .. next - 1 : h[j] = <<>> \o h[j + 1]
    BY <2>1, <2>2
  <2>6. h[a] = h[next]
    BY <2>4, <2>5, Gap
  <2> QED BY <2>2, <2>6
<1>10. h[i] = Filled(i, cut[i]) \o h[i + 1]
  <2>1. i \in 1 .. Len(line) /\ Piece(i, calls, inside, cut) = Filled(i, cut[i])
    BY <1>3 DEF Piece
  <2> QED BY <2>1 DEF Follows
<1>11. PICK args : args = CallAt(line, i + 1).args
  OBVIOUS
<1>12. Len(args) = Len(Table[line[i]].params) /\ Substitute(Table[line[i]], args) = Filled(i, cut[i])
  BY <1>1, <1>11, CallFilled
<1> QED BY <1>3, <1>4, <1>8, <1>9, <1>10, <1>11, <1>12 DEF CallReads

(* One step of the scan, outside of the argument lists.                    *)
LEMMA ScanStep ==
  ASSUME ExpansionAssumption, line \in Seq(STRING),
         NEW calls, NEW inside, NEW cut, Outermost(calls, inside, cut),
         NEW scan, NEW h, Follows(scan, h, calls, inside, cut),
         NEW i \in 1 .. Len(line), ReadsAfter(scan, h, inside, i)
  PROVE  Reads(scan, h, inside, i)
<1> SUFFICES ASSUME i \notin inside, Clear(i, inside), NEW b \in BOOLEAN, b <=> InString(i, inside)
             PROVE  scan[i][b] = [toks |-> h[i], errs |-> 0]
  BY DEF Reads
<1>1. scan[i][b] = ExpandFrom(Table, line, i, b, scan)
  BY DEF Follows
<1>2. Reads(scan, h, inside, i + 1) /\ ~(i > Len(line))
  BY DEF ReadsAfter
<1>3. Quote \notin DOMAIN Table /\ Comment \notin DOMAIN Table /\ Quote # Comment
  BY Zenon DEF ExpansionAssumption, Quote, Comment
<1>4. i \in calls => i \in Callable /\ ~InString(i, inside) /\ ~Commented(i, inside)
  BY DEF Outermost, Calls, Plain
<1>5. i \in Callable <=> i < Len(line) /\ IsFunctionLike(Table, line[i]) /\ line[i + 1] = "("
  BY DEF Callable, IsFunctionLike
<1> DEFINE Then(toks, later) == [toks |-> toks \o later.toks, errs |-> later.errs]
<1>6. ASSUME NEW toks, NEW rest, rest = [toks |-> h[i + 1], errs |-> 0], h[i] = toks \o h[i + 1]
      PROVE  Then(toks, rest) = [toks |-> h[i], errs |-> 0]
  BY <1>6
<1>7. ASSUME NEW c \in BOOLEAN, c <=> ~(InString(i, inside) <=> line[i] = Quote),
             ~(line[i] = Comment /\ ~InString(i, inside)), i \notin calls
      PROVE  /\ scan[i + 1][c] = [toks |-> h[i + 1], errs |-> 0]
             /\ h[i] = Rewritten(i, inside) \o h[i + 1]
             /\ Plain(i, inside) <=> ~InString(i, inside)
  <2>1. b <=> InString(i, inside)
    OBVIOUS
  <2>2. \A d \in BOOLEAN : (d <=> ~(InString(i, inside) <=> line[i] = Quote)) =>
          /\ scan[i + 1][d] = [toks |-> h[i + 1], errs |-> 0]
          /\ h[i] = Rewritten(i, inside) \o h[i + 1]
          /\ Plain(i, inside) <=> ~InString(i, inside)
    BY <1>2, <1>7, OneToken, ZenonT(60)
  <2> QED BY ONLY <1>7, <2>2
(* In a string.                                                            *)
<1>8. CASE b
  <2>1. PICK c \in BOOLEAN : c = (line[i] # Quote)
    OBVIOUS
  <2>2. i \notin calls
    BY <1>4, <1>8
  <2>3. scan[i + 1][c] = [toks |-> h[i + 1], errs |-> 0] /\ h[i] = <<line[i]>> \o h[i + 1]
    <3>1. /\ scan[i + 1][c] = [toks |-> h[i + 1], errs |-> 0]
          /\ h[i] = Rewritten(i, inside) \o h[i + 1] /\ ~Plain(i, inside)
      BY <1>7, <1>8, <2>1, <2>2
    <3> QED BY <3>1 DEF Rewritten
  <2>4. scan[i][b] = Then(<<line[i]>>, scan[i + 1][line[i] # Quote])
    BY <1>1, <1>2, <1>8, Zenon DEF ExpandFrom
  <2>5. scan[i][b] = Then(<<line[i]>>, scan[i + 1][c])
    BY <2>1, <2>4, Zenon
  <2> HIDE DEF Then
  <2> QED BY <1>6, <2>3, <2>5
(* A quote opens a string.                                                 *)
<1>9. CASE ~b /\ line[i] = Quote
  <2>1. i \notin calls
    BY <1>3, <1>5, <1>4, <1>9 DEF IsFunctionLike
  <2>2. /\ scan[i + 1][TRUE] = [toks |-> h[i + 1], errs |-> 0]
        /\ h[i] = Rewritten(i, inside) \o h[i + 1]
    BY <1>3, <1>7, <1>9, <2>1
  <2>3. Rewritten(i, inside) = <<Quote>>
    BY <1>3, <1>9 DEF Rewritten
  <2>4. scan[i][b] = Then(<<Quote>>, scan[i + 1][TRUE])
    BY <1>1, <1>2, <1>9, Zenon DEF ExpandFrom
  <2> HIDE DEF Then
  <2> QED BY <1>6, <2>2, <2>3, <2>4
(* A comment.                                                              *)
<1>10. CASE ~b /\ line[i] = Comment
  <2>1. h[i] = SubSeq(line, i, Len(line))
    BY <1>10, AfterComment
  <2>2. line[i] # Quote
    BY <1>3, <1>10
  <2>3. scan[i][b] = [toks |-> SubSeq(line, i, Len(line)), errs |-> 0]
    BY <1>1, <1>2, <1>10, <2>2, Zenon DEF ExpandFrom
  <2> QED BY <2>1, <2>3
<1>11. CASE ~b /\ line[i] # Quote /\ line[i] # Comment
  <2> DEFINE Call == IsFunctionLike(Table, line[i]) /\ i < Len(line) /\ line[i + 1] = "("
  <2>1. i \notin calls =>
          /\ scan[i + 1][FALSE] = [toks |-> h[i + 1], errs |-> 0]
          /\ h[i] = Rewritten(i, inside) \o h[i + 1] /\ Plain(i, inside)
    BY <1>7, <1>11
  (* A macro without parameters.                                           *)
  <2>2. CASE IsObjectLike(Table, line[i])
    <3>1. i \notin calls
      BY <1>4, <1>5, <2>2 DEF IsObjectLike, IsFunctionLike
    <3>2. Rewritten(i, inside) = Table[line[i]].body
      BY <2>1, <2>2, <3>1 DEF IsObjectLike, Rewritten
    <3>3. scan[i][b] = Then(Table[line[i]].body, scan[i + 1][FALSE])
      BY <1>1, <1>2, <1>11, <2>2, Zenon DEF ExpandFrom
    <3> HIDE DEF Then
    <3> QED BY <1>6, <2>1, <3>1, <3>2, <3>3
  (* A call.                                                               *)
  <2>3. CASE ~IsObjectLike(Table, line[i]) /\ Call
    <3>1. i \in calls
      <4>1. Clear(i + 1, inside) /\ (Commented(i, inside) <=> ~Clear(i + 1, inside))
        <5>1. i \in Nat \ {0}
          OBVIOUS
        <5> QED BY <1>11, <5>1, ClearStep
      <4>2. i \in Callable /\ Plain(i, inside)
        BY <1>5, <1>11, <2>3, <4>1 DEF Plain
      <4> QED BY <4>2 DEF Outermost, Calls
    <3>2. PICK call : call = CallAt(line, i + 1)
      OBVIOUS
    <3>3. /\ Len(call.args) = Len(Table[line[i]].params)
          /\ scan[call.next][FALSE] = [toks |-> h[i + 1], errs |-> 0]
          /\ h[i] = Substitute(Table[line[i]], call.args) \o h[i + 1]
      <4>1. CallReads(scan, h, i)
        BY <3>1, CallStep
      <4> QED BY <3>2, <4>1, Zenon DEF CallReads
    <3>4. scan[i][b] = IF Len(call.args) = Len(Table[line[i]].params)
                         THEN Then(Substitute(Table[line[i]], call.args), scan[call.next][FALSE])
                         ELSE [scan[call.next][FALSE] EXCEPT !.errs = @ + 1]
      BY <1>1, <1>2, <1>11, <2>3, <3>2, Zenon DEF ExpandFrom
    <3> HIDE DEF Then
    <3>5. scan[i][b] = Then(Substitute(Table[line[i]], call.args), scan[call.next][FALSE])
      BY <3>3, <3>4
    <3> QED BY <1>6, <3>3, <3>5
  (* Any other token.                                                      *)
  <2>4. CASE ~IsObjectLike(Table, line[i]) /\ ~Call
    <3>1. i \notin calls
      BY <1>4, <1>5, <2>4
    <3>2. Rewritten(i, inside) = <<line[i]>>
      BY <2>4 DEF IsObjectLike, Rewritten
    <3>3. scan[i][b] = Then(<<line[i]>>, scan[i + 1][FALSE])
      BY <1>1, <1>2, <1>11, <2>4, Zenon DEF ExpandFrom
    <3> HIDE DEF Then
    <3> QED BY <1>6, <2>1, <3>1, <3>2, <3>3
  <2> HIDE DEF Call
  <2> QED BY <2>2, <2>3, <2>4
<1> QED BY <1>8, <1>9, <1>10, <1>11

LEMMA Substituted ==
  ASSUME ExpansionAssumption, line \in Seq(STRING),
         NEW calls, NEW inside, NEW cut, Outermost(calls, inside, cut)
  PROVE  ExpandLine(Table, line) =
           [toks |-> FlattenSeq([i \in DOMAIN line |-> Piece(i, calls, inside, cut)]), errs |-> 0]
<1> DEFINE s == [i \in DOMAIN line |-> Piece(i, calls, inside, cut)]
<1>1. PICK n \in Nat : n = Len(line)
  OBVIOUS
<1>2. s \in [1 .. n -> Seq(STRING)] /\ \A i \in 1 .. n : s[i] = Piece(i, calls, inside, cut)
  <2>1. DOMAIN line = 1 .. n
    BY <1>1
  <2>2. \A i \in 1 .. n : Piece(i, calls, inside, cut) \in Seq(STRING)
    BY <1>1, PieceType
  <2> QED BY <2>1, <2>2
<1> HIDE DEF s
<1>3. s \in Seq(Seq(STRING)) /\ Len(s) = n
  BY <1>2
<1>4. PICK h \in [1 .. Len(s) + 1 -> Seq(STRING)] :
        /\ h[1] = FlattenSeq(s)
        /\ h[Len(s) + 1] = <<>>
        /\ \A i \in 1 .. Len(s) : h[i] = s[i] \o h[i + 1]
  BY <1>3, Flattened
<1>5. PICK scan : /\ ExpandLine(Table, line) = scan[1][FALSE]
                  /\ \A i \in 1 .. Len(line) + 1, b \in BOOLEAN :
                       scan[i][b] = ExpandFrom(Table, line, i, b, scan)
  BY ScanExists
<1>6. Follows(scan, h, calls, inside, cut)
  BY <1>1, <1>2, <1>3, <1>4, <1>5 DEF Follows
<1> DEFINE S == {k \in 0 .. n : \A j \in k + 1 .. n + 1 : Reads(scan, h, inside, j)}
<1>7. n \in S
  <2>1. Reads(scan, h, inside, n + 1)
    <3>1. ASSUME NEW b \in BOOLEAN PROVE scan[n + 1][b] = [toks |-> h[n + 1], errs |-> 0]
      <4>1. n + 1 > Len(line) /\ n + 1 \in 1 .. Len(line) + 1
        BY <1>1
      <4>2. scan[n + 1][b] = ExpandFrom(Table, line, n + 1, b, scan)
        BY <1>5, <4>1
      <4>3. PICK m : m = n + 1
        OBVIOUS
      <4>4. ExpandFrom(Table, line, m, b, scan) = [toks |-> <<>>, errs |-> 0]
        BY <4>1, <4>3, Zenon DEF ExpandFrom
      <4>5. h[n + 1] = <<>>
        BY <1>3, <1>4
      <4> QED BY <4>2, <4>3, <4>4, <4>5
    <3> QED BY <3>1 DEF Reads
  <2>2. n \in 0 .. n /\ \A j \in n + 1 .. n + 1 : j = n + 1
    OBVIOUS
  <2> QED BY <2>1, <2>2
<1>8. ASSUME NEW k \in 0 .. n - 1, k + 1 \in S PROVE k \in S
  <2>1. PICK m : m = k + 1
    OBVIOUS
  <2>2. m \in 1 .. Len(line) /\ k \in 0 .. n
    BY <1>1, <2>1
  <2>3. ReadsAfter(scan, h, inside, m)
    BY <1>1, <1>8, <2>1 DEF ReadsAfter
  <2>4. Reads(scan, h, inside, m)
    BY <1>6, <2>2, <2>3, ScanStep
  <2>5. ASSUME NEW j \in k + 1 .. n + 1 PROVE Reads(scan, h, inside, j)
    <3>1. CASE j = m
      BY <2>4, <3>1
    <3>2. CASE j # m
      <4>1. j \in m + 1 .. Len(line) + 1
        BY <1>1, <2>1, <3>2
      <4> QED BY <2>3, <4>1 DEF ReadsAfter
    <3> QED BY <3>1, <3>2
  <2> QED BY <2>2, <2>5
<1>9. Reads(scan, h, inside, 1)
  <2>1. 0 \in S
    <3> HIDE DEF S
    <3>1. \A k \in 0 .. n : k \in S
      BY <1>7, <1>8, DownTo
    <3> QED BY <3>1
  <2>2. 1 \in 0 + 1 .. n + 1
    OBVIOUS
  <2> QED BY <2>1, <2>2
<1>10. 1 \notin inside /\ Clear(1, inside) /\ ~InString(1, inside)
  <2>1. 1 \notin inside
    <3>1. inside \subseteq 2 .. Len(line)
      BY Apart
    <3> QED BY <1>1, <3>1
  <2>2. 1 \in Nat \ {0}
    OBVIOUS
  <2> QED BY <2>1, <2>2, ClearStep, StringStep
<1>11. scan[1][FALSE] = [toks |-> h[1], errs |-> 0]
  BY <1>9, <1>10 DEF Reads
<1> QED BY <1>4, <1>5, <1>11 DEF s

-----------------------------------------------------------------------------
(* The result is what expand_line makes of the line.                       *)
Inv == line \in Lines /\ (result = NotYet \/ result = ExpandLine(Table, line))

LEMMA Invariance == Spec => []Inv
<1>1. Init => Inv
  BY DEF Init, Inv
<1>2. Inv /\ [Expand]_<<line, result>> => Inv'
  <2> SUFFICES ASSUME Inv, [Expand]_<<line, result>> PROVE Inv'
    OBVIOUS
  <2>1. CASE Expand
    BY <2>1 DEF Expand, Inv
  <2>2. CASE UNCHANGED <<line, result>>
    BY <2>2, Zenon DEF Inv
  <2> QED BY <2>1, <2>2
<1> QED BY <1>1, <1>2, PTL DEF Spec

(* expand_line replaces every call outside the arguments of another by its *)
(* filled body, whatever the table and the line (preproc.c:178-283).       *)
THEOREM CallsAreSubstituted == Spec => []CallsSubstitute
<1>1. Inv => CallsSubstitute
  <2> DEFINE cutOf(calls)    == [i \in calls |-> CHOOSE c \in Cuts(i) : TRUE]
             insideOf(calls) == UNION {i + 1 .. cutOf(calls)[i][Arity(i)] : i \in calls}
  <2> SUFFICES ASSUME Inv, Done, NEW calls \in SUBSET Callable,
                      \A i \in calls : Cuts(i) # {}, calls = Calls(insideOf(calls))
               PROVE  result = [toks |-> FlattenSeq([i \in DOMAIN line |->
                                           IF i \in calls THEN Filled(i, cutOf(calls)[i])
                                           ELSE IF i \in insideOf(calls) THEN <<>>
                                           ELSE Rewritten(i, insideOf(calls))]),
                                errs |-> 0]
    BY Zenon DEF CallsSubstitute
  <2> DEFINE cut    == cutOf(calls)
             inside == insideOf(calls)
  <2>1. line \in Seq(STRING) /\ result = ExpandLine(Table, line)
    BY ExpansionAssumption DEF ExpansionAssumption, Inv, Done
  <2>2. Outermost(calls, inside, cut)
    <3>1. \A i \in calls : cut[i] \in Cuts(i)
      OBVIOUS
    <3>2. inside = UNION {i + 1 .. cut[i][Arity(i)] : i \in calls}
      BY Zenon
    <3> HIDE DEF cut, inside
    <3>3. calls = Calls(inside)
      BY DEF inside
    <3> QED BY <3>1, <3>2, <3>3, Zenon DEF Outermost
  <2>3. result = [toks |-> FlattenSeq([i \in DOMAIN line |-> Piece(i, calls, inside, cut)]), errs |-> 0]
    <3> HIDE DEF cut, inside
    <3> QED BY <2>1, <2>2, ExpansionAssumption, Substituted
  <2> QED BY <2>3, Zenon DEF Piece
<1> QED BY <1>1, Invariance, PTL
=============================================================================
