---------------------------- MODULE SymTabProofs -----------------------------
(***************************************************************************)
(* The symbol table, for any names, any hash function and any number of    *)
(* buckets: no scope holds a name twice, what is looked up is the          *)
(* innermost definition, and the table implements ScopedMap.               *)
(***************************************************************************)
EXTENDS SymTab, Facts

(* What every scope satisfies, stated of one scope at a time.              *)
Listed(scope, sym) == \E k \in DOMAIN scope.list : scope.list[k] = sym

InBucket(scope, b, sym) ==
  \E m \in DOMAIN scope.buckets[b] : scope.buckets[b][m] = sym

ScopeInv(scope, depth) ==
  /\ scope \in Scope
  /\ \A k \in DOMAIN scope.list :
       InBucket(scope, Hash[scope.list[k].name], scope.list[k])
  /\ \A b \in Buckets : \A m \in DOMAIN scope.buckets[b] :
       /\ Hash[scope.buckets[b][m].name] = b
       /\ Listed(scope, scope.buckets[b][m])
  /\ \A j, k \in DOMAIN scope.list : scope.list[j].name = scope.list[k].name => j = k
  /\ \A k \in DOMAIN scope.list : scope.list[k].depth = depth

(* The inductive invariant.  SameSymbols and the depths are needed beside  *)
(* NamesUnique: sym_define looks for the name in one bucket only, and that *)
(* says something about the list because the two hold the same symbols.    *)
SymInv ==
  /\ scopes \in Seq(Scope)
  /\ Len(scopes) >= 1
  /\ \A i \in DOMAIN scopes : ScopeInv(scopes[i], i - 1)

-----------------------------------------------------------------------------
(* A scope that has just been opened.                                      *)
LEMMA NewScopeInv ==
  ASSUME NEW d \in Nat
  PROVE  ScopeInv(NewScope, d) /\ MapOf(NewScope) = [n \in {} |-> Abstract!Undefined]
<1>1. NewScope \in Scope
  BY DEF NewScope, Scope
<1>2. NewScope.list = <<>> /\ \A b \in Buckets : NewScope.buckets[b] = <<>>
  BY DEF NewScope
<1>3. DOMAIN NewScope.list = {} /\ \A b \in Buckets : DOMAIN NewScope.buckets[b] = {}
  BY <1>2
<1>4. ScopeInv(NewScope, d)
  BY <1>1, <1>3 DEF ScopeInv
<1>5. ListNames(NewScope) = {}
  BY <1>3 DEF ListNames
<1>6. MapOf(NewScope) = [n \in {} |-> Abstract!Undefined]
  BY <1>5 DEF MapOf
<1> QED BY <1>4, <1>6

(* Looking a name up in one scope says what the list of the scope says.    *)
LEMMA HoldsIffListed ==
  ASSUME NEW scope, NEW d \in Nat, ScopeInv(scope, d), NEW name \in Names
  PROVE  Holds(scope, name) <=> name \in ListNames(scope)
<1>1. Hash[name] \in Buckets
  BY SymTabAssumption
<1>2. ASSUME NEW i \in HitsIn(scope, name)
      PROVE  name \in ListNames(scope)
  <2>1. /\ i \in DOMAIN scope.buckets[Hash[name]]
        /\ scope.buckets[Hash[name]][i].name = name
    BY <1>2 DEF HitsIn
  <2>2. Listed(scope, scope.buckets[Hash[name]][i])
    BY <1>1, <2>1 DEF ScopeInv
  <2> QED BY <2>1, <2>2 DEF Listed, ListNames
<1>3. ASSUME name \in ListNames(scope)
      PROVE  HitsIn(scope, name) # {}
  <2>1. PICK k \in DOMAIN scope.list : scope.list[k].name = name
    BY <1>3 DEF ListNames
  <2>2. InBucket(scope, Hash[name], scope.list[k])
    BY <2>1 DEF ScopeInv
  <2> QED BY <2>1, <2>2 DEF InBucket, HitsIn
<1> QED BY <1>2, <1>3 DEF Holds

(* What is found in the bucket is a symbol of the list, under that name.   *)
LEMMA FoundIsListed ==
  ASSUME NEW scope, NEW d \in Nat, ScopeInv(scope, d), NEW name \in Names,
         Holds(scope, name)
  PROVE  /\ Listed(scope, BucketLookup(scope, name))
         /\ BucketLookup(scope, name).name = name
<1> DEFINE hits == HitsIn(scope, name)
           first == CHOOSE i \in hits : \A j \in hits : i <= j
<1>1. Hash[name] \in Buckets
  BY SymTabAssumption
<1>2. scope.buckets[Hash[name]] \in Seq(Sym)
  BY <1>1 DEF ScopeInv, Scope
<1>3. hits \subseteq Nat /\ hits # {}
  BY <1>2 DEF HitsIn, Holds
<1>4. \E i \in hits : \A j \in hits : i <= j
  <2> HIDE DEF hits
  <2> QED BY <1>3, LeastExists
<1>5. first \in hits
  BY <1>4
<1>6. Listed(scope, scope.buckets[Hash[name]][first])
  BY <1>1, <1>5 DEF ScopeInv, HitsIn
<1>7. scope.buckets[Hash[name]][first].name = name
  BY <1>5 DEF HitsIn
<1> QED BY <1>6, <1>7 DEF BucketLookup

(* sym_define on a scope that does not hold the name.                      *)
LEMMA InsertInv ==
  ASSUME NEW d \in Nat, NEW scope, ScopeInv(scope, d),
         NEW name \in Names, NEW kind \in Kinds, ~Holds(scope, name)
  PROVE  LET sym == [name |-> name, kind |-> kind, depth |-> d]
         IN  /\ ScopeInv(Insert(scope, sym), d)
             /\ MapOf(Insert(scope, sym)) = Abstract!Bind(MapOf(scope), name, kind)
<1> DEFINE sym == [name |-> name, kind |-> kind, depth |-> d]
           new == Insert(scope, sym)
           h == Hash[name]
<1>1. sym \in Sym /\ sym.name = name /\ sym.kind = kind /\ sym.depth = d
  BY DEF Sym
<1>2. h \in Buckets
  BY SymTabAssumption
<1>3. /\ scope.buckets \in [Buckets -> Seq(Sym)]
      /\ scope.list \in Seq(Sym)
  BY DEF ScopeInv, Scope
<1>4. /\ new.buckets = [scope.buckets EXCEPT ![h] = <<sym>> \o scope.buckets[h]]
      /\ new.list = <<sym>> \o scope.list
      /\ new = [buckets |-> new.buckets, list |-> new.list]
  BY <1>1 DEF Insert
<1> HIDE DEF sym, new
<1>5. /\ new.list \in Seq(Sym)
      /\ DOMAIN new.list = 1 .. Len(scope.list) + 1
      /\ new.list[1] = sym
      /\ \A k \in 1 .. Len(scope.list) : new.list[k + 1] = scope.list[k]
  BY <1>1, <1>3, <1>4, PrependFacts
<1>6. /\ new.buckets \in [Buckets -> Seq(Sym)]
      /\ DOMAIN new.buckets[h] = 1 .. Len(scope.buckets[h]) + 1
      /\ new.buckets[h][1] = sym
      /\ \A m \in 1 .. Len(scope.buckets[h]) : new.buckets[h][m + 1] = scope.buckets[h][m]
      /\ \A b \in Buckets \ {h} : new.buckets[b] = scope.buckets[b]
  <2> DEFINE old   == scope.buckets[h]
             grown == new.buckets[h]
  <2>1. old \in Seq(Sym)
    BY <1>2, <1>3
  <2>2. grown = <<sym>> \o old
    BY <1>2, <1>3, <1>4
  <2> HIDE DEF old, grown
  <2>3. /\ grown \in Seq(Sym)
        /\ DOMAIN grown = 1 .. Len(old) + 1
        /\ grown[1] = sym
        /\ \A m \in 1 .. Len(old) : grown[m + 1] = old[m]
    BY <1>1, <2>1, <2>2, PrependFacts
  <2> USE DEF old, grown
  <2>4. \A b \in Buckets \ {h} : new.buckets[b] = scope.buckets[b]
    BY <1>3, <1>4
  <2>5. new.buckets \in [Buckets -> Seq(Sym)]
    BY <1>2, <1>3, <1>4, <2>2, <2>3
  <2> QED BY <2>3, <2>4, <2>5
<1>7. \A k \in DOMAIN scope.list : scope.list[k].name # name
  BY HoldsIffListed DEF ListNames
<1>8. new \in Scope
  BY <1>4, <1>5, <1>6 DEF Scope
<1>9. \A k \in DOMAIN new.list : k = 1 \/ (k - 1 \in DOMAIN scope.list /\ new.list[k] = scope.list[k - 1])
  BY <1>3, <1>5
<1>10. \A m \in DOMAIN new.buckets[h] :
         m = 1 \/ (m - 1 \in DOMAIN scope.buckets[h] /\ new.buckets[h][m] = scope.buckets[h][m - 1])
  <2> SUFFICES ASSUME NEW m \in DOMAIN new.buckets[h], m # 1
               PROVE  /\ m - 1 \in DOMAIN scope.buckets[h]
                      /\ new.buckets[h][m] = scope.buckets[h][m - 1]
    OBVIOUS
  <2>1. scope.buckets[h] \in Seq(Sym)
    BY <1>2, <1>3
  <2>2. DOMAIN scope.buckets[h] = 1 .. Len(scope.buckets[h]) /\ Len(scope.buckets[h]) \in Nat
    BY <2>1
  <2>3. m \in 1 .. Len(scope.buckets[h]) + 1
    BY <1>6
  <2>4. m - 1 \in 1 .. Len(scope.buckets[h]) /\ (m - 1) + 1 = m
    BY <2>2, <2>3
  <2> QED BY <1>6, <2>2, <2>4
<1>11. \A k \in DOMAIN scope.list :
         k + 1 \in DOMAIN new.list /\ new.list[k + 1] = scope.list[k]
  BY <1>3, <1>5
<1>12. \A b \in Buckets, x \in Sym : InBucket(scope, b, x) => InBucket(new, b, x)
  <2> SUFFICES ASSUME NEW b \in Buckets, NEW x \in Sym, InBucket(scope, b, x)
               PROVE  InBucket(new, b, x)
    OBVIOUS
  <2>1. PICK m \in DOMAIN scope.buckets[b] : scope.buckets[b][m] = x
    BY DEF InBucket
  <2>2. CASE b = h
    <3>1. m \in 1 .. Len(scope.buckets[h]) /\ m + 1 \in DOMAIN new.buckets[h]
      BY <1>2, <1>3, <1>6, <2>1, <2>2
    <3> QED BY <1>6, <2>1, <2>2, <3>1 DEF InBucket
  <2>3. CASE b # h
    BY <1>6, <2>1, <2>3 DEF InBucket
  <2> QED BY <2>2, <2>3
<1>13. \A x \in Sym : Listed(scope, x) => Listed(new, x)
  BY <1>11 DEF Listed
<1>14. \A k \in DOMAIN new.list : InBucket(new, Hash[new.list[k].name], new.list[k])
  <2> SUFFICES ASSUME NEW k \in DOMAIN new.list
               PROVE  InBucket(new, Hash[new.list[k].name], new.list[k])
    OBVIOUS
  <2>1. CASE k = 1
    <3>1. 1 \in DOMAIN new.buckets[h]
      BY <1>2, <1>3, <1>6
    <3> QED BY <1>1, <1>5, <1>6, <2>1, <3>1 DEF InBucket
  <2>2. CASE k # 1
    <3>1. k - 1 \in DOMAIN scope.list /\ new.list[k] = scope.list[k - 1]
      BY <1>9, <2>2
    <3>2. InBucket(scope, Hash[new.list[k].name], new.list[k])
      BY <3>1 DEF ScopeInv
    <3>3. new.list[k] \in Sym /\ Hash[new.list[k].name] \in Buckets
      <4>1. new.list[k] \in Sym
        BY <1>5
      <4>2. new.list[k].name \in Names
        BY <4>1 DEF Sym
      <4> QED BY <4>1, <4>2, SymTabAssumption
    <3> QED BY <1>12, <3>2, <3>3
  <2> QED BY <2>1, <2>2
<1>15. \A b \in Buckets : \A m \in DOMAIN new.buckets[b] :
         Hash[new.buckets[b][m].name] = b /\ Listed(new, new.buckets[b][m])
  <2> SUFFICES ASSUME NEW b \in Buckets, NEW m \in DOMAIN new.buckets[b]
               PROVE  Hash[new.buckets[b][m].name] = b /\ Listed(new, new.buckets[b][m])
    OBVIOUS
  <2>1. CASE b = h /\ m = 1
    <3>1. 1 \in DOMAIN new.list
      BY <1>3, <1>5
    <3> QED BY <1>1, <1>5, <1>6, <2>1, <3>1 DEF Listed
  <2>2. ASSUME NEW j \in DOMAIN scope.buckets[b], new.buckets[b][m] = scope.buckets[b][j]
        PROVE  Hash[new.buckets[b][m].name] = b /\ Listed(new, new.buckets[b][m])
    <3>1. scope.buckets[b][j] \in Sym
      BY <1>3
    <3>2. Hash[scope.buckets[b][j].name] = b /\ Listed(scope, scope.buckets[b][j])
      BY DEF ScopeInv
    <3> QED BY <1>13, <2>2, <3>1, <3>2
  <2>3. CASE b = h /\ m # 1
    BY <1>10, <2>2, <2>3
  <2>4. CASE b # h
    BY <1>6, <2>2, <2>4
  <2> QED BY <2>1, <2>3, <2>4
<1>16. \A j, k \in DOMAIN new.list : new.list[j].name = new.list[k].name => j = k
  <2> SUFFICES ASSUME NEW j \in DOMAIN new.list, NEW k \in DOMAIN new.list,
                      new.list[j].name = new.list[k].name
               PROVE  j = k
    OBVIOUS
  <2>1. CASE j # 1 /\ k # 1
    <3>1. /\ j - 1 \in DOMAIN scope.list /\ new.list[j] = scope.list[j - 1]
          /\ k - 1 \in DOMAIN scope.list /\ new.list[k] = scope.list[k - 1]
      BY <1>9, <2>1
    <3>2. j - 1 = k - 1
      BY <3>1 DEF ScopeInv
    <3> QED BY <1>5, <3>2
  <2>2. CASE j = 1 /\ k # 1
    BY <1>1, <1>5, <1>7, <1>9, <2>2
  <2>3. CASE j # 1 /\ k = 1
    BY <1>1, <1>5, <1>7, <1>9, <2>3
  <2> QED BY <2>1, <2>2, <2>3
<1>17. \A k \in DOMAIN new.list : new.list[k].depth = d
  BY <1>1, <1>5, <1>9 DEF ScopeInv
<1>18. ScopeInv(new, d)
  BY <1>8, <1>14, <1>15, <1>16, <1>17 DEF ScopeInv
<1>19. MapOf(new) = Abstract!Bind(MapOf(scope), name, kind)
  <2>1. ListNames(new) = ListNames(scope) \cup {name}
    <3>1. \A k \in DOMAIN new.list : new.list[k].name \in ListNames(scope) \cup {name}
      BY <1>1, <1>5, <1>9 DEF ListNames
    <3>2. \A k \in DOMAIN scope.list : scope.list[k].name \in ListNames(new)
      BY <1>11 DEF ListNames
    <3>3. name \in ListNames(new)
      <4>1. 1 \in DOMAIN new.list
        BY <1>3, <1>5
      <4> QED BY <1>1, <1>5, <4>1 DEF ListNames
    <3> QED BY <3>1, <3>2, <3>3 DEF ListNames
  <2>2. ASSUME NEW n \in ListNames(new)
        PROVE  MapOf(new)[n] = IF n = name THEN kind ELSE MapOf(scope)[n]
    <3> DEFINE at == CHOOSE k \in DOMAIN new.list : new.list[k].name = n
    <3>1. at \in DOMAIN new.list /\ new.list[at].name = n
      BY DEF ListNames
    <3>2. MapOf(new)[n] = new.list[at].kind
      BY DEF MapOf
    <3> HIDE DEF at
    <3>3. CASE n = name
      <4>1. at = 1
        BY <1>7, <1>9, <3>1, <3>3
      <4> QED BY <1>1, <1>5, <3>2, <3>3, <4>1
    <3>4. CASE n # name
      <4> DEFINE old == CHOOSE k \in DOMAIN scope.list : scope.list[k].name = n
      <4>1. n \in ListNames(scope)
        BY <2>1, <3>4
      <4>2. old \in DOMAIN scope.list /\ scope.list[old].name = n
        BY <4>1 DEF ListNames
      <4>3. MapOf(scope)[n] = scope.list[old].kind
        BY <4>1 DEF MapOf
      <4> HIDE DEF old
      <4>4. at # 1
        BY <1>1, <1>5, <3>1, <3>4
      <4>5. at - 1 \in DOMAIN scope.list /\ new.list[at] = scope.list[at - 1]
        BY <1>9, <3>1, <4>4
      <4>6. at - 1 = old
        BY <3>1, <4>2, <4>5 DEF ScopeInv
      <4> QED BY <3>2, <3>4, <4>3, <4>5, <4>6
    <3> QED BY <3>3, <3>4
  <2>3. MapOf(new) = [n \in ListNames(new) |-> MapOf(new)[n]]
    BY DEF MapOf
  <2>4. DOMAIN MapOf(scope) = ListNames(scope)
    BY DEF MapOf
  <2>5. Abstract!Bind(MapOf(scope), name, kind)
          = [n \in ListNames(new) |-> IF n = name THEN kind ELSE MapOf(scope)[n]]
    BY <2>1, <2>4 DEF Abstract!Bind
  <2> QED BY <2>2, <2>3, <2>5
<1> QED BY <1>18, <1>19 DEF new, sym

-----------------------------------------------------------------------------
LEMMA SymInvInit == SymInit => SymInv /\ Abstract!Init
<1> SUFFICES ASSUME SymInit PROVE SymInv /\ Abstract!Init
  OBVIOUS
<1>1. scopes = <<NewScope>> /\ Len(scopes) = 1 /\ DOMAIN scopes = {1} /\ scopes[1] = NewScope
  BY DEF SymInit
<1>2. ScopeInv(NewScope, 0) /\ MapOf(NewScope) = [n \in {} |-> Abstract!Undefined]
  BY NewScopeInv
<1>3. scopes \in Seq(Scope)
  BY <1>1, <1>2 DEF ScopeInv
<1>4. SymInv
  BY <1>1, <1>2, <1>3 DEF SymInv
<1>5. Env = << MapOf(NewScope) >>
  BY <1>1 DEF Env
<1> QED BY <1>2, <1>4, <1>5 DEF Abstract!Init

(* sym_push_scope.                                                         *)
LEMMA PushStep ==
  SymInv /\ SymPushScope => SymInv' /\ Abstract!Push
<1> SUFFICES ASSUME SymInv, SymPushScope PROVE SymInv' /\ Abstract!Push
  OBVIOUS
<1> DEFINE n == Len(scopes)
<1>1. scopes \in Seq(Scope) /\ n \in Nat /\ n >= 1 /\ DOMAIN scopes = 1 .. n
  BY DEF SymInv
<1>2. ScopeInv(NewScope, n) /\ MapOf(NewScope) = [x \in {} |-> Abstract!Undefined]
  BY <1>1, NewScopeInv
<1>3. NewScope \in Scope
  BY <1>2 DEF ScopeInv
<1>4. scopes' = Append(scopes, NewScope)
  BY DEF SymPushScope
<1>5. /\ scopes' \in Seq(Scope)
      /\ Len(scopes') = n + 1
      /\ DOMAIN scopes' = 1 .. n + 1
      /\ \A i \in 1 .. n : scopes'[i] = scopes[i]
      /\ scopes'[n + 1] = NewScope
  BY <1>1, <1>3, <1>4
<1> HIDE DEF n
<1>6. \A i \in 1 .. n + 1 : i \in 1 .. n \/ i = n + 1
  BY <1>1
<1>7. (n + 1) - 1 = n
  BY <1>1
<1>8. ASSUME NEW i \in DOMAIN scopes'
      PROVE  ScopeInv(scopes'[i], i - 1)
  <2>1. CASE i \in 1 .. n
    BY <1>1, <1>5, <2>1 DEF SymInv
  <2>2. CASE i = n + 1
    BY <1>2, <1>5, <1>7, <2>2
  <2> QED BY <1>5, <1>6, <2>1, <2>2
<1>9. SymInv'
  BY <1>1, <1>5, <1>8 DEF SymInv
<1>10. Env' = Append(Env, [x \in {} |-> Abstract!Undefined])
  <2>1. Env = [i \in 1 .. n |-> MapOf(scopes[i])] /\ Env' = [i \in 1 .. n + 1 |-> MapOf(scopes'[i])]
    BY <1>1, <1>5 DEF Env
  <2>2. Len(Env) = n
    BY <1>1, <2>1
  <2>3. Append(Env, [x \in {} |-> Abstract!Undefined])
          = [i \in 1 .. n + 1 |-> IF i = n + 1 THEN [x \in {} |-> Abstract!Undefined] ELSE Env[i]]
    BY <1>1, <2>1, <2>2
  <2>4. ASSUME NEW i \in 1 .. n + 1
        PROVE  MapOf(scopes'[i]) = IF i = n + 1 THEN [x \in {} |-> Abstract!Undefined] ELSE Env[i]
    BY <1>2, <1>5, <1>6, <2>1
  <2> QED BY <2>1, <2>3, <2>4
<1> QED BY <1>9, <1>10 DEF Abstract!Push

(* sym_pop_scope.                                                          *)
LEMMA PopStep ==
  SymInv /\ SymPopScope => SymInv' /\ Abstract!Pop
<1> SUFFICES ASSUME SymInv, SymPopScope PROVE SymInv' /\ Abstract!Pop
  OBVIOUS
<1> DEFINE n == Len(scopes)
<1>1. scopes \in Seq(Scope) /\ n \in Nat /\ n > 1 /\ DOMAIN scopes = 1 .. n
  BY DEF SymInv, SymPopScope
<1>2. /\ scopes' \in Seq(Scope)
      /\ Len(scopes') = n - 1
      /\ \A i \in 1 .. n - 1 : scopes'[i] = scopes[i]
  BY <1>1, WithoutLast DEF SymPopScope
<1>3. DOMAIN scopes' = 1 .. n - 1
  BY <1>2
<1> HIDE DEF n
<1>4. \A i \in 1 .. n - 1 : i \in 1 .. n
  BY <1>1
<1>5. SymInv'
  BY <1>1, <1>2, <1>3, <1>4 DEF SymInv
<1>6. Env = [i \in 1 .. n |-> MapOf(scopes[i])] /\ Env' = [i \in 1 .. n - 1 |-> MapOf(scopes'[i])]
  BY <1>1, <1>3 DEF Env
<1>7. Len(Env) = n
  BY <1>1, <1>6
<1>8. Env' = SubSeq(Env, 1, Len(Env) - 1)
  <2> DEFINE m == n - 1
  <2>1. m \in Nat /\ m >= 1 /\ m <= n
    BY <1>1
  <2>2. SubSeq(Env, 1, m) = [i \in 1 .. m |-> Env[i]]
    BY <1>6, <1>7, <2>1
  <2>3. \A i \in 1 .. m : Env[i] = MapOf(scopes'[i])
    BY <1>2, <1>4, <1>6
  <2> QED BY <1>6, <1>7, <2>2, <2>3
<1> QED BY <1>1, <1>5, <1>7, <1>8 DEF Abstract!Pop

(* sym_define of a name the current scope does not hold.                   *)
LEMMA DefineStep ==
  ASSUME SymInv, NEW name \in Names, NEW kind \in Kinds, SymDefine(name, kind)
  PROVE  SymInv' /\ Abstract!Define(name, kind)
<1> DEFINE n == Len(scopes)
           new == Insert(scopes[n], [name |-> name, kind |-> kind, depth |-> n - 1])
<1>1. scopes \in Seq(Scope) /\ n \in Nat /\ n >= 1 /\ DOMAIN scopes = 1 .. n
  BY DEF SymInv
<1>2. n \in DOMAIN scopes /\ n - 1 \in Nat
  BY <1>1
<1>3. ScopeInv(scopes[n], n - 1) /\ ~Holds(scopes[n], name)
  BY <1>2 DEF SymInv, SymDefine, Cur
<1>4. /\ ScopeInv(new, n - 1)
      /\ MapOf(new) = Abstract!Bind(MapOf(scopes[n]), name, kind)
  BY <1>2, <1>3, InsertInv
<1>5. scopes' = [scopes EXCEPT ![n] = new]
  BY DEF SymDefine
<1>6. new \in Scope
  BY <1>4 DEF ScopeInv
<1> HIDE DEF new
<1>7. /\ scopes' \in Seq(Scope)
      /\ Len(scopes') = n
      /\ DOMAIN scopes' = 1 .. n
      /\ scopes'[n] = new
      /\ \A i \in 1 .. n : i # n => scopes'[i] = scopes[i]
  <2>1. n \in 1 .. Len(scopes) /\ n = Len(scopes)
    BY <1>1
  <2> DEFINE t == [scopes EXCEPT ![n] = new]
  <2>2. /\ t \in Seq(Scope)
        /\ Len(t) = n
        /\ DOMAIN t = 1 .. n
        /\ t[n] = new
        /\ \A i \in 1 .. n : i # n => t[i] = scopes[i]
    BY <1>1, <1>6, <2>1, Replaced
  <2> QED BY <1>5, <2>2
<1> HIDE DEF n
<1>8. ASSUME NEW i \in DOMAIN scopes'
      PROVE  ScopeInv(scopes'[i], i - 1)
  <2>1. CASE i = n
    BY <1>4, <1>7, <2>1
  <2>2. CASE i # n
    BY <1>1, <1>7, <2>2 DEF SymInv
  <2> QED BY <2>1, <2>2
<1>9. SymInv'
  BY <1>1, <1>7, <1>8 DEF SymInv
<1>10. Env = [i \in 1 .. n |-> MapOf(scopes[i])] /\ Env' = [i \in 1 .. n |-> MapOf(scopes'[i])]
  BY <1>1, <1>7 DEF Env
<1>11. Len(Env) = n
  BY <1>1, <1>10
<1>12. name \notin DOMAIN Env[Len(Env)]
  <2>1. name \notin ListNames(scopes[n])
    BY <1>2, <1>3, HoldsIffListed
  <2>2. DOMAIN MapOf(scopes[n]) = ListNames(scopes[n])
    BY DEF MapOf
  <2> QED BY <1>1, <1>2, <1>10, <1>11, <2>1, <2>2
<1>13. Env' = [Env EXCEPT ![Len(Env)] = Abstract!Bind(Env[Len(Env)], name, kind)]
  <2>1. ASSUME NEW i \in 1 .. n
        PROVE  MapOf(scopes'[i]) = IF i = n THEN Abstract!Bind(Env[n], name, kind) ELSE Env[i]
    BY <1>4, <1>7, <1>10
  <2>2. [Env EXCEPT ![n] = Abstract!Bind(Env[n], name, kind)]
          = [i \in 1 .. n |-> IF i = n THEN Abstract!Bind(Env[n], name, kind) ELSE Env[i]]
    BY <1>10
  <2> QED BY <1>10, <1>11, <2>1, <2>2
<1> QED BY <1>9, <1>12, <1>13 DEF Abstract!Define

LEMMA SymStep ==
  SymInv /\ [SymNext]_scopes => SymInv' /\ [Abstract!Next]_Env
<1> SUFFICES ASSUME SymInv, [SymNext]_scopes
             PROVE  SymInv' /\ [Abstract!Next]_Env
  OBVIOUS
<1>1. CASE SymPushScope
  BY <1>1, PushStep DEF Abstract!Next
<1>2. CASE SymPopScope
  BY <1>2, PopStep DEF Abstract!Next
<1>3. ASSUME NEW name \in Names, NEW kind \in Kinds, SymDefine(name, kind)
      PROVE  SymInv' /\ [Abstract!Next]_Env
  BY <1>3, DefineStep DEF Abstract!Next
<1>4. CASE UNCHANGED scopes
  BY <1>4 DEF SymInv, Env
<1> QED BY <1>1, <1>2, <1>3, <1>4 DEF SymNext

(* A name is held where the abstract map defines it.                       *)
LEMMA HoldersAreDefining ==
  ASSUME SymInv, NEW name \in Names
  PROVE  Abstract!DefinedIn(Env, name) = HoldersOf(name)
<1>1. DOMAIN Env = DOMAIN scopes /\ \A i \in DOMAIN scopes : Env[i] = MapOf(scopes[i])
  BY DEF Env
<1>2. ASSUME NEW i \in DOMAIN scopes
      PROVE  Holds(scopes[i], name) <=> name \in DOMAIN Env[i]
  <2>1. ScopeInv(scopes[i], i - 1) /\ i - 1 \in Nat
    BY DEF SymInv
  <2>2. Holds(scopes[i], name) <=> name \in ListNames(scopes[i])
    BY <2>1, HoldsIffListed
  <2> QED BY <1>1, <2>2 DEF MapOf
<1> QED BY <1>1, <1>2 DEF HoldersOf, Abstract!DefinedIn

LEMMA InnermostFound == SymInv => LookupIsInnermost
<1> SUFFICES ASSUME SymInv, NEW name \in Names
             PROVE  LET meaning == Abstract!Meaning(Env, name)
                    IN  /\ HoldersOf(name) = {} <=> meaning = Abstract!Undefined
                        /\ HoldersOf(name) # {} =>
                             /\ SymLookup(name).kind = meaning
                             /\ \A i \in DOMAIN scopes :
                                  i > SymLookup(name).depth + 1 => name \notin ListNames(scopes[i])
  BY DEF LookupIsInnermost
<1> DEFINE holders == HoldersOf(name)
           at == CHOOSE i \in holders : \A j \in holders : j <= i
           found == BucketLookup(scopes[at], name)
<1>1. Abstract!DefinedIn(Env, name) = holders
  BY HoldersAreDefining
<1>2. CASE holders = {}
  BY <1>1, <1>2 DEF Abstract!Meaning
<1>3. CASE holders # {}
  <2>1. scopes \in Seq(Scope) /\ holders \subseteq 1 .. Len(scopes) /\ Len(scopes) \in Nat
    BY DEF SymInv, HoldersOf
  <2>2. \E i \in holders : \A j \in holders : j <= i
    <3> HIDE DEF holders
    <3> QED BY <1>3, <2>1, GreatestExists
  <2>3. at \in holders /\ \A j \in holders : j <= at
    <3> HIDE DEF holders
    <3> QED BY <2>2
  <2>4. SymLookup(name) = found
    BY DEF SymLookup
  <2>5. Abstract!Meaning(Env, name) = Env[at][name]
    BY <1>1, <1>3 DEF Abstract!Meaning
  <2> HIDE DEF at
  <2>6. at \in DOMAIN scopes /\ Holds(scopes[at], name) /\ at - 1 \in Nat
    BY <2>1, <2>3 DEF HoldersOf
  <2>7. ScopeInv(scopes[at], at - 1)
    BY <2>6 DEF SymInv
  <2>8. Listed(scopes[at], found) /\ found.name = name
    BY <2>6, <2>7, FoundIsListed
  <2> HIDE DEF found
  <2>9. PICK k \in DOMAIN scopes[at].list : scopes[at].list[k] = found
    BY <2>8 DEF Listed
  <2>10. name \in ListNames(scopes[at])
    BY <2>8, <2>9 DEF ListNames
  <2>11. Env[at][name] = found.kind
    <3> DEFINE c == CHOOSE c \in DOMAIN scopes[at].list : scopes[at].list[c].name = name
    <3>1. Env[at] = MapOf(scopes[at])
      BY <2>6 DEF Env
    <3>2. MapOf(scopes[at])[name] = scopes[at].list[c].kind
      BY <2>10 DEF MapOf
    <3>3. c \in DOMAIN scopes[at].list /\ scopes[at].list[c].name = name
      BY <2>8, <2>9
    <3> HIDE DEF c
    <3>4. c = k
      BY <2>7, <2>8, <2>9, <3>3 DEF ScopeInv
    <3> QED BY <2>9, <3>1, <3>2, <3>4
  <2>12. found.depth = at - 1
    BY <2>7, <2>9 DEF ScopeInv
  <2>13. ASSUME NEW i \in DOMAIN scopes, i > found.depth + 1
         PROVE  name \notin ListNames(scopes[i])
    <3>1. i > at /\ i - 1 \in Nat
      BY <2>1, <2>6, <2>12, <2>13
    <3>2. i \notin holders
      BY <2>1, <2>3, <3>1
    <3>3. ScopeInv(scopes[i], i - 1)
      BY DEF SymInv
    <3>4. ~Holds(scopes[i], name)
      BY <3>2 DEF HoldersOf
    <3> QED BY <3>1, <3>3, <3>4, HoldsIffListed
  <2>14. found.kind # Abstract!Undefined
    <3>1. found \in Sym
      BY <2>7, <2>9 DEF ScopeInv, Scope
    <3> QED BY <3>1, KindsAssumption DEF Sym
  <2> QED BY <1>3, <2>4, <2>5, <2>11, <2>13, <2>14
<1> QED BY <1>2, <1>3

-----------------------------------------------------------------------------
(* The table stays well typed and keeps its global scope, for every hash   *)
(* function (symtab.c:21-26, 50-58, 70-88).                                *)
THEOREM SymTypeCorrect == SymSpec => []SymTypeOK
<1>1. SymInv => SymTypeOK
  BY DEF SymInv, SymTypeOK
<1> QED BY <1>1, SymInvInit, SymStep, PTL DEF SymSpec

(* The list and the buckets of a scope hold the same symbols, so that      *)
(* free_scope and the unused warnings, which walk the list, see all that   *)
(* bucket_lookup can return, and nothing else.                             *)
THEOREM SameSymbolsHolds == SymSpec => []SameSymbols
<1>1. SymInv => SameSymbols
  BY DEF SymInv, ScopeInv, SameSymbols, InBucket, Listed
<1> QED BY <1>1, SymInvInit, SymStep, PTL DEF SymSpec

(* No scope holds two symbols of one name.                                 *)
THEOREM NamesUniqueHolds == SymSpec => []NamesUnique
<1>1. SymInv => NamesUnique
  BY DEF SymInv, ScopeInv, NamesUnique
<1> QED BY <1>1, SymInvInit, SymStep, PTL DEF SymSpec

(* What sym_lookup finds is the innermost definition of the name.          *)
THEOREM LookupIsInnermostHolds == SymSpec => []LookupIsInnermost
<1> QED BY InnermostFound, SymInvInit, SymStep, PTL DEF SymSpec

(* The chain of hash tables implements the stack of maps.                  *)
THEOREM SymTabImplementsScopedMap == SymSpec => ImplementsScopedMap
<1> QED BY SymInvInit, SymStep, PTL DEF SymSpec, ImplementsScopedMap, Abstract!Spec
=============================================================================
