------------------------------- MODULE SymTab --------------------------------
(***************************************************************************)
(* The symbol table (symtab.c): a chain of scopes, each a hash table with  *)
(* chained buckets and, beside it, the list of all its symbols, from which *)
(* they are freed and from which the unused ones are reported (sem.c:972). *)
(***************************************************************************)
EXTENDS Integers, Sequences

CONSTANTS
  Names,
  Kinds,              \* SymKind
  NBuckets,           \* Scope.nbuckets
  Hash                \* hash_str of a name, modulo NBuckets

Buckets == 0 .. NBuckets - 1

ASSUME SymTabAssumption ==
  /\ NBuckets \in Nat \ {0}
  /\ Hash \in [Names -> Buckets]

VARIABLE scopes       \* SymTab: the scopes from the global one to the current one

Sym == [name : Names, kind : Kinds, depth : Nat]

Scope == [buckets : [Buckets -> Seq(Sym)], list : Seq(Sym)]

-----------------------------------------------------------------------------
NewScope == [buckets |-> [b \in Buckets |-> <<>>], list |-> <<>>]

Cur == scopes[Len(scopes)]

(* bucket_lookup walks one bucket from its head: the positions of its      *)
(* symbols of that name, of which it returns the first.                    *)
HitsIn(scope, name) ==
  {i \in DOMAIN scope.buckets[Hash[name]] : scope.buckets[Hash[name]][i].name = name}

Holds(scope, name) == HitsIn(scope, name) # {}

BucketLookup(scope, name) ==
  scope.buckets[Hash[name]][CHOOSE i \in HitsIn(scope, name) :
                              \A j \in HitsIn(scope, name) : i <= j]

(* sym_lookup walks the scopes outwards.                                   *)
HoldersOf(name) == {i \in DOMAIN scopes : Holds(scopes[i], name)}

SymLookupOutermost(name) ==      \* a faulty variant of SymLookup
  BucketLookup(scopes[CHOOSE i \in HoldersOf(name) :
                        \A j \in HoldersOf(name) : i <= j], name)

SymLookup(name) ==
  BucketLookup(scopes[CHOOSE i \in HoldersOf(name) :
                        \A j \in HoldersOf(name) : j <= i], name)

-----------------------------------------------------------------------------
SymInit == scopes = <<NewScope>>

SymPushScope == scopes' = Append(scopes, NewScope)

(* The global scope is never popped. *)
SymPopScope ==
  /\ Len(scopes) > 1
  /\ scopes' = SubSeq(scopes, 1, Len(scopes) - 1)

(* The symbol becomes the head of its bucket and of the list.              *)
Insert(scope, sym) ==
  [buckets |-> [scope.buckets EXCEPT ![Hash[sym.name]] = <<sym>> \o @],
   list    |-> <<sym>> \o scope.list]

(* A faulty variant of SymDefine: the name is not looked up first.         *)
SymDefineUnchecked(name, kind) ==
  scopes' = [scopes EXCEPT ![Len(scopes)] =
               Insert(@, [name |-> name, kind |-> kind, depth |-> Len(scopes) - 1])]

(* sym_define: a name the current scope has already is left as it is.      *)
SymDefine(name, kind) ==
  /\ ~Holds(Cur, name)
  /\ scopes' = [scopes EXCEPT ![Len(scopes)] =
                  Insert(@, [name |-> name, kind |-> kind, depth |-> Len(scopes) - 1])]

SymNext ==
  \/ SymPushScope
  \/ SymPopScope
  \/ \E name \in Names, kind \in Kinds : SymDefine(name, kind)

SymSpec == SymInit /\ [][SymNext]_scopes

-----------------------------------------------------------------------------
SymTypeOK ==
  /\ scopes \in Seq(Scope)
  /\ Len(scopes) >= 1

(* The two views of a scope agree: the symbols of the list are the symbols  *)
(* of the buckets, each in the bucket of its hash.                          *)
SameSymbols ==
  \A i \in DOMAIN scopes :
    /\ \A k \in DOMAIN scopes[i].list :
         LET sym == scopes[i].list[k]
         IN  \E m \in DOMAIN scopes[i].buckets[Hash[sym.name]] :
               scopes[i].buckets[Hash[sym.name]][m] = sym
    /\ \A b \in Buckets : \A m \in DOMAIN scopes[i].buckets[b] :
         LET sym == scopes[i].buckets[b][m]
         IN  /\ Hash[sym.name] = b
             /\ \E k \in DOMAIN scopes[i].list : scopes[i].list[k] = sym

(* No scope holds two symbols of one name, so every symbol is freed once   *)
(* and reported as unused at most once.                                    *)
NamesUnique ==
  \A i \in DOMAIN scopes :
    \A j, k \in DOMAIN scopes[i].list :
      scopes[i].list[j].name = scopes[i].list[k].name => j = k

(* The abstract map of a scope, read off its list.                         *)
ListNames(scope) == {scope.list[k].name : k \in DOMAIN scope.list}

MapOf(scope) ==
  [n \in ListNames(scope) |->
     scope.list[CHOOSE k \in DOMAIN scope.list : scope.list[k].name = n].kind]

Env == [i \in DOMAIN scopes |-> MapOf(scopes[i])]

Abstract == INSTANCE ScopedMap WITH env <- Env

ASSUME KindsAssumption == Abstract!Undefined \notin Kinds

(* The hash tables behave as a stack of maps.                              *)
ImplementsScopedMap == Abstract!Spec

(* What sym_lookup finds is what the name means: the innermost definition, *)
(* recorded with the depth of the scope that holds it, whatever the hash   *)
(* collisions and the shadowing.                                           *)
LookupIsInnermost ==
  \A name \in Names :
    LET meaning == Abstract!Meaning(Env, name)
    IN  /\ HoldersOf(name) = {} <=> meaning = Abstract!Undefined
        /\ HoldersOf(name) # {} =>
             /\ SymLookup(name).kind = meaning
             /\ \A i \in DOMAIN scopes :
                  i > SymLookup(name).depth + 1 => name \notin ListNames(scopes[i])
=============================================================================
