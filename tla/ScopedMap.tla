------------------------------ MODULE ScopedMap ------------------------------
(***************************************************************************)
(* What the symbol table promises to the semantic checker (lsl.h:373-394): *)
(* a stack of maps from names to kinds, one for each open scope, the       *)
(* global one at the bottom and never closed.  A name is looked up in the  *)
(* innermost scope first.                                                  *)
(***************************************************************************)
EXTENDS Integers, Sequences

CONSTANTS Names, Kinds

VARIABLE env          \* the open scopes, the global one first

Undefined == "undefined"

Bind(map, name, kind) ==
  [n \in DOMAIN map \cup {name} |-> IF n = name THEN kind ELSE map[n]]

(* The scopes in which a name is defined, and what it means.               *)
DefinedIn(scopes, name) == {i \in DOMAIN scopes : name \in DOMAIN scopes[i]}

Meaning(scopes, name) ==
  IF DefinedIn(scopes, name) = {}
    THEN Undefined
    ELSE LET i == CHOOSE i \in DefinedIn(scopes, name) :
                    \A j \in DefinedIn(scopes, name) : j <= i
         IN  scopes[i][name]

Init == env = << [n \in {} |-> Undefined] >>

Push == env' = Append(env, [n \in {} |-> Undefined])

Pop ==
  /\ Len(env) > 1
  /\ env' = SubSeq(env, 1, Len(env) - 1)

(* A name is defined once in a scope: the first definition stays.          *)
Define(name, kind) ==
  /\ name \notin DOMAIN env[Len(env)]
  /\ env' = [env EXCEPT ![Len(env)] = Bind(@, name, kind)]

Next ==
  \/ Push
  \/ Pop
  \/ \E name \in Names, kind \in Kinds : Define(name, kind)

Spec == Init /\ [][Next]_env
=============================================================================
