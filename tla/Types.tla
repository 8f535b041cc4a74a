------------------------------- MODULE Types ---------------------------------
(***************************************************************************)
(* The type system of the language as the compiler has it: which value     *)
(* goes where, and what an operator makes of its operands (types.c, and    *)
(* the helpers of sem.c beside it).                                        *)
(***************************************************************************)
EXTENDS Integers, Sequences

Numeric == {"integer", "float"}

(* type_from_keyword knows these; quaternion is another word for rotation. *)
Declarable == Numeric \cup {"string", "key", "vector", "rotation", "list"}

Types == Declarable \cup {"void", "any", "error"}

Comparisons == {"==", "!=", "<", ">", "<=", ">="}
Logical     == {"&&", "||"}
BitOps      == {"&", "|", "^", "<<", ">>"}

-----------------------------------------------------------------------------
(* A value of type from may be stored where to is expected.  An error that *)
(* was reported already fits everywhere.                                   *)
ImplicitAssignable(to, from) ==
  \/ "error" \in {to, from}
  \/ to = "any"
  \/ to = from
  \/ <<to, from>> \in {<<"float", "integer">>, <<"key", "string">>, <<"string", "key">>}

ParamAssignable(want, got) ==
  \/ "any" \in {want, got}
  \/ ImplicitAssignable(want, got)

ExplicitCastable(to, from) ==
  \/ "error" \in {to, from}
  \/ to = from
  \/ to \in {"string", "list"}
  \/ to \in {"integer", "float", "key", "vector", "rotation"} /\ from = "string"
  \/ to \in Numeric /\ from \in Numeric

CompatibleCompare(a, b) ==
  \/ "error" \in {a, b}
  \/ a = b
  \/ {a, b} \subseteq Numeric
  \/ {a, b} = {"key", "string"}

-----------------------------------------------------------------------------
Wider(l, r) == IF "float" \in {l, r} THEN "float" ELSE "integer"

(* The operators on pairs of types, each with the type of its result.      *)
OperatorTable ==
  {<<"+", "string", "string", "string">>}
    \cup {<<op, t, t, t>> : op \in {"+", "-"}, t \in {"vector", "rotation"}}
    \cup {<<op, l, r, Wider(l, r)>> : op \in {"+", "-", "*", "/"}, l \in Numeric, r \in Numeric}
    \cup {<<op, "integer", "integer", "integer">> : op \in BitOps \cup {"%"}}
    \cup {<<op, "vector", n, "vector">> : op \in {"*", "/"}, n \in Numeric \cup {"rotation"}}
    \cup {<<"*", n, "vector", "vector">> : n \in Numeric}
    \cup {<<op, "rotation", "rotation", "rotation">> : op \in {"*", "/"}}
    \cup {<<"*", "vector", "vector", "float">>, <<"%", "vector", "vector", "vector">>}

BinopResult(op, l, r) ==
  LET row == {t \in OperatorTable : t[1] = op /\ t[2] = l /\ t[3] = r}
  IN  IF "error" \in {l, r}                   THEN "error"
      ELSE IF op \in Comparisons \cup Logical THEN "integer"
      ELSE IF op = "+" /\ "list" \in {l, r}   THEN "list"
      ELSE IF row = {}                        THEN "error"
      ELSE (CHOOSE t \in row : TRUE)[4]

MembersOf == [vector |-> {"x", "y", "z"}, rotation |-> {"x", "y", "z", "s"}]

MemberType(m, base) ==
  IF base \in DOMAIN MembersOf /\ m \in MembersOf[base] THEN "float" ELSE "error"
=============================================================================
