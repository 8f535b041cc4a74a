------------------------------ MODULE MCTyping -------------------------------
(***************************************************************************)
(* Scripts of one or two expressions: integer initialisers of two          *)
(* operators, initialisers and statements that mix all the types, and      *)
(* globals that hide what is built in.                                     *)
(***************************************************************************)
EXTENDS Typing

Const(t, n, s) == [t |-> t, n |-> n, s |-> s]
Fn(ret, params) == [ret |-> ret, params |-> params, mono |-> FALSE]

MCBuiltinConsts ==
  [TRUE |-> Const("integer", 1, ""), PI |-> Const("float", 6, ""),
   NULL_KEY |-> Const("key", 0, "k"), ZERO_VECTOR |-> Const("vector", 0, "")]

MCBuiltinFns ==
  [llAbs |-> <<Fn("integer", <<"integer">>)>>,
   llOf  |-> <<Fn("float", <<"float">>), Fn("string", <<"key", "list">>)>>,
   llAny |-> <<Fn("integer", <<"void">>)>>,
   llMono |-> <<[Fn("void", <<>>) EXCEPT !.mono = TRUE]>>]

MCLlNames == {"llNew"}

(* Texts of numbers are read back; no other text starts with a digit.      *)
MCNumberOf(s) ==
  LET read == {h \in -30 .. 30 : s \in {NumberText(IntLit(h)), NumberText(FloatLit(h))}}
      ints == {h \in -30 .. 30 : s = NumberText(IntLit(h))}
  IN  IF ints # {} THEN 2 * (CHOOSE h \in ints : TRUE)
      ELSE IF read # {} THEN CHOOSE h \in read : TRUE
      ELSE 0

-----------------------------------------------------------------------------
Of1(ops, es)     == {Unary(op, e) : op \in ops, e \in es}
Of2(ops, ls, rs) == {Binary(op, l, r) : op \in ops, l \in ls, r \in rs}

Sign    == {"-", "~", "!"}
IntegerOps == {"+", "-", "*", "/", "%", "&", "|", "^", "<<", ">>", "==", "<", "&&"}
Ints    == {IntLit(3), IntLit(6), Unary("-", IntLit(5))}
IntDeep == Of2(IntegerOps, Ints, Ints)

(* One global of each type, then one more with the initialiser in question. *)
GlobalNames == [integer |-> "i", float |-> "f", string |-> "s", key |-> "k",
                vector |-> "v", rotation |-> "r", list |-> "l"]
Plain(t, name) == [t |-> t, name |-> name, init |-> NoInit]
AllGlobals == <<Plain("integer", "i"), Plain("float", "f"), Plain("string", "s"), Plain("key", "k"),
                Plain("vector", "v"), Plain("rotation", "r"), Plain("list", "l")>>

Functions == [fn |-> [t |-> "integer", params |-> <<"float">>], proc |-> [t |-> "void", params |-> <<>>]]

Script(globals, body) ==
  [globals |-> globals, functions |-> Functions, unit |-> "event", body |-> body, lso |-> FALSE]
Init1(t, e) == Script(<<[t |-> t, name |-> "g", init |-> e]>>, <<>>)
Body1(e)    == Script(AllGlobals, <<[op |-> "expr", e |-> e]>>)

IntScripts ==
  {Init1("integer", e) : e \in Of2(IntegerOps, Ints, IntDeep) \cup Of2(IntegerOps, IntDeep, Ints)
                                 \cup Of1(Sign, IntDeep)}

(* Initialisers that mix the types. *)
Vec == Vector(IntLit(1), FloatLit(3), IntLit(0))
Leaves ==
  {IntLit(0), IntLit(2), FloatLit(3), TextLit("a"), Ident("TRUE"), Ident("PI"), Ident("NULL_KEY"),
   Ident("ZERO_VECTOR"), Vec, Rotation(IntLit(1), IntLit(2), IntLit(3), FloatLit(1)), Ident("g"),
   Call("llAbs", <<IntLit(1)>>)}
MixOps == {"+", "-", "*", "/", "%", "<<", "==", "<", "||"}
Casts(es) == {Cast(t, e) : t \in Declarable, e \in es}
Members(es) == {Member(m, e) : m \in {"x", "s"}, e \in es}
Mixed ==
  Of2(MixOps, Leaves, Leaves) \cup Of1(Sign, Leaves) \cup Casts(Leaves) \cup Members(Leaves)
    \cup {ListOf(<<l, r>>) : l \in Leaves, r \in Leaves}
MixScripts ==
  {Init1("float", e) : e \in Mixed \cup Members({Vector(l, r, IntLit(2)) : l \in Leaves, r \in Leaves})
                               \cup Casts(Of1({"-", "!"}, Leaves)) \cup Casts(Casts(Leaves))
                               \cup Of2({"+", "=="}, Casts(Leaves), Leaves)}
    \cup {Init1(t, e) : t \in {"integer", "string", "key"}, e \in Leaves \cup Casts(Leaves)}

(* Statements over variables of every type. *)
Vars == {Ident(GlobalNames[t]) : t \in DOMAIN GlobalNames} \cup
        {Ident("TRUE"), Ident("fn"), Ident("u"), IntLit(1), TextLit("a"),
         Member("x", Ident("v")), Member("s", Ident("v")), Member("x", Ident("ZERO_VECTOR")),
         Call("fn", <<IntLit(1)>>), Call("proc", <<>>), Call("llNew", <<>>)}
Statements ==
  {Assign(op, l, r) : op \in {"=", "+=", "*=", "%="}, l \in Vars, r \in Vars}
    \cup {Postfix("++", e) : e \in Vars} \cup Of1({"--", "-"}, Vars)
    \cup {Assign("=", Member("x", Ident("v")), Postfix("++", e)) : e \in Vars}
    \cup {Call(f, <<e>>) : f \in {"fn", "proc", "llAbs", "llOf", "llAny", "llMono", "llNew", "h"}, e \in Vars}
    \cup {Call("llOf", <<a, b>>) : a \in Vars, b \in Vars}
    \cup {Call("llMono", <<>>)}
StmtScripts ==
  {Body1(e) : e \in Statements}
    \cup {[Body1(Call("llMono", <<>>)) EXCEPT !.lso = TRUE]}
    \cup {Script(<<>>, <<[op |-> "decl", t |-> t, name |-> "x", init |-> e],
                         [op |-> "decl", t |-> "integer", name |-> n, init |-> NoInit],
                         [op |-> "expr", e |-> Assign("=", Ident("x"), Ident(n))]>>)
            : t \in {"integer", "string"}, n \in {"x", "fn", "PI"},
              e \in {IntLit(1), TextLit("a"), Ident("x"), Call("proc", <<>>), Call("llNew", <<>>)}}

UnitScripts ==
  {[Body1(e) EXCEPT !.body = <<[op |-> "if", e |-> e]>>] : e \in Vars \cup Statements}
    \cup {[Body1(e) EXCEPT !.body = <<[op |-> "return", e |-> e]>>, !.unit = unit] :
            e \in Vars \cup {NoInit}, unit \in Declarable \cup {"event", "void"}}

LongScripts ==
  {[Body1(Call("fn", args)) EXCEPT
      !.functions = [fn |-> [t |-> "integer", params |-> <<"float", "key", "key">>]]] :
     args \in UNION {{<<IntLit(1), Ident("k"), e>>, <<IntLit(1), e, Ident("k")>>, <<e, e>>} : e \in Vars}}

(* Globals named like builtin constants, functions, or each other. *)
HidingScripts ==
  {Script(<<[t |-> t, name |-> n, init |-> IntLit(1)], [t |-> t2, name |-> m, init |-> e]>>, <<>>)
     : t \in {"integer", "string"}, n \in {"TRUE", "PI", "fn"}, t2 \in {"integer", "string", "float"},
       m \in {"g", "fn"}, e \in {Ident("TRUE"), Ident("PI"), Ident("fn"), Call("fn", <<IntLit(1)>>)}}

MCScripts == IntScripts \cup MixScripts \cup StmtScripts \cup UnitScripts \cup LongScripts \cup HidingScripts
=============================================================================
