------------------------------- MODULE Grammar -------------------------------
(***************************************************************************)
(* The language: one production for every kind of node (section 1 of       *)
(* DOCUMENTATION.md), and how tightly each kind binds.  It says which      *)
(* texts stand for a tree without a parser, and the parser is compared     *)
(* with it.  The levels of the operators are those of the code.            *)
(*                                                                         *)
(* A production is a sequence of items: tokens, and trees with the least   *)
(* binding they need where they stand.  A looser expression can be put in  *)
(* parentheses; a looser statement cannot stand there.                     *)
(***************************************************************************)
EXTENDS Parser

Word(tok)      == <<[is |-> "token", tok |-> tok]>>
Part(x, least) == <<[is |-> "part", x |-> x, least |-> least]>>

W(k)       == Word(Tok(k))
One(x)     == Part(x, 0)
All(xs)    == FlattenSeq([i \in DOMAIN xs |-> One(xs[i])])
Commas(xs) == FlattenSeq([i \in DOMAIN xs |-> (IF i = 1 THEN <<>> ELSE W(",")) \o One(xs[i])])

-----------------------------------------------------------------------------
(* Binding strengths. *)
ShiftOrTighter == 8
UnaryStrength  == 11
PostfixStrength == 12

(* The binary operators, loosest first: a level for each of the functions  *)
(* parser.c:344-451.  DOCUMENTATION.md:70-78 lists the same levels in the  *)
(* same order, except that its first line holds the first two of these,    *)
(* and its second line the next three; a || a && a is a || (a && a) by the *)
(* code alone.                                                             *)
OperatorLevels ==
  <<{"||"}, {"&&"}, {"|"}, {"^"}, {"&"},
    {"==", "!="}, {"<", ">", "<=", ">="}, {"<<", ">>"}, {"+", "-"}, {"*", "/", "%"}>>

OperatorStrength(op) == CHOOSE i \in DOMAIN OperatorLevels : op \in OperatorLevels[i]

IsExpr(x) ==
  x.k \in {"int", "float", "string", "ident", "unary", "postfix", "binary", "assign", "cast",
           "member", "vec", "rot", "list", "call"}

(* Does the statement end in an if that an else could be added to?         *)
RECURSIVE EndsInIf(_)
EndsInIf(x) ==
  CASE x.k = "if"              -> x.else = <<>> \/ EndsInIf(x.else[1])
    [] x.k \in {"while", "for"} -> EndsInIf(x.body)
    [] OTHER                   -> FALSE

Strength(x) ==
  CASE x.k = "assign"                           -> 0
    [] x.k = "binary"                           -> OperatorStrength(x.s)
    [] x.k \in {"unary", "cast"}                -> UnaryStrength
    [] x.k \in {"postfix", "member", "call"}    -> PostfixStrength
    [] IsExpr(x)                                -> PostfixStrength + 1
    [] OTHER                                    -> IF EndsInIf(x) THEN 0 ELSE 1

-----------------------------------------------------------------------------
(* The productions. *)
ExprShape(x) ==
  LET e == x.sub[1]
  IN  CASE x.k = "int"     -> Word(Num(x.n))
        [] x.k = "float"   -> Word([Tok("float") EXCEPT !.n = x.n])
        [] x.k = "string"  -> Word([Tok("string") EXCEPT !.v = x.s])
        [] x.k = "ident"   -> Word(Id(x.s))
        [] x.k = "assign"  -> Part(e, 1) \o W(x.s) \o One(x.sub[2])
        [] x.k = "binary"  -> Part(e, Strength(x)) \o W(x.s) \o Part(x.sub[2], Strength(x) + 1)
        [] x.k = "unary"   -> W(x.s) \o Part(e, UnaryStrength)
        [] x.k = "cast"    -> W("(") \o Word(Type(x.s)) \o W(")") \o Part(e, UnaryStrength)
        [] x.k = "postfix" -> Part(e, PostfixStrength) \o W(x.s)
        [] x.k = "member"  -> Part(e, PostfixStrength) \o W(".") \o Word(Id(x.s))
        [] x.k = "call"    -> One(Ident(x.s)) \o W("(") \o Commas(x.sub) \o W(")")
        [] x.k = "list"    -> W("[") \o Commas(x.sub) \o W("]")
        [] x.k \in {"vec", "rot"} ->
             FlattenSeq([i \in DOMAIN x.sub |-> W(IF i = 1 THEN "<" ELSE ",") \o Part(x.sub[i], ShiftOrTighter)])
               \o W(">")

InitShape(init) == IF init = <<>> THEN <<>> ELSE W("=") \o All(init)
CondShape(cond) == W("(") \o One(cond) \o W(")")
StateName(s)    == IF s = "default" THEN W("default") ELSE Word(Id(s))

StmtShape(x) ==
  CASE x.k = "empty"  -> W(";")
    [] x.k = "expr"   -> (IF x.expr[1].k = "call" /\ x.expr[1].s = "print"
                            THEN W("print") \o CondShape(x.expr[1].sub[1])
                            ELSE All(x.expr)) \o W(";")
    [] x.k = "decl"   -> Word(Type(x.t)) \o Word(Id(x.s)) \o InitShape(x.expr) \o W(";")
    [] x.k = "block"  -> W("{") \o All(x.stmts) \o W("}")
    [] x.k = "if"     -> W("if") \o CondShape(x.cond)
                           \o (IF x.else = <<>> THEN One(x.then)
                               ELSE Part(x.then, 1) \o W("else") \o All(x.else))
    [] x.k = "while"  -> W("while") \o CondShape(x.cond) \o One(x.body)
    [] x.k = "do"     -> W("do") \o One(x.body) \o W("while") \o CondShape(x.cond) \o W(";")
    [] x.k = "for"    -> W("for") \o W("(") \o Commas(x.init) \o W(";") \o All(x.cond) \o W(";")
                           \o Commas(x.post) \o W(")") \o One(x.body)
    [] x.k = "return" -> W("return") \o All(x.expr) \o W(";")
    [] x.k = "jump"   -> W("jump") \o Word(Id(x.s)) \o W(";")
    [] x.k = "label"  -> W("@") \o Word(Id(x.s)) \o W(";")
    [] x.k = "state"  -> W("state") \o StateName(x.s) \o W(";")

Header(x) == Word(Id(x.s)) \o W("(") \o Commas(x.params) \o W(")") \o One(x.body)

FormShape(x) ==
  CASE x.k = "global"   -> Word(Type(x.t)) \o Word(Id(x.s)) \o InitShape(x.init) \o W(";")
    [] x.k = "func"     -> (IF x.t = "void" THEN <<>> ELSE Word(Type(x.t))) \o Header(x)
    [] x.k = "event"    -> Header(x)
    [] x.k = "param"    -> Word(Type(x.t)) \o Word(Id(x.name))
    [] x.k = "in state" -> (IF x.s = "default" THEN <<>> ELSE W("state")) \o StateName(x.s)
                             \o W("{") \o All(x.events) \o W("}")

Shape(x) ==
  IF IsExpr(x) THEN ExprShape(x)
  ELSE IF x.k \in {"global", "func", "event", "param", "in state"} THEN FormShape(x)
  ELSE StmtShape(x)

-----------------------------------------------------------------------------
(* The text of a tree, with no more parentheses than it needs; and whether *)
(* it can be written at all.                                               *)
RECURSIVE Written(_)
Written(x) ==
  LET Item(item) ==
        IF item.is = "token" THEN <<item.tok>>
        ELSE IF Strength(item.x) >= item.least THEN Written(item.x)
        ELSE <<Tok("(")>> \o Written(item.x) \o <<Tok(")")>>
  IN  FlattenSeq([i \in DOMAIN Shape(x) |-> Item(Shape(x)[i])])

WrittenAll(xs) == FlattenSeq([i \in DOMAIN xs |-> Written(xs[i])])

WrittenScript(s) == WrittenAll(s.globals) \o WrittenAll(s.funcs) \o WrittenAll(s.states)

RECURSIVE Writable(_)
Writable(x) ==
  \A i \in DOMAIN Shape(x) : LET item == Shape(x)[i]
    IN  item.is = "part" => (IsExpr(item.x) \/ Strength(item.x) >= item.least) /\ Writable(item.x)

(* The tokens from i to before j stand for a tree of that strength, or for *)
(* the items of a production.                                              *)
SameToken(tok, written) ==
  tok = (IF written.k = "type" THEN Type(TypeOf(written.v)) ELSE written)

RECURSIVE StandsFor(_, _, _, _), Matches(_, _, _)
StandsFor(i, j, x, least) ==
  \/ Strength(x) >= least /\ Matches(i, j, Shape(x))
  \/ /\ IsExpr(x) /\ j - i > 2
     /\ toks[i].k = "(" /\ toks[j - 1].k = ")"
     /\ StandsFor(i + 1, j - 1, x, 0)

Matches(i, j, items) ==
  IF items = <<>> THEN i = j
  ELSE IF Head(items).is = "token"
    THEN i < j /\ SameToken(Head(items).tok, toks[i]) /\ Matches(i + 1, j, Tail(items))
  ELSE \E m \in IF Len(items) = 1 THEN {j} ELSE i + 1 .. j :
         StandsFor(i, m, Head(items).x, Head(items).least) /\ Matches(m, j, Tail(items))

-----------------------------------------------------------------------------
(* A form in which the parser reports nothing is what its tokens stand     *)
(* for: no operand, parenthesis, else or closing bracket is put in another *)
(* place, left out or added (parser.c:344-473, 522-536).  What binds       *)
(* tighter is taken from the code (OperatorLevels).                        *)
FormsOf(a) == ToSet(a.globals \o a.funcs \o a.states)

AcceptedIsGrammatical ==
  [][parser'.errs = parser.errs /\ parser' # parser =>
       \E x \in FormsOf(ast') : StandsFor(parser.at, parser'.at, x, 0)]_vars

(* Every step takes a token or ends: the loop and every recovery in it get *)
(* to the end of the text, also without an error limit (parser.c:800-914). *)
Progress == [][parser'.at > parser.at \/ phase' = "done"]_vars
=============================================================================
