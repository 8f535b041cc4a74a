------------------------------- MODULE Parser --------------------------------
(***************************************************************************)
(* The parser (parser.c): recursive descent over the tokens of a script.   *)
(* The functions of the C code are operators from a parser p = [at, errs], *)
(* the place of the current token and the places of the errors reported,   *)
(* to what was built and the parser after it, [x, p].  The loop over the   *)
(* top-level forms is the state machine, one action per form.              *)
(*                                                                         *)
(* A token is [k, v, n]: its kind, which for operators and most keywords   *)
(* is the way it is written; its name or text; its number.                 *)
(***************************************************************************)
EXTENDS Tree, FiniteSetsExt, SequencesExt

CONSTANTS
  Families,           \* sets of scripts, which are sequences of tokens
  OneLetter,          \* the names of one letter
  MaxErrors           \* DiagCtx.max_errors

ASSUME ParserAssumption == MaxErrors \in Nat \ {0}

VARIABLES
  toks,
  parser,
  ast,                \* the globals, functions and states so far
  phase

vars == <<toks, parser, ast, phase>>

Tok(k)    == [k |-> k, v |-> "", n |-> 0]
Id(name)  == [k |-> "ident", v |-> name, n |-> 0]
Type(t)   == [k |-> "type", v |-> t, n |-> 0]
Num(n)    == [k |-> "int", v |-> "", n |-> n]

-----------------------------------------------------------------------------
(* advance, at, eat, expect: the end of the text is never passed.          *)
Cur(p)       == IF p.at <= Len(toks) THEN toks[p.at] ELSE Tok("eof")
At(p, k)     == Cur(p).k = k
AtAny(p, ks) == Cur(p).k \in ks
MoveTo(p, i) == [p EXCEPT !.at = i]
Advance(p)   == MoveTo(p, Min({p.at + 1, Len(toks) + 1}))
Error(p)     == [p EXCEPT !.errs = Append(@, p.at)]
Eat(p, k)    == IF At(p, k) THEN Advance(p) ELSE p
Expect(p, k) == IF At(p, k) THEN Advance(p) ELSE Error(p)

Expect2(p, k1, k2) == Expect(Expect(p, k1), k2)

Built(x, p) == [x |-> x, p |-> p]

(* The first place from here on with a token such that Stops, or the end.  *)
SkipTo(p, Stops(_)) ==
  MoveTo(p, Min({i \in p.at .. Len(toks) : Stops(i)} \cup {Len(toks) + 1}))

(* tk_to_type *)
TypeOf(t) == IF t = "quaternion" THEN "rotation" ELSE t

(* What the parsing functions that call each other return, by what they    *)
(* parse: the one recursion of the parser, besides those along operators.  *)
RECURSIVE Parsed(_, _), ParseLevel(_, _), Operands(_, _, _), ParsePostfix(_)

ParseExpr(p) == Parsed("expr", p)

(* What stands between commas; nothing if the closing token follows.       *)
ParseItems(p) ==
  LET one  == ParseExpr(p)
      rest == Parsed("items", Advance(one.p))
  IN  IF At(one.p, ",") THEN Built(<<one.x>> \o rest.x, rest.p) ELSE Built(<<one.x>>, one.p)

ItemsUnlessAt(p, close) == IF At(p, close) THEN Built(<<>>, p) ELSE Parsed("items", p)

-----------------------------------------------------------------------------
(* Expressions.  The binary operators by level, the loosest first; the     *)
(* faulty variant binds bit operators as other languages have it.          *)
LevelsAsInOtherLanguages ==
  <<{"||"}, {"&&"}, {"==", "!="}, {"<", ">", "<=", ">="}, {"|"}, {"^"}, {"&"},
    {"<<", ">>"}, {"+", "-"}, {"*", "/", "%"}>>

Levels ==
  <<{"||"}, {"&&"}, {"|"}, {"^"}, {"&"}, {"==", "!="}, {"<", ">", "<=", ">="},
    {"<<", ">>"}, {"+", "-"}, {"*", "/", "%"}>>

ShiftLevel == 8

AssignOps == {"=", "+=", "-=", "*=", "/=", "%="}

(* parse_logical_or down to parse_muldiv, which differ in their operators: *)
(* from a first operand the loops of the levels m, m - 1, .. n, each       *)
(* inside the call of the next looser one.                                 *)
Operands(m, n, l) ==
  LET r == ParseLevel(m + 1, Advance(l.p))
  IN  IF AtAny(l.p, Levels[m]) THEN Operands(m, n, Built(Binary(Cur(l.p).k, l.x, r.x), r.p))
      ELSE IF m > n THEN Operands(m - 1, n, l)
      ELSE l

ParseLevel(n, p) ==
  LET first == Parsed("unary", p)
  IN  IF n > Len(Levels) THEN first ELSE Operands(Len(Levels), n, first)

ParseAssign(p) ==
  LET l == ParseLevel(1, p)
      r == ParseExpr(Advance(l.p))
  IN  IF AtAny(l.p, AssignOps) THEN Built(Assign(Cur(l.p).k, l.x, r.x), r.p) ELSE l

IsCast(p) == At(p, "(") /\ At(Advance(p), "type")

ParseCast(p) ==
  LET to    == Advance(p)
      inner == Parsed("unary", Expect(Advance(to), ")"))
  IN  Built(Cast(TypeOf(Cur(to).v), inner.x), inner.p)

ParseCall(base) ==
  LET args == ItemsUnlessAt(Advance(base.p), ")")
  IN  Built(Call(base.x.s, args.x), Expect(args.p, ")"))

(* A member that is no name ends the postfixes; one that is too long is    *)
(* no letter.                                                              *)
ParseMember(base) ==
  LET p == Advance(base.p)
  IN  IF Cur(p).v \in OneLetter THEN Built(Member(Cur(p).v, base.x), Advance(p))
      ELSE Built(Member("", base.x), Advance(Error(p)))

ParsePostfix(base) ==
  LET p == base.p
  IN  IF At(p, "(") /\ base.x.k = "ident" THEN ParsePostfix(ParseCall(base))
      ELSE IF At(p, ".") /\ At(Advance(p), "ident") THEN ParsePostfix(ParseMember(base))
      ELSE IF At(p, ".") THEN Built(base.x, Error(Advance(p)))
      ELSE IF AtAny(p, {"++", "--"}) THEN ParsePostfix(Built(Postfix(Cur(p).k, base.x), Advance(p)))
      ELSE base

(* Components stop short of comparisons, so that > can close; the faulty   *)
(* variant takes any operator.                                             *)
ParseComponentOfAnyLevel(p) == ParseLevel(1, p)

ParseComponent(p) == ParseLevel(ShiftLevel, p)

ParseVector(p) ==
  LET x == ParseComponent(Eat(p, "<"))
      y == ParseComponent(Expect(x.p, ","))
      z == ParseComponent(Expect(y.p, ","))
      w == ParseComponent(Advance(z.p))
  IN  IF At(z.p, ",") THEN Built(Rotation(x.x, y.x, z.x, w.x), Expect(w.p, ">"))
      ELSE Built(Vector(x.x, y.x, z.x), Expect(z.p, ">"))

ParseList(p) ==
  LET items == ItemsUnlessAt(Advance(p), "]")
  IN  Built(ListOf(items.x), Expect(items.p, "]"))

ParseParens(p) ==
  LET inner == ParseExpr(Advance(p))
  IN  Built(inner.x, Expect(inner.p, ")"))

ParsePrimary(p) ==
  LET tok == Cur(p)
  IN  CASE tok.k = "int"    -> Built(IntLit(tok.n), Advance(p))
        [] tok.k = "float"  -> Built(FloatLit(tok.n), Advance(p))
        [] tok.k = "string" -> Built(TextLit(tok.v), Advance(p))
        [] tok.k = "ident"  -> Built(Ident(tok.v), Advance(p))
        [] tok.k = "("      -> ParseParens(p)
        [] tok.k = "<"      -> ParseVector(p)
        [] tok.k = "["      -> ParseList(p)
        [] OTHER            -> Built(Missing, Advance(Error(p)))

ParseUnary(p) ==
  LET inner == Parsed("unary", Advance(p))
  IN  IF AtAny(p, {"-", "+", "!", "~", "++", "--"}) THEN Built(Unary(Cur(p).k, inner.x), inner.p)
      ELSE IF IsCast(p) THEN ParseCast(p)
      ELSE ParsePostfix(ParsePrimary(p))

-----------------------------------------------------------------------------
(* Statements.                                                             *)
ParseStmts(p) ==
  LET one  == Parsed("stmt", p)
      rest == Parsed("stmts", one.p)
  IN  IF AtAny(p, {"}", "eof"}) THEN Built(<<>>, p) ELSE Built(<<one.x>> \o rest.x, rest.p)

ParseBlock(p) ==
  LET stmts == Parsed("stmts", Expect(p, "{"))
  IN  Built(Block(stmts.x), Expect(stmts.p, "}"))

(* = expr, or nothing *)
ParseInit(p) ==
  LET init == ParseExpr(Advance(p))
  IN  IF At(p, "=") THEN Built(<<init.x>>, init.p) ELSE Built(<<>>, p)

ParseLocalDecl(p) ==
  LET name == Advance(p)
      init == Parsed("init", Advance(name))
  IN  IF At(name, "ident")
        THEN Built(Decl(TypeOf(Cur(p).v), Cur(name).v, init.x), Expect(init.p, ";"))
        ELSE Built(EmptyStmt, Eat(SkipTo(Error(name), LAMBDA i : toks[i].k = ";"), ";"))

(* ( expr ) of an if or while, after its keyword *)
ParseCond(p) ==
  LET cond == ParseExpr(Expect(p, "("))
  IN  Built(cond.x, Expect(cond.p, ")"))

ParseIf(p) ==
  LET cond == ParseCond(Advance(p))
      then == Parsed("stmt", cond.p)
      else == Parsed("stmt", Advance(then.p))
  IN  IF At(then.p, "else") THEN Built(If(cond.x, then.x, <<else.x>>), else.p)
      ELSE Built(If(cond.x, then.x, <<>>), then.p)

ParseWhile(p) ==
  LET cond == ParseCond(Advance(p))
      body == Parsed("stmt", cond.p)
  IN  Built(While(cond.x, body.x), body.p)

ParseDo(p) ==
  LET body == Parsed("stmt", Advance(p))
      cond == ParseCond(Expect(body.p, "while"))
  IN  Built(DoWhile(body.x, cond.x), Expect(cond.p, ";"))

ParseOptional(p, close) ==
  LET e == ParseExpr(p)
  IN  IF At(p, close) THEN Built(<<>>, p) ELSE Built(<<e.x>>, e.p)

ParseFor(p) ==
  LET init == ItemsUnlessAt(Expect(Advance(p), "("), ";")
      cond == ParseOptional(Expect(init.p, ";"), ";")
      post == ItemsUnlessAt(Expect(cond.p, ";"), ")")
      body == Parsed("stmt", Expect(post.p, ")"))
  IN  Built(For(init.x, cond.x, post.x, body.x), body.p)

ParseReturn(p) ==
  LET e == ParseOptional(Advance(p), ";")
  IN  Built(Return(e.x), Expect(e.p, ";"))

(* The name after jump or @, and the semicolon.                            *)
ParseLabelName(p) ==
  IF At(p, "ident") THEN Built(Cur(p).v, Expect(Advance(p), ";"))
  ELSE Built("", Expect(Error(p), ";"))

ParseJump(p)  == LET name == ParseLabelName(Advance(p)) IN Built(Jump(name.x), name.p)
ParseLabel(p) == LET name == ParseLabelName(Advance(p)) IN Built(Label(name.x), name.p)

ParseStateChange(p) ==
  LET name == Advance(p)
  IN  IF At(name, "default") THEN Built(StateChange("default"), Expect(Advance(name), ";"))
      ELSE LET state == ParseLabelName(name) IN Built(StateChange(state.x), state.p)

ParsePrint(p) ==
  LET e == ParseCond(Advance(p))
  IN  Built(ExprStmt(Call("print", <<e.x>>)), Expect(e.p, ";"))

ParseExprStmt(p) == LET e == ParseExpr(p) IN Built(ExprStmt(e.x), Expect(e.p, ";"))

ParseStmt(p) ==
  CASE At(p, "{")      -> ParseBlock(p)
    [] At(p, ";")      -> Built(EmptyStmt, Advance(p))
    [] At(p, "type")   -> ParseLocalDecl(p)
    [] At(p, "if")     -> ParseIf(p)
    [] At(p, "while")  -> ParseWhile(p)
    [] At(p, "do")     -> ParseDo(p)
    [] At(p, "for")    -> ParseFor(p)
    [] At(p, "return") -> ParseReturn(p)
    [] At(p, "jump")   -> ParseJump(p)
    [] At(p, "@")      -> ParseLabel(p)
    [] At(p, "state")  -> ParseStateChange(p)
    [] At(p, "print")  -> ParsePrint(p)
    [] OTHER           -> ParseExprStmt(p)

-----------------------------------------------------------------------------
(* Headers and states.                                                     *)
ParseParamList(p) ==
  LET name == Advance(p)
      next == Advance(name)
      rest == Parsed("params", Advance(next))
      one  == <<ParamDecl(TypeOf(Cur(p).v), Cur(name).v)>>
  IN  IF ~At(p, "type") THEN Built(<<>>, Error(p))
      ELSE IF ~At(name, "ident") THEN Built(<<>>, Error(name))
      ELSE IF At(next, ",") THEN Built(one \o rest.x, rest.p)
      ELSE Built(one, next)

ParseParams(p) == IF At(p, ")") THEN Built(<<>>, p) ELSE Parsed("params", p)

(* After the opening parenthesis: parameters and body, or the parameters   *)
(* and an error where the body does not follow.                            *)
ParseRest(p) ==
  LET params == ParseParams(p)
      close  == Expect(params.p, ")")
      body   == ParseBlock(close)
  IN  IF At(close, "{") THEN Built(<<[params |-> params.x, body |-> body.x]>>, body.p)
      ELSE Built(<<>>, Error(close))

Events(name, rest) ==
  Built([i \in DOMAIN rest.x |-> EventDecl(name, rest.x[i].params, rest.x[i].body)], rest.p)

ParseEvent(p) ==
  IF At(p, "ident") THEN Events(Cur(p).v, Parsed("rest", Expect(Advance(p), "("))) ELSE Built(<<>>, Error(p))

(* Recovery after a bad event: the closing brace of the state, past those  *)
(* of the blocks between.  The faulty variant does not count.              *)
Places(p, i, k) == Cardinality({j \in p.at .. i - 1 : toks[j].k = k})

ToAnyBrace(p) == SkipTo(p, LAMBDA i : toks[i].k = "}")

ToOuterBrace(p) ==
  SkipTo(p, LAMBDA i : toks[i].k = "}" /\ Places(p, i, "{") = Places(p, i, "}"))

ParseEvents(p) ==
  LET event == ParseEvent(p)
      rest  == Parsed("events", event.p)
  IN  IF AtAny(p, {"}", "eof"}) THEN Built(<<>>, p)
      ELSE IF event.x = <<>> THEN Built(<<>>, ToOuterBrace(event.p))
      ELSE Built(event.x \o rest.x, rest.p)

(* parse_state from its opening brace on                                   *)
ParseStateBody(name, p) ==
  LET events == Parsed("events", Advance(p))
  IN  IF At(p, "{") THEN Built(<<StateDecl(name, events.x)>>, Expect(events.p, "}"))
      ELSE Built(<<>>, Error(p))

ParseState(p) ==
  LET name == Advance(p)
  IN  IF At(p, "default") THEN ParseStateBody("default", name)
      ELSE IF At(name, "ident") THEN ParseStateBody(Cur(name).v, Advance(name))
      ELSE Built(<<>>, Error(name))

Parsed(what, p) ==
  CASE what = "expr"   -> ParseAssign(p)
    [] what = "items"  -> ParseItems(p)
    [] what = "unary"  -> ParseUnary(p)
    [] what = "stmt"   -> ParseStmt(p)
    [] what = "stmts"  -> ParseStmts(p)
    [] what = "params" -> ParseParamList(p)
    [] what = "events" -> ParseEvents(p)
    [] what = "init"   -> ParseInit(p)
    [] what = "rest"   -> ParseRest(p)
    [] what = "state"  -> ParseState(p)

-----------------------------------------------------------------------------
(* parser_parse_script                                                     *)
Init ==
  /\ \E texts \in Families : toks \in texts
  /\ parser = [at |-> 1, errs |-> <<>>]
  /\ ast = ScriptAST(<<>>, <<>>, <<>>)
  /\ phase = "parse"

Stops == At(parser, "eof") \/ Len(parser.errs) >= MaxErrors

Parse(kinds) == phase = "parse" /\ ~Stops /\ AtAny(parser, kinds)

Adds(to, built) ==
  /\ ast' = [ast EXCEPT ![to] = @ \o built.x]
  /\ parser' = built.p
  /\ UNCHANGED <<toks, phase>>

State == Parse({"default", "state"}) /\ Adds("states", Parsed("state", parser))

Function(t, name, rest) ==
  Built([i \in DOMAIN rest.x |-> FuncDecl(t, name, rest.x[i].params, rest.x[i].body)], rest.p)

Variable(t, name, init) == Built(<<GlobalVar(t, name, init.x)>>, Expect(init.p, ";"))

(* A global, a function, or a type that no name follows.                   *)
Typed ==
  LET name == Advance(parser)
      t    == TypeOf(Cur(parser).v)
      next == Advance(name)
  IN  /\ Parse({"type"})
      /\ IF ~At(name, "ident") THEN Adds("globals", Built(<<>>, Error(name)))
         ELSE IF At(next, "(") THEN Adds("funcs", Function(t, Cur(name).v, Parsed("rest", Advance(next))))
         ELSE Adds("globals", Variable(t, Cur(name).v, Parsed("init", next)))

(* A procedure; or a name with nothing to it, which is skipped together    *)
(* with the token after it.                                                *)
Procedure ==
  LET next == Advance(parser)
  IN  /\ Parse({"ident"})
      /\ IF At(next, "(")
           THEN Adds("funcs", Function("void", Cur(parser).v, Parsed("rest", Advance(next))))
         ELSE Adds("funcs", Built(<<>>, Advance(Advance(Error(parser)))))

Forms == {"default", "state", "type", "ident"}

IsStray == phase = "parse" /\ ~Stops /\ ~AtAny(parser, Forms)

StrayTokenStays == IsStray /\ Adds("funcs", Built(<<>>, Error(parser)))      \* a faulty variant

StrayToken == IsStray /\ Adds("funcs", Built(<<>>, Advance(Error(parser))))

Finish ==
  /\ phase = "parse" /\ Stops
  /\ phase' = "done"
  /\ UNCHANGED <<toks, parser, ast>>

Next == State \/ Typed \/ Procedure \/ StrayToken \/ Finish

Spec == Init /\ [][Next]_vars
=============================================================================
