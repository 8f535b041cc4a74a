------------------------------ MODULE MCParser -------------------------------
(***************************************************************************)
(* Texts in three families: all sequences of up to five pieces of a kind,  *)
(* in the place of an initialiser, of a body or of the whole script; the   *)
(* texts of trees; and scripts with one event spoiled.                     *)
(***************************************************************************)
EXTENDS Grammar

MCOneLetter == {"x", "a"}
MCMaxErrors == 5

Toks(ks) == [i \in DOMAIN ks |-> Tok(ks[i])]
A == <<Id("a")>>
F == <<Id("far")>>
N == <<Num(1)>>
T(k) == Toks(<<k>>)
Cond == T("(") \o A \o T(")")
Key  == <<Type("key")>>

-----------------------------------------------------------------------------
(* Six pieces of each kind, of which every sequence of up to MCLength is   *)
(* read, and where they stand.                                             *)
MCLength == 5

Initialiser(six) ==
  [before |-> <<Type("integer")>> \o F \o T("="), pieces |-> <<<<>>>> \o six, after |-> T(";")]
Body(six) ==
  [before |-> F \o Toks(<<"(", ")", "{">>), pieces |-> <<<<>>>> \o six, after |-> T("}")]
Whole(six) == [before |-> <<>>, pieces |-> <<<<>>>> \o six, after |-> <<>>]

Kinds == {
  Initialiser(<<A, T("*"), T("-"), T("("), T(")"), T("=")>>),
  Initialiser(<<A, T("||"), T("&&"), T("=="), T("|"), T("<")>>),
  Initialiser(<<A, F, T("("), T(")"), T(","), T("[") \o A \o T("]")>>),
  Initialiser(<<A, T("(") \o <<Type("quaternion")>> \o T(")"), T("("), T(")"), T("."), T("++")>>),
  Initialiser(<<N, T("<") \o N \o T(",") \o N \o T(","), T("<"), T(">"), T(","), T(">>")>>),
  Body(<<T("if") \o Cond, T("else"), T(";"), T("while") \o Cond, T("{"), T("}")>>),
  Body(<<T("do"), T("while") \o Cond, T(";"), A, T("{"), T("}")>>),
  Body(<<T("for") \o T("("), A, T(","), T(";"), T(")"), T("print") \o Cond>>),
  Body(<<T("return"), T("jump"), T("@"), T("state"), A, T(";")>>),
  Body(<<Key, A, T("="), T(";"), T("default"), T("state")>>),
  Whole(<<Key, A, T("("), T(")"), T("{"), T("}")>>),
  Whole(<<Key \o A, T("="), T(";"), Toks(<<"(", ")", "{", "}">>), T(","), T("(")>>),
  Whole(<<T("default"), T("state"), A, T("{"), Toks(<<"(", ")", "{">>), T("}")>>)}

Fillings == {c \in [1 .. MCLength -> 1 .. 7] : \A i \in 2 .. MCLength : c[i] # 1 => c[i - 1] # 1}

Sequences ==
  {kind.before \o FlattenSeq([i \in 1 .. MCLength |-> kind.pieces[choice[i]]]) \o kind.after :
     kind \in Kinds, choice \in Fillings}

-----------------------------------------------------------------------------
(* The texts of trees: every kind of expression in every place of every    *)
(* kind, one operator of each strength; statements in statements.          *)
a == Ident("a")

Leaves == {a, IntLit(1), FloatLit(3), TextLit("t")}

Operators == {"||", "&&", "|", "^", "&", "!=", ">", ">>", "-", "/"}

Around(e) ==
  UNION {{Unary(op, e) : op \in {"-", "!", "++"}},
         {Postfix("++", e), Cast("rotation", e), Member("x", e), Assign("=", a, e), Assign("*=", e, a)},
         {Vector(e, a, e), Rotation(a, e, a, e), ListOf(<<e, a, e>>), Call("far", <<a, e>>)}}

Small ==
  UNION {Leaves, {Binary(op, a, a) : op \in Operators}, Around(a), {ListOf(<<>>), Call("far", <<>>)}}

Exprs == UNION {Around(e) : e \in Small}
Binaries == {Binary(op, l, r) : op \in Operators, l \in Small, r \in Small}

Let(e) == WrittenScript(ScriptAST(<<GlobalVar("float", "g", <<e>>)>>, <<>>, <<>>))

Simple ==
  {EmptyStmt, ExprStmt(a), ExprStmt(Call("print", <<a>>)), Decl("key", "a", <<>>), Decl("list", "x", <<a>>),
   Return(<<>>), Return(<<a>>), Jump("a"), Label("a"), StateChange("default"), StateChange("a")}

Nest(s1, s2) ==
  {Block(<<s1, s2>>), If(a, s1, <<>>), If(a, s1, <<s2>>), While(a, s1), DoWhile(s1, a),
   For(<<>>, <<>>, <<>>, s1), For(<<a, a>>, <<a>>, <<a, a>>, s2)}

Nested == UNION {Simple, {Block(<<>>)}, UNION {Nest(s, EmptyStmt) : s \in {EmptyStmt, If(a, EmptyStmt, <<>>)}}}

Stmts == {stmt \in UNION {Nest(s1, s2) : s1 \in Nested, s2 \in Nested} : Writable(stmt)}

Params == {<<>>, <<ParamDecl("key", "a")>>, <<ParamDecl("list", "a"), ParamDecl("rotation", "x")>>}

InFunction(stmt) ==
  WrittenScript(ScriptAST(<<>>, <<FuncDecl("void", "far", <<>>, Block(<<stmt>>))>>, <<>>))

InState(t, params, stmt) == WrittenScript(
  ScriptAST(<<GlobalVar("key", "a", <<>>)>>, <<FuncDecl(t, "far", params, Block(<<>>))>>,
            <<StateDecl("default", <<>>),
              StateDecl("a", <<EventDecl("x", params, Block(<<stmt, stmt>>)), EventDecl("a", <<>>, Block(<<>>))>>)>>))

Texts ==
  {{Let(e) : e \in Exprs}, {Let(e) : e \in Binaries}, {InFunction(stmt) : stmt \in Stmts},
   {InState(t, params, stmt) : t \in {"void", "list"}, params \in Params, stmt \in Simple}}

(* Every text that stands for a tree is read without an error, to the end, *)
(* as that tree: the parser knows no strengths and associations but those  *)
(* of the grammar, in which the levels of the operators are those of the   *)
(* code (OperatorLevels), and nothing in one construct ends another too    *)
(* early (parser.c:344-536).                                               *)
GrammaticalIsAccepted ==
  phase = "done" /\ (\E texts \in Texts : toks \in texts) => parser.errs = <<>> /\ WrittenScript(ast) = toks

-----------------------------------------------------------------------------
(* A state that holds any sequence of some pieces in which braces match,   *)
(* between two other forms on each side.                                   *)
Before == Key \o A \o T(";") \o F \o Toks(<<"(", ")", "{", "}", "state">>) \o A \o T("{")
After  == Toks(<<"}", "default", "{", "}">>) \o Key \o A \o T(";")

Junk == <<<<>>, N, F, T("("), T(")"), Key \o A, Toks(<<"{", "}">>), T("{") \o A \o Toks(<<";", "{", "}", "}">>)>>

Spoiled ==
  {Before \o FlattenSeq([i \in 1 .. 4 |-> Junk[choice[i]]]) \o After : choice \in [1 .. 4 -> 1 .. 8]}

(* Whatever is in the place of an event, the state ends at its own brace:  *)
(* the forms around it are parsed as if nothing were wrong, and every      *)
(* error lies inside (parser.c:769-784).                                   *)
RecoveryInStep ==
  phase = "done" /\ toks \in Spoiled /\ Len(parser.errs) < MaxErrors =>
    /\ ast.globals = <<GlobalVar("key", "a", <<>>), GlobalVar("key", "a", <<>>)>>
    /\ ast.funcs = <<FuncDecl("void", "far", <<>>, Block(<<>>))>>
    /\ Len(ast.states) = 2 /\ ast.states[1].s = "a" /\ ast.states[2] = StateDecl("default", <<>>)
    /\ \A i \in DOMAIN parser.errs : parser.errs[i] \in Len(Before) + 1 .. Len(toks) - Len(After) + 1

MCFamilies == Texts \cup {Sequences, Spoiled}
=============================================================================
