------------------------------- MODULE MCEmit --------------------------------
(***************************************************************************)
(* Trees with every kind of node, in every place where a tree can stand,   *)
(* with names that repeat, in a file whose bytes count to MCByte - 1.      *)
(***************************************************************************)
EXTENDS Layout, Tree

MCByte == 3

A == [Ident("a") EXCEPT !.t = "integer"]
B == [Ident("b") EXCEPT !.t = "integer", !.lval = TRUE]

Written ==
  {A, TextLit("b"), IntLit(7), FloatLit(3), Vector(A, B, A), Rotation(B, A, A, B),
   ListOf(<<>>), ListOf(<<A, A, A, B>>), Call("f", <<>>), Call("a", <<B, ListOf(<<A>>)>>),
   Member("x", B), Cast("float", A), Unary("-", B), Postfix("++", B),
   Binary("-", A, Call("g", <<B>>)), Assign("=", B, A)}

UpTo(n, xs) == UNION {[1 .. k -> xs] : k \in 0 .. n}
Lists(xs)   == {<<>> \o s : s \in UpTo(3, xs)}

(* With their parts, which stand at most three levels below them.          *)
Items(xs)   == {xs[i] : i \in DOMAIN xs}
Deeper(es)  == es \cup UNION {Items(e.sub) : e \in es}
MCExprs     == Deeper(Deeper(Deeper(Written)))

Simple ==
  {EmptyStmt, Decl("integer", "a", <<>>), Decl("key", "c", <<B>>), Return(<<>>), Return(<<A>>)}
  \cup {ExprStmt(e) : e \in Written}
  \cup UNION {{Jump(s), Label(s), StateChange(s)} : s \in {"a", "d"}}

Few == {EmptyStmt, ExprStmt(B), Label("d")}

Compound ==
  {Block(ss) : ss \in Lists(Few)}
  \cup {If(A, s, ss) : s \in Few \cup {If(B, EmptyStmt, <<>>)}, ss \in {<<>>} \cup {<<s>> : s \in Few}}
  \cup UNION {{While(e, s), DoWhile(s, e)} : e \in {A, B}, s \in Few}
  \cup {For(i, c, p, s) : i \in Lists({A}), c \in {<<>>, <<B>>}, p \in Lists({A}), s \in Few}

MCStmts ==
  Simple \cup Few \cup Compound \cup {Block(<<s>>) : s \in Simple \cup Few \cup Compound}
  \cup {If(B, EmptyStmt, <<>>)}

Func(params, body) == FuncDecl("void", "f", params, body)
Default == <<StateDecl("default", <<>>)>>

ParamLists == Lists({ParamDecl("float", "a"), ParamDecl("float", "p")})

MCScripts ==
  {ScriptAST(<<>>, <<Func(<<>>, Block(<<s>>))>>, Default) : s \in Simple \cup Compound}
  \cup {ScriptAST(<<GlobalVar("integer", "a", i), GlobalVar("integer", "g", <<>>)>>, <<>>, Default) :
          i \in {<<>>} \cup {<<e>> : e \in Written}}
  \cup {ScriptAST(<<>>, <<Func(p, Block(<<s>>)), Func(<<>>, EmptyStmt)>>,
                  <<StateDecl("default", <<EventDecl("timer", p, Block(<<s>>)), EventDecl("timer", <<>>, EmptyStmt)>>),
                    StateDecl("a", <<>>)>>) :
          p \in ParamLists, s \in Few}
=============================================================================
