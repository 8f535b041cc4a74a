-------------------------------- MODULE Tree ---------------------------------
(***************************************************************************)
(* The syntax tree (ast.c, and the types of lsl.h): what the parser builds *)
(* and the checker, the folder and the bytecode writer walk.               *)
(*                                                                         *)
(* An expression is [k, s, n, sub, t, lval]: its kind; an operator, a name,*)
(* a member, a target type or the text of a string; a number; its parts;   *)
(* and the type and the mark of an assignable place that the checker       *)
(* leaves on it.  The value of a float is counted in halves.  A statement  *)
(* or declaration is a record with its kind k; what may be missing in it   *)
(* is a sequence of at most one element.                                   *)
(***************************************************************************)
EXTENDS Integers, Sequences

Node(k, s, n, sub, t) == [k |-> k, s |-> s, n |-> n, sub |-> sub, t |-> t, lval |-> FALSE]

IntLit(n)         == Node("int", "", n, <<>>, "integer")
FloatLit(halves)  == Node("float", "", halves, <<>>, "float")
TextLit(s)        == Node("string", s, 0, <<>>, "string")
Ident(name)       == Node("ident", name, 0, <<>>, "error")
Unary(op, e)      == Node("unary", op, 0, <<e>>, "error")
Postfix(op, e)    == Node("postfix", op, 0, <<e>>, "error")
Binary(op, l, r)  == Node("binary", op, 0, <<l, r>>, "error")
Assign(op, l, r)  == Node("assign", op, 0, <<l, r>>, "error")
Cast(to, e)       == Node("cast", to, 0, <<e>>, to)
Member(m, e)      == Node("member", m, 0, <<e>>, "error")
Vector(x, y, z)   == Node("vec", "", 0, <<x, y, z>>, "vector")
Rotation(x, y, z, w) == Node("rot", "", 0, <<x, y, z, w>>, "rotation")
ListOf(items)     == Node("list", "", 0, items, "list")
Call(f, args)     == Node("call", f, 0, args, "error")

(* A node the parser puts where an expression is missing.                  *)
Missing           == Node("int", "", 0, <<>>, "error")

-----------------------------------------------------------------------------
(* Statements; s is the name declared or named, "" when it is missing.     *)
EmptyStmt            == [k |-> "empty"]
ExprStmt(e)          == [k |-> "expr", expr |-> <<e>>]
Decl(t, name, init)  == [k |-> "decl", t |-> t, s |-> name, expr |-> init]
Block(stmts)         == [k |-> "block", stmts |-> stmts]
If(cond, then, else) == [k |-> "if", cond |-> cond, then |-> then, else |-> else]
While(cond, body)    == [k |-> "while", cond |-> cond, body |-> body]
DoWhile(body, cond)  == [k |-> "do", cond |-> cond, body |-> body]
For(init, cond, post, body) ==
  [k |-> "for", init |-> init, cond |-> cond, post |-> post, body |-> body]
Return(expr)         == [k |-> "return", expr |-> expr]
Jump(label)          == [k |-> "jump", s |-> label]
Label(label)         == [k |-> "label", s |-> label]
StateChange(state)   == [k |-> "state", s |-> state]

(* Declarations.                                                           *)
ParamDecl(t, name)          == [k |-> "param", t |-> t, name |-> name]
GlobalVar(t, name, init)    == [k |-> "global", t |-> t, s |-> name, init |-> init]
FuncDecl(t, name, params, body) ==
  [k |-> "func", t |-> t, s |-> name, params |-> params, body |-> body]
EventDecl(name, params, body) == [k |-> "event", s |-> name, params |-> params, body |-> body]
StateDecl(name, events)     == [k |-> "in state", s |-> name, events |-> events]

ScriptAST(globals, funcs, states) == [globals |-> globals, funcs |-> funcs, states |-> states]
=============================================================================
