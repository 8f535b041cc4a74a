-------------------------------- MODULE Emit ---------------------------------
(***************************************************************************)
(* The bytecode writer (emit.c).  It walks the tree twice: the first pass  *)
(* collects the strings, the second writes the tree and refers to strings  *)
(* by their index in the pool.  The file has no separators and no offsets: *)
(* a reader finds its way by tags, flags and counts alone.                 *)
(*                                                                         *)
(* The C recursion over the tree is a list of what is still to be visited, *)
(* of which the first element is replaced by its own parts.  The nodes are *)
(* those of Tree.  Line numbers are left out, and so are is_default and    *)
(* has_return_type, which follow from the name of the state and the type   *)
(* of the function.                                                        *)
(***************************************************************************)
EXTENDS Integers, Sequences

CONSTANTS
  Exprs, Stmts,       \* expressions and statements, with all their parts
  Scripts,            \* the trees written, [globals, funcs, states]
  Byte                \* how many values w_u8 can tell apart: 256

VARIABLES
  script,
  phase,
  todo,               \* what the current pass has still to visit
  strs,               \* Emit.strs, the string pool
  file                \* the cells written

vars == <<script, phase, todo, strs, file>>

-----------------------------------------------------------------------------
(* The kinds of nodes (ExprKind, StmtKind) and what each consists of.      *)
Literals    == {"int", "float"}
Naming      == {"string", "ident", "call"}
Composed    == {"vec", "rot"}
WithOp      == {"cast", "unary", "postfix", "binary", "assign"}
Expressions == Literals \cup Naming \cup Composed \cup WithOp \cup {"list", "member"}
Statements  == {"empty", "expr", "decl", "block", "if", "while", "do", "for", "return",
                "jump", "label", "state"}

ExprNodes ==
  [k : Expressions, s : STRING, n : Int, sub : Seq(Exprs), t : STRING, lval : BOOLEAN]

StmtNodes ==
  [k : {"empty"}]
  \cup [k : {"expr", "return"}, expr : Seq(Exprs)]
  \cup [k : {"decl"}, t : STRING, s : STRING, expr : Seq(Exprs)]
  \cup [k : {"block"}, stmts : Seq(Stmts)]
  \cup [k : {"if"}, cond : Exprs, then : Stmts, else : Seq(Stmts)]
  \cup [k : {"while", "do"}, cond : Exprs, body : Stmts]
  \cup [k : {"for"}, init : Seq(Exprs), cond : Seq(Exprs), post : Seq(Exprs), body : Stmts]
  \cup [k : {"jump", "label", "state"}, s : STRING]

Params  == [k : {"param"}, t : STRING, name : STRING]
Globals == [k : {"global"}, t : STRING, s : STRING, init : Seq(Exprs)]
Funcs   == [k : {"func"}, t : STRING, s : STRING, params : Seq(Params), body : Stmts]
Events  == [k : {"event"}, s : STRING, params : Seq(Params), body : Stmts]
States  == [k : {"in state"}, s : STRING, events : Seq(Events)]

ASSUME TreeAssumption ==
  /\ Exprs \subseteq ExprNodes
  /\ Stmts \subseteq StmtNodes
  /\ Scripts \subseteq [globals : Seq(Globals), funcs : Seq(Funcs), states : Seq(States)]
  /\ Byte \in Nat \ {0}

-----------------------------------------------------------------------------
(* What a walk visits: strings, nodes and cells of the file.               *)
Text(s)  == [is |-> "text", s |-> s]
Sub(x)   == [is |-> "node", x |-> x]
Cell(c)  == [is |-> "cell", c |-> c]

Subs(xs)        == [i \in DOMAIN xs |-> Sub(xs[i])]
ParamNames(ps)  == [i \in DOMAIN ps |-> Text(ps[i].name)]

U8(n)      == Cell([w |-> "u8", v |-> n % Byte])
U32(n)     == Cell([w |-> "u32", v |-> n])
Tag(s)     == Cell([w |-> "tag", v |-> s])            \* a kind, type, operator or member
Head3(e)   == Cell([w |-> "expr", v |-> <<e.k, e.t, e.lval>>])

(* A count, or a flag for what may be missing, and then the nodes.         *)
Counted(xs) == <<U8(Len(xs))>> \o Subs(xs)
Many(xs)    == <<U32(Len(xs))>> \o Subs(xs)

-----------------------------------------------------------------------------
(* Expressions.                                                            *)
CollectExpr(e) == (IF e.k \in Naming THEN <<Text(e.s)>> ELSE <<>>) \o Subs(e.sub)

EmitExpr(e) ==
  <<Head3(e)>> \o
    (CASE e.k \in Literals            -> <<Cell([w |-> e.k, v |-> e.n])>>
       [] e.k \in {"string", "ident"} -> <<Text(e.s)>>
       [] e.k \in Composed            -> Subs(e.sub)
       [] e.k = "list"                -> Many(e.sub)
       [] e.k = "call"                -> <<Text(e.s)>> \o Many(e.sub)
       [] e.k = "member"              -> Subs(e.sub) \o <<Tag(e.s)>>
       [] e.k \in WithOp              -> <<Tag(e.s)>> \o Subs(e.sub))

(* Statements.                                                             *)
CollectNamesOfJumps(s) ==             \* a faulty variant
  IF s.k \in {"decl", "jump", "state"} THEN <<Text(s.s)>> ELSE <<>>

CollectNames(s) ==
  IF s.k \in {"decl", "jump", "label", "state"} THEN <<Text(s.s)>> ELSE <<>>

CollectStmt(s) ==
  CollectNames(s) \o
    (CASE s.k \in {"expr", "decl", "return"}           -> Subs(s.expr)
       [] s.k = "block"                                -> Subs(s.stmts)
       [] s.k = "if"                                   -> <<Sub(s.cond), Sub(s.then)>> \o Subs(s.else)
       [] s.k = "while"                                -> <<Sub(s.cond), Sub(s.body)>>
       [] s.k = "do"                                   -> <<Sub(s.body), Sub(s.cond)>>
       [] s.k = "for"                                  -> Subs(s.init) \o Subs(s.cond) \o Subs(s.post)
                                                            \o <<Sub(s.body)>>
       [] s.k \in {"empty", "jump", "label", "state"}  -> <<>>)

EmitIfUnflagged(s) ==                 \* a faulty variant of EmitIf
  <<Sub(s.cond), Sub(s.then)>> \o Subs(s.else)

EmitIf(s) == <<Sub(s.cond), Sub(s.then)>> \o Counted(s.else)

EmitStmt(s) ==
  <<Tag(s.k)>> \o
    (CASE s.k = "empty"  -> <<>>
       [] s.k = "expr"   -> Subs(s.expr)
       [] s.k = "decl"   -> <<Tag(s.t), Text(s.s)>> \o Counted(s.expr)
       [] s.k = "block"  -> Many(s.stmts)
       [] s.k = "if"     -> EmitIf(s)
       [] s.k = "while"  -> <<Sub(s.cond), Sub(s.body)>>
       [] s.k = "do"     -> <<Sub(s.body), Sub(s.cond)>>
       [] s.k = "for"    -> Counted(s.init) \o Counted(s.cond) \o Counted(s.post) \o <<Sub(s.body)>>
       [] s.k = "return" -> Counted(s.expr)
       [] s.k \in {"jump", "label", "state"} -> <<Text(s.s)>>)

(* Declarations; a parameter is a node for its type and name.              *)
CollectTop(d) ==
  <<Text(d.s)>> \o
    (CASE d.k = "global"            -> Subs(d.init)
       [] d.k \in {"func", "event"} -> ParamNames(d.params) \o <<Sub(d.body)>>
       [] d.k = "in state"          -> Subs(d.events))

EmitTop(d) ==
  CASE d.k = "global"   -> <<Tag(d.t), Text(d.s)>> \o Counted(d.init)
    [] d.k = "func"     -> <<Text(d.s), Tag(d.t)>> \o Counted(d.params) \o <<Sub(d.body)>>
    [] d.k = "event"    -> <<Text(d.s)>> \o Counted(d.params) \o <<Sub(d.body)>>
    [] d.k = "in state" -> <<Text(d.s)>> \o Many(d.events)
    [] d.k = "param"    -> <<Tag(d.t), Text(d.name)>>

Collected(x) == CASE x.k \in Expressions -> CollectExpr(x)
                  [] x.k \in Statements  -> CollectStmt(x)
                  [] OTHER               -> CollectTop(x)

Emitted(x)   == CASE x.k \in Expressions -> EmitExpr(x)
                  [] x.k \in Statements  -> EmitStmt(x)
                  [] OTHER               -> EmitTop(x)

-----------------------------------------------------------------------------
(* pool_intern: the string is added unless it is there; its index.         *)
Places(pool, s) == {i \in DOMAIN pool : pool[i] = s}
Intern(pool, s) == IF Places(pool, s) = {} THEN Append(pool, s) ELSE pool
IndexOf(pool, s) == (CHOOSE i \in Places(pool, s) : TRUE) - 1

Init ==
  /\ script \in Scripts
  /\ phase = "collect"
  /\ todo = Subs(script.globals) \o Subs(script.funcs) \o Subs(script.states)
  /\ strs = <<>> /\ file = <<>>

Visit(p, rest, parts) ==
  /\ phase = p /\ todo # <<>> /\ Head(todo).is = "node"
  /\ todo' = parts \o rest
  /\ UNCHANGED <<script, phase, strs, file>>

CollectNode == Visit("collect", Tail(todo), Collected(Head(todo).x))

CollectText ==
  /\ phase = "collect" /\ todo # <<>> /\ Head(todo).is = "text"
  /\ strs' = Intern(strs, Head(todo).s)
  /\ todo' = Tail(todo)
  /\ UNCHANGED <<script, phase, file>>

(* The header with the pool, which is written as it is now.                *)
Open ==
  /\ phase = "collect" /\ todo = <<>>
  /\ phase' = "write"
  /\ file' = <<[w |-> "pool", v |-> strs]>>
  /\ todo' = Many(script.globals) \o Many(script.funcs) \o Many(script.states)
  /\ UNCHANGED <<script, strs>>

OpenFails ==
  /\ phase = "collect" /\ todo = <<>>
  /\ phase' = "failed"
  /\ UNCHANGED <<script, todo, strs, file>>

WriteNode == Visit("write", Tail(todo), Emitted(Head(todo).x))

(* w_str_idx interns again.                                                *)
WriteText ==
  /\ phase = "write" /\ todo # <<>> /\ Head(todo).is = "text"
  /\ strs' = Intern(strs, Head(todo).s)
  /\ file' = Append(file, [w |-> "index", v |-> IndexOf(strs', Head(todo).s)])
  /\ todo' = Tail(todo)
  /\ UNCHANGED <<script, phase>>

WriteCell ==
  /\ phase = "write" /\ todo # <<>> /\ Head(todo).is = "cell"
  /\ file' = Append(file, Head(todo).c)
  /\ todo' = Tail(todo)
  /\ UNCHANGED <<script, phase, strs>>

Close ==
  /\ phase = "write" /\ todo = <<>>
  /\ phase' = "done"
  /\ UNCHANGED <<script, todo, strs, file>>

Next ==
  \/ CollectNode \/ CollectText \/ Open \/ OpenFails
  \/ WriteNode \/ WriteText \/ WriteCell \/ Close

Spec == Init /\ [][Next]_vars

-----------------------------------------------------------------------------
(* The second pass interns nothing new: every index in the file is one of  *)
(* the pool that was written before it, and no string has two.             *)
PoolComplete ==
  /\ file # <<>> => strs = file[1].v
  /\ \A i \in DOMAIN file : file[i].w = "index" => file[i].v \in 0 .. Len(file[1].v) - 1
  /\ \A i, j \in DOMAIN strs : strs[i] = strs[j] => i = j
=============================================================================
