------------------------------- MODULE Typing --------------------------------
(***************************************************************************)
(* The checker on the expressions of a script: it declares the globals,    *)
(* checks and folds their initialisers (check_globals), declares the       *)
(* functions, then checks the statements of an event or a function, each   *)
(* in the scope it stands in: declarations, expressions, conditions of if, *)
(* and what is returned.                                                   *)
(***************************************************************************)
EXTENDS Fold

CONSTANT Scripts      \* [globals, functions, unit, body, lso]; unit is "event", or
                      \* the return type of the function whose body it is
CONSTANT MaxParams    \* the size of Sym.params, 16

NoInit == Node("none", "", 0, <<>>, "error")

ASSUME TypingAssumption ==
  /\ IntBits \in Nat \ {0} /\ MaxParams \in Nat
  /\ \A name \in DOMAIN BuiltinConsts : BuiltinConsts[name].t \in Declarable

VARIABLES
  script,
  phase,              \* "declare", "fold", "body"
  next,               \* the next global or statement
  names,              \* the symbols in scope: name -> [kind, t]
  functions,          \* the functions declared: name -> [t, params]
  results             \* for every expression: what was made of it, and where

vars == <<script, phase, next, names, functions, results>>

Empty == [x \in {} |-> x]

Scope == [names |-> names, functions |-> functions, lso |-> script.lso]

Symbol(kind, t) == [kind |-> kind, t |-> t]

Init ==
  /\ script \in Scripts
  /\ phase = "declare"
  /\ next = 1
  /\ names = Empty
  /\ functions = Empty
  /\ results = <<>>

-----------------------------------------------------------------------------
Global == script.globals[next]
Stmt   == script.body[next]

Report(scope, tree, out, errors) ==
  results' = Append(results, [scope |-> scope, tree |-> tree, out |-> out, errors |-> errors,
                              phase |-> phase])

(* Of two globals of one name the first counts. *)
DeclareGlobal ==
  /\ phase = "declare" /\ next <= Len(script.globals)
  /\ IF Global.name \in DOMAIN names
       THEN Report(Scope, NoInit, NoInit, <<"redeclaration">>) /\ UNCHANGED names
       ELSE names' = names @@ (Global.name :> Symbol("global", Global.t)) /\ UNCHANGED results
  /\ next' = next + 1
  /\ UNCHANGED <<script, phase, functions>>

StartFolding ==
  /\ phase = "declare" /\ next > Len(script.globals)
  /\ phase' = "fold" /\ next' = 1
  /\ UNCHANGED <<script, names, functions, results>>

(* No function is declared yet, but all globals are. *)
CheckInitialiser ==
  /\ phase = "fold" /\ next <= Len(script.globals)
  /\ IF Global.init = NoInit THEN UNCHANGED results
     ELSE LET checked == CheckExpr(Scope, Global.init)
              out     == FoldExpr(checked.tree)
          IN  Report(Scope, checked.tree, out,
                     checked.errors
                       \o (IF ImplicitAssignable(Global.t, checked.tree.t) THEN <<>> ELSE <<"initialiser">>)
                       \o (IF IsConstant(out) THEN <<>> ELSE <<"not constant">>))
  /\ next' = next + 1
  /\ UNCHANGED <<script, phase, names, functions>>

(* A faulty variant of Stored: the last place of the array is not used.    *)
StoredOneFewer(fn, beyond) ==
  [fn EXCEPT !.params = [i \in DOMAIN @ |-> IF i < MaxParams THEN @[i] ELSE beyond]]

(* A function whose name is taken is left out.  Of parameters beyond the   *)
(* array in the symbol the types are not stored: check_call reads them     *)
(* from whatever follows it, any type or none.  States come here as well;  *)
(* their names are no concern of expressions.                              *)
Stored(fn, beyond) ==
  [fn EXCEPT !.params = [i \in DOMAIN @ |-> IF i <= MaxParams THEN @[i] ELSE beyond]]

Beyond == IF \E f \in DOMAIN script.functions : Len(script.functions[f].params) > MaxParams
            THEN Types \cup {"none"} ELSE {"void"}

DeclareFunctions ==
  /\ phase = "fold" /\ next > Len(script.globals)
  /\ LET free == DOMAIN script.functions \ DOMAIN names
     IN  /\ \E beyond \in Beyond : functions' = [f \in free |-> Stored(script.functions[f], beyond)]
         /\ names' = names @@ [f \in free |-> Symbol("func", script.functions[f].t)]
  /\ phase' = "body" /\ next' = 1
  /\ UNCHANGED <<script, results>>

CheckExprStmt ==
  /\ phase = "body" /\ next <= Len(script.body)
  /\ Stmt.op = "expr"
  /\ LET checked == CheckExpr(Scope, Stmt.e)
     IN  Report(Scope, checked.tree, checked.tree, checked.errors)
  /\ next' = next + 1
  /\ UNCHANGED <<script, phase, names, functions>>

(* The local is in scope in its own initialiser. *)
CheckDecl ==
  /\ phase = "body" /\ next <= Len(script.body)
  /\ Stmt.op = "decl"
  /\ LET taken    == Stmt.name \in DOMAIN names /\ names[Stmt.name].kind = "local"
         declared == IF taken THEN names ELSE (Stmt.name :> Symbol("local", Stmt.t)) @@ names
         scope    == [Scope EXCEPT !.names = declared]
         checked  == CheckExpr(scope, Stmt.init)
         misfit   == ~ImplicitAssignable(Stmt.t, checked.tree.t)
         first    == IF taken THEN <<"redeclaration">> ELSE <<>>
     IN  /\ names' = declared
         /\ IF Stmt.init = NoInit
              THEN Report(scope, NoInit, NoInit, first)
              ELSE Report(scope, checked.tree, checked.tree,
                          first \o checked.errors \o IF misfit THEN <<"initialiser">> ELSE <<>>)
  /\ next' = next + 1
  /\ UNCHANGED <<script, phase, functions>>

CheckCondition ==
  /\ phase = "body" /\ next <= Len(script.body)
  /\ Stmt.op = "if"
  /\ LET checked == CheckExpr(Scope, Stmt.e)
     IN  Report(Scope, checked.tree, checked.tree,
                checked.errors \o IF checked.tree.t \in {"void", "any"} THEN <<"not testable">> ELSE <<>>)
  /\ next' = next + 1
  /\ UNCHANGED <<script, phase, names, functions>>

(* The value in an event is not even looked at. *)
CheckReturn ==
  /\ phase = "body" /\ next <= Len(script.body)
  /\ Stmt.op = "return"
  /\ LET valued  == Stmt.e # NoInit
         looked  == valued /\ script.unit # "event"
         checked == IF looked THEN CheckExpr(Scope, Stmt.e) ELSE [tree |-> NoInit, errors |-> <<>>]
         wrong   == IF script.unit \in {"event", "void"} THEN valued
                    ELSE ~valued \/ ~ImplicitAssignable(script.unit, checked.tree.t)
     IN  Report(Scope, checked.tree, checked.tree, checked.errors \o IF wrong THEN <<"return">> ELSE <<>>)
  /\ next' = next + 1
  /\ UNCHANGED <<script, phase, names, functions>>

Next ==
  \/ DeclareGlobal \/ StartFolding \/ CheckInitialiser
  \/ DeclareFunctions \/ CheckExprStmt \/ CheckDecl
  \/ CheckCondition \/ CheckReturn

Spec == Init /\ [][Next]_vars

-----------------------------------------------------------------------------
RECURSIVE Nodes(_)
Nodes(e) == {e} \cup UNION {Nodes(e.sub[i]) : i \in DOMAIN e.sub}

Results == {results[i] : i \in DOMAIN results}

(* Initialisers without a fault of their own: what is left is to fold them. *)
WellTyped(r) == {r.errors[i] : i \in DOMAIN r.errors} \subseteq {"initialiser", "not constant"}

Initialisers == {r \in Results : r.phase = "fold" /\ WellTyped(r)}

NamesIn(e) == {node.s : node \in {m \in Nodes(e) : m.k = "ident"}}

(* A variable of the script with the name of a builtin constant.           *)
HidesBuiltin(r) == \E name \in NamesIn(r.tree) : name \in DOMAIN BuiltinConsts /\ name \in DOMAIN r.scope.names

(* Every node of an accepted expression has a type: the bytecode, which    *)
(* stores the type of every node, has no holes (emit.c:175).               *)
AcceptedIsTyped ==
  \A r \in Results :
    r.errors = <<>> /\ r.tree # NoInit => \A node \in Nodes(r.tree) : node.t \in Types \ {"error"}

(* Only variables are written, whole or by component: an accepted          *)
(* expression never stores into a literal, a builtin constant, a function  *)
(* or the result of a call (sem.c:109-114).                                *)
RECURSIVE Target(_)
Target(e) == IF e.k = "member" THEN Target(e.sub[1]) ELSE e

Writes(node) ==
  \/ node.k \in {"assign", "postfix"}
  \/ node.k = "unary" /\ node.s \in {"++", "--"}

OnlyVariablesWritten ==
  \A r \in Results : r.errors = <<>> =>
    \A node \in Nodes(r.tree) : Writes(node) =>
      LET target == Target(node.sub[1])
      IN  target.k = "ident" /\ IsVar(r.scope, target.s)

(* Folding does not change the type of an initialiser, which has been      *)
(* checked against the type of the global before (sem.c:765-772), nor the  *)
(* type of any operand that is left unfolded.                              *)
RECURSIVE SameTypes(_, _)
SameTypes(before, after) ==
  /\ before.t = after.t
  /\ before.k = after.k => \A i \in DOMAIN before.sub : SameTypes(before.sub[i], after.sub[i])

FoldKeepsType ==
  \A r \in Initialisers : ~HidesBuiltin(r) => SameTypes(r.tree, r.out)

(* The folder computes in 64 bits what the language computes in IntBits:   *)
(* the low bits of the result agree as long as no operand of a division, a *)
(* right shift, a comparison or a test has overflowed (fold.c:130-154).    *)
Wrap(n) == ((n + 2 ^ (IntBits - 1)) % 2 ^ IntBits) - 2 ^ (IntBits - 1)

NeedsAllBits(node) ==
  /\ node.k \in {"unary", "binary"}
  /\ node.s \in {"/", "%", ">>", "!"} \cup Comparisons \cup Logical

Bit(n, i)  == (n \div 2 ^ i) % 2
OfBits(b)  == Wrap(FoldSet(LAMBDA i, sum : sum + b[i] * 2 ^ i, 0, DOMAIN b))
Bitwise(both(_, _), a, b) == OfBits([i \in 0 .. IntBits - 1 |-> both(Bit(a, i), Bit(b, i))])

(* The quotient whose remainder is short of the divisor and has the sign   *)
(* of the dividend.                                                        *)
QuotientOf(a, b) ==
  CHOOSE q \in -(2 ^ IntBits) .. 2 ^ IntBits :
    LET rest == a - b * q
    IN  /\ rest = 0 \/ (rest < 0) = (a < 0)
        /\ -rest \in -Magnitude(b) + 1 .. Magnitude(b) - 1

(* Integers as the language has them, of IntBits bits at every step.       *)
LanguageOp(op, a, b) ==
  CASE op = "+"  -> Wrap(a + b)
    [] op = "-"  -> Wrap(a - b)
    [] op = "*"  -> Wrap(a * b)
    [] op = "/"  -> Wrap(QuotientOf(a, b))
    [] op = "%"  -> a - b * QuotientOf(a, b)
    [] op = "&"  -> Bitwise(LAMBDA x, y : x * y, a, b)
    [] op = "|"  -> Bitwise(LAMBDA x, y : x + y - x * y, a, b)
    [] op = "^"  -> Bitwise(LAMBDA x, y : (x + y) % 2, a, b)
    [] op = "<<" -> Wrap(a * 2 ^ (b % IntBits))
    [] op = ">>" -> a \div 2 ^ (b % IntBits)
    [] OTHER     -> Compare(op, a, b)

RECURSIVE Value(_)
Value(e) ==
  CASE e.k = "int"    -> Wrap(e.n)
    [] e.k = "ident"  -> Wrap(BuiltinConsts[e.s].n)
    [] e.k = "unary" /\ e.s = "-" -> Wrap(-Value(e.sub[1]))
    [] e.k = "unary" /\ e.s = "~" -> OfBits([i \in 0 .. IntBits - 1 |-> 1 - Bit(Value(e.sub[1]), i)])
    [] e.k = "unary" /\ e.s = "+" -> Value(e.sub[1])
    [] e.k = "unary" /\ e.s = "!" -> Truth(Value(e.sub[1]) = 0)
    [] e.k = "binary" -> LanguageOp(e.s, Value(e.sub[1]), Value(e.sub[2]))

OfIntegers(e) ==
  \A node \in Nodes(e) : node.k \in {"int", "ident", "unary", "binary"} /\ node.t = "integer"

FoldKeepsValue ==
  \A r \in Initialisers :
    LET exact == \A node \in Nodes(r.tree) : NeedsAllBits(node) =>
                   \A i \in DOMAIN node.sub : FoldExpr(node.sub[i]).n = Value(node.sub[i])
    IN  (OfIntegers(r.tree) /\ ~HidesBuiltin(r) /\ r.out.k = "int" /\ exact)
          => Wrap(r.out.n) = Value(r.tree)

(* An initialiser is accepted exactly when it consists of literals,        *)
(* operators, casts, members and builtin constants: folding hides no       *)
(* variable and no call (sem.c:773-780), unless it takes one component of  *)
(* a literal vector and drops the others.                                  *)
Variable(scope, node) ==
  \/ Writes(node)
  \/ node.k = "call"
  \/ node.k = "ident" /\ node.s \in DOMAIN scope.names

Closed(r) == \A node \in Nodes(r.tree) : ~Variable(r.scope, node)

DropsComponents(r) ==
  \E node \in Nodes(r.tree) : node.k = "member" /\ node.sub[1].k \in {"vec", "rot"}

ConstantsOnly ==
  \A r \in Initialisers : ~HidesBuiltin(r) /\ ~DropsComponents(r) =>
    ("not constant" \notin {r.errors[i] : i \in DOMAIN r.errors} <=> Closed(r))

(* The arguments of an accepted call fit what the function of the script   *)
(* declares, in number and type (DOCUMENTATION.md:173-174), though the     *)
(* checker compares them with what the symbol has stored (sem.c:811-814).  *)
(* Of parameters beyond the MaxParams that are stored nothing is claimed:  *)
(* their arguments are compared with whatever lies behind the array.       *)
CallsFit ==
  \A r \in Results : r.errors = <<>> =>
    \A call \in {node \in Nodes(r.tree) : node.k = "call" /\ node.s \in DOMAIN r.scope.functions} :
      LET declared == script.functions[call.s].params
      IN  /\ Len(call.sub) = Len(declared)
          /\ \A i \in DOMAIN declared :
               i <= MaxParams => ParamAssignable(declared[i], call.sub[i].t)
=============================================================================
