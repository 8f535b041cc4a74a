-------------------------------- MODULE Exprs --------------------------------
(***************************************************************************)
(* What the checker says of an expression (check_expr and check_call of    *)
(* sem.c): the tree annotated with types, and what it reports.             *)
(***************************************************************************)
EXTENDS Types, Tree, SequencesExt

CONSTANTS
  BuiltinConsts,      \* name -> [t, n, s]
  BuiltinFns,         \* name -> the overloads of the name, each [ret, params, mono]
  LlNames             \* the names that start with ll

-----------------------------------------------------------------------------
(* A scope maps the visible names to their symbols [kind, t, params], and  *)
(* .functions those of the global scope, where calls are looked up.        *)
Variables == {"global", "local", "param"}

IsVar(sc, name) == name \in DOMAIN sc.names /\ sc.names[name].kind \in Variables

(* Faulty variants: every member can be assigned to; a member that is not  *)
(* there is an error of which nothing is said.                             *)
IsLvalueAnyMember(e) == e.k = "member" \/ e.lval

RECURSIVE IsLvalue(_)
IsLvalue(e) ==
  CASE e.k = "ident"  -> e.lval
    [] e.k = "member" -> IsLvalue(e.sub[1])
    [] OTHER          -> FALSE

Fine(t)          == [t |-> t, lval |-> FALSE, errors |-> <<>>]
Place(t, lval)   == [t |-> t, lval |-> lval, errors |-> <<>>]
Bad(t, what)     == [t |-> t, lval |-> FALSE, errors |-> <<what>>]
Checked(t, ok, what) == IF ok THEN Fine(t) ELSE Bad(t, what)

CheckIdent(sc, name) ==
  IF name \in DOMAIN sc.names
    THEN IF IsVar(sc, name) THEN Place(sc.names[name].t, TRUE) ELSE Bad("error", "not a value")
  ELSE IF name \in DOMAIN BuiltinConsts THEN Fine(BuiltinConsts[name].t)
  ELSE Bad("error", "undeclared")

CheckMemberSilent(m, base) == Place(MemberType(m, base.t), IsLvalue(base))

CheckMember(m, base) ==
  LET t == MemberType(m, base.t)
  IN  IF base.t = "error" THEN Fine("error")
      ELSE IF t = "error" THEN Bad("error", "no such member")
      ELSE Place(t, IsLvalue(base))

CheckUnary(op, inner) ==
  LET t == inner.t
  IN  CASE op = "!" -> Checked("integer", t \in Numeric \cup {"error"}, "operator")
        [] op = "~" -> Checked("integer", t \in {"integer", "error"}, "operator")
        [] op \in {"-", "+"} ->
             IF t \in Numeric \cup {"vector", "rotation", "error"}
               THEN Fine(t) ELSE Bad("error", "operator")
        [] op \in {"++", "--"} ->
             [t |-> t, lval |-> FALSE,
              errors |-> (IF IsLvalue(inner) THEN <<>> ELSE <<"not assignable">>)
                         \o (IF t \in Numeric \cup {"error"} THEN <<>> ELSE <<"operator">>)]

CheckBinary(op, l, r) ==
  LET t == BinopResult(op, l.t, r.t)
  IN  CASE op \in Logical     -> Fine("integer")
        [] op \in Comparisons -> Checked("integer", CompatibleCompare(l.t, r.t), "comparison")
        [] OTHER              -> Checked(t, t # "error", "operator")

(* The operator inside a compound assignment. *)
OperatorOf == [op \in {"+=", "-=", "*=", "/=", "%="} |->
  CASE op = "+=" -> "+" [] op = "-=" -> "-" [] op = "*=" -> "*" [] op = "/=" -> "/" [] op = "%=" -> "%"]

CheckAssign(op, l, r) ==
  LET new == IF op = "=" THEN r.t ELSE BinopResult(OperatorOf[op], l.t, r.t)
  IN  [t |-> l.t, lval |-> FALSE,
       errors |-> (IF IsLvalue(l) THEN <<>> ELSE <<"not assignable">>)
                  \o (IF op # "=" /\ new = "error" THEN <<"operator">>
                      ELSE IF ImplicitAssignable(l.t, new) THEN <<>>
                      ELSE <<"assignment">>)]

(* One complaint for every argument that does not fit. *)
Misfits(params, args) ==
  SelectSeq([i \in DOMAIN args |-> IF ParamAssignable(params[i], args[i].t) THEN "fits" ELSE "argument"],
            LAMBDA verdict : verdict = "argument")

(* A parameter of a builtin that has type void takes anything.             *)
Taking(params) == [i \in DOMAIN params |-> IF params[i] = "void" THEN "any" ELSE params[i]]

(* A function of the script hides a builtin; a builtin is taken in the     *)
(* overload with as many parameters, if there is one, or the first.        *)
CheckCall(sc, f, args) ==
  IF f \in DOMAIN sc.functions
    THEN LET fn == sc.functions[f]
         IN  [t |-> fn.t, lval |-> FALSE,
              errors |-> IF Len(fn.params) # Len(args) THEN <<"arity">> ELSE Misfits(fn.params, args)]
  ELSE IF f \in DOMAIN BuiltinFns
    THEN LET fitting == SelectSeq(BuiltinFns[f], LAMBDA o : Len(o.params) = Len(args))
             fn      == Head(fitting \o BuiltinFns[f])
         IN  [t |-> fn.ret, lval |-> FALSE,
              errors |-> (IF fn.mono /\ sc.lso THEN <<"mono only">> ELSE <<>>)
                         \o IF Len(fn.params) # Len(args) THEN <<"arity">>
                            ELSE Misfits(Taking(fn.params), args)]
  ELSE IF f \in LlNames THEN Fine("any")      \* with a warning
  ELSE Bad("error", "undeclared function")

(* The verdict on a node whose parts are checked already. *)
Verdict(sc, e, sub) ==
  CASE e.k \in {"int", "float", "string"} -> Fine(e.t)
    [] e.k = "vec" ->
         [t |-> "vector", lval |-> FALSE,
          errors |-> SelectSeq([i \in 1 .. 3 |-> IF sub[i].t \in Numeric \cup {"error"} THEN "fits" ELSE "component"],
                               LAMBDA verdict : verdict = "component")]
    [] e.k = "rot"     -> Fine("rotation")
    [] e.k = "list"    -> Fine("list")
    [] e.k = "ident"   -> CheckIdent(sc, e.s)
    [] e.k = "member"  -> CheckMember(e.s, sub[1])
    [] e.k = "cast"    -> Checked(e.s, ExplicitCastable(e.s, sub[1].t), "cast")
    [] e.k = "unary"   -> CheckUnary(e.s, sub[1])
    [] e.k = "postfix" -> CheckUnary(e.s, sub[1])
    [] e.k = "binary"  -> CheckBinary(e.s, sub[1], sub[2])
    [] e.k = "assign"  -> CheckAssign(e.s, sub[1], sub[2])
    [] e.k = "call"    -> CheckCall(sc, e.s, sub)

(* The annotated tree and all that is reported in it, parts first. *)
RECURSIVE CheckExpr(_, _)
CheckExpr(sc, e) ==
  LET parts == [i \in DOMAIN e.sub |-> CheckExpr(sc, e.sub[i])]
      sub   == [i \in DOMAIN e.sub |-> parts[i].tree]
      v     == Verdict(sc, e, sub)
  IN  [tree   |-> [e EXCEPT !.sub = sub, !.t = v.t, !.lval = v.lval],
       errors |-> FlattenSeq([i \in DOMAIN e.sub |-> parts[i].errors]) \o v.errors]
=============================================================================
