-------------------------------- MODULE Fold ---------------------------------
(***************************************************************************)
(* The constant folder (fold.c), which rewrites the initialisers of the    *)
(* globals after they were checked.                                        *)
(*                                                                         *)
(* Integers of the folder (long long) are exact here: bounded initialisers *)
(* stay far from its limits.  Floats are counted in halves and rounded to  *)
(* halves, as a coarser double.                                            *)
(***************************************************************************)
EXTENDS Exprs, Bitwise

CONSTANTS
  IntBits,            \* bits of an integer of the language (32), a power of two
  NumberOf(_)         \* what strtoll and strtod read from a text, in halves

-----------------------------------------------------------------------------
(* Arithmetic of C: division truncates towards zero, and bits are those of *)
(* the two's complement, of which Field are enough.                        *)
Field == 2 ^ (4 * IntBits)

Unsigned(n) == n % Field
Signed(n)   == IF n >= Field \div 2 THEN n - Field ELSE n

Magnitude(n) == IF n < 0 THEN -n ELSE n

QuotientRoundingDown(a, b) ==      \* a faulty variant of Quotient
  IF b < 0 THEN (-a) \div (-b) ELSE a \div b

Quotient(a, b) ==
  IF (a < 0) = (b < 0) THEN Magnitude(a) \div Magnitude(b) ELSE -(Magnitude(a) \div Magnitude(b))
Remainder(a, b) == a - b * Quotient(a, b)

Truth(b) == IF b THEN 1 ELSE 0

Compare(op, a, b) ==
  Truth(CASE op = "==" -> a = b [] op = "!=" -> a # b [] op = "<" -> a < b
          [] op = ">" -> a > b [] op = "<=" -> a <= b [] op = ">=" -> a >= b
          [] op = "&&" -> a # 0 /\ b # 0 [] op = "||" -> a # 0 \/ b # 0)

IntOp(op, a, b) ==
  CASE op = "+" -> a + b [] op = "-" -> a - b [] op = "*" -> a * b
    [] op = "/" -> Quotient(a, b) [] op = "%" -> Remainder(a, b)
    [] op = "&" -> Signed(Unsigned(a) & Unsigned(b))
    [] op = "|" -> Signed(Unsigned(a) | Unsigned(b))
    [] op = "^" -> Signed(Unsigned(a) ^^ Unsigned(b))
    [] op = "<<" -> a * 2 ^ (b % IntBits)
    [] op = ">>" -> a \div 2 ^ (b % IntBits)
    [] OTHER -> Compare(op, a, b)

-----------------------------------------------------------------------------
IsNumber(e) == e.k \in {"int", "float"}

AsFloat(e) == IF e.k = "int" THEN 2 * e.n ELSE e.n      \* in halves
AsInt(e)   == IF e.k = "int" THEN e.n ELSE Quotient(e.n, 2)

(* Nothing came of it: the node stays, with its folded parts. *)
Unfolded == [k |-> "none"]

FoldBinary(op, l, r) ==
  CASE op = "+" /\ l.k = "string" /\ r.k = "string" -> TextLit(l.s \o r.s)
    [] l.k = "int" /\ r.k = "int" ->
         IF op \in {"/", "%"} /\ r.n = 0 THEN Unfolded ELSE IntLit(IntOp(op, l.n, r.n))
    [] IsNumber(l) /\ IsNumber(r) /\ "float" \in {l.k, r.k} ->
         LET a == AsFloat(l)
             b == AsFloat(r)
         IN  CASE op = "+" -> FloatLit(a + b)
               [] op = "-" -> FloatLit(a - b)
               [] op = "*" -> FloatLit((a * b) \div 2)
               [] op = "/" -> IF b = 0 THEN Unfolded ELSE FloatLit(Quotient(2 * a, b))
               [] op \in Comparisons \cup Logical -> IntLit(Compare(op, a, b))
               [] OTHER -> Unfolded
    [] OTHER -> Unfolded

FoldUnary(op, e) ==
  CASE op = "-" /\ e.k = "int"   -> IntLit(-e.n)
    [] op = "~" /\ e.k = "int"   -> IntLit(-e.n - 1)
    [] op = "-" /\ e.k = "float" -> FloatLit(-e.n)
    [] op = "+" /\ e.k = "int"   -> IntLit(e.n)
    [] op = "+" /\ e.k = "float" -> FloatLit(e.n)
    [] op = "!" /\ IsNumber(e)   -> IntLit(Truth(e.n = 0))
    [] OTHER -> Unfolded

(* The text of a number: %lld, or %.6f. *)
NumberText(e) ==
  IF e.k = "int" THEN ToString(e.n)
  ELSE (IF e.n < 0 THEN "-" ELSE "") \o ToString(Magnitude(e.n) \div 2)
         \o (IF e.n % 2 = 1 THEN ".500000" ELSE ".000000")

FoldCast(to, e) ==
  CASE e.k \notin {"int", "float", "string"} -> Unfolded
    [] to = "string" /\ e.k = "string" -> TextLit(e.s)
    [] to = "string" /\ IsNumber(e)    -> TextLit(NumberText(e))
    [] to = "integer" -> IntLit(IF IsNumber(e) THEN AsInt(e) ELSE Quotient(NumberOf(e.s), 2))
    [] to = "float"   -> FloatLit(IF IsNumber(e) THEN AsFloat(e) ELSE NumberOf(e.s))
    [] to = "key" /\ e.k = "string" -> [TextLit(e.s) EXCEPT !.t = "key"]
    [] OTHER -> Unfolded

(* A name is replaced when a builtin constant has it, whatever else has.   *)
FoldIdent(name) ==
  IF name \notin DOMAIN BuiltinConsts THEN Unfolded
  ELSE LET c == BuiltinConsts[name]
       IN  CASE c.t = "integer" -> IntLit(c.n)
             [] c.t = "float"   -> FloatLit(c.n)
             [] c.t \in {"string", "key"} -> [TextLit(c.s) EXCEPT !.t = c.t]
             [] OTHER -> Unfolded

Component == [x |-> 1, y |-> 2, z |-> 3, s |-> 4]

(* A faulty variant of FoldMember: an integer component stays an integer.  *)
FoldMemberAsIs(m, base) ==
  IF base.k \in {"vec", "rot"} /\ Component[m] \in DOMAIN base.sub
    THEN base.sub[Component[m]] ELSE Unfolded

(* The component of a literal vector or rotation, as a float. *)
FoldMember(m, base) ==
  IF /\ base.k \in {"vec", "rot"}
     /\ m \in DOMAIN Component
     /\ Component[m] \in DOMAIN base.sub
     /\ IsNumber(base.sub[Component[m]])
    THEN FloatLit(AsFloat(base.sub[Component[m]]))
    ELSE Unfolded

(* What becomes of a node whose parts are folded already. *)
FoldNode(e) ==
  CASE e.k = "ident"  -> FoldIdent(e.s)
    [] e.k = "unary"  -> FoldUnary(e.s, e.sub[1])
    [] e.k = "binary" -> FoldBinary(e.s, e.sub[1], e.sub[2])
    [] e.k = "cast"   -> FoldCast(e.s, e.sub[1])
    [] e.k = "member" -> FoldMember(e.s, e.sub[1])
    [] OTHER          -> Unfolded

(* A faulty variant of IsConstant: only the topmost node is looked at.     *)
IsConstantOnTop(e) ==
  /\ e.k \notin {"postfix", "assign", "call"}
  /\ e.k = "ident" => e.s \in DOMAIN BuiltinConsts

(* Assignments, postfix operators and calls are not even looked into. *)
RECURSIVE FoldExpr(_)
FoldExpr(e) ==
  IF e.k \in {"postfix", "assign", "call"} THEN e
  ELSE LET node   == [e EXCEPT !.sub = [i \in DOMAIN e.sub |-> FoldExpr(e.sub[i])]]
           folded == FoldNode(node)
       IN  IF folded = Unfolded THEN node ELSE folded

RECURSIVE IsConstant(_)
IsConstant(e) ==
  /\ e.k \notin {"postfix", "assign", "call"}
  /\ e.k = "ident" => e.s \in DOMAIN BuiltinConsts
  /\ \A i \in DOMAIN e.sub : IsConstant(e.sub[i])
=============================================================================
