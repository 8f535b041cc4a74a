----------------------------- MODULE EmitProofs ------------------------------
(***************************************************************************)
(* The two passes of the bytecode writer, for any tree: whatever string    *)
(* the second pass refers to was put into the pool by the first.           *)
(***************************************************************************)
EXTENDS Emit, Facts

Pieces ==
  [w : {"u8", "u32", "int", "float"}, v : Int]
  \cup [w : {"tag"}, v : STRING \cup Statements]
  \cup [w : {"expr"}, v : Expressions \X STRING \X BOOLEAN]

Nodes == Exprs \cup Stmts \cup Globals \cup Funcs \cup Events \cup States

Texts == {Text(s) : s \in STRING}
Trees == {Sub(x) : x \in Nodes}
Names == {Sub(p) : p \in Params}
Cells == {Cell(c) : c \in Pieces}
Items == Texts \cup Trees \cup Names \cup Cells

-----------------------------------------------------------------------------
(* What is in a sequence, of several parts.                                *)
LEMMA RangeOfOne ==
  ASSUME NEW S, NEW e \in S
  PROVE  <<e>> \in Seq(S) /\ Range(<<e>>) = {e}
BY DEF Range

LEMMA RangeOfTwo ==
  ASSUME NEW S, NEW e \in S, NEW f \in S
  PROVE  <<e, f>> \in Seq(S) /\ Range(<<e, f>>) = {e, f}
<1>1. <<e, f>> \in Seq(S) /\ DOMAIN <<e, f>> = 1 .. 2 /\ <<e, f>>[1] = e /\ <<e, f>>[2] = f
  OBVIOUS
<1>2. 1 .. 2 = {1, 2}
  OBVIOUS
<1> QED BY <1>1, <1>2 DEF Range

LEMMA RangeOfTail ==
  ASSUME NEW S, NEW s \in Seq(S), s # <<>>
  PROVE  /\ Head(s) \in S /\ Tail(s) \in Seq(S)
         /\ Range(s) = {Head(s)} \cup Range(Tail(s))
<1>1. /\ Len(s) \in Nat \ {0} /\ Tail(s) \in Seq(S) /\ Len(Tail(s)) = Len(s) - 1
      /\ Head(s) = s[1] /\ Head(s) \in S
      /\ \A i \in 1 .. Len(s) - 1 : Tail(s)[i] = s[i + 1]
  BY EmptySeq
<1>2. DOMAIN s = 1 .. Len(s) /\ DOMAIN Tail(s) = 1 .. Len(s) - 1
  BY <1>1
<1>3. ASSUME NEW i \in DOMAIN s PROVE s[i] \in {Head(s)} \cup Range(Tail(s))
  <2>1. CASE i = 1
    BY <1>1, <2>1
  <2>2. CASE i # 1
    <3>1. i - 1 \in 1 .. Len(s) - 1 /\ Tail(s)[i - 1] = s[i]
      BY <1>1, <1>2, <2>2
    <3> QED BY <1>2, <3>1 DEF Range
  <2> QED BY <2>1, <2>2
<1>4. ASSUME NEW i \in DOMAIN Tail(s) PROVE Tail(s)[i] \in Range(s)
  <2>1. i + 1 \in DOMAIN s /\ Tail(s)[i] = s[i + 1]
    BY <1>1, <1>2
  <2> QED BY <2>1 DEF Range
<1>5. Head(s) \in Range(s)
  BY <1>1, <1>2 DEF Range
<1>6. Range(s) \subseteq {Head(s)} \cup Range(Tail(s))
  BY <1>3 DEF Range
<1>7. Range(Tail(s)) \subseteq Range(s)
  BY <1>4 DEF Range
<1> QED BY <1>1, <1>5, <1>6, <1>7

LEMMA RangeOfSubs ==
  ASSUME NEW N \in {Nodes, Params}, NEW xs \in Seq(N)
  PROVE  Subs(xs) \in Seq(Items) /\ Range(Subs(xs)) = {Sub(x) : x \in Range(xs)}
<1>1. \A i \in DOMAIN xs : xs[i] \in N /\ Sub(xs[i]) \in Items
  BY DEF Items, Trees, Names
<1>2. DOMAIN xs = 1 .. Len(xs) /\ Len(xs) \in Nat
  OBVIOUS
<1>3. Subs(xs) = [i \in 1 .. Len(xs) |-> Sub(xs[i])]
  BY <1>2 DEF Subs
<1>4. Subs(xs) \in Seq(Items)
  BY <1>1, <1>2, <1>3
<1>5. Range(Subs(xs)) = {Sub(x) : x \in Range(xs)}
  BY <1>2, <1>3 DEF Range
<1> QED BY <1>4, <1>5

LEMMA RangeOfNames ==
  ASSUME NEW ps \in Seq(Params)
  PROVE  ParamNames(ps) \in Seq(Items) /\ Range(ParamNames(ps)) = {Text(p.name) : p \in Range(ps)}
<1>1. \A i \in DOMAIN ps : ps[i] \in Params /\ Text(ps[i].name) \in Items
  <2>1. \A p \in Params : p.name \in STRING
    BY DEF Params
  <2>2. \A p \in Params : Text(p.name) \in Items
    BY <2>1 DEF Items, Texts
  <2> QED BY <2>2
<1>2. DOMAIN ps = 1 .. Len(ps) /\ Len(ps) \in Nat
  OBVIOUS
<1>3. ParamNames(ps) = [i \in 1 .. Len(ps) |-> Text(ps[i].name)]
  BY <1>2 DEF ParamNames
<1>4. ParamNames(ps) \in Seq(Items)
  BY <1>1, <1>2, <1>3
<1>5. Range(ParamNames(ps)) = {Text(p.name) : p \in Range(ps)}
  BY <1>2, <1>3 DEF Range
<1> QED BY <1>4, <1>5

(* Counts, and what they count.                                            *)
LEMMA CellFacts ==
  /\ \A s \in STRING : Tag(s) \in Cells
  /\ \A n \in Nat : U8(n) \in Cells /\ U32(n) \in Cells
<1>1. \A n \in Nat : n % Byte \in Int
  BY TreeAssumption
<1> QED BY <1>1 DEF U8, U32, Tag, Cells, Pieces

(* A cell and then nodes. *)
LEMMA RangeOfCellAndSubs ==
  ASSUME NEW c \in Cells, NEW N \in {Nodes, Params}, NEW xs \in Seq(N)
  PROVE  /\ <<c>> \o Subs(xs) \in Seq(Items)
         /\ Range(<<c>> \o Subs(xs)) = {c} \cup {Sub(x) : x \in Range(xs)}
<1> DEFINE one == <<c>>
           subs == Subs(xs)
<1>1. c \in Items
  BY DEF Items
<1>2. one \in Seq(Items) /\ Range(one) = {c}
  BY <1>1, RangeOfOne
<1>3. subs \in Seq(Items) /\ Range(subs) = {Sub(x) : x \in Range(xs)}
  BY RangeOfSubs
<1> SUFFICES one \o subs \in Seq(Items) /\ Range(one \o subs) = Range(one) \cup Range(subs)
  BY <1>2, <1>3
<1> HIDE DEF one, subs
<1> QED BY <1>2, <1>3, RangeConcatenation

LEMMA RangeOfCounted ==
  ASSUME NEW N \in {Nodes, Params}, NEW xs \in Seq(N)
  PROVE  /\ Counted(xs) \in Seq(Items) /\ Many(xs) \in Seq(Items)
         /\ Range(Counted(xs)) = {U8(Len(xs))} \cup {Sub(x) : x \in Range(xs)}
         /\ Range(Many(xs)) = {U32(Len(xs))} \cup {Sub(x) : x \in Range(xs)}
         /\ U8(Len(xs)) \in Cells /\ U32(Len(xs)) \in Cells
<1>1. U8(Len(xs)) \in Cells /\ U32(Len(xs)) \in Cells
  <2>1. Len(xs) \in Nat
    OBVIOUS
  <2> QED BY <2>1, CellFacts
<1> QED BY <1>1, RangeOfCellAndSubs DEF Counted, Many

(* Subs, and what counts them, in a sequence that may hold them.           *)
LEMMA SubsIn ==
  ASSUME NEW N, NEW xs \in Seq(N), NEW S, \A x \in Range(xs) : Sub(x) \in S
  PROVE  Subs(xs) \in Seq(S)
<1>1. DOMAIN xs = 1 .. Len(xs) /\ Len(xs) \in Nat
  OBVIOUS
<1>2. \A i \in 1 .. Len(xs) : Sub(xs[i]) \in S
  BY <1>1 DEF Range
<1>3. Subs(xs) = [i \in 1 .. Len(xs) |-> Sub(xs[i])]
  BY <1>1 DEF Subs
<1> QED BY <1>1, <1>2, <1>3

LEMMA CountedIn ==
  ASSUME NEW N, NEW xs \in Seq(N), NEW S, Cells \subseteq S, \A x \in Range(xs) : Sub(x) \in S
  PROVE  Counted(xs) \in Seq(S) /\ Many(xs) \in Seq(S)
<1>1. Len(xs) \in Nat
  OBVIOUS
<1>2. U8(Len(xs)) \in S /\ U32(Len(xs)) \in S
  BY <1>1, CellFacts
<1>3. Subs(xs) \in Seq(S)
  BY SubsIn
<1> QED BY <1>2, <1>3 DEF Counted, Many

(* What is found in a sequence put together from two.                      *)
LEMMA RangeOfConcat ==
  ASSUME NEW S, NEW s \in Seq(S), NEW t \in Seq(S)
  PROVE  s \o t \in Seq(S) /\ Range(s \o t) = Range(s) \cup Range(t)
BY RangeConcatenation

LEMMA RangeOfThree ==
  ASSUME NEW S, NEW s \in Seq(S), NEW t \in Seq(S), NEW u \in Seq(S)
  PROVE  /\ s \o t \o u \in Seq(S)
         /\ Range(s \o t \o u) = Range(s) \cup Range(t) \cup Range(u)
<1> DEFINE st == s \o t
<1>1. st \in Seq(S) /\ Range(st) = Range(s) \cup Range(t)
  BY RangeOfConcat
<1> SUFFICES st \o u \in Seq(S) /\ Range(st \o u) = Range(st) \cup Range(u)
  BY <1>1
<1> HIDE DEF st
<1> QED BY <1>1, RangeOfConcat

LEMMA RangeOfFour ==
  ASSUME NEW S, NEW s \in Seq(S), NEW t \in Seq(S), NEW u \in Seq(S), NEW v \in Seq(S)
  PROVE  /\ s \o t \o u \o v \in Seq(S)
         /\ Range(s \o t \o u \o v) = Range(s) \cup Range(t) \cup Range(u) \cup Range(v)
<1> DEFINE stu == s \o t \o u
<1>1. stu \in Seq(S) /\ Range(stu) = Range(s) \cup Range(t) \cup Range(u)
  BY RangeOfThree
<1> SUFFICES stu \o v \in Seq(S) /\ Range(stu \o v) = Range(stu) \cup Range(v)
  BY <1>1
<1> HIDE DEF stu
<1> QED BY <1>1, RangeOfConcat

LEMMA SeqConcat ==
  ASSUME NEW S, NEW s \in Seq(S), NEW t \in Seq(S)
  PROVE  /\ s \o t \in Seq(S) /\ <<>> \o s = s
         /\ \A e \in S : <<e>> \o s \in Seq(S)
         /\ \A e, f \in S : <<e, f>> \o s \in Seq(S)
OBVIOUS

-----------------------------------------------------------------------------
(* What the second pass may meet at a node, after the first has met what   *)
(* Collected gives: cells, the same strings and nodes, and parameters,     *)
(* whose names the first pass takes from the node that has them.           *)
Met(x) ==
  Cells \cup Range(Collected(x))
    \cup {Sub(p) : p \in {q \in Params : Text(q.name) \in Range(Collected(x))}}

Covered(x) ==
  /\ Collected(x) \in Seq(Texts \cup Trees)
  /\ Emitted(x) \in Seq(Met(x))

LEMMA ExprCovered == ASSUME NEW e \in Exprs PROVE Covered(e)
<1> DEFINE name == IF e.k \in Naming THEN <<Text(e.s)>> ELSE <<>>
           subs == Subs(e.sub)
<1>1. /\ e.k \in Expressions /\ e.s \in STRING /\ e.n \in Int /\ e.sub \in Seq(Exprs)
      /\ e.t \in STRING /\ e.lval \in BOOLEAN
  BY TreeAssumption DEF ExprNodes
<1>2. Collected(e) = name \o subs /\ Emitted(e) = EmitExpr(e)
  <2>1. Collected(e) = CollectExpr(e)
    BY <1>1 DEF Collected, Expressions, Statements, Literals, Naming, Composed, WithOp
  <2>2. Emitted(e) = EmitExpr(e)
    BY <1>1 DEF Emitted, Expressions, Statements, Literals, Naming, Composed, WithOp
  <2> QED BY <2>1, <2>2 DEF CollectExpr
<1>3. \A x \in Range(e.sub) : x \in Exprs
  BY <1>1, RangeOfSeq
<1>4. name \in Seq(Texts \cup Trees) /\ (e.k \in Naming => Text(e.s) \in Range(name))
  <2>1. Text(e.s) \in Texts \cup Trees
    BY <1>1 DEF Texts
  <2>2. CASE e.k \in Naming
    <3>1. name = <<Text(e.s)>>
      BY <2>2
    <3> QED BY <2>1, <3>1, RangeOfOne
  <2>3. CASE e.k \notin Naming
    BY <2>3
  <2> QED BY <2>2, <2>3
<1>5. subs \in Seq(Texts \cup Trees) /\ \A x \in Range(e.sub) : Sub(x) \in Range(subs)
  <2>1. \A x \in Range(e.sub) : Sub(x) \in Texts \cup Trees
    BY <1>3 DEF Trees, Nodes
  <2>2. e.sub \in Seq(Nodes)
    BY <1>1 DEF Nodes
  <2> QED BY <1>1, <2>1, <2>2, SubsIn, RangeOfSubs
<1>6. /\ Collected(e) \in Seq(Texts \cup Trees)
      /\ Range(Collected(e)) = Range(name) \cup Range(subs)
  <2> HIDE DEF name, subs
  <2> QED BY <1>2, <1>4, <1>5, RangeOfConcat
<1>7. /\ e.k \in Naming => Text(e.s) \in Met(e)
      /\ \A x \in Range(e.sub) : Sub(x) \in Met(e)
      /\ Cells \subseteq Met(e)
  BY <1>4, <1>5, <1>6 DEF Met
<1>8. Head3(e) \in Met(e) /\ Tag(e.s) \in Met(e)
  <2>1. Head3(e) \in Cells /\ Tag(e.s) \in Cells
    BY <1>1, CellFacts DEF Head3, Cells, Pieces
  <2> QED BY <1>7, <2>1
<1>9. e.k \in Literals => Cell([w |-> e.k, v |-> e.n]) \in Met(e)
  BY <1>1, <1>7 DEF Cells, Pieces, Literals
<1>10. Subs(e.sub) \in Seq(Met(e)) /\ Many(e.sub) \in Seq(Met(e))
  BY <1>1, <1>7, SubsIn, CountedIn
<1>11. EmitExpr(e) \in Seq(Met(e))
  <2> HIDE DEF name, subs
  <2>1. CASE e.k \in Literals
    BY <1>8, <1>9, <2>1 DEF EmitExpr, Literals, Naming, Composed, WithOp
  <2>2. CASE e.k \in {"string", "ident"}
    BY <1>7, <1>8, <2>2 DEF EmitExpr, Literals, Naming, Composed, WithOp
  <2>3. CASE e.k \in Composed
    BY <1>8, <1>10, <2>3 DEF EmitExpr, Literals, Naming, Composed, WithOp
  <2>4. CASE e.k = "list"
    BY <1>8, <1>10, <2>4 DEF EmitExpr, Literals, Naming, Composed, WithOp
  <2>5. CASE e.k = "call"
    BY <1>7, <1>8, <1>10, <2>5 DEF EmitExpr, Literals, Naming, Composed, WithOp
  <2>6. CASE e.k = "member"
    BY <1>8, <1>10, <2>6 DEF EmitExpr, Literals, Naming, Composed, WithOp
  <2>7. CASE e.k \in WithOp
    BY <1>8, <1>10, <2>7 DEF EmitExpr, Literals, Naming, Composed, WithOp
  <2> QED BY <1>1, <2>1, <2>2, <2>3, <2>4, <2>5, <2>6, <2>7 DEF Expressions, Naming
<1> QED BY <1>2, <1>6, <1>11 DEF Covered

(* The parts of a node in what the first pass collects.                    *)
LEMMA TreesOf ==
  ASSUME NEW N \in {Exprs, Stmts, Events}, NEW xs \in Seq(N)
  PROVE  /\ Subs(xs) \in Seq(Texts \cup Trees)
         /\ \A x \in Range(xs) : Sub(x) \in Range(Subs(xs))
<1>1. xs \in Seq(Nodes) /\ \A x \in Range(xs) : x \in N
  BY RangeOfSeq DEF Nodes
<1>2. \A x \in Range(xs) : Sub(x) \in Texts \cup Trees
  BY <1>1 DEF Trees, Nodes
<1> QED BY <1>1, <1>2, SubsIn, RangeOfSubs

LEMMA TextsAndTrees ==
  /\ \A s \in STRING : Text(s) \in Texts \cup Trees
  /\ \A x \in Nodes : Sub(x) \in Texts \cup Trees
BY DEF Texts, Trees

LEMMA TwoTrees ==
  ASSUME NEW x \in Nodes, NEW y \in Nodes
  PROVE  /\ <<Sub(x), Sub(y)>> \in Seq(Texts \cup Trees)
         /\ Range(<<Sub(x), Sub(y)>>) = {Sub(x), Sub(y)}
<1>1. Sub(x) \in Texts \cup Trees /\ Sub(y) \in Texts \cup Trees
  BY TextsAndTrees
<1> QED BY <1>1, RangeOfTwo

(* What follows once the collected parts are known.                        *)
LEMMA MetFacts ==
  ASSUME NEW x
  PROVE  /\ Cells \subseteq Met(x) /\ Range(Collected(x)) \subseteq Met(x)
         /\ \A s \in STRING : Tag(s) \in Met(x)
         /\ \A p \in Params : Text(p.name) \in Range(Collected(x)) => Sub(p) \in Met(x)
BY CellFacts DEF Met

LEMMA StmtCovered == ASSUME NEW s \in Stmts PROVE Covered(s)
<1> USE DEF Expressions, Statements, Literals, Naming, Composed, WithOp
<1>1. s \in StmtNodes
  BY TreeAssumption
<1>2. s.k \in Statements
  BY <1>1 DEF StmtNodes
<1>3. Collected(s) = CollectStmt(s) /\ Emitted(s) = EmitStmt(s)
  BY <1>2 DEF Collected, Emitted
<1>4. Tag(s.k) \in Met(s)
  BY <1>2, CellFacts, MetFacts DEF Tag, Cells, Pieces
<1>5. CASE s \in [k : {"empty"}]
  BY <1>3, <1>4, <1>5 DEF Covered, CollectStmt, EmitStmt, CollectNames
<1>6. CASE s \in [k : {"jump", "label", "state"}, s : STRING]
  <2>1. Collected(s) = <<Text(s.s)>> /\ Emitted(s) = <<Tag(s.k)>> \o <<Text(s.s)>>
    <3>1. s.k \in {"jump", "label", "state"}
      BY <1>6
    <3>2. Collected(s) = <<Text(s.s)>> \o <<>>
      BY <1>3, <3>1 DEF CollectStmt, CollectNames
    <3>3. Emitted(s) = <<Tag(s.k)>> \o <<Text(s.s)>>
      BY <1>3, <3>1 DEF EmitStmt
    <3> QED BY <3>2, <3>3
  <2>2. Text(s.s) \in Texts \cup Trees
    BY <1>6, TextsAndTrees
  <2>3. Text(s.s) \in Met(s)
    BY <2>1, <2>2, RangeOfOne, MetFacts
  <2> QED BY <1>4, <2>1, <2>2, <2>3 DEF Covered
<1>7. CASE s \in [k : {"expr", "return"}, expr : Seq(Exprs)]
  <2>1. Collected(s) = Subs(s.expr)
    <3>1. Collected(s) = <<>> \o Subs(s.expr)
      BY <1>3, <1>7 DEF CollectStmt, CollectNames
    <3>2. Subs(s.expr) \in Seq(Texts \cup Trees)
      BY <1>7, TreesOf
    <3> QED BY <3>1, <3>2
  <2>2. Subs(s.expr) \in Seq(Texts \cup Trees) /\ \A x \in Range(s.expr) : Sub(x) \in Met(s)
    BY <1>7, <2>1, TreesOf, MetFacts
  <2>3. Subs(s.expr) \in Seq(Met(s)) /\ Counted(s.expr) \in Seq(Met(s))
    BY <1>7, <2>2, SubsIn, CountedIn, MetFacts
  <2>4. \/ Emitted(s) = <<Tag(s.k)>> \o Subs(s.expr)
        \/ Emitted(s) = <<Tag(s.k)>> \o Counted(s.expr)
    BY <1>3, <1>7 DEF EmitStmt
  <2>5. Emitted(s) \in Seq(Met(s))
    BY <1>4, <2>3, <2>4, SeqConcat
  <2> QED BY <2>1, <2>2, <2>5 DEF Covered
<1>8. CASE s \in [k : {"decl"}, t : STRING, s : STRING, expr : Seq(Exprs)]
  <2> DEFINE name == <<Text(s.s)>>
             subs == Subs(s.expr)
  <2>1. /\ Collected(s) = name \o subs
        /\ Emitted(s) = <<Tag(s.k)>> \o (<<Tag(s.t), Text(s.s)>> \o Counted(s.expr))
    BY <1>3, <1>8 DEF CollectStmt, CollectNames, EmitStmt
  <2>2. /\ name \in Seq(Texts \cup Trees) /\ Range(name) = {Text(s.s)}
        /\ subs \in Seq(Texts \cup Trees) /\ \A x \in Range(s.expr) : Sub(x) \in Range(subs)
    BY <1>8, TextsAndTrees, RangeOfOne, TreesOf
  <2>3. /\ Collected(s) \in Seq(Texts \cup Trees)
        /\ Range(Collected(s)) = Range(name) \cup Range(subs)
    <3> HIDE DEF name, subs
    <3> QED BY <2>1, <2>2, RangeOfConcat
  <2>4. Text(s.s) \in Met(s) /\ Tag(s.t) \in Met(s) /\ \A x \in Range(s.expr) : Sub(x) \in Met(s)
    BY <1>8, <2>2, <2>3, MetFacts
  <2>5. Counted(s.expr) \in Seq(Met(s))
    BY <1>8, <2>4, CountedIn, MetFacts
  <2> QED BY <1>4, <2>1, <2>3, <2>4, <2>5 DEF Covered
<1>9. CASE s \in [k : {"block"}, stmts : Seq(Stmts)]
  <2>1. Collected(s) = <<>> \o Subs(s.stmts) /\ Emitted(s) = <<Tag(s.k)>> \o Many(s.stmts)
    BY <1>3, <1>9 DEF CollectStmt, CollectNames, EmitStmt
  <2>2. /\ Subs(s.stmts) \in Seq(Texts \cup Trees)
        /\ \A x \in Range(s.stmts) : Sub(x) \in Range(Subs(s.stmts))
    BY <1>9, TreesOf
  <2>3. Collected(s) = Subs(s.stmts)
    BY <2>1, <2>2
  <2>4. Many(s.stmts) \in Seq(Met(s))
    BY <1>9, <2>2, <2>3, CountedIn, MetFacts
  <2> QED BY <1>4, <2>1, <2>2, <2>3, <2>4 DEF Covered
<1>10. CASE s \in [k : {"if"}, cond : Exprs, then : Stmts, else : Seq(Stmts)]
  <2> DEFINE two == <<Sub(s.cond), Sub(s.then)>>
             subs == Subs(s.else)
  <2>1. /\ Collected(s) = <<>> \o (two \o subs)
        /\ Emitted(s) = <<Tag(s.k)>> \o (two \o Counted(s.else))
    BY <1>3, <1>10 DEF CollectStmt, CollectNames, EmitStmt, EmitIf
  <2>2. /\ two \in Seq(Texts \cup Trees) /\ Range(two) = {Sub(s.cond), Sub(s.then)}
        /\ subs \in Seq(Texts \cup Trees) /\ \A x \in Range(s.else) : Sub(x) \in Range(subs)
    BY <1>10, TwoTrees, TreesOf DEF Nodes
  <2>3. /\ Collected(s) \in Seq(Texts \cup Trees)
        /\ Range(Collected(s)) = Range(two) \cup Range(subs)
    <3> HIDE DEF two, subs
    <3> QED BY <2>1, <2>2, RangeOfConcat
  <2>4. /\ Sub(s.cond) \in Met(s) /\ Sub(s.then) \in Met(s)
        /\ \A x \in Range(s.else) : Sub(x) \in Met(s)
    BY <2>2, <2>3, MetFacts
  <2>5. Counted(s.else) \in Seq(Met(s))
    BY <1>10, <2>4, CountedIn, MetFacts
  <2> QED BY <1>4, <2>1, <2>3, <2>4, <2>5 DEF Covered
<1>11. CASE s \in [k : {"while", "do"}, cond : Exprs, body : Stmts]
  <2>1. \/ /\ Collected(s) = <<>> \o <<Sub(s.cond), Sub(s.body)>>
           /\ Emitted(s) = <<Tag(s.k)>> \o <<Sub(s.cond), Sub(s.body)>>
        \/ /\ Collected(s) = <<>> \o <<Sub(s.body), Sub(s.cond)>>
           /\ Emitted(s) = <<Tag(s.k)>> \o <<Sub(s.body), Sub(s.cond)>>
    BY <1>3, <1>11 DEF CollectStmt, CollectNames, EmitStmt
  <2>2. /\ <<Sub(s.cond), Sub(s.body)>> \in Seq(Texts \cup Trees)
        /\ <<Sub(s.body), Sub(s.cond)>> \in Seq(Texts \cup Trees)
        /\ Range(<<Sub(s.cond), Sub(s.body)>>) = {Sub(s.cond), Sub(s.body)}
        /\ Range(<<Sub(s.body), Sub(s.cond)>>) = {Sub(s.cond), Sub(s.body)}
    <3>1. s.cond \in Nodes /\ s.body \in Nodes
      BY <1>11 DEF Nodes
    <3> QED BY <3>1, TwoTrees
  <2>3. /\ Collected(s) \in Seq(Texts \cup Trees)
        /\ Range(Collected(s)) = {Sub(s.cond), Sub(s.body)}
    BY <2>1, <2>2, SeqConcat
  <2>4. Sub(s.cond) \in Met(s) /\ Sub(s.body) \in Met(s)
    BY <2>3, MetFacts
  <2>5. Emitted(s) \in Seq(Met(s))
    <3>1. /\ <<Sub(s.cond), Sub(s.body)>> \in Seq(Met(s))
          /\ <<Sub(s.body), Sub(s.cond)>> \in Seq(Met(s))
      BY <2>4
    <3> QED BY <1>4, <2>1, <3>1, SeqConcat
  <2> QED BY <2>3, <2>5 DEF Covered
<1>12. CASE s \in [k : {"for"}, init : Seq(Exprs), cond : Seq(Exprs), post : Seq(Exprs), body : Stmts]
  <2> DEFINE init == Subs(s.init)
             cond == Subs(s.cond)
             post == Subs(s.post)
             body == <<Sub(s.body)>>
  <2>1. /\ Collected(s) = <<>> \o (init \o cond \o post \o body)
        /\ Emitted(s) = <<Tag(s.k)>> \o
             (Counted(s.init) \o Counted(s.cond) \o Counted(s.post) \o body)
    BY <1>3, <1>12 DEF CollectStmt, CollectNames, EmitStmt
  <2>2. /\ init \in Seq(Texts \cup Trees) /\ \A x \in Range(s.init) : Sub(x) \in Range(init)
        /\ cond \in Seq(Texts \cup Trees) /\ \A x \in Range(s.cond) : Sub(x) \in Range(cond)
        /\ post \in Seq(Texts \cup Trees) /\ \A x \in Range(s.post) : Sub(x) \in Range(post)
        /\ body \in Seq(Texts \cup Trees) /\ Range(body) = {Sub(s.body)}
    BY <1>12, TextsAndTrees, RangeOfOne, TreesOf DEF Nodes
  <2>3. /\ Collected(s) \in Seq(Texts \cup Trees)
        /\ Range(Collected(s)) = Range(init) \cup Range(cond) \cup Range(post) \cup Range(body)
    <3> HIDE DEF init, cond, post, body
    <3>1. Collected(s) = init \o cond \o post \o body
      BY <2>1, <2>2, RangeOfFour
    <3> QED BY <2>2, <3>1, RangeOfFour
  <2>4. /\ \A x \in Range(s.init) : Sub(x) \in Met(s)
        /\ \A x \in Range(s.cond) : Sub(x) \in Met(s)
        /\ \A x \in Range(s.post) : Sub(x) \in Met(s)
        /\ Sub(s.body) \in Met(s)
    BY <2>2, <2>3, MetFacts
  <2>5. /\ Counted(s.init) \in Seq(Met(s))
        /\ Counted(s.cond) \in Seq(Met(s))
        /\ Counted(s.post) \in Seq(Met(s))
    BY <1>12, <2>4, CountedIn, MetFacts
  <2> QED BY <1>4, <2>1, <2>3, <2>4, <2>5 DEF Covered
<1> QED
  BY <1>1, <1>5, <1>6, <1>7, <1>8, <1>9, <1>10, <1>11, <1>12 DEF StmtNodes

LEMMA TopCovered ==
  ASSUME NEW d \in Globals \cup Funcs \cup Events \cup States
  PROVE  Covered(d)
<1> USE DEF Expressions, Statements, Literals, Naming, Composed, WithOp
<1>1. d.k \in {"global", "func", "event", "in state"} /\ d.s \in STRING
  BY DEF Globals, Funcs, Events, States
<1>2. Collected(d) = CollectTop(d) /\ Emitted(d) = EmitTop(d)
  BY <1>1 DEF Collected, Emitted
<1> DEFINE name == <<Text(d.s)>>
<1>3. Text(d.s) \in Texts \cup Trees /\ name \in Seq(Texts \cup Trees) /\ Range(name) = {Text(d.s)}
  BY <1>1, TextsAndTrees, RangeOfOne
<1>4. CASE d \in Globals
  <2> DEFINE subs == Subs(d.init)
  <2>1. /\ Collected(d) = name \o subs
        /\ Emitted(d) = <<Tag(d.t), Text(d.s)>> \o Counted(d.init)
    BY <1>2, <1>4 DEF CollectTop, EmitTop, Globals
  <2>2. /\ subs \in Seq(Texts \cup Trees) /\ \A x \in Range(d.init) : Sub(x) \in Range(subs)
        /\ d.init \in Seq(Exprs) /\ d.t \in STRING
    BY <1>4, TreesOf DEF Globals
  <2>3. /\ Collected(d) \in Seq(Texts \cup Trees)
        /\ Range(Collected(d)) = Range(name) \cup Range(subs)
    <3> HIDE DEF name, subs
    <3> QED BY <1>3, <2>1, <2>2, RangeOfConcat
  <2>4. Text(d.s) \in Met(d) /\ Tag(d.t) \in Met(d) /\ \A x \in Range(d.init) : Sub(x) \in Met(d)
    BY <1>3, <2>2, <2>3, MetFacts
  <2>5. Counted(d.init) \in Seq(Met(d))
    BY <2>2, <2>4, CountedIn, MetFacts
  <2> QED BY <2>1, <2>3, <2>4, <2>5 DEF Covered
<1>5. CASE d \in Funcs \cup Events
  <2> DEFINE params == ParamNames(d.params)
             body == <<Sub(d.body)>>
  <2>1. /\ Collected(d) = name \o (params \o body)
        /\ \/ d.t \in STRING
              /\ Emitted(d) = <<Text(d.s), Tag(d.t)>> \o Counted(d.params) \o body
           \/ Emitted(d) = <<Text(d.s)>> \o Counted(d.params) \o body
    BY <1>2, <1>5 DEF CollectTop, EmitTop, Funcs, Events
  <2>2. d.params \in Seq(Params) /\ d.body \in Stmts
    BY <1>5 DEF Funcs, Events
  <2>3. /\ params \in Seq(Items) /\ Range(params) = {Text(p.name) : p \in Range(d.params)}
        /\ \A p \in Range(d.params) : p \in Params
    BY <2>2, RangeOfNames, RangeOfSeq
  <2>4. params \in Seq(Texts \cup Trees)
    <3>1. Range(params) \subseteq Texts \cup Trees
      BY <2>3, TextsAndTrees DEF Params
    <3>2. params \in Seq(Range(params))
      BY <2>3, SeqOfRange
    <3> HIDE DEF params
    <3> QED BY <3>1, <3>2
  <2>5. body \in Seq(Texts \cup Trees) /\ Range(body) = {Sub(d.body)}
    BY <2>2, TextsAndTrees, RangeOfOne DEF Nodes
  <2>6. /\ Collected(d) \in Seq(Texts \cup Trees)
        /\ Range(Collected(d)) = Range(name) \cup Range(params) \cup Range(body)
    <3> HIDE DEF name, params, body
    <3>1. Collected(d) = name \o params \o body
      BY <1>3, <2>1, <2>4, <2>5
    <3> QED BY <1>3, <2>4, <2>5, <3>1, RangeOfThree
  <2>7. /\ Text(d.s) \in Met(d) /\ Sub(d.body) \in Met(d)
        /\ \A p \in Range(d.params) : Sub(p) \in Met(d)
    BY <1>3, <2>3, <2>5, <2>6, MetFacts
  <2>8. Counted(d.params) \in Seq(Met(d))
    BY <2>2, <2>7, CountedIn, MetFacts
  <2>9. d.t \in STRING => Tag(d.t) \in Met(d)
    BY MetFacts
  <2>10. body \in Seq(Met(d))
    BY <2>7
  <2>11. Emitted(d) \in Seq(Met(d))
    <3> HIDE DEF body
    <3>1. <<Text(d.s)>> \o Counted(d.params) \in Seq(Met(d))
      BY <2>7, <2>8, SeqConcat
    <3>2. d.t \in STRING => <<Text(d.s), Tag(d.t)>> \o Counted(d.params) \in Seq(Met(d))
      BY <2>7, <2>8, <2>9, SeqConcat
    <3> QED BY <2>1, <2>10, <3>1, <3>2, SeqConcat
  <2> QED BY <2>6, <2>11 DEF Covered
<1>6. CASE d \in States
  <2> DEFINE subs == Subs(d.events)
  <2>1. /\ Collected(d) = name \o subs
        /\ Emitted(d) = <<Text(d.s)>> \o Many(d.events)
    BY <1>2, <1>6 DEF CollectTop, EmitTop, States
  <2>2. /\ subs \in Seq(Texts \cup Trees) /\ \A x \in Range(d.events) : Sub(x) \in Range(subs)
        /\ d.events \in Seq(Events)
    BY <1>6, TreesOf DEF States
  <2>3. /\ Collected(d) \in Seq(Texts \cup Trees)
        /\ Range(Collected(d)) = Range(name) \cup Range(subs)
    <3> HIDE DEF name, subs
    <3> QED BY <1>3, <2>1, <2>2, RangeOfConcat
  <2>4. Text(d.s) \in Met(d) /\ \A x \in Range(d.events) : Sub(x) \in Met(d)
    BY <1>3, <2>2, <2>3, MetFacts
  <2>5. Many(d.events) \in Seq(Met(d))
    BY <2>2, <2>4, CountedIn, MetFacts
  <2> QED BY <2>1, <2>3, <2>4, <2>5 DEF Covered
<1> QED BY <1>4, <1>5, <1>6

LEMMA NodeCovered == \A x \in Nodes : Covered(x)
BY ExprCovered, StmtCovered, TopCovered DEF Nodes

-----------------------------------------------------------------------------
FileCells == Pieces \cup [w : {"pool"}, v : Seq(STRING)] \cup [w : {"index"}, v : Nat]

Waiting == Range(todo)
Pooled  == {Text(s) : s \in Range(strs)}
Tops    == Range(script.globals) \cup Range(script.funcs) \cup Range(script.states)

Shape ==
  /\ script \in Scripts
  /\ phase \in {"collect", "write", "done", "failed"}
  /\ todo \in Seq(Items)
  /\ phase = "collect" => todo \in Seq(Texts \cup Trees)
  /\ strs \in Seq(STRING)
  /\ file \in Seq(FileCells)

NoTwice == \A i, j \in DOMAIN strs : strs[i] = strs[j] => i = j

(* V is the set of nodes that the first pass has visited: their strings    *)
(* are in the pool or on the list, their nodes visited or on the list.     *)
Seen(V) == Pooled \cup {Sub(x) : x \in V}

Collecting(V) ==
  /\ \A x \in V : Range(Collected(x)) \subseteq Seen(V) \cup Waiting
  /\ {Sub(d) : d \in Tops} \subseteq Seen(V) \cup Waiting

CollectInv ==
  phase \in {"collect", "failed"} =>
    file = <<>> /\ \E V \in SUBSET Nodes : Collecting(V)

(* In the second pass the list has nothing but what was visited, with the  *)
(* parameters whose names are in the pool.                                 *)
KnownNames == {Sub(p) : p \in {q \in Params : Text(q.name) \in Pooled}}

Writing(V) ==
  /\ \A x \in V : Range(Collected(x)) \subseteq Seen(V)
  /\ Waiting \subseteq Seen(V) \cup Cells \cup KnownNames

WriteInv ==
  phase \in {"write", "done"} =>
    /\ file # <<>> /\ file[1] = [w |-> "pool", v |-> strs]
    /\ \A i \in DOMAIN file : file[i].w = "index" => file[i].v \in 0 .. Len(strs) - 1
    /\ \E V \in SUBSET Nodes : Writing(V)

EmitInv == Shape /\ NoTwice /\ CollectInv /\ WriteInv

-----------------------------------------------------------------------------
(* Interning a string puts it into the pool, at one place.                 *)
LEMMA InternFacts ==
  ASSUME NEW S, NEW pool \in Seq(S), NEW s \in S,
         \A i, j \in DOMAIN pool : pool[i] = pool[j] => i = j
  PROVE  LET new == Intern(pool, s)
         IN  /\ new \in Seq(S)
             /\ \A i, j \in DOMAIN new : new[i] = new[j] => i = j
             /\ Range(new) = Range(pool) \cup {s}
             /\ s \in Range(pool) => new = pool
             /\ IndexOf(new, s) \in 0 .. Len(new) - 1
<1> DEFINE new == Intern(pool, s)
<1>1. CASE Places(pool, s) = {}
  <2>1. new = Append(pool, s)
    BY <1>1 DEF Intern
  <2>2. \A i \in DOMAIN pool : pool[i] # s
    BY <1>1 DEF Places
  <2>3. /\ new \in Seq(S) /\ Len(new) = Len(pool) + 1
        /\ \A i \in DOMAIN pool : new[i] = pool[i]
        /\ new[Len(pool) + 1] = s
        /\ DOMAIN pool = 1 .. Len(pool) /\ DOMAIN new = 1 .. Len(pool) + 1
        /\ Len(pool) \in Nat
    <3>1. Len(pool) \in Nat /\ DOMAIN pool = 1 .. Len(pool)
      OBVIOUS
    <3> HIDE DEF new
    <3>2. new \in Seq(S) /\ Len(new) = Len(pool) + 1
      BY <2>1
    <3>3. DOMAIN new = 1 .. Len(new)
      BY <3>2
    <3> QED BY <2>1, <3>1, <3>2, <3>3, AppendProperties
  <2> HIDE DEF new
  <2>4. DOMAIN new = DOMAIN pool \cup {Len(pool) + 1}
    BY <2>3
  <2>5. \A i, j \in DOMAIN new : new[i] = new[j] => i = j
    BY <2>2, <2>3, <2>4
  <2>6. Range(new) = Range(pool) \cup {s}
    <3>1. \A i \in DOMAIN new : new[i] \in Range(pool) \cup {s}
      BY <2>3, <2>4 DEF Range
    <3>2. \A i \in DOMAIN pool : pool[i] \in Range(new)
      BY <2>3, <2>4 DEF Range
    <3>3. s \in Range(new)
      BY <2>3, <2>4 DEF Range
    <3>4. Range(new) \subseteq Range(pool) \cup {s} /\ Range(pool) \subseteq Range(new)
      BY <3>1, <3>2 DEF Range
    <3> QED BY <3>3, <3>4
  <2>7. s \notin Range(pool)
    BY <2>2 DEF Range
  <2>8. Len(pool) + 1 \in Places(new, s)
    BY <2>3, <2>4 DEF Places
  <2>9. (CHOOSE i \in Places(new, s) : TRUE) \in Places(new, s)
    BY <2>8
  <2>10. IndexOf(new, s) \in 0 .. Len(new) - 1
    BY <2>3, <2>9 DEF IndexOf, Places
  <2> QED BY <2>3, <2>5, <2>6, <2>7, <2>10 DEF new
<1>2. CASE Places(pool, s) # {}
  <2>1. new = pool
    BY <1>2 DEF Intern
  <2>2. s \in Range(pool)
    BY <1>2 DEF Places, Range
  <2>3. (CHOOSE i \in Places(pool, s) : TRUE) \in Places(pool, s)
    BY <1>2
  <2>4. DOMAIN pool = 1 .. Len(pool) /\ Len(pool) \in Nat
    OBVIOUS
  <2>5. IndexOf(pool, s) \in 0 .. Len(pool) - 1
    BY <2>3, <2>4 DEF IndexOf, Places
  <2> QED BY <2>1, <2>2, <2>5
<1> QED BY <1>1, <1>2

(* The first element of what is still to be visited.                       *)
LEMMA HeadFacts ==
  ASSUME Shape, todo # <<>>
  PROVE  /\ Head(todo) \in Items /\ Tail(todo) \in Seq(Items)
         /\ phase = "collect" => Head(todo) \in Texts \cup Trees /\ Tail(todo) \in Seq(Texts \cup Trees)
         /\ Waiting = {Head(todo)} \cup Range(Tail(todo))
<1>1. todo \in Seq(Items) /\ (phase = "collect" => todo \in Seq(Texts \cup Trees))
  BY DEF Shape
<1>2. /\ Head(todo) \in Items /\ Tail(todo) \in Seq(Items)
      /\ Range(todo) = {Head(todo)} \cup Range(Tail(todo))
  BY <1>1, RangeOfTail
<1>3. phase = "collect" => Head(todo) \in Texts \cup Trees /\ Tail(todo) \in Seq(Texts \cup Trees)
  BY <1>1, RangeOfTail
<1> QED BY <1>2, <1>3 DEF Waiting

(* What is on the list is of one sort.                                     *)
LEMMA Sorts ==
  /\ \A it \in Items : it.is = "text" => it \in Texts /\ it.s \in STRING /\ it = Text(it.s)
  /\ \A it \in Items : it.is = "node" => it \in Trees \cup Names /\ it = Sub(it.x)
  /\ \A it \in Items : it.is = "cell" => it.c \in Pieces /\ it \in Cells
  /\ \A it \in Trees : it.is = "node" /\ it.x \in Nodes
  /\ \A it \in Names : it.is = "node" /\ it.x \in Params
  /\ \A it \in Texts : it.is = "text"
  /\ \A it \in Cells : it.is = "cell"
  /\ \A p \in Params : p \notin Nodes
<1>1. \A p \in Params : p \notin Nodes
  <2>1. \A p \in Params : p.k = "param"
    BY DEF Params
  <2>2. \A x \in Exprs : x.k # "param"
    BY TreeAssumption DEF ExprNodes, Expressions, Literals, Naming, Composed, WithOp
  <2>3. \A x \in Stmts : x.k # "param"
    BY TreeAssumption DEF StmtNodes
  <2>4. \A x \in Globals \cup Funcs \cup Events \cup States : x.k # "param"
    BY DEF Globals, Funcs, Events, States
  <2> QED BY <2>1, <2>2, <2>3, <2>4 DEF Nodes
<1>2. /\ \A it \in Trees : it.is = "node" /\ it.x \in Nodes /\ it = Sub(it.x)
      /\ \A it \in Names : it.is = "node" /\ it.x \in Params /\ it = Sub(it.x)
      /\ \A it \in Texts : it.is = "text" /\ it.s \in STRING /\ it = Text(it.s)
      /\ \A it \in Cells : it.is = "cell" /\ it.c \in Pieces
  BY DEF Trees, Names, Texts, Cells, Text, Sub, Cell
<1> QED BY <1>1, <1>2 DEF Items

LEMMA TopsFacts ==
  ASSUME Shape
  PROVE  /\ script.globals \in Seq(Nodes) /\ script.funcs \in Seq(Nodes)
         /\ script.states \in Seq(Nodes)
         /\ Tops \subseteq Nodes
<1>1. /\ script.globals \in Seq(Globals) /\ script.funcs \in Seq(Funcs)
      /\ script.states \in Seq(States)
  BY TreeAssumption DEF Shape
<1>2. /\ script.globals \in Seq(Nodes) /\ script.funcs \in Seq(Nodes)
      /\ script.states \in Seq(Nodes)
  BY <1>1 DEF Nodes
<1> QED BY <1>2, RangeOfSeq DEF Tops

(* As long as the script and the pool stay, so does what is said of them.  *)
LEMMA SamePool ==
  ASSUME UNCHANGED <<script, strs>>
  PROVE  /\ Tops' = Tops /\ Pooled' = Pooled /\ KnownNames' = KnownNames
         /\ \A V : Seen(V)' = Seen(V)
         /\ NoTwice' <=> NoTwice
BY DEF Tops, Pooled, KnownNames, Seen, NoTwice

LEMMA EmitInvInit == Init => EmitInv
<1> SUFFICES ASSUME Init PROVE EmitInv
  OBVIOUS
<1> DEFINE globals == Subs(script.globals)
           funcs   == Subs(script.funcs)
           states  == Subs(script.states)
<1>1. /\ script \in Scripts /\ phase = "collect" /\ strs = <<>> /\ file = <<>>
      /\ todo = globals \o funcs \o states
  BY DEF Init
<1>2. /\ script.globals \in Seq(Globals) /\ script.funcs \in Seq(Funcs)
      /\ script.states \in Seq(States)
  BY <1>1, TreeAssumption
<1>3. /\ script.globals \in Seq(Nodes) /\ script.funcs \in Seq(Nodes)
      /\ script.states \in Seq(Nodes)
  BY <1>2 DEF Nodes
<1>4. /\ \A x \in Range(script.globals) : Sub(x) \in Texts \cup Trees
      /\ \A x \in Range(script.funcs) : Sub(x) \in Texts \cup Trees
      /\ \A x \in Range(script.states) : Sub(x) \in Texts \cup Trees
  BY <1>3, RangeOfSeq, TextsAndTrees
<1>5. /\ globals \in Seq(Texts \cup Trees)
      /\ funcs \in Seq(Texts \cup Trees)
      /\ states \in Seq(Texts \cup Trees)
  BY <1>3, <1>4, SubsIn
<1>6. /\ Range(globals) = {Sub(x) : x \in Range(script.globals)}
      /\ Range(funcs) = {Sub(x) : x \in Range(script.funcs)}
      /\ Range(states) = {Sub(x) : x \in Range(script.states)}
  BY <1>3, RangeOfSubs
<1>7. /\ todo \in Seq(Texts \cup Trees)
      /\ Waiting = Range(globals) \cup Range(funcs) \cup Range(states)
  <2> HIDE DEF globals, funcs, states
  <2> QED BY <1>1, <1>5, RangeOfThree DEF Waiting
<1>8. {Sub(d) : d \in Tops} \subseteq Waiting
  BY <1>6, <1>7 DEF Tops
<1>9. Shape
  <2>1. todo \in Seq(Items)
    BY <1>7 DEF Items
  <2> QED BY <1>1, <1>7, <2>1 DEF Shape
<1>10. Collecting({})
  BY <1>8 DEF Collecting
<1> QED BY <1>1, <1>9, <1>10 DEF EmitInv, NoTwice, CollectInv, WriteInv

-----------------------------------------------------------------------------
(* A visited node: its parts take its place on the list.                   *)
LEMMA CollectNodeStep == EmitInv /\ CollectNode => EmitInv'
<1> SUFFICES ASSUME EmitInv, CollectNode PROVE EmitInv'
  OBVIOUS
<1> DEFINE rest == Tail(todo)
<1>1. /\ phase = "collect" /\ todo # <<>> /\ Head(todo).is = "node"
      /\ todo' = Collected(Head(todo).x) \o rest
      /\ UNCHANGED <<script, phase, strs, file>>
  BY DEF CollectNode, Visit
<1>2. Shape /\ NoTwice /\ CollectInv
  BY DEF EmitInv
<1>3. /\ Head(todo) \in Texts \cup Trees /\ rest \in Seq(Texts \cup Trees)
      /\ Waiting = {Head(todo)} \cup Range(rest)
  BY <1>1, <1>2, HeadFacts
<1>4. PICK x \in Nodes : Head(todo) = Sub(x)
  BY <1>1, <1>3, Sorts DEF Items
<1> DEFINE parts == Collected(x)
<1>5. parts \in Seq(Texts \cup Trees)
  BY <1>4, NodeCovered DEF Covered
<1>6. todo' \in Seq(Texts \cup Trees) /\ Waiting' = Range(parts) \cup Range(rest)
  <2>1. todo' = parts \o rest
    <3>1. Head(todo).x = x
      BY <1>4 DEF Sub
    <3> QED BY <1>1, <3>1
  <2> HIDE DEF parts, rest
  <2> QED BY <1>3, <1>5, <2>1, RangeOfConcat DEF Waiting
<1>7. PICK V \in SUBSET Nodes : Collecting(V)
  BY <1>1, <1>2 DEF CollectInv
<1>8. Collecting(V \cup {x})'
  <2>1. Seen(V \cup {x}) = Seen(V) \cup {Head(todo)}
    BY <1>4 DEF Seen
  <2>2. Seen(V) \cup Waiting \subseteq Seen(V \cup {x}) \cup Waiting'
    BY <1>3, <1>6, <2>1
  <2>3. \A y \in V \cup {x} : Range(Collected(y)) \subseteq Seen(V \cup {x}) \cup Waiting'
    BY <1>6, <1>7, <2>2 DEF Collecting
  <2>4. {Sub(d) : d \in Tops} \subseteq Seen(V \cup {x}) \cup Waiting'
    BY <1>7, <2>2 DEF Collecting
  <2>5. Tops' = Tops /\ Seen(V \cup {x})' = Seen(V \cup {x})
    BY <1>1 DEF Tops, Seen, Pooled
  <2> QED BY <2>3, <2>4, <2>5 DEF Collecting
<1>9. Shape'
  <2>1. todo' \in Seq(Items)
    BY <1>6 DEF Items
  <2> QED BY <1>1, <1>2, <1>6, <2>1 DEF Shape
<1>10. CollectInv'
  <2>1. V \cup {x} \in SUBSET Nodes
    BY <1>4
  <2>2. file' = <<>>
    BY <1>1, <1>2 DEF CollectInv
  <2> QED BY <1>8, <2>1, <2>2 DEF CollectInv
<1> QED BY <1>1, <1>2, <1>9, <1>10 DEF EmitInv, NoTwice, WriteInv

LEMMA CollectTextStep == EmitInv /\ CollectText => EmitInv'
<1> SUFFICES ASSUME EmitInv, CollectText PROVE EmitInv'
  OBVIOUS
<1> DEFINE s == Head(todo).s
           rest == Tail(todo)
<1>1. /\ phase = "collect" /\ todo # <<>> /\ Head(todo).is = "text"
      /\ strs' = Intern(strs, s) /\ todo' = rest
      /\ UNCHANGED <<script, phase, file>>
  BY DEF CollectText
<1>2. Shape /\ NoTwice /\ CollectInv
  BY DEF EmitInv
<1>3. /\ Head(todo) \in Texts \cup Trees /\ rest \in Seq(Texts \cup Trees)
      /\ Waiting = {Head(todo)} \cup Range(rest)
  BY <1>1, <1>2, HeadFacts
<1>4. s \in STRING /\ Head(todo) = Text(s)
  BY <1>1, <1>3, Sorts DEF Items
<1>5. strs' \in Seq(STRING) /\ NoTwice' /\ Range(strs') = Range(strs) \cup {s}
  <2>1. strs \in Seq(STRING) /\ \A i, j \in DOMAIN strs : strs[i] = strs[j] => i = j
    BY <1>2 DEF Shape, NoTwice
  <2> HIDE DEF s
  <2>2. /\ Intern(strs, s) \in Seq(STRING)
        /\ \A i, j \in DOMAIN Intern(strs, s) : Intern(strs, s)[i] = Intern(strs, s)[j] => i = j
        /\ Range(Intern(strs, s)) = Range(strs) \cup {s}
    BY <1>4, <2>1, InternFacts
  <2> QED BY <1>1, <2>2 DEF NoTwice
<1>6. Pooled' = Pooled \cup {Head(todo)} /\ Waiting' = Range(rest)
  BY <1>1, <1>4, <1>5 DEF Pooled, Waiting
<1>7. PICK V \in SUBSET Nodes : Collecting(V)
  BY <1>1, <1>2 DEF CollectInv
<1>8. Collecting(V)'
  <2>1. Seen(V)' = Seen(V) \cup {Head(todo)}
    BY <1>6 DEF Seen
  <2>2. Seen(V) \cup Waiting = Seen(V)' \cup Waiting'
    BY <1>3, <1>6, <2>1
  <2>3. Tops' = Tops
    BY <1>1 DEF Tops
  <2> QED BY <1>7, <2>2, <2>3 DEF Collecting
<1>9. Shape'
  <2>1. todo' \in Seq(Texts \cup Trees) /\ todo' \in Seq(Items)
    BY <1>1, <1>3 DEF Items
  <2> QED BY <1>1, <1>2, <1>5, <2>1 DEF Shape
<1>10. CollectInv'
  BY <1>1, <1>2, <1>8 DEF CollectInv
<1> QED BY <1>1, <1>5, <1>9, <1>10 DEF EmitInv, WriteInv

(* The list is empty: every string of every node is in the pool.           *)
LEMMA OpenStep == EmitInv /\ (Open \/ OpenFails) => EmitInv'
<1> SUFFICES ASSUME EmitInv, Open \/ OpenFails PROVE EmitInv'
  OBVIOUS
<1>1. phase = "collect" /\ todo = <<>> /\ UNCHANGED <<script, strs>>
  BY DEF Open, OpenFails
<1>2. Shape /\ NoTwice /\ CollectInv
  BY DEF EmitInv
<1>3. /\ NoTwice' /\ Tops' = Tops /\ Pooled' = Pooled /\ KnownNames' = KnownNames
      /\ \A V : Seen(V)' = Seen(V)
  BY <1>1, <1>2, SamePool
<1>4. PICK V \in SUBSET Nodes : Collecting(V)
  BY <1>1, <1>2 DEF CollectInv
<1>5. Waiting = {}
  BY <1>1 DEF Waiting, Range
<1>6. CASE OpenFails
  <2>1. phase' = "failed" /\ UNCHANGED <<script, todo, strs, file>>
    BY <1>6 DEF OpenFails
  <2>2. Waiting' = Waiting
    BY <2>1 DEF Waiting
  <2>3. Collecting(V)'
    BY <1>3, <1>4, <2>2 DEF Collecting
  <2>4. CollectInv'
    BY <1>1, <1>2, <2>1, <2>3 DEF CollectInv
  <2>5. Shape'
    BY <1>2, <2>1 DEF Shape
  <2> QED BY <1>3, <2>1, <2>4, <2>5 DEF EmitInv, WriteInv
<1>7. CASE Open
  <2> DEFINE globals == Many(script.globals)
             funcs   == Many(script.funcs)
             states  == Many(script.states)
  <2>1. /\ phase' = "write" /\ file' = <<[w |-> "pool", v |-> strs]>>
        /\ todo' = globals \o funcs \o states
    BY <1>7 DEF Open
  <2>2. /\ script.globals \in Seq(Nodes) /\ script.funcs \in Seq(Nodes)
        /\ script.states \in Seq(Nodes)
    BY <1>2, TopsFacts
  <2>3. /\ globals \in Seq(Items) /\ funcs \in Seq(Items) /\ states \in Seq(Items)
        /\ Range(globals) \subseteq Cells \cup {Sub(d) : d \in Tops}
        /\ Range(funcs) \subseteq Cells \cup {Sub(d) : d \in Tops}
        /\ Range(states) \subseteq Cells \cup {Sub(d) : d \in Tops}
    <3>1. ASSUME NEW xs \in Seq(Nodes), Range(xs) \subseteq Tops
          PROVE  Many(xs) \in Seq(Items) /\ Range(Many(xs)) \subseteq Cells \cup {Sub(d) : d \in Tops}
      BY <3>1, RangeOfCounted
    <3>2. /\ Range(script.globals) \subseteq Tops /\ Range(script.funcs) \subseteq Tops
          /\ Range(script.states) \subseteq Tops
      BY DEF Tops
    <3> QED BY <2>2, <3>1, <3>2
  <2>4. todo' \in Seq(Items) /\ Waiting' \subseteq Cells \cup {Sub(d) : d \in Tops}
    <3> HIDE DEF globals, funcs, states
    <3> QED BY <2>1, <2>3, RangeOfThree DEF Waiting
  <2>5. Writing(V)'
    BY <1>3, <1>4, <1>5, <2>4 DEF Collecting, Writing
  <2>6. [w |-> "pool", v |-> strs] \in FileCells
    BY <1>2 DEF Shape, FileCells
  <2>7. /\ file' \in Seq(FileCells) /\ file' # <<>>
        /\ file'[1] = [w |-> "pool", v |-> strs'] /\ DOMAIN file' = {1}
    BY <1>1, <2>1, <2>6
  <2>8. WriteInv'
    BY <2>5, <2>7 DEF WriteInv
  <2>9. Shape'
    BY <1>1, <1>2, <2>1, <2>4, <2>7 DEF Shape
  <2> QED BY <1>3, <2>1, <2>8, <2>9 DEF EmitInv, CollectInv
<1> QED BY <1>6, <1>7

(* What the list holds in the second pass is of four sorts.                *)
LEMMA WriteFacts ==
  ASSUME EmitInv, phase = "write", todo # <<>>
  PROVE  /\ Head(todo) \in Items /\ Tail(todo) \in Seq(Items)
         /\ Head(todo) \in Pooled \cup Cells \cup KnownNames \/ Head(todo) \in Trees
         /\ \E V \in SUBSET Nodes :
              /\ \A x \in V : Range(Collected(x)) \subseteq Seen(V)
              /\ Head(todo) \in Seen(V) \cup Cells \cup KnownNames
              /\ Range(Tail(todo)) \subseteq Seen(V) \cup Cells \cup KnownNames
<1>1. PICK V \in SUBSET Nodes : Writing(V)
  BY DEF EmitInv, WriteInv
<1>2. /\ Head(todo) \in Items /\ Tail(todo) \in Seq(Items)
      /\ Waiting = {Head(todo)} \cup Range(Tail(todo))
  BY HeadFacts DEF EmitInv
<1>3. Seen(V) \subseteq Pooled \cup Trees
  BY DEF Seen, Trees
<1> QED BY <1>1, <1>2, <1>3 DEF Writing

(* A node is replaced by what is written of it, all of it known.           *)
LEMMA WriteNodeStep == EmitInv /\ WriteNode => EmitInv'
<1> SUFFICES ASSUME EmitInv, WriteNode PROVE EmitInv'
  OBVIOUS
<1> DEFINE rest == Tail(todo)
<1>1. /\ phase = "write" /\ todo # <<>> /\ Head(todo).is = "node"
      /\ todo' = Emitted(Head(todo).x) \o rest
      /\ UNCHANGED <<script, phase, strs, file>>
  BY DEF WriteNode, Visit
<1>2. Shape /\ NoTwice /\ WriteInv
  BY DEF EmitInv
<1>3. PICK V \in SUBSET Nodes :
        /\ \A x \in V : Range(Collected(x)) \subseteq Seen(V)
        /\ Head(todo) \in Seen(V) \cup Cells \cup KnownNames
        /\ Range(rest) \subseteq Seen(V) \cup Cells \cup KnownNames
  BY <1>1, WriteFacts
<1>4. Head(todo) \in Items /\ rest \in Seq(Items)
  BY <1>1, WriteFacts
<1> DEFINE x == Head(todo).x
           Known == Seen(V) \cup Cells \cup KnownNames
<1>5. Emitted(x) \in Seq(Known)
  <2>1. CASE x \in V
    <3>1. Emitted(x) \in Seq(Met(x)) /\ Range(Collected(x)) \subseteq Seen(V)
      BY <1>3, <2>1, NodeCovered DEF Covered
    <3>2. \A q \in Params : Text(q.name) \in Seen(V) => Text(q.name) \in Pooled
      BY DEF Seen, Text, Sub
    <3>3. Met(x) \subseteq Known
      BY <3>1, <3>2 DEF Met, KnownNames
    <3> HIDE DEF x, Known
    <3> QED BY <3>1, <3>3
  <2>2. CASE Head(todo) \in KnownNames
    <3>1. PICK p \in Params : Head(todo) = Sub(p) /\ Text(p.name) \in Pooled
      BY <2>2 DEF KnownNames
    <3>2. x = p /\ p.k = "param" /\ p.t \in STRING
      BY <3>1 DEF Sub, Params
    <3>3. Emitted(p) = <<Tag(p.t), Text(p.name)>>
      BY <3>2 DEF Emitted, EmitTop, Expressions, Statements, Literals, Naming, Composed, WithOp
    <3>4. Tag(p.t) \in Known /\ Text(p.name) \in Known
      BY <3>1, <3>2, CellFacts DEF Seen
    <3> HIDE DEF x, Known
    <3> QED BY <3>2, <3>3, <3>4
  <2>3. CASE Head(todo) \in Cells \cup Pooled
    BY <1>1, <2>3 DEF Cells, Cell, Pooled, Text
  <2>4. Head(todo) \in Seen(V) => x \in V \/ Head(todo) \in Pooled
    BY DEF Seen, Sub
  <2> QED BY <1>3, <2>1, <2>2, <2>3, <2>4
<1>6. Emitted(x) \in Seq(Items)
  <2>1. Known \subseteq Items
    <3>1. Pooled \subseteq Texts
      <4>1. Range(strs) \subseteq STRING
        BY <1>2, RangeOfSeq DEF Shape
      <4> QED BY <4>1 DEF Pooled, Texts
    <3>2. KnownNames \subseteq Names /\ Seen(V) \subseteq Pooled \cup Trees
      BY DEF KnownNames, Names, Seen, Trees
    <3> QED BY <3>1, <3>2 DEF Items
  <2> HIDE DEF x, Known
  <2> QED BY <1>5, <2>1
<1>7. todo' \in Seq(Items) /\ Waiting' \subseteq Known
  <2> DEFINE parts == Emitted(x)
  <2>1. Range(parts) \subseteq Known
    <3> HIDE DEF parts, Known
    <3> QED BY <1>5, RangeOfSeq DEF parts
  <2>2. todo' = parts \o rest /\ parts \in Seq(Items)
    BY <1>1, <1>6
  <2> HIDE DEF parts, rest, Known
  <2>3. todo' \in Seq(Items) /\ Range(todo') = Range(parts) \cup Range(rest)
    BY <1>4, <2>2, RangeOfConcat
  <2>4. Range(rest) \subseteq Known
    BY <1>3 DEF Known
  <2> QED BY <2>1, <2>3, <2>4 DEF Waiting
<1>8. /\ NoTwice' /\ Tops' = Tops /\ Pooled' = Pooled /\ KnownNames' = KnownNames
      /\ \A W : Seen(W)' = Seen(W)
  BY <1>1, <1>2, SamePool
<1>9. Writing(V)'
  BY <1>3, <1>7, <1>8 DEF Writing
<1>10. WriteInv'
  BY <1>1, <1>2, <1>9 DEF WriteInv
<1>11. Shape'
  BY <1>1, <1>2, <1>7 DEF Shape
<1> QED BY <1>1, <1>8, <1>10, <1>11 DEF EmitInv, CollectInv

(* An element of the list that is not a node is written as one cell.       *)
LEMMA WrittenCell ==
  ASSUME EmitInv, phase = "write", todo # <<>>, NEW c \in FileCells,
         file' = Append(file, c), todo' = Tail(todo), UNCHANGED <<script, phase, strs>>,
         c.w = "index" => c.v \in 0 .. Len(strs) - 1
  PROVE  EmitInv'
<1>1. Shape /\ NoTwice /\ WriteInv
  BY DEF EmitInv
<1>2. /\ NoTwice' /\ Pooled' = Pooled /\ KnownNames' = KnownNames
      /\ \A W : Seen(W)' = Seen(W)
  BY <1>1, SamePool
<1>3. PICK V \in SUBSET Nodes :
        /\ \A x \in V : Range(Collected(x)) \subseteq Seen(V)
        /\ Range(Tail(todo)) \subseteq Seen(V) \cup Cells \cup KnownNames
  BY WriteFacts
<1>4. Tail(todo) \in Seq(Items)
  BY WriteFacts
<1>5. Writing(V)'
  BY <1>2, <1>3 DEF Writing, Waiting
<1>6. /\ file \in Seq(FileCells) /\ file # <<>> /\ file[1] = [w |-> "pool", v |-> strs]
      /\ \A i \in DOMAIN file : file[i].w = "index" => file[i].v \in 0 .. Len(strs) - 1
  BY <1>1 DEF Shape, WriteInv
<1>7. /\ file' \in Seq(FileCells) /\ file' # <<>>
      /\ DOMAIN file' = DOMAIN file \cup {Len(file) + 1} /\ 1 \in DOMAIN file
      /\ \A i \in DOMAIN file : file'[i] = file[i]
      /\ file'[Len(file) + 1] = c
  <2>1. Len(file) \in Nat \ {0} /\ DOMAIN file = 1 .. Len(file)
    BY <1>6, EmptySeq
  <2>2. file' \in Seq(FileCells) /\ Len(file') = Len(file) + 1
    BY <1>6, AppendProperties
  <2> QED BY <1>6, <2>1, <2>2, AppendProperties
<1>8. WriteInv'
  <2>1. \A i \in DOMAIN file' : file'[i].w = "index" => file'[i].v \in 0 .. Len(strs') - 1
    BY <1>6, <1>7
  <2> QED BY <1>5, <1>6, <1>7, <2>1 DEF WriteInv
<1>9. Shape'
  BY <1>1, <1>4, <1>7 DEF Shape
<1> QED BY <1>2, <1>8, <1>9 DEF EmitInv, CollectInv

LEMMA WriteLeafStep == EmitInv /\ (WriteText \/ WriteCell) => EmitInv'
<1> SUFFICES ASSUME EmitInv, WriteText \/ WriteCell PROVE EmitInv'
  OBVIOUS
<1>1. phase = "write" /\ todo # <<>> /\ todo' = Tail(todo) /\ UNCHANGED <<script, phase>>
  BY DEF WriteText, WriteCell
<1>2. Head(todo) \in Items /\ (Head(todo) \in Pooled \cup Cells \cup KnownNames \/ Head(todo) \in Trees)
  BY <1>1, WriteFacts
<1>3. CASE WriteText
  <2> DEFINE s == Head(todo).s
  <2>1. /\ Head(todo).is = "text" /\ strs' = Intern(strs, s)
        /\ file' = Append(file, [w |-> "index", v |-> IndexOf(strs', s)])
    BY <1>3 DEF WriteText
  <2>2. s \in Range(strs)
    <3>1. KnownNames \subseteq Names
      BY DEF KnownNames, Names
    <3>2. Head(todo) \in Pooled
      BY <1>2, <2>1, <3>1, Sorts
    <3>3. PICK t \in Range(strs) : Head(todo) = Text(t)
      BY <3>2 DEF Pooled
    <3>4. Head(todo).s = t
      BY <3>3 DEF Text
    <3> QED BY <3>4
  <2>3. strs \in Seq(STRING) /\ \A i, j \in DOMAIN strs : strs[i] = strs[j] => i = j
    BY DEF EmitInv, Shape, NoTwice
  <2>4. strs' = strs /\ IndexOf(strs, s) \in 0 .. Len(strs) - 1
    <3>1. s \in STRING
      BY <2>2, <2>3, RangeOfSeq
    <3>2. Intern(strs, s) = strs /\ IndexOf(Intern(strs, s), s) \in 0 .. Len(Intern(strs, s)) - 1
      <4> HIDE DEF s
      <4> QED BY <2>2, <2>3, <3>1, InternFacts
    <3> QED BY <2>1, <3>2
  <2> DEFINE c == [w |-> "index", v |-> IndexOf(strs, s)]
  <2>5. c \in FileCells /\ c.v \in 0 .. Len(strs) - 1 /\ file' = Append(file, c)
    BY <2>1, <2>4 DEF FileCells
  <2> HIDE DEF c
  <2> QED BY <1>1, <2>4, <2>5, WrittenCell
<1>4. CASE WriteCell
  <2>1. Head(todo).is = "cell" /\ file' = Append(file, Head(todo).c) /\ strs' = strs
    BY <1>4 DEF WriteCell
  <2>2. Head(todo).c \in Pieces
    BY <1>2, <2>1, Sorts
  <2>3. Head(todo).c \in FileCells /\ Head(todo).c.w # "index"
    BY <2>2 DEF FileCells, Pieces
  <2> QED BY <1>1, <2>1, <2>3, WrittenCell
<1> QED BY <1>3, <1>4

LEMMA CloseStep == EmitInv /\ (Close \/ UNCHANGED vars) => EmitInv'
<1> SUFFICES ASSUME EmitInv, Close \/ UNCHANGED vars PROVE EmitInv'
  OBVIOUS
<1>1. /\ UNCHANGED <<script, todo, strs, file>>
      /\ phase' = phase \/ (phase = "write" /\ phase' = "done")
  BY DEF Close, vars
<1>2. Shape /\ NoTwice /\ CollectInv /\ WriteInv
  BY DEF EmitInv
<1>3. /\ NoTwice' /\ Tops' = Tops /\ Pooled' = Pooled /\ KnownNames' = KnownNames
      /\ \A V : Seen(V)' = Seen(V)
  BY <1>1, <1>2, SamePool
<1>4. Waiting' = Waiting
  BY <1>1 DEF Waiting
<1>5. \A V \in SUBSET Nodes : (Collecting(V)' <=> Collecting(V)) /\ (Writing(V)' <=> Writing(V))
  BY <1>3, <1>4 DEF Collecting, Writing
<1>6. Shape'
  BY <1>1, <1>2 DEF Shape
<1>7. CollectInv' /\ WriteInv'
  BY <1>1, <1>2, <1>5 DEF CollectInv, WriteInv
<1> QED BY <1>3, <1>6, <1>7 DEF EmitInv

LEMMA EmitInvAlways == Spec => []EmitInv
<1>1. EmitInv /\ [Next]_vars => EmitInv'
  BY CollectNodeStep, CollectTextStep, OpenStep, WriteNodeStep, WriteLeafStep, CloseStep
     DEF Next
<1> QED BY <1>1, EmitInvInit, PTL DEF Spec

-----------------------------------------------------------------------------
(* Every index of a string in a file is one of the pool at its head, which *)
(* is complete when it is written, and no string has two (emit.c:71-103).  *)
THEOREM PoolCompleteAlways == Spec => []PoolComplete
<1>1. EmitInv => PoolComplete
  <2> SUFFICES ASSUME EmitInv PROVE PoolComplete
    OBVIOUS
  <2>1. CASE phase \in {"collect", "failed"}
    <3>1. file = <<>>
      BY <2>1 DEF EmitInv, CollectInv
    <3> QED BY <3>1 DEF PoolComplete, EmitInv, NoTwice
  <2>2. CASE phase \in {"write", "done"}
    <3>1. /\ file[1].v = strs
          /\ \A i \in DOMAIN file : file[i].w = "index" => file[i].v \in 0 .. Len(strs) - 1
      BY <2>2 DEF EmitInv, WriteInv
    <3> QED BY <3>1 DEF PoolComplete, EmitInv, NoTwice
  <2> QED BY <2>1, <2>2 DEF EmitInv, Shape
<1> QED BY <1>1, EmitInvAlways, PTL

(* The strings and names of a tree are all in the pool once the file has   *)
(* been opened: the second pass adds none to it.                           *)
THEOREM PoolIsKept == Spec => [][phase = "write" => UNCHANGED strs]_vars
<1>1. EmitInv /\ [Next]_vars => [phase = "write" => UNCHANGED strs]_vars
  <2> SUFFICES ASSUME EmitInv, Next, phase = "write" PROVE strs' = strs
    BY DEF vars
  <2>1. CASE WriteText
    <3>1. EmitInv'
      BY <2>1, WriteLeafStep
    <3>2. /\ phase' = "write" /\ file # <<>> /\ file[1] = [w |-> "pool", v |-> strs]
          /\ file' = Append(file, [w |-> "index", v |-> IndexOf(strs', Head(todo).s)])
      BY <2>1 DEF WriteText, EmitInv, WriteInv
    <3>3. file'[1] = [w |-> "pool", v |-> strs']
      BY <3>1, <3>2 DEF EmitInv, WriteInv
    <3>4. file \in Seq(FileCells) /\ Len(file) \in Nat \ {0}
      BY <3>2, EmptySeq DEF EmitInv, Shape
    <3>5. file'[1] = file[1]
      BY <3>2, <3>4
    <3> QED BY <3>2, <3>3, <3>5
  <2>2. CASE ~WriteText
    BY <2>2 DEF Next, CollectNode, CollectText, Open, OpenFails, WriteNode, WriteCell, Close, Visit
  <2> QED BY <2>1, <2>2
<1> QED BY <1>1, EmitInvAlways, PTL DEF Spec
=============================================================================
