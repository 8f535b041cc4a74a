------------------------------- MODULE Layout --------------------------------
(***************************************************************************)
(* How a bytecode file is read back: what follows each tag, cell by cell,  *)
(* and a reader that knows nothing else.  The order of pool, globals,      *)
(* functions and states is the one of the comment emit.c:12-29; it leaves  *)
(* the parts of a node open ("payload..."), so these tables are what a     *)
(* reader has to assume of the writer (emit.c:172-275).  The header is not *)
(* in the file of the model.                                               *)
(***************************************************************************)
EXTENDS Emit, TLC

(* A field of a node: one cell, one node, so many nodes, or nodes after    *)
(* their count.                                                            *)
One(f, what)        == [f |-> f, what |-> what, count |-> "one", n |-> 1]
Fixed(f, n)         == [f |-> f, what |-> "tagged", count |-> "fixed", n |-> n]
CountedU8(f, what)  == [f |-> f, what |-> what, count |-> "u8", n |-> 0]
CountedU32(f, what) == [f |-> f, what |-> what, count |-> "u32", n |-> 0]

ExprFields(k) ==
  CASE k \in {"int", "float"}            -> <<One("n", k)>>
    [] k \in {"string", "ident"}         -> <<One("s", "index")>>
    [] k = "vec"                         -> <<Fixed("sub", 3)>>
    [] k = "rot"                         -> <<Fixed("sub", 4)>>
    [] k = "list"                        -> <<CountedU32("sub", "tagged")>>
    [] k = "call"                        -> <<One("s", "index"), CountedU32("sub", "tagged")>>
    [] k = "member"                      -> <<Fixed("sub", 1), One("s", "tag")>>
    [] k \in {"cast", "unary", "postfix"} -> <<One("s", "tag"), Fixed("sub", 1)>>
    [] k \in {"binary", "assign"}        -> <<One("s", "tag"), Fixed("sub", 2)>>

StmtFields(k) ==
  CASE k = "expr"   -> <<Fixed("expr", 1)>>
    [] k = "decl"   -> <<One("t", "tag"), One("s", "index"), CountedU8("expr", "tagged")>>
    [] k = "block"  -> <<CountedU32("stmts", "tagged")>>
    [] k = "if"     -> <<One("cond", "tagged"), One("then", "tagged"), CountedU8("else", "tagged")>>
    [] k = "while"  -> <<One("cond", "tagged"), One("body", "tagged")>>
    [] k = "do"     -> <<One("body", "tagged"), One("cond", "tagged")>>
    [] k = "for"    -> <<CountedU8("init", "tagged"), CountedU8("cond", "tagged"),
                         CountedU8("post", "tagged"), One("body", "tagged")>>
    [] k = "return" -> <<CountedU8("expr", "tagged")>>
    [] k \in {"jump", "label", "state"} -> <<One("s", "index")>>
    [] OTHER        -> <<>>

TopFields(k) ==
  CASE k = "global"   -> <<One("t", "tag"), One("s", "index"), CountedU8("init", "tagged")>>
    [] k = "func"     -> <<One("s", "index"), One("t", "tag"), CountedU8("params", "param"),
                           One("body", "tagged")>>
    [] k = "event"    -> <<One("s", "index"), CountedU8("params", "param"), One("body", "tagged")>>
    [] k = "in state" -> <<One("s", "index"), CountedU32("events", "event")>>
    [] k = "param"    -> <<One("t", "tag"), One("name", "index")>>

FileFields == <<CountedU32("globals", "global"), CountedU32("funcs", "func"),
                CountedU32("states", "in state")>>

-----------------------------------------------------------------------------
(* A read returns [x, at], what is read and the place of the next cell.    *)
Is(at, w)             == at \in DOMAIN file /\ file[at].w = w
Value(at, w, default) == IF Is(at, w) THEN file[at].v ELSE default

PoolString(at) ==
  LET i == Value(at, "index", -1) + 1
  IN  IF i \in DOMAIN file[1].v THEN file[1].v[i] ELSE "broken"

Cells == {"index", "tag", "int", "float"}

ReadCell(w, at) ==
  [x |-> CASE w = "index" -> PoolString(at)
           [] w = "tag"   -> Value(at, "tag", "broken")
           [] OTHER       -> Value(at, w, 0),
   at |-> at + 1]

NoFields == [f \in {} |-> 0]

RECURSIVE Read(_, _), ReadFields(_, _), ReadList(_, _, _)

Read(what, at) ==
  IF what \in Cells THEN ReadCell(what, at)
  ELSE IF what # "tagged"
    THEN LET r == ReadFields(TopFields(what), at)
         IN  [x |-> ("k" :> what) @@ r.x, at |-> r.at]
  ELSE IF Is(at, "expr")
    THEN LET r == ReadFields(ExprFields(file[at].v[1]), at + 1)
         IN  [x |-> r.x @@ [k |-> file[at].v[1], s |-> "", n |-> 0, sub |-> <<>>,
                            t |-> file[at].v[2], lval |-> file[at].v[3]], at |-> r.at]
  ELSE LET k == Value(at, "tag", "broken")
           r == ReadFields(StmtFields(k), at + 1)
       IN  [x |-> ("k" :> k) @@ r.x, at |-> r.at]

ReadList(what, n, at) ==
  IF n = 0 THEN [x |-> <<>>, at |-> at]
  ELSE LET head == Read(what, at)
           tail == ReadList(what, n - 1, head.at)
       IN  [x |-> <<head.x>> \o tail.x, at |-> tail.at]

ReadField(f, at) ==
  CASE f.count = "one"   -> Read(f.what, at)
    [] f.count = "fixed" -> ReadList(f.what, f.n, at)
    [] OTHER             -> ReadList(f.what, Value(at, f.count, 0), at + 1)

ReadFields(fs, at) ==
  IF fs = <<>> THEN [x |-> NoFields, at |-> at]
  ELSE LET head == ReadField(Head(fs), at)
           tail == ReadFields(Tail(fs), head.at)
       IN  [x |-> (Head(fs).f :> head.x) @@ tail.x, at |-> tail.at]

-----------------------------------------------------------------------------
(* No list that is counted in a byte is longer than a byte can say.        *)
RECURSIVE Narrow(_)
Narrow(x) ==
  LET shortLists == {"init", "post", "params"}
      lists      == shortLists \cup {"sub", "expr", "stmts", "else", "events"} \cup
                    (IF x.k = "for" THEN {"cond"} ELSE {})
      nodes      == {"then", "body"} \cup (IF x.k = "for" THEN {} ELSE {"cond"})
  IN  \A f \in DOMAIN x :
        /\ f \in shortLists => Len(x[f]) < Byte
        /\ f \in lists => \A i \in DOMAIN x[f] : Narrow(x[f][i])
        /\ f \in nodes => Narrow(x[f])

NarrowScript ==
  \A part \in {script.globals, script.funcs, script.states} :
    \A i \in DOMAIN part : Narrow(part[i])

(* The file is the script: read by the layout, which has no separators, it *)
(* gives the tree that was written, to the last cell, every name with the  *)
(* string it had.                                                          *)
FileIsTheScript ==
  phase = "done" /\ NarrowScript =>
    ReadFields(FileFields, 2) = [x |-> script, at |-> Len(file) + 1]
=============================================================================
