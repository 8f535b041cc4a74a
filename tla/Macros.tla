------------------------------- MODULE Macros --------------------------------
(***************************************************************************)
(* The macro table of the preprocessor and what it does to a line of text  *)
(* (preproc.c:86-125, 178-283, 372-413).                                   *)
(*                                                                         *)
(* A line is a sequence of tokens.  An identifier, a number, a run of      *)
(* other characters, a quote, a comment opener, a parenthesis and a comma  *)
(* are one token each; the blanks between them are left out.  A number     *)
(* token is digits only: letters right after them are an identifier of     *)
(* their own, which the code looks up like any other.  A macro             *)
(* table is a function from the names that are defined to their macros:    *)
(* the list of the code holds every name once, so its order never matters. *)
(***************************************************************************)
EXTENDS Integers, SequencesExt

Quote   == "quote"      \* the double quote that opens and closes a string
Comment == "//"
Comma   == ","

(* Number tokens that strtoll reads as something other than zero.          *)
NonZero == {"1", "2"}

Macro == [func : BOOLEAN, params : Seq(STRING), body : Seq(STRING)]

AddMacro(ms, name, macro) ==
  [x \in DOMAIN ms \cup {name} |-> IF x = name THEN macro ELSE ms[x]]

RemoveMacro(ms, name) == [x \in DOMAIN ms \ {name} |-> ms[x]]

IsObjectLike(ms, tok)   == tok \in DOMAIN ms /\ ~ms[tok].func
IsFunctionLike(ms, tok) == tok \in DOMAIN ms /\ ms[tok].func

-----------------------------------------------------------------------------
(* The expression of #if and #elif: a disjunction of conjunctions of       *)
(* atoms, as eval_expr and eval_and read it, an atom being defined(v), a   *)
(* number or a name, possibly negated.  Parentheses are left out.  The     *)
(* empty expression is false.                                              *)
Atom == [negated : BOOLEAN, kind : {"defined", "number", "name"}, v : STRING]
Cond == Seq(Seq(Atom) \ {<<>>})

EvalAtom(ms, a) ==
  LET value == \/ a.kind = "defined" /\ a.v \in DOMAIN ms
               \/ a.kind = "number"  /\ a.v \in NonZero
               \/ /\ a.kind = "name"
                  /\ IsObjectLike(ms, a.v)
                  /\ ms[a.v].body # <<>>
                  /\ ms[a.v].body[1] \in NonZero
  IN  value # a.negated

EvalCond(ms, cond) ==
  \E i \in DOMAIN cond : \A j \in DOMAIN cond[i] : EvalAtom(ms, cond[i][j])

-----------------------------------------------------------------------------
(* expand_line.                                                            *)

(* How many parentheses are open after position k of a call whose opening  *)
(* parenthesis is at position open.                                        *)
ParenDepth(line, open, k) ==
  Cardinality({j \in open .. k : line[j] = "("})
    - Cardinality({j \in open .. k : line[j] = ")"})

(* The q-th smallest of a set of numbers.                                  *)
Nth(S, q) == CHOOSE e \in S : Cardinality({c \in S : c <= e}) = q

(* The parts that the ends cut off, the first of which begins after open.  *)
Parts(line, open, ends) ==
  [q \in 1 .. Cardinality(ends) |->
     SubSeq(line, (IF q = 1 THEN open ELSE Nth(ends, q - 1)) + 1, Nth(ends, q) - 1)]

(* A faulty variant of CallAt: the first closing parenthesis ends the call *)
(* and every comma separates arguments.                                    *)
CallAtFirstCloser(line, open) ==
  LET last == Min({k \in open + 1 .. Len(line) : line[k] = ")"} \cup {Len(line) + 1})
  IN  [args |-> Parts(line, open, {k \in open + 1 .. last - 1 : line[k] = Comma} \cup {last}),
       next |-> IF last > Len(line) THEN last ELSE last + 1]

(* The arguments of the call and the position after it.  Strings are not   *)
(* looked at: a comma or a parenthesis inside one counts.  A call that the *)
(* line does not close loses its last argument and swallows the line.      *)
CallAt(line, open) ==
  LET closers == {k \in open + 1 .. Len(line) : ParenDepth(line, open, k) = 0}
      last    == IF closers = {} THEN Len(line) + 1 ELSE Min(closers)
      commas  == {k \in open + 1 .. last - 1 :
                    line[k] = Comma /\ ParenDepth(line, open, k) = 1}
  IN  [args |-> Parts(line, open, commas \cup (IF closers = {} THEN {} ELSE {last})),
       next |-> IF closers = {} THEN Len(line) + 1 ELSE last + 1]

(* Parameters are replaced all at once; a name that occurs twice in the    *)
(* parameter list stands for the first argument.                           *)
Substitute(macro, args) ==
  FlattenSeq([k \in DOMAIN macro.body |->
    LET qs == {q \in DOMAIN macro.params : macro.params[q] = macro.body[k]}
    IN  IF qs = {} THEN <<macro.body[k]>> ELSE args[Min(qs)]])

(* One pass from left to right, nothing is expanded twice.  The result is  *)
(* the new line and the number of calls with the wrong number of arguments *)
(* (their text is dropped).  Whether the scan is inside a string is        *)
(* forgotten at the end of the line.  A step of the scan is at position i, *)
(* with rest holding what the scan makes of the line from a later position.*)
ExpandFrom(ms, line, i, inStr, rest) ==
  LET Then(toks, later) == [toks |-> toks \o later.toks, errs |-> later.errs]
  IN  IF i > Len(line) THEN [toks |-> <<>>, errs |-> 0]
      ELSE IF inStr THEN Then(<<line[i]>>, rest[i + 1][line[i] # Quote])
      ELSE IF line[i] = Quote THEN Then(<<Quote>>, rest[i + 1][TRUE])
      ELSE IF line[i] = Comment THEN [toks |-> SubSeq(line, i, Len(line)), errs |-> 0]
      ELSE IF IsObjectLike(ms, line[i]) THEN Then(ms[line[i]].body, rest[i + 1][FALSE])
      ELSE IF IsFunctionLike(ms, line[i]) /\ i < Len(line) /\ line[i + 1] = "("
        THEN LET call  == CallAt(line, i + 1)
                 later == rest[call.next][FALSE]
             IN  IF Len(call.args) = Len(ms[line[i]].params)
                   THEN Then(Substitute(ms[line[i]], call.args), later)
                   ELSE [later EXCEPT !.errs = @ + 1]
      ELSE Then(<<line[i]>>, rest[i + 1][FALSE])

ExpandLine(ms, line) ==
  LET scan[i \in 1 .. Len(line) + 1] ==
        [inStr \in BOOLEAN |-> ExpandFrom(ms, line, i, inStr, scan)]
  IN  scan[1][FALSE]
=============================================================================
