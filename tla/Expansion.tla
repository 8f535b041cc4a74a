------------------------------ MODULE Expansion -------------------------------
(***************************************************************************)
(* What expand_line makes of a line, against what a reader of the line     *)
(* expects, for any macro table and any lines.                             *)
(***************************************************************************)
EXTENDS Macros

CONSTANTS
  Table,              \* the macros in force
  Lines               \* the lines, sequences of tokens

(* The name of a macro is an identifier.                                   *)
ASSUME ExpansionAssumption ==
  /\ Lines \subseteq Seq(STRING)
  /\ {Quote, Comment} \cap DOMAIN Table = {}
  /\ \A name \in DOMAIN Table : Table[name] \in Macro

VARIABLES line, result

NotYet == [toks |-> <<>>, errs |-> -1]

Init == line \in Lines /\ result = NotYet

Expand ==
  /\ result = NotYet
  /\ result' = ExpandLine(Table, line)
  /\ UNCHANGED line

Spec == Init /\ [][Expand]_<<line, result>>

Done == result # NotYet

-----------------------------------------------------------------------------
(* What the line says, defined without scanning it.  Some of its positions *)
(* are arguments; among the others, a string is whatever lies between an   *)
(* odd quote and the next, and a comment is whatever follows the first     *)
(* comment opener outside a string.                                        *)
InString(i, inside) ==
  Cardinality({j \in 1 .. i - 1 : line[j] = Quote /\ j \notin inside}) % 2 = 1

Commented(i, inside) ==
  \E j \in 1 .. i : line[j] = Comment /\ j \notin inside /\ ~InString(j, inside)

Plain(i, inside) == ~InString(i, inside) /\ ~Commented(i, inside)

(* A macro name with an argument list.                                     *)
Callable ==
  {i \in 1 .. Len(line) - 1 : /\ line[i] \in DOMAIN Table /\ Table[line[i]].func
                              /\ line[i + 1] = "("}

Calls(inside) == {i \in Callable : i \notin inside /\ Plain(i, inside)}

(* An argument: parentheses match, and every comma is between some.        *)
SimpleArg(s) ==
  /\ \A k \in DOMAIN s : ParenDepth(s, 1, k) >= IF s[k] = Comma THEN 1 ELSE 0
  /\ ParenDepth(s, 1, Len(s)) = 0

(* Where the argument list of a callable name is cut: at its opening       *)
(* parenthesis, after each argument but the last at a comma, and at its    *)
(* closing parenthesis.  There is at most one way.                         *)
Arity(i)       == Len(Table[line[i]].params)
Arg(cut, q)    == SubSeq(line, cut[q - 1] + 1, cut[q] - 1)

Cuts(i) ==
  {cut \in [0 .. Arity(i) -> i + 1 .. Len(line)] :
     /\ Arity(i) > 0 /\ cut[0] = i + 1
     /\ \A q \in 1 .. Arity(i) :
          /\ cut[q - 1] < cut[q] /\ SimpleArg(Arg(cut, q))
          /\ IF q = Arity(i) THEN line[cut[q]] = ")" ELSE line[cut[q]] = Comma}

(* The body with every parameter replaced by its argument.                 *)
Filled(i, cut) ==
  LET macro == Table[line[i]]
  IN  FlattenSeq([k \in DOMAIN macro.body |->
        IF \E q \in DOMAIN macro.params : macro.params[q] = macro.body[k]
          THEN Arg(cut, Min({q \in DOMAIN macro.params : macro.params[q] = macro.body[k]}))
          ELSE <<macro.body[k]>>])

(* A macro name becomes its body, unexpanded; strings, comments and all    *)
(* other tokens are left alone.                                            *)
Rewritten(i, inside) ==
  IF Plain(i, inside) /\ line[i] \in DOMAIN Table /\ ~Table[line[i]].func
    THEN Table[line[i]].body ELSE <<line[i]>>

(* When every call outside the arguments of another has as many arguments  *)
(* as its macro has parameters, every one of them is replaced by the body, *)
(* all parameters at once, whatever its arguments hold; what is outside of *)
(* the calls, or all of a line without one, is rewritten token by token    *)
(* (preproc.c:186-260).                                                    *)
CallsSubstitute ==
  Done =>
    \A calls \in SUBSET Callable :
      LET cut    == [i \in calls |-> CHOOSE c \in Cuts(i) : TRUE]
          inside == UNION {i + 1 .. cut[i][Arity(i)] : i \in calls}
      IN  (\A i \in calls : Cuts(i) # {}) /\ calls = Calls(inside) =>
            result = [toks |-> FlattenSeq([i \in DOMAIN line |->
                                 IF i \in calls THEN Filled(i, cut[i])
                                 ELSE IF i \in inside THEN <<>> ELSE Rewritten(i, inside)]),
                      errs |-> 0]
=============================================================================
