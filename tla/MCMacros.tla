------------------------------ MODULE MCMacros -------------------------------
(***************************************************************************)
(* expand_line on every line of at most MaxLen tokens.                     *)
(***************************************************************************)
EXTENDS Expansion

CONSTANTS MaxLen, Tokens

Obj(body)          == [func |-> FALSE, params |-> <<>>, body |-> body]
Fun(params, body)  == [func |-> TRUE, params |-> params, body |-> body]

(* An object-like macro whose body names another macro; a function of two  *)
(* parameters whose body uses them in the other order; functions of no and *)
(* of one parameter.                                                       *)
MCTable == [A |-> Obj(<<"B", "1">>),
            B |-> Obj(<<"2">>),
            F |-> Fun(<<"p", "q">>, <<"q", "+", "p", "p">>),
            G |-> Fun(<<>>, <<"1">>),
            H |-> Fun(<<"p">>, <<"A", "p">>)]

MCLines == UNION {[1 .. n -> Tokens] : n \in 0 .. MaxLen}
=============================================================================
