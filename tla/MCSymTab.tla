------------------------------ MODULE MCSymTab -------------------------------
(* Three names of which two collide, three kinds of symbols, and at most   *)
(* MaxScopes scopes open at a time.                                        *)
EXTENDS SymTab

CONSTANTS MaxScopes

MCHash == [n \in Names |-> IF n = "c" THEN 1 ELSE 0]

MCNext == SymNext /\ Len(scopes') <= MaxScopes

MCSpec == SymInit /\ [][MCNext]_scopes
=============================================================================
