------------------------------ MODULE MCDriver -------------------------------
(* Batches of a few files, of scripts with one kind of fault each or none. *)
EXTENDS Driver

CONSTANTS
  MaxBatch,           \* bound: files on the command line
  Limits              \* values of -fmax-errors, 0 when it is not given

Good == [readable |-> TRUE, ppErrors |-> 0, ppWarnings |-> 0, size |-> "fits",
         forms |-> <<0, 0>>, semErrors |-> 0, semWarnings |-> 0]

(* The last one has more errors than the checker is run with.              *)
Faults ==
  {Good,
   [Good EXCEPT !.readable = FALSE],
   [Good EXCEPT !.ppErrors = 1],
   [Good EXCEPT !.ppWarnings = 1],
   [Good EXCEPT !.size = "near"],
   [Good EXCEPT !.size = "over"],
   [Good EXCEPT !.forms = <<1, 0>>],
   [Good EXCEPT !.semErrors = 1],
   [Good EXCEPT !.semWarnings = 1],
   [Good EXCEPT !.forms = <<2, 3, 1>>, !.semErrors = 1]}

A    == <<"a", "lsl">>
AV   == <<"a", "v2">>
B    == <<"b", "txt">>
AX   == <<"a", "x", "lsl">>
AY   == <<"a", "y", "lsl">>
Bare == <<"a">>
Long == <<"long">>
Out  == <<"out", "txt">>

MCLongPaths == {Long}

(* All files but the first are alike.                                      *)
MCScriptSets ==
  {(A :> s) @@ [path \in {AV, AX, AY, B, Bare, Long, Out} |-> t] : s \in Faults, t \in Faults}

(* Any of three files, and pairs of names that share a place.              *)
MCBatches ==
  UNION {[1 .. n -> {A, AV, B}] : n \in 1 .. MaxBatch}
    \cup {<<A, Bare>>, <<Bare, A>>, <<A, Long>>, <<Long, Out>>, <<AX, AY>>}

(* Checking only; -E; -c to the default place and to a given one; both     *)
(* without the preprocessor, where -E has no effect.                       *)
Plain == [werror |-> FALSE, noPreproc |-> FALSE, noMemoryCheck |-> FALSE,
          dump |-> FALSE, emit |-> FALSE, maxErrors |-> 0, out |-> Default]

MCOptionSets ==
  {[o EXCEPT !.werror = w, !.maxErrors = limit] :
     o \in {Plain,
            [Plain EXCEPT !.dump = TRUE, !.emit = TRUE],
            [Plain EXCEPT !.emit = TRUE],
            [Plain EXCEPT !.emit = TRUE, !.out = <<"x", "lslbc">>],
            [Plain EXCEPT !.noPreproc = TRUE, !.dump = TRUE],
            [Plain EXCEPT !.noPreproc = TRUE, !.noMemoryCheck = TRUE, !.emit = TRUE]},
     w \in BOOLEAN, limit \in Limits}
=============================================================================
