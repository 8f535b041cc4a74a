------------------------------- MODULE MCLexer -------------------------------
(***************************************************************************)
(* All texts of up to five pieces, over alphabets for words, numbers,      *)
(* strings, comments, operators and line markers, after a beginning that   *)
(* goes with them.                                                         *)
(***************************************************************************)
EXTENDS Spelling

MCLetters  == {"d", "o", "n", "t", "e", "f", "x", "l", "i"}
MCKeywords == {<<"d", "o">>, <<"f", "o">>}

MCLength == 5

Kind(before, pieces) == [before |-> before, pieces |-> <<<<>>>> \o pieces]
Chars(before, chars) == Kind(before, [i \in DOMAIN chars |-> <<chars[i]>>])

LineMarker == <<"#">> \o LineWord \o <<" ">>

Alphabets == {
  Chars(<<>>, <<"d", "o", "_", "1", " ", "?">>),
  Kind(<<"BOM">>, <<<<"f">>, <<"o">>, <<"@">>, <<".">>, <<"BOM">>, LineMarker>>),
  Chars(<<>>, <<"0", "7", ".", "e", "f", "+">>),
  Chars(<<"0">>, <<"x", "f", "1", "-", ".", "e">>),
  Chars(<<"\"">>, <<"\"", "\\", "n", "d", "\n", "/">>),
  Chars(<<"\"", "\\">>, <<"\"", "\\", "t", "n", " ", "*">>),
  Chars(<<"/">>, <<"/", "*", "\n", "o", "\"", " ">>),
  Chars(<<>>, <<"<", ">", "=", "+", "-", "!">>),
  Chars(<<>>, <<"&", "|", "=", "%", "/", "*">>),
  Kind(<<>>, <<<<"#">>, LineWord, <<" ">>, <<"\n">>, <<"\t">>, <<"d">>>>),
  Kind(<<"\"">>, <<<<"\"">>, <<"\n">>, LineMarker, <<"/", "*">>, <<"*", "/">>, <<"d">>>>),
  Chars(LineMarker \o <<"\"">>, <<"\"", "\n", "/", " ", "d", "1">>),
  Kind(LineMarker \o <<"\"", "/", "\"", "\n">>, <<LineMarker, <<"\"">>, <<"\n">>, <<" ">>, <<"d">>, <<"/">>>>)}

Fillings == {c \in [1 .. MCLength -> 1 .. 7] : \A i \in 2 .. MCLength : c[i] # 1 => c[i - 1] # 1}

MCInputs ==
  {alphabet.before \o FlattenSeq([i \in 1 .. MCLength |-> alphabet.pieces[filling[i]]]) :
     alphabet \in Alphabets, filling \in Fillings}
=============================================================================
