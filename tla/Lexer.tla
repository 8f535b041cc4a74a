-------------------------------- MODULE Lexer --------------------------------
(***************************************************************************)
(* The lexer from characters to tokens (lexer.c), and the estimate of the  *)
(* size of a script (main.c), which reads the same text with a scanner of  *)
(* its own.  One step is one call of lexer_next, up to the character that  *)
(* it may report and skip.  Line markers are skipped here; what they do to *)
(* line and file is LineTrack's matter.  Upper case is left out.           *)
(***************************************************************************)
EXTENDS Integers, FiniteSetsExt, SequencesExt

CONSTANTS
  Inputs,             \* the texts, sequences of characters
  Letters,            \* the letters in use, in lower case
  Keywords            \* the keywords, sequences of letters

Quote      == "\""
Digits     == {"0", "1", "2", "3", "4", "5", "6", "7", "8", "9"}
HexDigits  == Digits \cup {"a", "b", "c", "d", "e", "f"}
Blanks     == {" ", "\t", "\r", "\n"}
Beginnings == Letters \cup {"_"}            \* is_ident_start
Wordlike   == Beginnings \cup Digits        \* is_ident_cont

Singles == {"(", ")", "{", "}", "[", "]", ";", ",", "@", ":", ".", "~", "+", "-", "*", "/", "%",
            "&", "|", "^", "!", "=", "<", ">"}

Doubles ==
  {<<"+", "+">>, <<"+", "=">>, <<"-", "-">>, <<"-", "=">>, <<"*", "=">>, <<"/", "=">>, <<"%", "=">>,
   <<"&", "&">>, <<"|", "|">>, <<"!", "=">>, <<"=", "=">>, <<"<", "=">>, <<"<", "<">>,
   <<">", "=">>, <<">", ">">>}

ASSUME LexerAssumption ==
  /\ Inputs \subseteq Seq(STRING)
  /\ \A input \in Inputs : \A i \in DOMAIN input : input[i] # "eof"
  /\ \A c \in Letters : c \notin Digits \cup Blanks \cup Singles \cup {"_", Quote, "\\", "eof"}
  /\ Keywords \subseteq Seq(Letters)

VARIABLES
  text,
  off,                \* Lexer.off, from one
  tokens,             \* [k, from, to, value]: its characters are from .. to - 1
  errs,               \* the places reported
  markers,            \* where the line markers start that have been obeyed
  phase

vars == <<text, off, tokens, errs, markers, phase>>

-----------------------------------------------------------------------------
(* peekc; and the first place from i on with another character, or one     *)
(* that is wanted.                                                         *)
Char(i)          == IF i <= Len(text) THEN text[i] ELSE "eof"
Past(i, chars)   == Min({j \in i .. Len(text) + 1 : Char(j) \notin chars})
Before(i, chars) == Min({j \in i .. Len(text) + 1 : Char(j) \in chars \cup {"eof"}})

Comment(i, second) == Char(i) = "/" /\ Char(i + 1) = second

(* Where the comment that starts at i ends: the places after a closing.    *)
Closings(i) == {j + 2 : j \in {j \in i + 2 .. Len(text) - 1 : Char(j) = "*" /\ Char(j + 1) = "/"}}

(* try_line_marker: a line that begins with #, blanks, the word and one    *)
(* more blank.  It is gone to its end, whatever follows.                   *)
Gaps     == {" ", "\t"}
LineWord == <<"l", "i", "n", "e">>

IsMarker(i) ==
  /\ i = 1 \/ Char(i - 1) = "\n"
  /\ Char(i) = "#"
  /\ LET word == Past(i + 1, Gaps)
     IN  /\ word + 3 <= Len(text) /\ SubSeq(text, word, word + 3) = LineWord
         /\ Char(word + 4) \in Gaps

MarkerEnd(i) == Min({Before(i, {"\n"}), Len(text)}) + 1

(* skip_whitespace_and_comments: one turn of its loop, with rest holding   *)
(* what the later turns come to.                                           *)
SkipFrom(i, rest) ==
  IF IsMarker(i) THEN [rest[MarkerEnd(i)] EXCEPT !.marks = @ \cup {i}]
  ELSE IF Char(i) \in Blanks THEN rest[i + 1]
  ELSE IF Comment(i, "/") THEN rest[Before(i, {"\n"})]
  ELSE IF Comment(i, "*") /\ Closings(i) # {} THEN rest[Min(Closings(i))]
  ELSE IF Comment(i, "*") THEN [at |-> Len(text) + 1, errs |-> <<i>>, marks |-> {}]
  ELSE [at |-> i, errs |-> <<>>, marks |-> {}]

Skip(i) == LET skip[j \in 1 .. Len(text) + 1] == SkipFrom(j, skip) IN skip[i]

Here == Skip(off).at

(* lex_number: hexadecimal, or digits with a fraction, an exponent and a   *)
(* suffix, any of which makes it a float.                                  *)
Number(i) ==
  LET whole    == Past(i, Digits)
      fraction == IF Char(whole) = "." THEN Past(whole + 1, Digits) ELSE whole
      signed   == Char(fraction + 1) \in {"+", "-"}
      exponent == IF Char(fraction) # "e" THEN fraction
                  ELSE Past(fraction + (IF signed THEN 2 ELSE 1), Digits)
      end      == IF Char(exponent) = "f" THEN exponent + 1 ELSE exponent
  IN  IF Char(i) = "0" /\ Char(i + 1) = "x" THEN [k |-> "int", to |-> Past(i + 2, HexDigits)]
      ELSE [k |-> IF end = whole THEN "int" ELSE "float", to |-> end]

(* lex_string: what an escape stands for, and the rest of the literal from *)
(* i on.  The faulty variant drops the backslash of an escape it does not  *)
(* know.                                                                   *)
DecodedWithoutBackslash(c) == IF c = "n" THEN <<"\n">> ELSE IF c = "t" THEN <<"\t">> ELSE <<c>>

Decoded(c) ==
  IF c \in {Quote, "\\"} THEN <<c>>
  ELSE IF c = "n" THEN <<"\n">>
  ELSE IF c = "t" THEN <<"\t">>
  ELSE IF c = "\n" THEN <<>>
  ELSE <<"\\", c>>

StringFrom(i, rest) ==
  LET Then(chars, later) == [later EXCEPT !.value = chars \o @]
  IN  IF Char(i) = Quote THEN [value |-> <<>>, to |-> i + 1, closed |-> TRUE]
      ELSE IF Char(i) = "eof" THEN [value |-> <<>>, to |-> i, closed |-> FALSE]
      ELSE IF Char(i) # "\\" THEN Then(<<Char(i)>>, rest[i + 1])
      ELSE IF Char(i + 1) = "eof" THEN [value |-> <<>>, to |-> i + 1, closed |-> FALSE]
      ELSE Then(Decoded(Char(i + 1)), rest[i + 2])

String(i) == LET string[j \in 1 .. Len(text) + 1] == StringFrom(j, string) IN string[i]

-----------------------------------------------------------------------------
(* The byte order mark is skipped; it counts as one character here.        *)
Init ==
  /\ text \in Inputs
  /\ off = IF Char(1) = "BOM" THEN 2 ELSE 1
  /\ tokens = <<>> /\ errs = <<>> /\ markers = {} /\ phase = "lex"

Token(k, to, value, more) ==
  /\ tokens' = Append(tokens, [k |-> k, from |-> Here, to |-> to, value |-> value])
  /\ off' = to
  /\ errs' = errs \o Skip(off).errs \o more
  /\ markers' = markers \cup Skip(off).marks
  /\ UNCHANGED <<text, phase>>

IsNumber(i) == Char(i) \in Digits \/ (Char(i) = "." /\ Char(i + 1) \in Digits)

LexIdent ==
  /\ phase = "lex" /\ Char(Here) \in Beginnings
  /\ LET to   == Past(Here, Wordlike)
         word == SubSeq(text, Here, to - 1)
     IN  Token(IF word \in Keywords THEN "keyword" ELSE "ident", to, word, <<>>)

LexNumber ==
  /\ phase = "lex" /\ IsNumber(Here)
  /\ LET number == Number(Here)
     IN  Token(number.k, number.to, SubSeq(text, Here, number.to - 1), <<>>)

LexString ==
  /\ phase = "lex" /\ Char(Here) = Quote
  /\ LET string == String(Here + 1)
     IN  Token("string", string.to, string.value, IF string.closed THEN <<>> ELSE <<Here>>)

LexOperator ==
  /\ phase = "lex" /\ Char(Here) \in Singles /\ ~IsNumber(Here)
  /\ LET width == IF <<Char(Here), Char(Here + 1)>> \in Doubles THEN 2 ELSE 1
     IN  Token("op", Here + width, SubSeq(text, Here, Here + width - 1), <<>>)

(* A character that is none of the language, and the question mark, which  *)
(* has a message of its own: reported, and lexer_next called again.        *)
LexStray ==
  /\ phase = "lex"
  /\ Char(Here) \notin Beginnings \cup Digits \cup Singles \cup {Quote, "eof"}
  /\ off' = Here + 1
  /\ errs' = errs \o Skip(off).errs \o <<Here>>
  /\ markers' = markers \cup Skip(off).marks
  /\ UNCHANGED <<text, tokens, phase>>

LexEof ==
  /\ phase = "lex" /\ Char(Here) = "eof"
  /\ phase' = "done"
  /\ off' = Here
  /\ errs' = errs \o Skip(off).errs
  /\ markers' = markers \cup Skip(off).marks
  /\ UNCHANGED <<text, tokens>>

Next == LexIdent \/ LexNumber \/ LexString \/ LexOperator \/ LexStray \/ LexEof

Spec == Init /\ [][Next]_vars

-----------------------------------------------------------------------------
(* estimate_bytecode_size: the characters left without blanks and comments.*)
(* A comment that is not closed is counted from the last character on.  In *)
(* the faulty variant a comment can start inside a string.                 *)
OpensAnywhere(i, inString, second) == Comment(i, second)

Opens(i, inString, second) == ~inString /\ Comment(i, second)

EstimateFrom(i, inString, rest) ==
  IF i > Len(text) THEN 0
  ELSE IF Opens(i, inString, "/") THEN rest[Before(i, {"\n"})][inString]
  ELSE IF Opens(i, inString, "*")
    THEN rest[IF Closings(i) # {} THEN Min(Closings(i)) ELSE Max({i + 2, Len(text)})][inString]
  ELSE (IF inString \/ Char(i) \notin Blanks THEN 1 ELSE 0)
         + rest[i + 1][IF Char(i) = Quote THEN ~inString ELSE inString]

EstimateBytecodeSize ==
  LET estimate[i \in 1 .. Len(text) + 1] ==
        [inString \in BOOLEAN |-> EstimateFrom(i, inString, estimate)]
  IN  estimate[1][FALSE]
=============================================================================
