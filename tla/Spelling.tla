------------------------------- MODULE Spelling ------------------------------
(***************************************************************************)
(* The lexical structure of the language (DOCUMENTATION.md, section 1) as  *)
(* a relation between texts and kinds of token, without a scanner.  Where  *)
(* the code is more lenient than the documentation says, so is this: 0x    *)
(* without digits and 1e without an exponent are numbers.                  *)
(***************************************************************************)
EXTENDS Lexer

Every(i, j, chars) == \A h \in i .. j - 1 : text[h] \in chars

IsHex(i, j) == j >= i + 2 /\ text[i] = "0" /\ text[i + 1] = "x" /\ Every(i + 2, j, HexDigits)

IsFraction(i, j) == i = j \/ (i < j /\ text[i] = "." /\ Every(i + 1, j, Digits))
IsExponent(i, j) ==
  \/ i = j
  \/ /\ i < j /\ text[i] = "e"
     /\ \/ Every(i + 1, j, Digits)
        \/ i + 1 < j /\ text[i + 1] \in {"+", "-"} /\ Every(i + 2, j, Digits)
IsFloatSuffix(i, j) == i = j \/ (i + 1 = j /\ text[i] = "f")

(* Digits, fraction, exponent and suffix meet at a, b and c.               *)
IsDecimal(i, j) ==
  \E a \in i .. j : \E b \in a .. j : \E c \in b .. j :
    /\ Every(i, a, Digits) /\ IsFraction(a, b) /\ IsExponent(b, c) /\ IsFloatSuffix(c, j)
    /\ \E h \in i .. b - 1 : text[h] \in Digits

(* Every quote inside a literal, and none at its end, has a backslash      *)
(* before it that is not itself escaped.                                   *)
Escaped(i, h) ==
  \E n \in 0 .. h - i - 1 :
    n % 2 = 1 /\ Every(h - n, h, {"\\"}) /\ text[h - n - 1] # "\\"

IsString(i, j) ==
  /\ j >= i + 2 /\ text[i] = Quote /\ text[j - 1] = Quote
  /\ \A h \in i + 1 .. j - 1 : text[h] = Quote => (Escaped(i, h) <=> h # j - 1)

(* What stands in it: an escape that is not known stands for itself.       *)
Escapes == [c \in {"n", "t", "\n"} |-> IF c = "n" THEN <<"\n">> ELSE IF c = "t" THEN <<"\t">> ELSE <<>>]

Meant(i, h) ==
  IF ~Escaped(i, h) THEN (IF text[h] = "\\" THEN <<>> ELSE <<text[h]>>)
  ELSE IF text[h] \in DOMAIN Escapes THEN Escapes[text[h]]
  ELSE IF text[h] \in {Quote, "\\"} THEN <<text[h]>>
  ELSE <<"\\", text[h]>>

ValueOf(i, j) == FlattenSeq([n \in 1 .. j - i - 2 |-> Meant(i, i + n)])

TwoLong ==
  {<<c, "=">> : c \in {"+", "-", "*", "/", "%", "=", "!", "<", ">"}}
    \cup {<<c, c>> : c \in {"+", "-", "&", "|", "<", ">"}}

Spells(k, i, j) ==
  CASE k = "ident"   -> text[i] \in Beginnings /\ Every(i, j, Wordlike) /\ SubSeq(text, i, j - 1) \notin Keywords
    [] k = "keyword" -> SubSeq(text, i, j - 1) \in Keywords
    [] k = "int"     -> Every(i, j, Digits) \/ IsHex(i, j)
    [] k = "float"   -> IsDecimal(i, j) /\ ~Every(i, j, Digits)
    [] k = "string"  -> IsString(i, j)
    [] k = "op"      -> (j = i + 1 /\ text[i] \in Singles) \/ (j = i + 2 /\ SubSeq(text, i, i + 1) \in TwoLong)

Kinds == {"ident", "keyword", "int", "float", "string", "op"}

IsComment(i, j) ==
  \/ /\ j >= i + 2 /\ text[i] = "/" /\ text[i + 1] = "/"
     /\ \A h \in i .. j - 1 : text[h] # "\n"
     /\ j = Len(text) + 1 \/ text[j] = "\n"
  \/ /\ j >= i + 4 /\ text[i] = "/" /\ text[i + 1] = "*"
     /\ text[j - 2] = "*" /\ text[j - 1] = "/"
     /\ \A h \in i + 2 .. j - 3 : ~(text[h] = "*" /\ text[h + 1] = "/")

(* A line of its own that tells the lexer where the text comes from.       *)
IsMarkerLine(i, j) ==
  /\ i < j /\ text[i] = "#" /\ (i = 1 \/ text[i - 1] = "\n")
  /\ \E a \in i + 1 .. j - 5 :
       /\ Every(i + 1, a, Gaps) /\ SubSeq(text, a, a + 3) = LineWord /\ text[a + 4] \in Gaps
  /\ \A h \in i .. j - 2 : text[h] # "\n"
  /\ j = Len(text) + 1 \/ text[j - 1] = "\n"

(* A stretch of text that can be cut into blanks, comments, line markers   *)
(* and what has been reported, which no line marker is.                    *)
Reported(i) == i \in ToSet(errs) /\ \A e \in i + 1 .. Len(text) + 1 : ~IsMarkerLine(i, e)

IsFiller(i, j) ==
  \/ j = i + 1 /\ (text[i] \in Blanks \/ Reported(i) \/ (i = 1 /\ text[1] = "BOM"))
  \/ IsComment(i, j)
  \/ IsMarkerLine(i, j)

FillerEnds(i, j) == {b \in i + 1 .. j : \E a \in i .. b - 1 : IsFiller(a, b)}

IsGap(i, j) ==
  \E cuts \in SUBSET ({i, j} \cup FillerEnds(i, j)) :
    /\ {i, j} \subseteq cuts
    /\ \A a \in cuts \ {j} : \E b \in cuts : IsFiller(a, b)

-----------------------------------------------------------------------------
(* Every token is the longest one that the rest of the text begins with,   *)
(* of the kind and value its characters spell, and nothing but blanks,     *)
(* comments, line markers and what was reported is left between            *)
(* (lexer.c:391-480).                                                      *)
End(n) == IF n = 0 THEN 1 ELSE tokens[n].to

TokensAreTheText ==
  /\ \A n \in DOMAIN tokens : LET token == tokens[n]
       IN  /\ IsGap(End(n - 1), token.from)
           /\ \/ token.from \in ToSet(errs)
              \/ /\ Spells(token.k, token.from, token.to)
                 /\ token.k = "string" => token.value = ValueOf(token.from, token.to)
           /\ \A j \in token.to + 1 .. Len(text) + 1 : \A k \in Kinds : ~Spells(k, token.from, j)
  /\ phase = "done" /\ errs = <<>> => IsGap(End(Len(tokens)), Len(text) + 1)

(* The places of the text that are part of a token.                        *)
Covered == {i \in DOMAIN text : \E n \in DOMAIN tokens : tokens[n].from <= i /\ i < tokens[n].to}

(* The places of a line marker that are not blank, or are within quotes.   *)
(* The markers that the preprocessor writes have two quotes in them, and a *)
(* slash only between these.                                               *)
Quoted(i, h) ==
  \E q \in i .. h - 1 : \E r \in h + 1 .. MarkerEnd(i) - 1 : text[q] = Quote /\ text[r] = Quote

MarkerText(starts) ==
  {h \in DOMAIN text : \E i \in starts :
     i <= h /\ h < MarkerEnd(i) /\ (text[h] \notin Blanks \/ Quoted(i, h))}

WellQuoted(i) ==
  \E q \in i .. MarkerEnd(i) - 1 : \E r \in q + 1 .. MarkerEnd(i) - 1 :
    \A h \in i .. MarkerEnd(i) - 1 :
      /\ text[h] = Quote <=> h \in {q, r}
      /\ text[h] = "/" => q < h /\ h < r

(* The two scanners agree: the estimate is the size of the tokens and of   *)
(* the line markers, which the estimate does not know, though the source   *)
(* (DOCUMENTATION.md:299-304) has none of these.  It does not know escapes *)
(* either: no string has a backslash in it (main.c:142-163).               *)
Comparable ==
  /\ phase = "done" /\ errs = <<>> /\ \A i \in DOMAIN text : text[i] # "\\"
  /\ \A i \in markers : WellQuoted(i)

Mark == IF Char(1) = "BOM" THEN 1 ELSE 0

EstimateIsTokens ==
  Comparable =>
    EstimateBytecodeSize = Cardinality(Covered) + Cardinality(MarkerText(markers)) + Mark
=============================================================================
