------------------------------ MODULE LexerProofs ------------------------------
(***************************************************************************)
(* The lexer, for any texts, letters and keywords: its tokens are the text *)
(* cut as the definition of a token says, and the estimate of the size of  *)
(* a script counts their characters and those of the line markers.         *)
(***************************************************************************)
EXTENDS Spelling, Facts, FiniteSetTheorems

-----------------------------------------------------------------------------
(* Characters.                                                             *)
LEMMA LetterFacts ==
  \A c \in Beginnings : /\ c \notin Digits /\ c \notin Blanks /\ c \notin Singles
                        /\ c # Quote /\ c # "\\" /\ c # "eof"
<1>1. \A c \in Letters : /\ c \notin Digits /\ c \notin Blanks /\ c \notin Singles
                         /\ c # Quote /\ c # "\\" /\ c # "eof"
  BY LexerAssumption, Zenon
<1>2. /\ "_" \notin Digits /\ "_" \notin Blanks /\ "_" \notin Singles
      /\ "_" # Quote /\ "_" # "\\" /\ "_" # "eof"
  BY Zenon DEF Digits, Blanks, Singles, Quote
<1> QED BY <1>1, <1>2, Zenon DEF Beginnings

LEMMA DigitFacts ==
  /\ \A c \in Digits : /\ c \notin Blanks /\ c \notin Singles
                       /\ c # Quote /\ c # "\\" /\ c # "eof" /\ c # "." /\ c # "/"
                       /\ c # "e" /\ c # "f" /\ c # "x" /\ c # "+" /\ c # "-"
  /\ Digits \subseteq HexDigits /\ "0" \in Digits
<1>1. ASSUME NEW c \in Digits
      PROVE  /\ c # Quote /\ c # "\\" /\ c # "eof" /\ c # "." /\ c # "/"
             /\ c # "e" /\ c # "f" /\ c # "x" /\ c # "+" /\ c # "-"
             /\ c \notin Blanks
  BY Zenon DEF Digits, Quote, Blanks
<1>2. ASSUME NEW c \in Digits PROVE c \notin Singles
  BY Zenon DEF Digits, Singles
<1>3. Digits \subseteq HexDigits /\ "0" \in Digits
  BY Zenon DEF Digits, HexDigits
<1> QED BY <1>1, <1>2, <1>3, Zenon

LEMMA HexFacts ==
  \A c \in HexDigits : /\ c \notin Blanks /\ c # Quote /\ c # "eof" /\ c # "/"
                       /\ c # "." /\ c # "x" /\ c # "+" /\ c # "-"
  BY Zenon DEF HexDigits, Digits, Blanks, Quote

LEMMA SingleFacts ==
  /\ \A c \in Singles : c \notin Blanks /\ c # Quote /\ c # "\\" /\ c # "eof"
  /\ "/" \in Singles /\ "." \in Singles
<1>1. ASSUME NEW c \in Singles PROVE c \notin Blanks /\ c # Quote /\ c # "\\" /\ c # "eof"
  BY Zenon DEF Singles, Blanks, Quote
<1>2. "/" \in Singles /\ "." \in Singles
  BY Zenon DEF Singles
<1> QED BY <1>1, <1>2, Zenon

LEMMA BlankFacts ==
  /\ \A c \in Blanks : c # "eof" /\ c # "/" /\ c # Quote /\ c # "\\"
  /\ "\n" \in Blanks
  BY Zenon DEF Blanks, Quote

LEMMA QuoteFacts ==
  Quote # "eof" /\ Quote # "\\" /\ Quote # "/" /\ Quote # "*" /\ Quote # "0" /\ Quote # "."
  /\ Quote # "n" /\ Quote # "t" /\ Quote # "\n"
  BY Zenon DEF Quote

LEMMA DoubleFacts ==
  /\ Doubles = TwoLong
  /\ \A d \in Doubles : \E a \in Singles, b \in Singles : d = <<a, b>> /\ a # "." /\ b # "/"
<1>1. \A d \in Doubles : d \in TwoLong
  BY Zenon DEF Doubles, TwoLong
<1>2. \A d \in TwoLong : d \in Doubles
  BY Zenon DEF Doubles, TwoLong
<1>3. ASSUME NEW d \in Doubles
      PROVE  \E a \in Singles, b \in Singles : d = <<a, b>> /\ a # "." /\ b # "/"
  BY Zenon DEF Doubles, Singles
<1> QED BY <1>1, <1>2, <1>3, Zenon

-----------------------------------------------------------------------------
(* Places of the text.                                                     *)
TextOK == text \in Seq(STRING) /\ \A i \in DOMAIN text : text[i] # "eof"

LEMMA CharIs ==
  ASSUME TextOK, NEW i \in Nat \ {0}
  PROVE  /\ i <= Len(text) => Char(i) = text[i] /\ Char(i) # "eof"
         /\ ~(i <= Len(text)) => Char(i) = "eof"
         /\ Char(i) # "eof" => i \in 1 .. Len(text) /\ Char(i) = text[i]
         /\ Char(i) = "eof" /\ i \in 1 .. Len(text) + 1 => i = Len(text) + 1
<1>1. i <= Len(text) => Char(i) = text[i] /\ Char(i) # "eof"
  BY DEF TextOK, Char
<1>2. ~(i <= Len(text)) => Char(i) = "eof"
  BY DEF Char
<1>3. Len(text) \in Nat
  BY DEF TextOK
<1> QED BY <1>1, <1>2, <1>3

LEMMA LeastOf ==
  ASSUME NEW S, S \subseteq Nat, S # {}
  PROVE  Min(S) \in S /\ \A j \in S : Min(S) <= j
<1>1. PICK m \in S : \A j \in S : m <= j
  BY LeastExists
<1> QED BY <1>1 DEF Min

LEMMA PastIs ==
  ASSUME TextOK, NEW i \in 1 .. Len(text) + 1, NEW chars, "eof" \notin chars
  PROVE  /\ Past(i, chars) \in i .. Len(text) + 1
         /\ Every(i, Past(i, chars), chars)
         /\ Char(Past(i, chars)) \notin chars
<1> DEFINE S == {j \in i .. Len(text) + 1 : Char(j) \notin chars}
<1>1. Len(text) \in Nat
  BY DEF TextOK
<1>2. Len(text) + 1 \in S
  <2>1. Char(Len(text) + 1) = "eof"
    BY <1>1, CharIs
  <2>2. Len(text) + 1 \in i .. Len(text) + 1
    BY <1>1
  <2> QED BY <2>1, <2>2
<1>3. S \subseteq Nat
  BY <1>1
<1>4. PICK p : p = Past(i, chars)
  OBVIOUS
<1>5. p \in S /\ \A j \in S : p <= j
  <2>1. p = Min(S)
    BY <1>4 DEF Past
  <2> HIDE DEF S
  <2> QED BY <1>2, <1>3, <2>1, LeastOf
<1>6. ASSUME NEW h \in i .. p - 1 PROVE text[h] \in chars
  <2>1. h \in i .. Len(text) + 1 /\ ~(p <= h) /\ h \in Nat \ {0} /\ h <= Len(text)
    BY <1>1, <1>5
  <2>2. Char(h) \in chars
    BY <1>5, <2>1
  <2> QED BY <2>1, <2>2, CharIs
<1> QED BY <1>4, <1>5, <1>6 DEF Every

LEMMA BeforeIs ==
  ASSUME TextOK, NEW i \in 1 .. Len(text) + 1, NEW chars
  PROVE  /\ Before(i, chars) \in i .. Len(text) + 1
         /\ \A h \in i .. Before(i, chars) - 1 : text[h] \notin chars
         /\ Before(i, chars) # Len(text) + 1 => text[Before(i, chars)] \in chars
<1> DEFINE S == {j \in i .. Len(text) + 1 : Char(j) \in chars \cup {"eof"}}
<1>1. Len(text) \in Nat
  BY DEF TextOK
<1>2. Len(text) + 1 \in S
  <2>1. Char(Len(text) + 1) = "eof"
    BY <1>1, CharIs
  <2>2. Len(text) + 1 \in i .. Len(text) + 1
    BY <1>1
  <2> QED BY <2>1, <2>2
<1>3. S \subseteq Nat
  BY <1>1
<1>4. PICK p : p = Before(i, chars)
  OBVIOUS
<1>5. p \in S /\ \A j \in S : p <= j
  <2>1. p = Min(S)
    BY <1>4 DEF Before
  <2> HIDE DEF S
  <2> QED BY <1>2, <1>3, <2>1, LeastOf
<1>6. ASSUME NEW h \in i .. p - 1 PROVE text[h] \notin chars
  <2>1. h \in i .. Len(text) + 1 /\ ~(p <= h) /\ h \in Nat \ {0} /\ h <= Len(text)
    BY <1>1, <1>5
  <2>2. Char(h) \notin chars
    BY <1>5, <2>1
  <2> QED BY <2>1, <2>2, CharIs
<1>7. p # Len(text) + 1 => text[p] \in chars
  <2>1. p \in Nat \ {0} /\ (p # Len(text) + 1 => p <= Len(text))
    BY <1>1, <1>5
  <2> QED BY <1>5, <2>1, CharIs
<1> QED BY <1>4, <1>5, <1>6, <1>7

(* A comment of either kind, and where it ends.                            *)
LEMMA CommentIs ==
  ASSUME TextOK, NEW i \in 1 .. Len(text) + 1, NEW c, c # "eof", Comment(i, c)
  PROVE  i \in 1 .. Len(text) - 1 /\ text[i] = "/" /\ text[i + 1] = c
<1>1. Char(i) = "/" /\ Char(i + 1) = c /\ "/" # "eof" /\ Len(text) \in Nat
  BY DEF Comment, TextOK
<1>2. i \in Nat \ {0} /\ i + 1 \in Nat \ {0}
  OBVIOUS
<1>3. i \in 1 .. Len(text) /\ text[i] = "/"
  BY <1>1, <1>2, CharIs
<1>4. PICK j : j = i + 1
  OBVIOUS
<1>5. j \in 1 .. Len(text) /\ text[j] = c
  BY <1>1, <1>2, <1>4, CharIs
<1> QED BY <1>1, <1>3, <1>4, <1>5

LEMMA LineComment ==
  ASSUME TextOK, NEW i \in 1 .. Len(text) + 1, Comment(i, "/")
  PROVE  Before(i, {"\n"}) \in i + 2 .. Len(text) + 1 /\ IsComment(i, Before(i, {"\n"}))
<1>1. i \in 1 .. Len(text) - 1 /\ text[i] = "/" /\ text[i + 1] = "/" /\ Len(text) \in Nat
  BY CommentIs DEF TextOK
<1>2. PICK p : p = Before(i, {"\n"})
  OBVIOUS
<1>3. p \in i .. Len(text) + 1 /\ (\A h \in i .. p - 1 : text[h] # "\n")
      /\ (p # Len(text) + 1 => text[p] = "\n")
  BY <1>2, BeforeIs
<1>4. p # i /\ p # i + 1
  BY <1>1, <1>3
<1>5. p >= i + 2
  BY <1>1, <1>3, <1>4
<1>6. IsComment(i, p)
  BY <1>1, <1>3, <1>5 DEF IsComment
<1> QED BY <1>1, <1>2, <1>3, <1>5, <1>6

LEMMA BlockComment ==
  ASSUME TextOK, NEW i \in 1 .. Len(text) + 1, Comment(i, "*"), Closings(i) # {}
  PROVE  Min(Closings(i)) \in i + 4 .. Len(text) + 1 /\ IsComment(i, Min(Closings(i)))
<1>1. i \in 1 .. Len(text) - 1 /\ text[i] = "/" /\ text[i + 1] = "*" /\ Len(text) \in Nat
  BY CommentIs DEF TextOK
<1>2. ASSUME NEW j \in i + 2 .. Len(text) - 1
      PROVE  Char(j) = text[j] /\ Char(j + 1) = text[j + 1]
  <2>1. j \in Nat \ {0} /\ j <= Len(text) /\ j + 1 \in Nat \ {0} /\ j + 1 <= Len(text)
    BY <1>1
  <2> QED BY <2>1, CharIs
<1>3. PICK p : p = Min(Closings(i))
  OBVIOUS
<1>4. p \in Closings(i) /\ \A j \in Closings(i) : p <= j
  <2>1. Closings(i) \subseteq Nat
    BY <1>1 DEF Closings
  <2> QED BY <1>3, <2>1, LeastOf
<1>5. PICK q \in i + 2 .. Len(text) - 1 : p = q + 2 /\ Char(q) = "*" /\ Char(q + 1) = "/"
  BY <1>4 DEF Closings
<1>6. text[q] = "*" /\ text[q + 1] = "/"
  BY <1>2, <1>5
<1>7. q = p - 2 /\ q + 1 = p - 1
  BY <1>1, <1>5
<1>8. ASSUME NEW h \in i + 2 .. p - 3 PROVE ~(text[h] = "*" /\ text[h + 1] = "/")
  <2>1. h \in i + 2 .. Len(text) - 1 /\ ~(p <= h + 2)
    BY <1>1, <1>5
  <2>2. h + 2 \notin Closings(i)
    BY <1>4, <2>1
  <2>3. ~(Char(h) = "*" /\ Char(h + 1) = "/")
    BY <2>1, <2>2 DEF Closings
  <2> QED BY <1>2, <2>1, <2>3
<1>9. p \in i + 4 .. Len(text) + 1 /\ p >= i + 4
  BY <1>1, <1>5
<1>10. IsComment(i, p)
  BY <1>1, <1>6, <1>7, <1>8, <1>9 DEF IsComment
<1> QED BY <1>3, <1>9, <1>10

(* The characters of a stretch of text.                                    *)
LEMMA Piece ==
  ASSUME TextOK, NEW i \in 1 .. Len(text), NEW j \in i + 1 .. Len(text) + 1
  PROVE  /\ SubSeq(text, i, j - 1) \in Seq(STRING)
         /\ Len(SubSeq(text, i, j - 1)) = j - i
         /\ \A h \in i .. j - 1 : SubSeq(text, i, j - 1)[h - i + 1] = text[h] /\ h - i + 1 \in 1 .. j - i
<1>1. text \in Seq(STRING) /\ Len(text) \in Nat
  BY DEF TextOK
<1>2. PICK m : m = j - 1
  OBVIOUS
<1>3. m \in i .. Len(text) /\ i \in Int /\ m \in Int /\ m - i + 1 = j - i
  BY <1>1, <1>2
<1>4. \A h \in i .. m : h \in 1 .. Len(text)
  BY <1>1, <1>3
<1>5. SubSeq(text, i, m) = [h \in 1 .. m - i + 1 |-> text[i + h - 1]]
  BY <1>1, <1>3, <1>4
<1>6. PICK s : s = SubSeq(text, i, m)
  OBVIOUS
<1>7. s \in Seq(STRING) /\ Len(s) = m - i + 1
  BY <1>1, <1>3, <1>4, <1>6, SubSeqProperties
<1>8. ASSUME NEW h \in i .. m PROVE s[h - i + 1] = text[h] /\ h - i + 1 \in 1 .. j - i
  <2>1. h - i + 1 \in 1 .. m - i + 1 /\ i + (h - i + 1) - 1 = h
    BY <1>3
  <2> QED BY <1>3, <1>5, <1>6, <2>1
<1> QED BY <1>2, <1>3, <1>6, <1>7, <1>8

(* A line marker, and where it ends.                                       *)
LEMMA MarkerEndIs ==
  ASSUME TextOK, NEW i \in 1 .. Len(text)
  PROVE  /\ MarkerEnd(i) \in i + 1 .. Len(text) + 1
         /\ \A h \in i .. MarkerEnd(i) - 2 : text[h] # "\n"
         /\ MarkerEnd(i) = Len(text) + 1 \/ text[MarkerEnd(i) - 1] = "\n"
<1>0. Len(text) \in Nat /\ i \in 1 .. Len(text) + 1
  BY DEF TextOK
<1>1. PICK b : b = Before(i, {"\n"})
  OBVIOUS
<1>2. b \in i .. Len(text) + 1 /\ (\A h \in i .. b - 1 : text[h] # "\n")
      /\ (b # Len(text) + 1 => text[b] = "\n")
  BY <1>0, <1>1, BeforeIs
<1>3. PICK l \in Nat : l = Len(text)
  BY <1>0
<1>4. Min({b, l}) \in {b, l} /\ Min({b, l}) <= b /\ Min({b, l}) <= l
  <2>1. {b, l} \subseteq Nat /\ {b, l} # {}
    BY <1>0, <1>2, <1>3
  <2> QED BY <2>1, LeastOf
<1>5. PICK m : m = Min({b, l})
  OBVIOUS
<1>6. MarkerEnd(i) = m + 1
  BY <1>1, <1>3, <1>5 DEF MarkerEnd
<1>7. m \in i .. l /\ m <= b
  BY <1>2, <1>3, <1>4, <1>5
<1>8. m + 1 \in i + 1 .. l + 1 /\ (m + 1) - 2 = m - 1 /\ (m + 1) - 1 = m
  BY <1>3, <1>7
<1>9. \A h \in i .. m - 1 : text[h] # "\n"
  BY <1>2, <1>3, <1>7
<1>10. m + 1 = l + 1 \/ text[m] = "\n"
  BY <1>2, <1>3, <1>4, <1>5
<1> QED BY <1>3, <1>6, <1>8, <1>9, <1>10

LEMMA MarkerIs ==
  ASSUME TextOK, NEW i \in 1 .. Len(text) + 1, IsMarker(i)
  PROVE  /\ i \in 1 .. Len(text) /\ text[i] = "#" /\ Char(i) = "#"
         /\ MarkerEnd(i) \in i + 1 .. Len(text) + 1
         /\ IsMarkerLine(i, MarkerEnd(i))
<1>0. Len(text) \in Nat /\ i \in Nat \ {0} /\ "#" # "eof" /\ "eof" \notin Gaps
  <2>1. Len(text) \in Nat
    BY DEF TextOK
  <2>2. "#" # "eof" /\ "eof" \notin Gaps
    BY Zenon DEF Gaps
  <2> QED BY <2>1, <2>2
<1>1. Char(i) = "#" /\ (i = 1 \/ Char(i - 1) = "\n")
  BY DEF IsMarker
<1>2. i \in 1 .. Len(text) /\ text[i] = "#"
  BY <1>0, <1>1, CharIs
<1>3. PICK s : s = i + 1
  OBVIOUS
<1>4. PICK a : a = Past(s, Gaps)
  OBVIOUS
<1>5. a + 3 <= Len(text) /\ SubSeq(text, a, a + 3) = LineWord /\ Char(a + 4) \in Gaps
  BY <1>3, <1>4, Zenon DEF IsMarker
<1>6. a \in s .. Len(text) + 1 /\ Every(s, a, Gaps)
  <2>1. s \in 1 .. Len(text) + 1
    BY <1>0, <1>2, <1>3
  <2> QED BY <1>0, <1>4, <2>1, PastIs
<1>7. PICK t : t = a + 4
  OBVIOUS
<1>8. t \in 1 .. Len(text) /\ text[t] \in Gaps
  <2>1. t \in Nat \ {0}
    BY <1>0, <1>3, <1>6, <1>7
  <2>2. Char(t) # "eof"
    BY <1>0, <1>5, <1>7
  <2> QED BY <1>5, <1>7, <2>1, <2>2, CharIs
<1>9. PICK m : m = MarkerEnd(i)
  OBVIOUS
<1>10. /\ m \in i + 1 .. Len(text) + 1 /\ (\A h \in i .. m - 2 : text[h] # "\n")
       /\ (m = Len(text) + 1 \/ text[m - 1] = "\n")
  BY <1>2, <1>9, MarkerEndIs
<1>11. ASSUME NEW h \in i .. t PROVE text[h] # "\n"
  <2>1. "\n" \notin Gaps /\ "#" # "\n"
    BY Zenon DEF Gaps
  <2>2. \A n \in 1 .. 4 : LineWord[n] # "\n"
    <3>1. LineWord[1] # "\n" /\ LineWord[2] # "\n" /\ LineWord[3] # "\n" /\ LineWord[4] # "\n"
      BY DEF LineWord
    <3> QED BY <3>1
  <2>3. h = i \/ h \in s .. a - 1 \/ h \in a .. a + 3 \/ h = t
    BY <1>0, <1>3, <1>6, <1>7
  <2>4. CASE h \in a .. a + 3
    <3>1. h - a + 1 \in 1 .. 4
      BY <1>0, <1>6, <2>4
    <3>2. LineWord[h - a + 1] = text[h]
      <4>1. PICK b : b = a + 4
        OBVIOUS
      <4>2. a \in 1 .. Len(text) /\ b \in a + 1 .. Len(text) + 1 /\ h \in a .. b - 1 /\ a + 3 = b - 1
        BY <1>0, <1>3, <1>5, <1>6, <2>4, <4>1
      <4> QED BY <1>5, <4>2, Piece
    <3> QED BY <2>2, <3>1, <3>2
  <2>5. CASE h \in s .. a - 1
    BY <1>6, <2>1, <2>5 DEF Every
  <2> QED BY <1>2, <1>8, <2>1, <2>3, <2>4, <2>5
<1>12. m > t
  <2>1. m = Len(text) + 1 \/ m - 1 \notin i .. t
    BY <1>10, <1>11
  <2>2. Len(text) + 1 > t /\ t \in Nat /\ m \in Nat /\ m - 1 >= i
    BY <1>0, <1>8, <1>10
  <2> QED BY <1>0, <2>1, <2>2
<1>13. a \in i + 1 .. m - 5 /\ Every(i + 1, a, Gaps) /\ text[a + 4] \in Gaps
  BY <1>0, <1>3, <1>6, <1>7, <1>8, <1>10, <1>12
<1>14. i = 1 \/ text[i - 1] = "\n"
  <2> SUFFICES ASSUME i # 1 PROVE text[i - 1] = "\n"
    OBVIOUS
  <2>1. i - 1 \in Nat \ {0} /\ i - 1 <= Len(text)
    BY <1>0, <1>2
  <2> QED BY <1>1, <2>1, CharIs
<1>15. i < m
  BY <1>0, <1>10
<1>16. IsMarkerLine(i, m)
  BY <1>2, <1>5, <1>10, <1>13, <1>14, <1>15 DEF IsMarkerLine
<1> QED BY <1>1, <1>2, <1>9, <1>10, <1>16

(* Nothing else is a line marker.                                          *)
LEMMA OnlyMarkers ==
  ASSUME TextOK, NEW i \in 1 .. Len(text), ~IsMarker(i), NEW j \in i + 1 .. Len(text) + 1
  PROVE  ~IsMarkerLine(i, j)
<1> SUFFICES ASSUME IsMarkerLine(i, j) PROVE FALSE
  OBVIOUS
<1>0. Len(text) \in Nat /\ i \in Nat \ {0} /\ j \in Nat /\ "eof" \notin Gaps
  <2>1. Len(text) \in Nat
    BY DEF TextOK
  <2>2. "eof" \notin Gaps
    BY Zenon DEF Gaps
  <2> QED BY <2>1, <2>2
<1>1. text[i] = "#" /\ (i = 1 \/ text[i - 1] = "\n")
  BY DEF IsMarkerLine
<1>2. PICK a \in i + 1 .. j - 5 :
         Every(i + 1, a, Gaps) /\ SubSeq(text, a, a + 3) = LineWord /\ text[a + 4] \in Gaps
  BY DEF IsMarkerLine
<1>3. PICK s : s = i + 1
  OBVIOUS
<1>4. PICK p : p = Past(s, Gaps)
  OBVIOUS
<1>5. p \in s .. Len(text) + 1 /\ Every(s, p, Gaps) /\ Char(p) \notin Gaps
  <2>1. s \in 1 .. Len(text) + 1
    BY <1>0, <1>3
  <2> QED BY <1>0, <1>4, <2>1, PastIs
<1>6. a \in Nat /\ a >= s /\ a + 4 <= Len(text) /\ s \in Nat \ {0}
  BY <1>0, <1>2, <1>3
<1>7. text[a] \notin Gaps
  <2>1. PICK b : b = a + 4
    OBVIOUS
  <2>2. SubSeq(text, a, a + 3)[1] = text[a]
    <3>1. a \in 1 .. Len(text) /\ b \in a + 1 .. Len(text) + 1 /\ a \in a .. b - 1 /\ a + 3 = b - 1
          /\ a - a + 1 = 1
      BY <1>0, <1>3, <1>6, <2>1
    <3> QED BY <3>1, Piece
  <2>3. LineWord[1] = "l"
    BY DEF LineWord
  <2>4. "l" \notin Gaps
    BY Zenon DEF Gaps
  <2> QED BY <1>2, <2>2, <2>3, <2>4
<1>8. p = a
  <2>1. ~(p < a)
    <3> SUFFICES ASSUME p < a PROVE FALSE
      OBVIOUS
    <3>1. p \in s .. a - 1 /\ p \in Nat \ {0} /\ p <= Len(text)
      BY <1>0, <1>5, <1>6
    <3>2. text[p] \in Gaps
      BY <1>2, <1>3, <3>1 DEF Every
    <3>3. Char(p) = text[p]
      BY <3>1, CharIs
    <3> QED BY <1>5, <3>2, <3>3
  <2>2. ~(a < p)
    <3> SUFFICES ASSUME a < p PROVE FALSE
      OBVIOUS
    <3>1. a \in s .. p - 1
      BY <1>0, <1>5, <1>6
    <3> QED BY <1>5, <1>7, <3>1 DEF Every
  <2> QED BY <1>0, <1>5, <1>6, <2>1, <2>2
<1>9. Char(i) = "#"
  BY <1>0, <1>1, CharIs
<1>10. i = 1 \/ Char(i - 1) = "\n"
  <2> SUFFICES ASSUME i # 1 PROVE Char(i - 1) = "\n"
    OBVIOUS
  <2>1. i - 1 \in Nat \ {0} /\ i - 1 <= Len(text)
    BY <1>0
  <2> QED BY <1>1, <2>1, CharIs
<1>11. Char(p + 4) \in Gaps
  <2>1. PICK t : t = a + 4
    OBVIOUS
  <2>2. t \in Nat \ {0} /\ t <= Len(text) /\ text[t] \in Gaps
    BY <1>2, <1>6, <2>1
  <2>3. Char(t) \in Gaps
    BY <2>2, CharIs
  <2> QED BY <1>8, <2>1, <2>3
<1>12. p + 3 <= Len(text) /\ SubSeq(text, p, p + 3) = LineWord
  BY <1>0, <1>2, <1>6, <1>8
<1>13. IsMarker(i)
  BY <1>3, <1>4, <1>9, <1>10, <1>11, <1>12, Zenon DEF IsMarker
<1> QED BY <1>13

-----------------------------------------------------------------------------
(* What is between the tokens.                                             *)
LEMMA GapEmpty ==
  ASSUME NEW i \in Int
  PROVE  IsGap(i, i)
<1>1. {i} \in SUBSET ({i, i} \cup FillerEnds(i, i)) /\ {i, i} \subseteq {i} /\ {i} \ {i} = {}
  OBVIOUS
<1> QED BY <1>1 DEF IsGap

LEMMA GapFiller ==
  ASSUME NEW i \in Int, NEW j \in Int, i < j, IsFiller(i, j)
  PROVE  IsGap(i, j)
<1>1. {i, j} \in SUBSET ({i, j} \cup FillerEnds(i, j)) /\ {i, j} \subseteq {i, j}
      /\ \A a \in {i, j} \ {j} : a = i /\ j \in {i, j}
  OBVIOUS
<1> QED BY <1>1, Zenon DEF IsGap

LEMMA FillerLength ==
  ASSUME NEW a \in Int, NEW b \in Int, IsFiller(a, b)
  PROVE  a < b
<1>1. b = a + 1 \/ b >= a + 2 \/ b >= a + 4 \/ a < b
  BY DEF IsFiller, IsComment, IsMarkerLine
<1> QED BY <1>1

LEMMA GapJoin ==
  ASSUME NEW i \in Int, NEW m \in Int, NEW j \in Int, i <= m, m <= j, IsGap(i, m), IsGap(m, j)
  PROVE  IsGap(i, j)
<1>1. PICK P \in SUBSET ({i, m} \cup FillerEnds(i, m)) :
         {i, m} \subseteq P /\ \A a \in P \ {m} : \E b \in P : IsFiller(a, b)
  BY Zenon DEF IsGap
<1>2. PICK Q \in SUBSET ({m, j} \cup FillerEnds(m, j)) :
         {m, j} \subseteq Q /\ \A a \in Q \ {j} : \E b \in Q : IsFiller(a, b)
  BY Zenon DEF IsGap
<1> DEFINE R == (P \cup Q) \cap ({i, j} \cup FillerEnds(i, j))
<1>3. R \in SUBSET ({i, j} \cup FillerEnds(i, j)) /\ {i, j} \subseteq R
  BY <1>1, <1>2
<1>4. /\ \A b \in P : b \in Int /\ i <= b /\ b <= j
      /\ \A b \in Q : b \in Int /\ i <= b /\ b <= j
  <2>1. \A b \in FillerEnds(i, m) : b \in Int /\ i <= b /\ b <= j
    BY DEF FillerEnds
  <2>2. \A b \in FillerEnds(m, j) : b \in Int /\ i <= b /\ b <= j
    BY DEF FillerEnds
  <2> QED BY <1>1, <1>2, <2>1, <2>2
<1>5. ASSUME NEW a \in P \cup Q, NEW b \in P \cup Q, IsFiller(a, b) PROVE b \in R
  <2>1. a \in Int /\ b \in Int /\ i <= a /\ b <= j
    BY <1>4
  <2>2. a < b
    BY <1>5, <2>1, FillerLength
  <2>3. b \in i + 1 .. j /\ a \in i .. b - 1
    BY <2>1, <2>2
  <2>4. b \in FillerEnds(i, j)
    BY <1>5, <2>3 DEF FillerEnds
  <2> QED BY <2>4
<1>6. ASSUME NEW a \in R \ {j} PROVE \E b \in R : IsFiller(a, b)
  <2>1. CASE a \in P /\ a # m
    <3>1. PICK b \in P : IsFiller(a, b)
      BY <1>1, <2>1
    <3> QED BY <1>5, <2>1, <3>1
  <2>2. CASE a \in Q
    <3>1. PICK b \in Q : IsFiller(a, b)
      BY <1>2, <1>6, <2>2
    <3> QED BY <1>5, <2>2, <3>1
  <2>3. CASE a = m
    <3>1. PICK b \in Q : IsFiller(a, b)
      BY <1>2, <1>6, <2>3
    <3>2. a \in Q
      BY <1>2, <2>3
    <3> QED BY <1>5, <3>1, <3>2
  <2> QED BY <2>1, <2>2, <2>3
<1> HIDE DEF R
<1> QED BY <1>3, <1>6, Zenon DEF IsGap

LEMMA GapKept ==
  ASSUME NEW i, NEW j, IsGap(i, j), text' = text, ToSet(errs) \subseteq ToSet(errs')
  PROVE  IsGap(i, j)'
<1>0. \A a, b : IsMarkerLine(a, b)' <=> IsMarkerLine(a, b)
  BY DEF IsMarkerLine, Every
<1>1. ASSUME NEW a, NEW b, IsFiller(a, b) PROVE IsFiller(a, b)'
  <2>1. CASE IsComment(a, b)
    BY <2>1 DEF IsFiller, IsComment
  <2>2. CASE IsMarkerLine(a, b)
    BY <1>0, <2>2 DEF IsFiller
  <2>3. CASE ~IsComment(a, b) /\ ~IsMarkerLine(a, b)
    <3>1. Reported(a) => Reported(a)'
      BY <1>0 DEF Reported
    <3> QED BY <1>1, <2>3, <3>1 DEF IsFiller
  <2> QED BY <2>1, <2>2, <2>3
<1>2. PICK P \in SUBSET ({i, j} \cup FillerEnds(i, j)) :
         {i, j} \subseteq P /\ \A a \in P \ {j} : \E b \in P : IsFiller(a, b)
  BY Zenon DEF IsGap
<1>3. \A a \in P \ {j} : \E b \in P : IsFiller(a, b)'
  BY <1>1, <1>2
<1>4. FillerEnds(i, j) \subseteq FillerEnds(i, j)'
  BY <1>1 DEF FillerEnds
<1>5. P \in SUBSET ({i, j} \cup FillerEnds(i, j)')
  BY <1>2, <1>4
<1> QED BY <1>2, <1>3, <1>5, Zenon DEF IsGap

-----------------------------------------------------------------------------
(* The loop of skip_whitespace_and_comments has the values that its        *)
(* definition asks for.                                                    *)
Skipped == [at : 1 .. Len(text) + 1, errs : Seq(Nat), marks : SUBSET (1 .. Len(text))]

LEMMA SkipTyped ==
  ASSUME TextOK, NEW i \in 1 .. Len(text) + 1, NEW rest,
         \A j \in i + 1 .. Len(text) + 1 : rest[j] \in Skipped
  PROVE  SkipFrom(i, rest) \in Skipped
<1>1. Len(text) \in Nat
  BY DEF TextOK
<1>6. CASE IsMarker(i)
  <2>1. PICK m \in i + 1 .. Len(text) + 1 : m = MarkerEnd(i)
    BY <1>6, MarkerIs
  <2>2. i \in 1 .. Len(text)
    BY <1>6, MarkerIs
  <2>3. rest[m] \in Skipped
    OBVIOUS
  <2>4. SkipFrom(i, rest) = [rest[m] EXCEPT !.marks = @ \cup {i}]
    BY <1>6, <2>1, Zenon DEF SkipFrom
  <2> QED BY <2>2, <2>3, <2>4 DEF Skipped
<1>2. CASE ~IsMarker(i) /\ Char(i) \in Blanks
  <2>1. i \in 1 .. Len(text)
    BY <1>1, <1>2, CharIs, BlankFacts
  <2>2. i + 1 \in i + 1 .. Len(text) + 1
    BY <1>1, <2>1
  <2> QED BY <1>2, <2>2 DEF SkipFrom
<1>3. CASE ~IsMarker(i) /\ Char(i) \notin Blanks /\ Comment(i, "/")
  <2>1. Before(i, {"\n"}) \in i + 1 .. Len(text) + 1
    BY <1>3, LineComment
  <2> QED BY <1>3, <2>1 DEF SkipFrom
<1>4. CASE ~IsMarker(i) /\ Char(i) \notin Blanks /\ ~Comment(i, "/") /\ Comment(i, "*") /\ Closings(i) # {}
  <2>1. Min(Closings(i)) \in i + 1 .. Len(text) + 1
    BY <1>4, BlockComment
  <2> QED BY <1>4, <2>1 DEF SkipFrom
<1>5. CASE ~IsMarker(i) /\ Char(i) \notin Blanks /\ ~Comment(i, "/") /\ ~(Comment(i, "*") /\ Closings(i) # {})
  <2>1. Len(text) + 1 \in 1 .. Len(text) + 1 /\ <<i>> \in Seq(Nat) /\ <<>> \in Seq(Nat)
    BY <1>1
  <2> QED BY <1>5, <2>1 DEF SkipFrom, Skipped
<1> QED BY <1>2, <1>3, <1>4, <1>5, <1>6

LEMMA SkipLocal ==
  ASSUME TextOK, NEW i \in 1 .. Len(text) + 1, NEW f, NEW g,
         \A j \in i + 1 .. Len(text) + 1 : f[j] = g[j]
  PROVE  SkipFrom(i, f) = SkipFrom(i, g)
<1>1. Len(text) \in Nat
  BY DEF TextOK
<1>2. Char(i) \in Blanks => f[i + 1] = g[i + 1]
  <2> SUFFICES ASSUME Char(i) \in Blanks PROVE f[i + 1] = g[i + 1]
    OBVIOUS
  <2>1. i \in 1 .. Len(text)
    BY <1>1, CharIs, BlankFacts
  <2>2. i + 1 \in i + 1 .. Len(text) + 1
    BY <1>1, <2>1
  <2> QED BY <2>2
<1>3. Comment(i, "/") => f[Before(i, {"\n"})] = g[Before(i, {"\n"})]
  <2> SUFFICES ASSUME Comment(i, "/") PROVE f[Before(i, {"\n"})] = g[Before(i, {"\n"})]
    OBVIOUS
  <2>1. Before(i, {"\n"}) \in i + 1 .. Len(text) + 1
    BY LineComment
  <2> QED BY <2>1
<1>4. Comment(i, "*") /\ Closings(i) # {} => f[Min(Closings(i))] = g[Min(Closings(i))]
  <2> SUFFICES ASSUME Comment(i, "*"), Closings(i) # {} PROVE f[Min(Closings(i))] = g[Min(Closings(i))]
    OBVIOUS
  <2>1. Min(Closings(i)) \in i + 1 .. Len(text) + 1
    BY BlockComment
  <2> QED BY <2>1
<1>5. IsMarker(i) => f[MarkerEnd(i)] = g[MarkerEnd(i)]
  <2> SUFFICES ASSUME IsMarker(i) PROVE f[MarkerEnd(i)] = g[MarkerEnd(i)]
    OBVIOUS
  <2>1. MarkerEnd(i) \in i + 1 .. Len(text) + 1
    BY MarkerIs
  <2> QED BY <2>1
<1> QED BY <1>2, <1>3, <1>4, <1>5, Zenon DEF SkipFrom

LEMMA SkipSolved ==
  ASSUME TextOK
  PROVE  \E scan \in [1 .. Len(text) + 1 -> Skipped] :
           \A i \in 1 .. Len(text) + 1 : scan[i] = SkipFrom(i, scan)
<1> DEFINE n == Len(text) + 1
           F == [1 .. n -> Skipped]
           step == [i \in 1 .. n |-> [f \in F |-> SkipFrom(i, f)]]
<1>1. n \in Nat \ {0}
  BY DEF TextOK
<1>2. Skipped # {}
  <2>1. 1 \in 1 .. Len(text) + 1 /\ <<>> \in Seq(Nat)
    BY <1>1
  <2>2. [at |-> 1, errs |-> <<>>, marks |-> {}] \in Skipped
    BY <2>1 DEF Skipped
  <2> QED BY <2>2
<1>3. step \in [1 .. n -> [F -> Skipped]]
  <2>1. ASSUME NEW i \in 1 .. n, NEW f \in F PROVE SkipFrom(i, f) \in Skipped
    <3>1. \A j \in i + 1 .. Len(text) + 1 : f[j] \in Skipped
      BY <1>1
    <3> QED BY <3>1, SkipTyped
  <2> HIDE DEF F, n
  <2> QED BY <2>1
<1>4. ASSUME NEW i \in 1 .. n, NEW g \in F, NEW h \in F, \A j \in i + 1 .. n : g[j] = h[j]
      PROVE  step[i][g] = step[i][h]
  <2>1. SkipFrom(i, g) = SkipFrom(i, h)
    BY <1>4, SkipLocal
  <2> HIDE DEF F, n
  <2> QED BY <2>1
<1>5. Backward(n, Skipped, step)
  <2> HIDE DEF step, n
  <2> QED BY <1>3, <1>4 DEF Backward
<1>6. Solvable(n, Skipped, step)
  <2> HIDE DEF step, n
  <2> QED BY <1>1, <1>2, <1>5, Recursion
<1>7. PICK scan \in F : \A i \in 1 .. n : scan[i] = step[i][scan]
  <2> HIDE DEF step, n
  <2> QED BY <1>6 DEF Solvable
<1>8. \A i \in 1 .. n : scan[i] = SkipFrom(i, scan)
  <2> HIDE DEF F, n
  <2> QED BY <1>7
<1> QED BY <1>8

LEMMA SkipExists ==
  ASSUME TextOK
  PROVE  \A i \in 1 .. Len(text) + 1 : 
           /\ Skip(i) \in Skipped
           /\ \A rest : (\A j \in 1 .. Len(text) + 1 : rest[j] = Skip(j)) => Skip(i) = SkipFrom(i, rest)
<1> DEFINE n == Len(text) + 1
           G(f) == [i \in 1 .. n |-> SkipFrom(i, f)]
           rec == CHOOSE f : f = G(f)
<1>0. n \in Nat \ {0}
  BY DEF TextOK
<1>1. PICK scan \in [1 .. n -> Skipped] : \A i \in 1 .. n : scan[i] = SkipFrom(i, scan)
  BY SkipSolved
<1>2. rec = G(rec)
  <2>1. scan = G(scan)
    <3> HIDE DEF n
    <3> QED BY <1>1
  <2> HIDE DEF G
  <2> QED BY <2>1, Zenon
<1>3. \A i : Skip(i) = rec[i]
  BY Zenon DEF Skip
<1> HIDE DEF rec
<1>4. \A i \in 1 .. n : rec[i] = SkipFrom(i, rec)
  <2> HIDE DEF n
  <2>1. \A i \in 1 .. n : G(rec)[i] = SkipFrom(i, rec)
    OBVIOUS
  <2> HIDE DEF G
  <2> QED BY <1>2, <2>1
<1>5. \A i \in 1 .. n : rec[i] \in Skipped
  <2> DEFINE S == {k \in 1 .. n : rec[k] \in Skipped}
  <2>1. ASSUME NEW k \in 1 .. n, \A i \in k + 1 .. n : i \in S
        PROVE  k \in S
    <3>1. SkipFrom(k, rec) \in Skipped
      BY <2>1, SkipTyped
    <3> HIDE DEF n
    <3> QED BY <1>4, <3>1
  <2> HIDE DEF S
  <2>2. \A k \in 1 .. n : k \in S
    BY <1>0, <2>1, FromAbove
  <2> QED BY <2>2 DEF S
<1>6. ASSUME NEW i \in 1 .. n, NEW rest, \A j \in 1 .. n : rest[j] = Skip(j)
      PROVE  Skip(i) = SkipFrom(i, rest)
  <2>1. \A j \in i + 1 .. n : rest[j] = rec[j]
    BY <1>0, <1>3, <1>6
  <2>2. SkipFrom(i, rest) = SkipFrom(i, rec)
    BY <2>1, SkipLocal
  <2> HIDE DEF n
  <2> QED BY <1>3, <1>4, <2>2
<1> QED BY <1>3, <1>5, <1>6

(* What is skipped are blanks, comments and line markers, up to something  *)
(* else.                                                                   *)
Settled(i, s) ==
  /\ s.at \in i .. Len(text) + 1
  /\ \A m \in s.marks : i <= m /\ m < s.at
  /\ \/ /\ s.errs = <<>> /\ IsGap(i, s.at)
        /\ Char(s.at) \notin Blanks /\ ~Comment(s.at, "/") /\ ~Comment(s.at, "*") /\ ~IsMarker(s.at)
     \/ s.errs # <<>> /\ s.at = Len(text) + 1

LEMMA SettledLater ==
  ASSUME NEW i \in Nat, NEW m \in Nat, i < m, IsFiller(i, m), NEW s, Settled(m, s), Len(text) \in Nat,
         s.marks \subseteq Nat
  PROVE  Settled(i, s)
<1>1. s.at \in m .. Len(text) + 1
  BY DEF Settled
<1>2. s.at \in i .. Len(text) + 1 /\ i <= m /\ m <= s.at /\ s.at \in Int
  BY <1>1
<1>3. IsGap(i, m)
  BY GapFiller
<1>4. IsGap(m, s.at) => IsGap(i, s.at)
  BY <1>2, <1>3, GapJoin
<1>5. \A h \in s.marks : m <= h /\ h < s.at
  BY DEF Settled
<1>6. \A h \in s.marks : i <= h
  BY <1>2, <1>5
<1> QED BY <1>2, <1>4, <1>5, <1>6 DEF Settled

LEMMA SkipGap ==
  ASSUME TextOK, NEW i \in 1 .. Len(text) + 1
  PROVE  Settled(i, Skip(i)) /\ Skip(i).errs \in Seq(Nat) /\ Skip(i).marks \subseteq 1 .. Len(text)
<1> DEFINE n == Len(text) + 1
           rest == [j \in 1 .. n |-> Skip(j)]
           S == {k \in 1 .. n : Settled(k, Skip(k))}
<1>0. n \in Nat \ {0} /\ Len(text) \in Nat
  BY DEF TextOK
<1>1. \A j \in 1 .. n : rest[j] = Skip(j)
  OBVIOUS
<1> HIDE DEF rest
<1>2. \A j \in 1 .. n : Skip(j) = SkipFrom(j, rest)
  BY <1>1, SkipExists
<1>3. ASSUME NEW k \in 1 .. n, \A j \in k + 1 .. n : Settled(j, Skip(j))
      PROVE  Settled(k, Skip(k))
  <2>0. k \in Nat
    BY <1>0
  <2>1. ASSUME NEW m \in k + 1 .. n, IsFiller(k, m), Skip(k) = rest[m]
        PROVE  Settled(k, Skip(k))
    <3>1. m \in Nat /\ k < m /\ m \in 1 .. n
      BY <1>0
    <3>2. Settled(m, Skip(k))
      BY <1>1, <1>3, <2>1, <3>1
    <3>3. Skip(k).marks \subseteq Nat
      BY <1>0, SkipExists DEF Skipped
    <3> QED BY <1>0, <2>0, <2>1, <3>1, <3>2, <3>3, SettledLater
  <2>7. CASE IsMarker(k)
    <3>1. PICK m : m = MarkerEnd(k)
      OBVIOUS
    <3>2. m \in k + 1 .. n /\ IsMarkerLine(k, m) /\ k \in 1 .. Len(text)
      BY <1>0, <2>7, <3>1, MarkerIs
    <3>3. m \in Nat /\ k < m /\ m \in 1 .. n /\ IsFiller(k, m)
      BY <1>0, <3>2 DEF IsFiller
    <3>4. PICK s : s = Skip(m)
      OBVIOUS
    <3>5. Settled(m, s) /\ s \in Skipped
      BY <1>3, <3>2, <3>3, <3>4, SkipExists
    <3>6. s.marks \subseteq Nat
      BY <3>5 DEF Skipped
    <3>7. Settled(k, s)
      BY <1>0, <2>0, <3>3, <3>5, <3>6, SettledLater
    <3>8. Skip(k) = [s EXCEPT !.marks = @ \cup {k}]
      BY <1>1, <1>2, <2>7, <3>1, <3>3, <3>4, Zenon DEF SkipFrom
    <3>9. Skip(k).at = s.at /\ Skip(k).errs = s.errs /\ Skip(k).marks = s.marks \cup {k}
      BY <3>5, <3>8 DEF Skipped
    <3>10. k < s.at /\ k <= k
      BY <1>0, <2>0, <3>3, <3>5 DEF Settled
    <3> QED BY <3>7, <3>9, <3>10 DEF Settled
  <2>2. CASE ~IsMarker(k) /\ Char(k) \in Blanks
    <3>1. k \in 1 .. Len(text) /\ text[k] \in Blanks
      BY <1>0, <2>2, CharIs, BlankFacts
    <3>2. PICK m : m = k + 1
      OBVIOUS
    <3>3. m \in k + 1 .. n
      BY <1>0, <3>1, <3>2
    <3>4. IsFiller(k, m)
      BY <3>1, <3>2 DEF IsFiller
    <3>5. Skip(k) = rest[m]
      BY <1>2, <2>2, <3>2 DEF SkipFrom
    <3> QED BY <2>1, <3>3, <3>4, <3>5
  <2>3. CASE ~IsMarker(k) /\ Char(k) \notin Blanks /\ Comment(k, "/")
    <3>1. PICK m : m = Before(k, {"\n"})
      OBVIOUS
    <3>2. m \in k + 1 .. n /\ IsComment(k, m)
      BY <1>0, <2>3, <3>1, LineComment
    <3>3. Skip(k) = rest[m]
      BY <1>2, <2>3, <3>1 DEF SkipFrom
    <3> QED BY <2>1, <3>2, <3>3 DEF IsFiller
  <2>4. CASE ~IsMarker(k) /\ Char(k) \notin Blanks /\ ~Comment(k, "/") /\ Comment(k, "*") /\ Closings(k) # {}
    <3>1. PICK m : m = Min(Closings(k))
      OBVIOUS
    <3>2. m \in k + 1 .. n /\ IsComment(k, m)
      BY <1>0, <2>4, <3>1, BlockComment
    <3>3. Skip(k) = rest[m]
      BY <1>2, <2>4, <3>1 DEF SkipFrom
    <3> QED BY <2>1, <3>2, <3>3 DEF IsFiller
  <2>5. CASE ~IsMarker(k) /\ Char(k) \notin Blanks /\ ~Comment(k, "/") /\ Comment(k, "*") /\ Closings(k) = {}
    <3>1. Skip(k) = [at |-> Len(text) + 1, errs |-> <<k>>, marks |-> {}]
      BY <1>2, <2>5 DEF SkipFrom
    <3>2. <<k>> # <<>> /\ Len(text) + 1 \in k .. Len(text) + 1
      BY <1>0
    <3> QED BY <3>1, <3>2 DEF Settled
  <2>6. CASE ~IsMarker(k) /\ Char(k) \notin Blanks /\ ~Comment(k, "/") /\ ~Comment(k, "*")
    <3>1. Skip(k) = [at |-> k, errs |-> <<>>, marks |-> {}]
      BY <1>2, <2>6 DEF SkipFrom
    <3>2. IsGap(k, k) /\ k \in k .. Len(text) + 1
      BY <1>0, GapEmpty
    <3> QED BY <2>6, <3>1, <3>2 DEF Settled
  <2> QED BY <2>2, <2>3, <2>4, <2>5, <2>6, <2>7
<1>4. \A k \in 1 .. n : (\A j \in k + 1 .. n : j \in S) => k \in S
  BY <1>3
<1>5. \A k \in 1 .. n : k \in S
  <2> HIDE DEF S, n
  <2> QED BY <1>0, <1>4, FromAbove
<1>6. Skip(i) \in Skipped
  BY SkipExists
<1> QED BY <1>5, <1>6 DEF Skipped

-----------------------------------------------------------------------------
(* What the first characters say of a stretch of text.                     *)
LEMMA SpellsIs ==
  ASSUME NEW i, NEW j
  PROVE  /\ Spells("ident", i, j) <=>
              text[i] \in Beginnings /\ Every(i, j, Wordlike) /\ SubSeq(text, i, j - 1) \notin Keywords
         /\ Spells("keyword", i, j) <=> SubSeq(text, i, j - 1) \in Keywords
         /\ Spells("int", i, j) <=> Every(i, j, Digits) \/ IsHex(i, j)
         /\ Spells("float", i, j) <=> IsDecimal(i, j) /\ ~Every(i, j, Digits)
         /\ Spells("string", i, j) <=> IsString(i, j)
         /\ Spells("op", i, j) <=>
              (j = i + 1 /\ text[i] \in Singles) \/ (j = i + 2 /\ SubSeq(text, i, i + 1) \in TwoLong)
<1>1. Spells("ident", i, j) <=>
        text[i] \in Beginnings /\ Every(i, j, Wordlike) /\ SubSeq(text, i, j - 1) \notin Keywords
  BY DEF Spells
<1>2. Spells("keyword", i, j) <=> SubSeq(text, i, j - 1) \in Keywords
  BY DEF Spells
<1>3. Spells("int", i, j) <=> Every(i, j, Digits) \/ IsHex(i, j)
  BY DEF Spells
<1>4. Spells("float", i, j) <=> IsDecimal(i, j) /\ ~Every(i, j, Digits)
  BY DEF Spells
<1>5. Spells("string", i, j) <=> IsString(i, j)
  BY DEF Spells
<1>6. Spells("op", i, j) <=>
        (j = i + 1 /\ text[i] \in Singles) \/ (j = i + 2 /\ SubSeq(text, i, i + 1) \in TwoLong)
  BY DEF Spells
<1> QED BY <1>1, <1>2, <1>3, <1>4, <1>5, <1>6

LEMMA KeywordPiece ==
  ASSUME TextOK, NEW i \in 1 .. Len(text), NEW j \in i + 1 .. Len(text) + 1,
         SubSeq(text, i, j - 1) \in Keywords
  PROVE  Every(i, j, Letters)
<1>1. PICK s : s = SubSeq(text, i, j - 1)
  OBVIOUS
<1>2. s \in Seq(Letters) /\ Len(s) = j - i
  <2>1. Keywords \subseteq Seq(Letters)
    BY LexerAssumption, Zenon
  <2> QED BY <1>1, <2>1, Piece
<1>3. \A h \in i .. j - 1 : text[h] = s[h - i + 1] /\ h - i + 1 \in 1 .. Len(s)
  BY <1>1, <1>2, Piece
<1>4. \A h \in 1 .. Len(s) : s[h] \in Letters
  BY <1>2
<1>5. ASSUME NEW h \in i .. j - 1 PROVE text[h] \in Letters
  <2>1. PICK m : m = h - i + 1
    OBVIOUS
  <2>2. text[h] = s[m] /\ m \in 1 .. Len(s)
    BY <1>3, <2>1
  <2> QED BY <1>4, <2>2
<1> QED BY <1>5 DEF Every

StartsNumber(i) == text[i] \in Digits \/ (text[i] = "." /\ i + 1 <= Len(text) /\ text[i + 1] \in Digits)

LEMMA DecimalStart ==
  ASSUME TextOK, NEW i \in 1 .. Len(text), NEW j \in i + 1 .. Len(text) + 1, IsDecimal(i, j)
  PROVE  StartsNumber(i)
<1>0. Len(text) \in Nat
  BY DEF TextOK
<1>1. PICK a \in i .. j, b \in i .. j :
        /\ a <= b /\ Every(i, a, Digits) /\ IsFraction(a, b)
        /\ \E h \in i .. b - 1 : text[h] \in Digits
  BY <1>0 DEF IsDecimal
<1>2. CASE a # i
  <2>1. i \in i .. a - 1
    BY <1>0, <1>1, <1>2
  <2> QED BY <1>1, <2>1 DEF Every, StartsNumber
<1>3. CASE a = i
  <2>1. PICK h \in i .. b - 1 : text[h] \in Digits
    BY <1>1
  <2>2. i < b /\ text[i] = "." /\ Every(i + 1, b, Digits)
    BY <1>0, <1>1, <1>3, <2>1 DEF IsFraction
  <2>3. "." \notin Digits
    BY DigitFacts
  <2>4. h # i
    BY <2>1, <2>2, <2>3
  <2>5. i + 1 \in i + 1 .. b - 1 /\ i + 1 <= Len(text)
    BY <1>0, <1>1, <2>1, <2>4
  <2> QED BY <2>2, <2>5 DEF Every, StartsNumber
<1> QED BY <1>2, <1>3

LEMMA FirstCharacter ==
  ASSUME TextOK, NEW i \in 1 .. Len(text), NEW j \in i + 1 .. Len(text) + 1
  PROVE  /\ Spells("ident", i, j) => text[i] \in Beginnings
         /\ Spells("keyword", i, j) => text[i] \in Beginnings
         /\ Spells("int", i, j) => StartsNumber(i)
         /\ Spells("float", i, j) => StartsNumber(i)
         /\ Spells("string", i, j) => text[i] = Quote
         /\ Spells("op", i, j) => text[i] \in Singles /\ (j # i + 1 => text[i] # ".")
<1>0. Len(text) \in Nat /\ i \in Int /\ i \in i .. j - 1
  <2>1. Len(text) \in Nat
    BY DEF TextOK
  <2> QED BY <2>1
<1>1. Spells("ident", i, j) => text[i] \in Beginnings
  BY SpellsIs
<1>2. Spells("keyword", i, j) => text[i] \in Beginnings
  <2> SUFFICES ASSUME Spells("keyword", i, j) PROVE text[i] \in Beginnings
    OBVIOUS
  <2>1. Every(i, j, Letters)
    BY SpellsIs, KeywordPiece
  <2> QED BY <1>0, <2>1 DEF Every, Beginnings
<1>3. Spells("int", i, j) => StartsNumber(i)
  <2>1. Every(i, j, Digits) => text[i] \in Digits
    BY <1>0 DEF Every
  <2>2. IsHex(i, j) => text[i] \in Digits
    BY DigitFacts DEF IsHex
  <2> QED BY <2>1, <2>2, SpellsIs DEF StartsNumber
<1>4. Spells("float", i, j) => StartsNumber(i)
  BY SpellsIs, DecimalStart
<1>5. Spells("string", i, j) => text[i] = Quote
  BY SpellsIs DEF IsString
<1>6. Spells("op", i, j) => text[i] \in Singles /\ (j # i + 1 => text[i] # ".")
  <2> SUFFICES ASSUME j = i + 2, SubSeq(text, i, i + 1) \in TwoLong
               PROVE  text[i] \in Singles /\ text[i] # "."
    <3>1. i + 1 # i + 2
      BY <1>0
    <3> QED BY SpellsIs, <3>1
  <2>1. PICK x \in Singles, y \in Singles : SubSeq(text, i, i + 1) = <<x, y>> /\ x # "."
    BY DoubleFacts
  <2>2. SubSeq(text, i, j - 1)[i - i + 1] = text[i]
    BY <1>0, Piece
  <2>3. j - 1 = i + 1 /\ i - i + 1 = 1
    BY <1>0
  <2>4. text[i] = x
    <3>1. SubSeq(text, i, j - 1) = <<x, y>> /\ <<x, y>>[1] = x
      BY <2>1, <2>3
    <3> QED BY <2>2, <2>3, <3>1
  <2> QED BY <2>1, <2>4
<1> QED BY <1>1, <1>2, <1>3, <1>4, <1>5, <1>6

-----------------------------------------------------------------------------
(* A string: a backslash escapes what follows it unless it is escaped      *)
(* itself.                                                                 *)
Run(i, h, n) == n \in 0 .. h - i - 1 /\ Every(h - n, h, {"\\"}) /\ text[h - n - 1] # "\\"

LEMMA RunExists ==
  ASSUME NEW i \in Nat, NEW h \in Nat, i < h, text[i] # "\\"
  PROVE  \E n \in Nat : Run(i, h, n)
<1> DEFINE S == {n \in 0 .. h - i - 1 : text[h - n - 1] # "\\"}
<1>1. h - i - 1 \in S /\ S \subseteq Nat
  <2>1. h - i - 1 \in 0 .. h - i - 1 /\ h - (h - i - 1) - 1 = i
    OBVIOUS
  <2> QED BY <2>1
<1>2. PICK n \in S : \A m \in S : n <= m
  <2> HIDE DEF S
  <2> QED BY <1>1, LeastExists
<1>3. n \in 0 .. h - i - 1 /\ text[h - n - 1] # "\\"
  BY <1>2
<1>4. ASSUME NEW g \in h - n .. h - 1 PROVE text[g] = "\\"
  <2>1. PICK m : m = h - g - 1
    OBVIOUS
  <2>2. m \in 0 .. h - i - 1 /\ ~(n <= m) /\ h - m - 1 = g
    BY <1>3, <2>1
  <2>3. m \notin S
    BY <1>2, <2>2
  <2> QED BY <2>2, <2>3
<1>5. Every(h - n, h, {"\\"})
  BY <1>4 DEF Every
<1> QED BY <1>3, <1>5 DEF Run

LEMMA RunUnique ==
  ASSUME NEW i \in Nat, NEW h \in Nat, NEW n, NEW m, Run(i, h, n), Run(i, h, m)
  PROVE  n = m
<1>1. n \in 0 .. h - i - 1 /\ m \in 0 .. h - i - 1
  BY DEF Run
<1>2. n < m => h - n - 1 \in h - m .. h - 1
  BY <1>1
<1>3. m < n => h - m - 1 \in h - n .. h - 1
  BY <1>1
<1>4. ~(n < m) /\ ~(m < n)
  BY <1>2, <1>3 DEF Run, Every
<1> QED BY <1>1, <1>4

LEMMA EscapedRun ==
  ASSUME NEW i \in Nat, NEW h \in Nat, NEW n, Run(i, h, n)
  PROVE  Escaped(i, h) <=> n % 2 = 1
<1>1. Escaped(i, h) <=> \E m : Run(i, h, m) /\ m % 2 = 1
  BY DEF Escaped, Run
<1>2. \A m : Run(i, h, m) => m = n
  BY RunUnique
<1> QED BY <1>1, <1>2

LEMMA EscapedFirst ==
  ASSUME NEW i \in Nat
  PROVE  ~Escaped(i, i + 1)
<1>1. 0 .. i + 1 - i - 1 = {0} /\ 0 % 2 = 0
  OBVIOUS
<1> QED BY <1>1 DEF Escaped

LEMMA EscapedStep ==
  ASSUME NEW i \in Nat, NEW h \in Nat, i < h, text[i] # "\\"
  PROVE  Escaped(i, h + 1) <=> text[h] = "\\" /\ ~Escaped(i, h)
<1>1. PICK n \in Nat : Run(i, h, n)
  BY RunExists
<1>2. PICK g : g = h + 1
  OBVIOUS
<1>3. g \in Nat /\ g - 0 - 1 = h /\ g - 1 = h
  BY <1>2
<1>4. CASE text[h] # "\\"
  <2>1. g - 0 .. g - 1 = {} /\ 0 \in 0 .. g - i - 1
    BY <1>2
  <2>2. Run(i, g, 0)
    BY <1>3, <1>4, <2>1 DEF Run, Every
  <2>3. 0 % 2 = 0
    OBVIOUS
  <2>4. Escaped(i, g) <=> 0 % 2 = 1
    BY <1>3, <2>2, EscapedRun
  <2> QED BY <1>2, <1>4, <2>3, <2>4
<1>5. CASE text[h] = "\\"
  <2>0. n \in 0 .. h - i - 1 /\ Every(h - n, h, {"\\"}) /\ text[h - n - 1] # "\\"
    BY <1>1 DEF Run
  <2>1. PICK m : m = n + 1
    OBVIOUS
  <2>2. m \in 0 .. g - i - 1 /\ g - m = h - n /\ g - m - 1 = h - n - 1
    BY <1>2, <2>0, <2>1
  <2>3. ASSUME NEW f \in h - n .. g - 1 PROVE text[f] \in {"\\"}
    <3>1. f = h \/ f \in h - n .. h - 1
      BY <1>3, <2>0
    <3> QED BY <1>5, <2>0, <3>1 DEF Every
  <2>4. Run(i, g, m)
    BY <2>0, <2>2, <2>3 DEF Run, Every
  <2>5. Escaped(i, g) <=> m % 2 = 1
    BY <1>3, <2>4, EscapedRun
  <2>6. Escaped(i, h) <=> n % 2 = 1
    BY <1>1, EscapedRun
  <2>7. m % 2 = 1 <=> ~(n % 2 = 1)
    BY <2>1
  <2> QED BY <1>2, <1>5, <2>5, <2>6, <2>7
<1> QED BY <1>4, <1>5

(* The loop of lex_string has the values that its definition asks for.     *)
Written == STRING \cup {"\n", "\t", "\\"}
Literal == [value : Seq(Written), to : Nat, closed : BOOLEAN]

LEMMA DecodedTyped ==
  ASSUME NEW c \in STRING
  PROVE  Decoded(c) \in Seq(Written) /\ <<c>> \in Seq(Written)
<1>1. c \in Written /\ "\n" \in Written /\ "\t" \in Written /\ "\\" \in Written
  BY DEF Written
<1> HIDE DEF Written
<1>2. /\ <<c>> \in Seq(Written) /\ <<"\n">> \in Seq(Written) /\ <<"\t">> \in Seq(Written)
      /\ <<>> \in Seq(Written) /\ <<"\\", c>> \in Seq(Written)
  BY <1>1
<1> QED BY <1>2, Zenon DEF Decoded

LEMMA StringTyped ==
  ASSUME TextOK, NEW i \in 1 .. Len(text) + 1, NEW rest,
         \A j \in i + 1 .. Len(text) + 1 : rest[j] \in Literal
  PROVE  StringFrom(i, rest) \in Literal
<1>0. Len(text) \in Nat /\ i \in Nat /\ i + 1 \in Nat /\ <<>> \in Seq(Written)
  BY DEF TextOK
<1>1. ASSUME NEW chars \in Seq(Written), NEW later \in Literal
      PROVE  [later EXCEPT !.value = chars \o @] \in Literal
  <2>1. chars \o later.value \in Seq(Written)
    BY DEF Literal
  <2> QED BY <2>1 DEF Literal
<1>2. CASE Char(i) = Quote
  BY <1>0, <1>2, Zenon DEF StringFrom, Literal
<1>3. CASE Char(i) # Quote /\ Char(i) = "eof"
  <2>1. StringFrom(i, rest) = [value |-> <<>>, to |-> i, closed |-> FALSE]
    BY <1>3, Zenon DEF StringFrom
  <2> QED BY <1>0, <2>1 DEF Literal
<1>4. CASE Char(i) # Quote /\ Char(i) # "eof" /\ Char(i) # "\\"
  <2>1. Char(i) \in STRING /\ i + 1 \in i + 1 .. Len(text) + 1
    BY <1>0, <1>4, CharIs DEF TextOK
  <2>2. <<Char(i)>> \in Seq(Written) /\ rest[i + 1] \in Literal
    BY <2>1, DecodedTyped
  <2>3. StringFrom(i, rest) = [rest[i + 1] EXCEPT !.value = <<Char(i)>> \o @]
    BY <1>4, Zenon DEF StringFrom
  <2> QED BY <1>1, <2>2, <2>3
<1>5. CASE Char(i) # Quote /\ Char(i) # "eof" /\ Char(i) = "\\" /\ Char(i + 1) = "eof"
  <2>1. StringFrom(i, rest) = [value |-> <<>>, to |-> i + 1, closed |-> FALSE]
    BY <1>5, Zenon DEF StringFrom
  <2> QED BY <1>0, <2>1 DEF Literal
<1>6. CASE Char(i) # Quote /\ Char(i) # "eof" /\ Char(i) = "\\" /\ Char(i + 1) # "eof"
  <2>0. PICK m : m = i + 1
    OBVIOUS
  <2>1. Char(m) \in STRING /\ i + 2 \in i + 1 .. Len(text) + 1
    BY <1>0, <1>6, <2>0, CharIs DEF TextOK
  <2>2. Decoded(Char(m)) \in Seq(Written) /\ rest[i + 2] \in Literal
    BY <2>1, DecodedTyped
  <2>3. StringFrom(i, rest) = [rest[i + 2] EXCEPT !.value = Decoded(Char(m)) \o @]
    BY <1>6, <2>0, Zenon DEF StringFrom
  <2> QED BY <1>1, <2>2, <2>3
<1> QED BY <1>2, <1>3, <1>4, <1>5, <1>6

LEMMA StringLocal ==
  ASSUME TextOK, NEW i \in 1 .. Len(text) + 1, NEW f, NEW g,
         \A j \in i + 1 .. Len(text) + 1 : f[j] = g[j]
  PROVE  StringFrom(i, f) = StringFrom(i, g)
<1>0. Len(text) \in Nat /\ i \in Nat
  BY DEF TextOK
<1>1. Char(i) # "eof" => f[i + 1] = g[i + 1]
  <2>1. Char(i) # "eof" => i + 1 \in i + 1 .. Len(text) + 1
    BY <1>0, CharIs
  <2> QED BY <2>1
<1>2. Char(i + 1) # "eof" => f[i + 2] = g[i + 2]
  <2>0. PICK m : m = i + 1
    OBVIOUS
  <2>1. Char(m) # "eof" => m \in 1 .. Len(text)
    BY <1>0, <2>0, CharIs
  <2>2. Char(i + 1) # "eof" => i + 2 \in i + 1 .. Len(text) + 1
    BY <1>0, <2>0, <2>1
  <2> QED BY <2>2
<1> QED BY <1>1, <1>2, Zenon DEF StringFrom

LEMMA StringSolved ==
  ASSUME TextOK
  PROVE  \E scan \in [1 .. Len(text) + 1 -> Literal] :
           \A i \in 1 .. Len(text) + 1 : scan[i] = StringFrom(i, scan)
<1> DEFINE n == Len(text) + 1
           F == [1 .. n -> Literal]
           step == [i \in 1 .. n |-> [f \in F |-> StringFrom(i, f)]]
<1>1. n \in Nat \ {0}
  BY DEF TextOK
<1>2. Literal # {}
  <2>1. [value |-> <<>>, to |-> 1, closed |-> TRUE] \in Literal
    BY DEF Literal
  <2> QED BY <2>1
<1>3. step \in [1 .. n -> [F -> Literal]]
  <2>1. ASSUME NEW i \in 1 .. n, NEW f \in F PROVE StringFrom(i, f) \in Literal
    <3>1. \A j \in i + 1 .. Len(text) + 1 : f[j] \in Literal
      BY <1>1
    <3> QED BY <3>1, StringTyped
  <2> HIDE DEF F, n
  <2> QED BY <2>1
<1>4. ASSUME NEW i \in 1 .. n, NEW g \in F, NEW h \in F, \A j \in i + 1 .. n : g[j] = h[j]
      PROVE  step[i][g] = step[i][h]
  <2>1. StringFrom(i, g) = StringFrom(i, h)
    BY <1>4, StringLocal
  <2> HIDE DEF F, n
  <2> QED BY <2>1
<1>5. Backward(n, Literal, step)
  <2> HIDE DEF step, n
  <2> QED BY <1>3, <1>4 DEF Backward
<1>6. Solvable(n, Literal, step)
  <2> HIDE DEF step, n
  <2> QED BY <1>1, <1>2, <1>5, Recursion
<1>7. PICK scan \in F : \A i \in 1 .. n : scan[i] = step[i][scan]
  <2> HIDE DEF step, n
  <2> QED BY <1>6 DEF Solvable
<1>8. \A i \in 1 .. n : scan[i] = StringFrom(i, scan)
  <2> HIDE DEF F, n
  <2> QED BY <1>7
<1> QED BY <1>8

LEMMA StringExists ==
  ASSUME TextOK
  PROVE  \E rest : \A i \in 1 .. Len(text) + 1 :
           String(i) = rest[i] /\ rest[i] \in Literal /\ rest[i] = StringFrom(i, rest)
<1> DEFINE n == Len(text) + 1
           G(f) == [i \in 1 .. n |-> StringFrom(i, f)]
           rec == CHOOSE f : f = G(f)
<1>0. n \in Nat \ {0}
  BY DEF TextOK
<1>1. PICK scan \in [1 .. n -> Literal] : \A i \in 1 .. n : scan[i] = StringFrom(i, scan)
  BY StringSolved
<1>2. rec = G(rec)
  <2>1. scan = G(scan)
    <3> HIDE DEF n
    <3> QED BY <1>1
  <2> HIDE DEF G
  <2> QED BY <2>1, Zenon
<1>3. \A i : String(i) = rec[i]
  BY Zenon DEF String
<1> HIDE DEF rec
<1>4. \A i \in 1 .. n : rec[i] = StringFrom(i, rec)
  <2> HIDE DEF n
  <2>1. \A i \in 1 .. n : G(rec)[i] = StringFrom(i, rec)
    OBVIOUS
  <2> HIDE DEF G
  <2> QED BY <1>2, <2>1
<1>5. \A i \in 1 .. n : rec[i] \in Literal
  <2> DEFINE S == {k \in 1 .. n : rec[k] \in Literal}
  <2>1. ASSUME NEW k \in 1 .. n, \A i \in k + 1 .. n : i \in S
        PROVE  k \in S
    <3>1. StringFrom(k, rec) \in Literal
      BY <2>1, StringTyped
    <3> HIDE DEF n
    <3> QED BY <1>4, <3>1
  <2> HIDE DEF S
  <2>2. \A k \in 1 .. n : k \in S
    BY <1>0, <2>1, FromAbove
  <2> QED BY <2>2 DEF S
<1> QED BY <1>3, <1>4, <1>5

LEMMA MeantIs ==
  ASSUME NEW i, NEW h
  PROVE  /\ ~Escaped(i, h) /\ text[h] = "\\" => Meant(i, h) = <<>>
         /\ ~Escaped(i, h) /\ text[h] # "\\" => Meant(i, h) = <<text[h]>>
         /\ Escaped(i, h) => Meant(i, h) = Decoded(text[h])
<1>1. ~Escaped(i, h) /\ text[h] = "\\" => Meant(i, h) = <<>>
  BY Zenon DEF Meant
<1>2. ~Escaped(i, h) /\ text[h] # "\\" => Meant(i, h) = <<text[h]>>
  BY Zenon DEF Meant
<1>3. ASSUME Escaped(i, h) PROVE Meant(i, h) = Decoded(text[h])
  <2>1. PICK c : c = text[h]
    OBVIOUS
  <2>2. /\ Escapes["n"] = <<"\n">> /\ Escapes["t"] = <<"\t">> /\ Escapes["\n"] = <<>>
        /\ DOMAIN Escapes = {"n", "t", "\n"}
    BY DEF Escapes
  <2>3. /\ "n" # Quote /\ "n" # "\\" /\ "t" # Quote /\ "t" # "\\" /\ "\n" # Quote /\ "\n" # "\\"
        /\ "n" # "t" /\ "n" # "\n" /\ "t" # "\n"
    BY Zenon DEF Quote
  <2>4. Meant(i, h) = IF c \in DOMAIN Escapes THEN Escapes[c]
                      ELSE IF c \in {Quote, "\\"} THEN <<c>> ELSE <<"\\", c>>
    BY <1>3, <2>1, Zenon DEF Meant
  <2>5. CASE c = "n"
    BY <2>1, <2>2, <2>3, <2>4, <2>5, Zenon DEF Decoded
  <2>6. CASE c = "t"
    BY <2>1, <2>2, <2>3, <2>4, <2>6, Zenon DEF Decoded
  <2>7. CASE c = "\n"
    BY <2>1, <2>2, <2>3, <2>4, <2>7, Zenon DEF Decoded
  <2>8. CASE c # "n" /\ c # "t" /\ c # "\n"
    BY <2>1, <2>2, <2>4, <2>8, Zenon DEF Decoded
  <2> QED BY <2>5, <2>6, <2>7, <2>8
<1> QED BY <1>1, <1>2, <1>3

(* The first quote after i that has no backslash ends the literal.         *)
Closes(i, q) ==
  /\ text[i] = Quote /\ text[q] = Quote /\ ~Escaped(i, q)
  /\ \A h \in i + 1 .. q - 1 : text[h] = Quote => Escaped(i, h)

Collects(i, q, h) ==
  /\ h \in [1 .. q - i -> Seq(Written)]
  /\ h[q - i] = <<>>
  /\ \A n \in 1 .. q - i - 1 : h[n] = Meant(i, i + n) \o h[n + 1]

Then(chars, later) == [later EXCEPT !.value = chars \o @]

Ends(s, value, to) == s.value = value /\ s.to = to /\ s.closed = TRUE

LEMMA Prefixed ==
  ASSUME NEW later \in Literal, NEW chars, NEW value, NEW to, Ends(later, value, to)
  PROVE  Ends(Then(chars, later), chars \o value, to)
  BY DEF Ends, Literal, Then

LEMMA Collected ==
  ASSUME TextOK, NEW i \in 1 .. Len(text), NEW q \in i + 1 .. Len(text), Closes(i, q),
         NEW h, Collects(i, q, h)
  PROVE  Ends(String(i + 1), h[1], q + 1)
<1>0. Len(text) \in Nat /\ i \in Nat /\ q \in Nat /\ q - i \in Nat
  <2>1. Len(text) \in Nat
    BY DEF TextOK
  <2> QED BY <2>1
<1>1. PICK rest : \A j \in 1 .. Len(text) + 1 :
        String(j) = rest[j] /\ rest[j] \in Literal /\ rest[j] = StringFrom(j, rest)
  BY StringExists
<1>2. text[i] = Quote /\ text[q] = Quote /\ ~Escaped(i, q)
      /\ (\A g \in i + 1 .. q - 1 : text[g] = Quote => Escaped(i, g)) /\ text[i] # "\\"
  BY QuoteFacts DEF Closes
<1>3. /\ h \in [1 .. q - i -> Seq(Written)] /\ h[q - i] = <<>>
      /\ \A n \in 1 .. q - i - 1 : h[n] = Meant(i, i + n) \o h[n + 1]
  BY DEF Collects
<1> DEFINE Read(k) == Ends(rest[i + k], h[k], q + 1)
           S == {k \in 1 .. q - i : ~Escaped(i, i + k) => Read(k)}
<1>4. ASSUME NEW k \in 1 .. q - i, \A j \in k + 1 .. q - i : j \in S, ~Escaped(i, i + k)
      PROVE  Read(k)
  <2>1. PICK p : p = i + k
    OBVIOUS
  <2>2. p \in i + 1 .. q /\ p \in Nat \ {0} /\ p <= Len(text) /\ p \in 1 .. Len(text) + 1 /\ i < p
    BY <1>0, <2>1
  <2>3. Char(p) = text[p] /\ Char(p) # "eof"
    BY <2>2, CharIs
  <2>4. rest[p] = StringFrom(p, rest)
    BY <1>1, <2>2
  <2>5. CASE p = q
    <3>1. h[k] = <<>>
      <4>1. k = q - i
        BY <1>0, <2>1, <2>5
      <4> QED BY <1>3, <4>1
    <3>2. StringFrom(p, rest) = [value |-> <<>>, to |-> p + 1, closed |-> TRUE]
      BY <1>2, <2>3, <2>5, Zenon DEF StringFrom
    <3> QED BY <2>1, <2>4, <2>5, <3>1, <3>2 DEF Ends
  <2>6. CASE p # q /\ text[p] # "\\"
    <3>1. p \in i + 1 .. q - 1 /\ k \in 1 .. q - i - 1 /\ k + 1 \in 1 .. q - i
          /\ k + 1 \in k + 1 .. q - i /\ p + 1 = i + (k + 1)
      BY <1>0, <2>1, <2>2, <2>6
    <3>2. text[p] # Quote
      BY <1>2, <1>4, <2>1, <3>1
    <3>3. ~Escaped(i, p + 1)
      BY <1>0, <1>2, <2>2, <2>6, EscapedStep
    <3>4. Ends(rest[p + 1], h[k + 1], q + 1) /\ rest[p + 1] \in Literal
      <4>1. p + 1 \in 1 .. Len(text) + 1
        BY <1>0, <3>1
      <4> QED BY <1>1, <1>4, <3>1, <3>3, <4>1
    <3>5. rest[p] = Then(<<text[p]>>, rest[p + 1])
      BY <2>3, <2>4, <2>6, <3>2, Zenon DEF StringFrom, Then
    <3>6. h[k] = <<text[p]>> \o h[k + 1]
      <4>1. Meant(i, p) = <<text[p]>>
        BY <1>4, <2>1, <2>6, MeantIs
      <4> QED BY <1>3, <2>1, <3>1, <4>1
    <3>7. Ends(rest[p], <<text[p]>> \o h[k + 1], q + 1)
      BY <3>4, <3>5, Prefixed
    <3> QED BY <2>1, <3>6, <3>7
  <2>7. CASE p # q /\ text[p] = "\\"
    <3>1. Escaped(i, p + 1)
      BY <1>0, <1>2, <1>4, <2>1, <2>2, <2>7, EscapedStep
    <3>2. PICK m : m = p + 1
      OBVIOUS
    <3>3. m # q /\ m \in i + 1 .. q - 1 /\ m <= Len(text) /\ m \in Nat \ {0} /\ i < m
      <4>1. m # q
        BY <1>2, <3>1, <3>2
      <4> QED BY <1>0, <2>2, <2>7, <3>2, <4>1
    <3>4. Char(m) = text[m] /\ Char(m) # "eof"
      BY <3>3, CharIs
    <3>5. ~Escaped(i, m + 1)
      BY <1>0, <1>2, <3>1, <3>2, <3>3, EscapedStep
    <3>6. /\ k \in 1 .. q - i - 1 /\ k + 1 \in 1 .. q - i - 1 /\ k + 2 \in k + 1 .. q - i /\ k + 2 \in 1 .. q - i
          /\ m + 1 = i + (k + 2) /\ m = i + (k + 1) /\ k + 1 + 1 = k + 2 /\ p + 2 = m + 1
      BY <1>0, <2>1, <3>2, <3>3
    <3>7. Ends(rest[p + 2], h[k + 2], q + 1) /\ rest[p + 2] \in Literal
      <4>1. p + 2 \in 1 .. Len(text) + 1
        BY <1>0, <3>3, <3>6
      <4> QED BY <1>1, <1>4, <3>5, <3>6, <4>1
    <3>8. rest[p] = Then(Decoded(text[m]), rest[p + 2])
      <4>1. text[p] # Quote
        BY <2>7, QuoteFacts
      <4> QED BY <2>3, <2>4, <2>7, <3>2, <3>4, <4>1, Zenon DEF StringFrom, Then
    <3>9. h[k] = Decoded(text[m]) \o h[k + 2]
      <4>1. Meant(i, p) = <<>> /\ Meant(i, m) = Decoded(text[m])
        BY <1>4, <2>1, <2>7, <3>1, <3>2, MeantIs
      <4>2. h[k] = Meant(i, p) \o h[k + 1] /\ h[k + 1] = Meant(i, m) \o h[k + 2]
        <5>1. h[k] = Meant(i, i + k) \o h[k + 1]
          BY <1>3, <3>6
        <5>2. PICK g : g = k + 1
          OBVIOUS
        <5>3. h[g] = Meant(i, i + g) \o h[g + 1]
          BY <1>3, <3>6, <5>2
        <5> QED BY <2>1, <3>6, <5>1, <5>2, <5>3
      <4>3. h[k + 1] \in Seq(Written)
        BY <1>3, <3>6
      <4>4. <<>> \o h[k + 1] = h[k + 1]
        BY <4>3
      <4> QED BY <4>1, <4>2, <4>4
    <3>10. Ends(rest[p], Decoded(text[m]) \o h[k + 2], q + 1)
      BY <3>7, <3>8, Prefixed
    <3> QED BY <2>1, <3>9, <3>10
  <2> QED BY <2>5, <2>6, <2>7
<1>5. \A k \in 1 .. q - i : k \in S
  <2>1. \A k \in 1 .. q - i : (\A j \in k + 1 .. q - i : j \in S) => k \in S
    BY <1>4
  <2> HIDE DEF S
  <2> QED BY <1>0, <2>1, FromAbove
<1>6. 1 \in 1 .. q - i /\ i + 1 \in 1 .. Len(text) + 1
  BY <1>0
<1>7. Read(1)
  BY <1>0, <1>5, <1>6, EscapedFirst
<1> QED BY <1>1, <1>6, <1>7

(* Without such a quote the literal reaches to the end of the text.        *)
LEMMA Unclosed ==
  ASSUME TextOK, NEW i \in 1 .. Len(text), text[i] = Quote,
         \A h \in i + 1 .. Len(text) : text[h] = Quote => Escaped(i, h)
  PROVE  String(i + 1).closed = FALSE /\ String(i + 1).to = Len(text) + 1
<1>0. Len(text) \in Nat /\ i \in Nat /\ text[i] # "\\" /\ Len(text) + 1 - i \in Nat
  <2>1. Len(text) \in Nat
    BY DEF TextOK
  <2> QED BY <2>1, QuoteFacts
<1>1. PICK rest : \A j \in 1 .. Len(text) + 1 :
        String(j) = rest[j] /\ rest[j] \in Literal /\ rest[j] = StringFrom(j, rest)
  BY StringExists
<1> DEFINE n == Len(text) + 1 - i
           Open(j) == rest[j].closed = FALSE /\ rest[j].to = Len(text) + 1
           S == {k \in 1 .. n : ~Escaped(i, i + k) => Open(i + k)}
<1>2. ASSUME NEW k \in 1 .. n, \A j \in k + 1 .. n : j \in S, ~Escaped(i, i + k)
      PROVE  Open(i + k)
  <2>1. PICK p : p = i + k
    OBVIOUS
  <2>2. p \in i + 1 .. Len(text) + 1 /\ p \in Nat \ {0} /\ p \in 1 .. Len(text) + 1 /\ i < p
    BY <1>0, <2>1
  <2>4. rest[p] = StringFrom(p, rest)
    BY <1>1, <2>2
  <2>5. CASE p = Len(text) + 1
    <3>1. Char(p) = "eof" /\ Char(p) # Quote
      BY <1>0, <2>2, <2>5, CharIs, QuoteFacts
    <3>2. StringFrom(p, rest) = [value |-> <<>>, to |-> p, closed |-> FALSE]
      BY <3>1, Zenon DEF StringFrom
    <3> QED BY <2>1, <2>4, <2>5, <3>2
  <2>6. CASE p # Len(text) + 1 /\ text[p] # "\\"
    <3>1. p \in i + 1 .. Len(text) /\ p <= Len(text) /\ k + 1 \in 1 .. n /\ k + 1 \in k + 1 .. n
          /\ p + 1 = i + (k + 1) /\ p + 1 \in 1 .. Len(text) + 1
      BY <1>0, <2>1, <2>2, <2>6
    <3>2. Char(p) = text[p] /\ Char(p) # "eof" /\ text[p] # Quote
      BY <1>2, <2>1, <2>2, <3>1, CharIs
    <3>3. ~Escaped(i, p + 1)
      BY <1>0, <2>2, <2>6, EscapedStep
    <3>4. Open(p + 1) /\ rest[p + 1] \in Literal
      BY <1>1, <1>2, <3>1, <3>3
    <3>5. rest[p] = Then(<<text[p]>>, rest[p + 1])
      BY <2>4, <2>6, <3>2, Zenon DEF StringFrom, Then
    <3> QED BY <2>1, <3>4, <3>5 DEF Then, Literal
  <2>7. CASE p # Len(text) + 1 /\ text[p] = "\\"
    <3>1. Escaped(i, p + 1)
      BY <1>0, <1>2, <2>1, <2>2, <2>7, EscapedStep
    <3>2. PICK m : m = p + 1
      OBVIOUS
    <3>3. p <= Len(text) /\ m \in i + 1 .. Len(text) + 1 /\ m \in Nat \ {0} /\ i < m
      BY <1>0, <2>2, <2>7, <3>2
    <3>4. Char(p) = text[p] /\ text[p] # Quote /\ Char(p) # "eof"
      BY <2>2, <2>7, <3>3, CharIs, QuoteFacts
    <3>5. CASE Char(m) = "eof"
      <4>1. m = Len(text) + 1
        BY <1>0, <3>3, <3>5, CharIs
      <4>2. StringFrom(p, rest) = [value |-> <<>>, to |-> m, closed |-> FALSE]
        BY <2>7, <3>2, <3>4, <3>5, Zenon DEF StringFrom
      <4> QED BY <2>1, <2>4, <4>1, <4>2
    <3>6. CASE Char(m) # "eof"
      <4>1. m \in 1 .. Len(text)
        BY <1>0, <3>3, <3>6, CharIs
      <4>2. /\ k + 2 \in k + 1 .. n /\ k + 2 \in 1 .. n
            /\ m + 1 = i + (k + 2) /\ p + 2 = m + 1 /\ m + 1 \in 1 .. Len(text) + 1
        BY <1>0, <2>1, <3>2, <4>1
      <4>3. ~Escaped(i, m + 1)
        BY <1>0, <3>1, <3>2, <3>3, EscapedStep
      <4>4. Open(p + 2) /\ rest[p + 2] \in Literal
        BY <1>1, <1>2, <4>2, <4>3
      <4>5. rest[p] = Then(Decoded(Char(m)), rest[p + 2])
        BY <2>4, <2>7, <3>2, <3>4, <3>6, Zenon DEF StringFrom, Then
      <4> QED BY <2>1, <4>4, <4>5 DEF Then, Literal
    <3> QED BY <3>5, <3>6
  <2> QED BY <2>5, <2>6, <2>7
<1>5. \A k \in 1 .. n : k \in S
  <2>1. \A k \in 1 .. n : (\A j \in k + 1 .. n : j \in S) => k \in S
    BY <1>2
  <2> HIDE DEF S
  <2> QED BY <1>0, <2>1, FromAbove
<1>6. 1 \in 1 .. n /\ i + 1 \in 1 .. Len(text) + 1
  BY <1>0
<1>7. Open(i + 1)
  BY <1>0, <1>5, <1>6, EscapedFirst
<1> QED BY <1>1, <1>6, <1>7

LEMMA ClosedString ==
  ASSUME TextOK, NEW i \in 1 .. Len(text), NEW q \in i + 1 .. Len(text), Closes(i, q)
  PROVE  Ends(String(i + 1), ValueOf(i, q + 1), q + 1)
<1> DEFINE s == [n \in 1 .. q + 1 - i - 2 |-> Meant(i, i + n)]
<1>0. Len(text) \in Nat /\ i \in Nat /\ q \in Nat /\ q + 1 - i - 2 = q - i - 1 /\ q - i - 1 \in Nat
  <2>1. Len(text) \in Nat
    BY DEF TextOK
  <2> QED BY <2>1
<1>1. ASSUME NEW n \in 1 .. q - i - 1 PROVE Meant(i, i + n) \in Seq(Written)
  <2>1. i + n \in 1 .. Len(text)
    BY <1>0
  <2>2. text[i + n] \in STRING
    BY <2>1 DEF TextOK
  <2>3. <<>> \in Seq(Written)
    OBVIOUS
  <2> QED BY <2>2, <2>3, DecodedTyped, MeantIs
<1>2. s \in Seq(Seq(Written)) /\ Len(s) = q - i - 1
  <2>1. PICK m : m = q - i - 1
    OBVIOUS
  <2> HIDE DEF Written
  <2> QED BY <1>0, <1>1, <2>1
<1>3. \A n \in 1 .. q - i - 1 : s[n] = Meant(i, i + n)
  BY <1>0
<1>4. ValueOf(i, q + 1) = FlattenSeq(s)
  BY DEF ValueOf
<1> HIDE DEF s
<1>5. PICK h \in [1 .. Len(s) + 1 -> Seq(Written)] :
        /\ h[1] = FlattenSeq(s) /\ h[Len(s) + 1] = <<>>
        /\ \A n \in 1 .. Len(s) : h[n] = s[n] \o h[n + 1]
  BY <1>2, Flattened
<1>6. Len(s) + 1 = q - i
  BY <1>0, <1>2
<1>7. Collects(i, q, h)
  BY <1>2, <1>3, <1>5, <1>6 DEF Collects
<1> QED BY <1>4, <1>5, <1>7, Collected

LEMMA StringIs ==
  ASSUME TextOK, NEW i \in 1 .. Len(text), text[i] = Quote
  PROVE  \/ /\ String(i + 1).closed = FALSE /\ String(i + 1).to = Len(text) + 1
         \/ /\ String(i + 1).closed = TRUE
            /\ String(i + 1).to \in i + 2 .. Len(text) + 1
            /\ IsString(i, String(i + 1).to)
            /\ String(i + 1).value = ValueOf(i, String(i + 1).to)
<1>0. Len(text) \in Nat /\ i \in Nat
  BY DEF TextOK
<1> DEFINE S == {h \in i + 1 .. Len(text) : text[h] = Quote /\ ~Escaped(i, h)}
<1>1. CASE S = {}
  BY <1>1, Unclosed
<1>2. CASE S # {}
  <2>1. S \subseteq Nat
    BY <1>0
  <2>2. PICK q \in S : \A j \in S : q <= j
    <3> HIDE DEF S
    <3> QED BY <1>2, <2>1, LeastExists
  <2>3. q \in i + 1 .. Len(text) /\ text[q] = Quote /\ ~Escaped(i, q)
    BY <2>2
  <2>4. ASSUME NEW h \in i + 1 .. q - 1, text[h] = Quote PROVE Escaped(i, h)
    <3>1. h \in i + 1 .. Len(text) /\ ~(q <= h)
      BY <1>0, <2>3
    <3> QED BY <2>2, <2>4, <3>1
  <2>5. Closes(i, q)
    BY <2>3, <2>4 DEF Closes
  <2>6. Ends(String(i + 1), ValueOf(i, q + 1), q + 1)
    BY <2>3, <2>5, ClosedString
  <2>7. PICK j : j = q + 1
    OBVIOUS
  <2>8. j - 1 = q /\ j >= i + 2 /\ j \in i + 2 .. Len(text) + 1
    BY <1>0, <2>3, <2>7
  <2>9. IsString(i, j)
    <3>1. \A h \in i + 1 .. q : h # q => h \in i + 1 .. q - 1
      BY <1>0, <2>3
    <3> QED BY <2>3, <2>4, <2>8, <3>1 DEF IsString
  <2> QED BY <2>6, <2>7, <2>8, <2>9 DEF Ends
<1> QED BY <1>1, <1>2

(* Nothing longer is a string, or anything else that begins with a quote.  *)
LEMMA StringLongest ==
  ASSUME TextOK, NEW i \in 1 .. Len(text), NEW to \in i + 2 .. Len(text) + 1, IsString(i, to),
         NEW j \in to + 1 .. Len(text) + 1
  PROVE  ~IsString(i, j)
<1>0. Len(text) \in Nat /\ i \in Nat
  BY DEF TextOK
<1>1. to - 1 \in i + 1 .. to - 1 /\ to - 1 \in i + 1 .. j - 1 /\ to - 1 # j - 1
  BY <1>0
<1>2. text[to - 1] = Quote /\ ~Escaped(i, to - 1)
  BY <1>1 DEF IsString
<1> QED BY <1>1, <1>2 DEF IsString

-----------------------------------------------------------------------------
(* A number.                                                               *)
LEMMA NumberStart ==
  ASSUME TextOK, NEW i \in 1 .. Len(text)
  PROVE  IsNumber(i) <=> StartsNumber(i)
<1>0. Len(text) \in Nat /\ i \in Nat \ {0} /\ i <= Len(text)
  BY DEF TextOK
<1>1. PICK m : m = i + 1
  OBVIOUS
<1>2. m \in Nat \ {0} /\ (m <= Len(text) \/ ~(m <= Len(text)))
  BY <1>0, <1>1
<1>3. Char(i) = text[i]
  BY <1>0, CharIs
<1>4. Char(m) \in Digits <=> m <= Len(text) /\ text[m] \in Digits
  BY <1>2, CharIs, DigitFacts
<1> QED BY <1>1, <1>3, <1>4 DEF IsNumber, StartsNumber

LEMMA NoTail ==
  ASSUME NEW b \in Nat, NEW c \in Nat, NEW j \in Nat, b <= c, c <= j,
         IsExponent(b, c), IsFloatSuffix(c, j),
         b < j => text[b] # "e" /\ text[b] # "f"
  PROVE  j = b
<1>1. c = b
  BY DEF IsExponent
<1> QED BY <1>1 DEF IsFloatSuffix

LEMMA DecimalIs ==
  ASSUME NEW i \in Nat, NEW j \in Nat, i < j, IsDecimal(i, j)
  PROVE  \E a, b, c \in Nat :
           /\ i <= a /\ a <= b /\ b <= c /\ c <= j
           /\ Every(i, a, Digits) /\ IsFraction(a, b) /\ IsExponent(b, c) /\ IsFloatSuffix(c, j)
           /\ \E h \in i .. b - 1 : text[h] \in Digits
<1>1. PICK a \in i .. j : \E b \in a .. j : \E c \in b .. j :
        /\ Every(i, a, Digits) /\ IsFraction(a, b) /\ IsExponent(b, c) /\ IsFloatSuffix(c, j)
        /\ \E h \in i .. b - 1 : text[h] \in Digits
  BY DEF IsDecimal
<1>2. PICK b \in a .. j : \E c \in b .. j :
        /\ Every(i, a, Digits) /\ IsFraction(a, b) /\ IsExponent(b, c) /\ IsFloatSuffix(c, j)
        /\ \E h \in i .. b - 1 : text[h] \in Digits
  BY <1>1
<1>3. PICK c \in b .. j :
        /\ Every(i, a, Digits) /\ IsFraction(a, b) /\ IsExponent(b, c) /\ IsFloatSuffix(c, j)
        /\ \E h \in i .. b - 1 : text[h] \in Digits
  BY <1>2
<1>4. a \in Nat /\ b \in Nat /\ c \in Nat /\ i <= a /\ a <= b /\ b <= c /\ c <= j
  OBVIOUS
<1> QED BY <1>3, <1>4

(* Hexadecimal.                                                            *)
LEMMA HexNumber ==
  ASSUME TextOK, NEW i \in 1 .. Len(text), Char(i) = "0", Char(i + 1) = "x",
         NEW to, to = Past(i + 2, HexDigits)
  PROVE  /\ to \in i + 2 .. Len(text) + 1 /\ IsHex(i, to)
         /\ \A j \in to + 1 .. Len(text) + 1 :
              ~Every(i, j, Digits) /\ ~IsHex(i, j) /\ ~IsDecimal(i, j)
<1>0. Len(text) \in Nat /\ i \in Nat \ {0} /\ i <= Len(text)
  BY DEF TextOK
<1>1. PICK m : m = i + 1
  OBVIOUS
<1>2. m \in Nat \ {0} /\ m \in 1 .. Len(text) /\ text[m] = "x" /\ text[i] = "0"
  BY <1>0, <1>1, CharIs
<1>3. i + 2 \in 1 .. Len(text) + 1
  BY <1>0, <1>1, <1>2
<1>4. to \in i + 2 .. Len(text) + 1 /\ Every(i + 2, to, HexDigits) /\ Char(to) \notin HexDigits
  <2>1. "eof" \notin HexDigits
    BY HexFacts
  <2>2. PICK g : g = i + 2
    OBVIOUS
  <2> QED BY <1>3, <2>1, <2>2, PastIs
<1>5. IsHex(i, to)
  BY <1>0, <1>1, <1>2, <1>4 DEF IsHex
<1>6. ASSUME NEW j \in to + 1 .. Len(text) + 1
      PROVE  ~Every(i, j, Digits) /\ ~IsHex(i, j) /\ ~IsDecimal(i, j)
  <2>0. j \in Nat /\ m \in i .. j - 1 /\ to \in i + 2 .. j - 1 /\ to <= Len(text) /\ to \in Nat \ {0} /\ i < j
        /\ m < j
    BY <1>0, <1>1, <1>2, <1>4
  <2>1. text[m] \notin Digits /\ text[m] # "e" /\ text[m] # "f" /\ text[m] # "." /\ text[i] # "."
    BY <1>2, DigitFacts
  <2>2. ~Every(i, j, Digits)
    BY <2>0, <2>1 DEF Every
  <2>3. ~IsHex(i, j)
    <3>1. text[to] \notin HexDigits
      BY <1>4, <2>0, CharIs
    <3> QED BY <2>0, <3>1 DEF IsHex, Every
  <2>4. ASSUME IsDecimal(i, j) PROVE FALSE
    <3>1. PICK a \in Nat, b \in Nat, c \in Nat :
           /\ i <= a /\ a <= b /\ b <= c /\ c <= j
           /\ Every(i, a, Digits) /\ IsFraction(a, b) /\ IsExponent(b, c) /\ IsFloatSuffix(c, j)
           /\ \E h \in i .. b - 1 : text[h] \in Digits
      BY <1>0, <2>0, <2>4, DecimalIs
    <3>2. a = i \/ a = m
      <4>1. a > m => m \in i .. a - 1
        BY <1>0, <1>1, <3>1
      <4>2. ~(a > m)
        BY <2>1, <3>1, <4>1 DEF Every
      <4> QED BY <1>0, <1>1, <3>1, <4>2
    <3>3. a # i
      <4>1. ~(a = i /\ a = b)
        BY <1>0, <3>1
      <4> QED BY <2>1, <3>1, <4>1 DEF IsFraction
    <3>4. b = m
      BY <2>1, <3>1, <3>2, <3>3 DEF IsFraction
    <3>5. j = b
      BY <2>0, <2>1, <3>1, <3>4, NoTail
    <3> QED BY <2>0, <3>4, <3>5
  <2> QED BY <2>2, <2>3, <2>4
<1> QED BY <1>4, <1>5, <1>6

FractionEnd(w) == IF Char(w) = "." THEN Past(w + 1, Digits) ELSE w
ExponentEnd(f) == IF Char(f) # "e" THEN f
                  ELSE Past(f + (IF Char(f + 1) \in {"+", "-"} THEN 2 ELSE 1), Digits)
SuffixEnd(e)   == IF Char(e) = "f" THEN e + 1 ELSE e

(* Digits, a fraction, an exponent and a suffix: each part is as long as   *)
(* it can be, and a shorter one is followed by nothing that could come     *)
(* next.                                                                   *)
LEMMA FractionPart ==
  ASSUME TextOK, NEW w \in 1 .. Len(text) + 1, Char(w) \notin Digits,
         NEW f, f = FractionEnd(w)
  PROVE  /\ f \in w .. Len(text) + 1 /\ IsFraction(w, f)
         /\ \A b \in w .. Len(text) + 1 : IsFraction(w, b) /\ b # f =>
              b < f /\ text[b] # "e" /\ text[b] # "f"
<1> USE DEF FractionEnd
<1>0. Len(text) \in Nat /\ w \in Nat \ {0}
  BY DEF TextOK
<1>1. CASE Char(w) # "."
  <2>1. f = w /\ f \in w .. Len(text) + 1
    BY <1>0, <1>1
  <2>2. ASSUME NEW b \in w .. Len(text) + 1, IsFraction(w, b), b # f PROVE FALSE
    <3>1. text[w] = "." /\ w <= Len(text)
      BY <1>0, <2>1, <2>2 DEF IsFraction
    <3> QED BY <1>0, <1>1, <3>1, CharIs
  <2> QED BY <2>1, <2>2 DEF IsFraction
<1>2. CASE Char(w) = "."
  <2>0. w \in 1 .. Len(text) /\ text[w] = "."
    <3>1. Char(w) # "eof"
      BY <1>2
    <3> QED BY <1>0, <1>2, <3>1, CharIs
  <2>1. PICK m : m = w + 1
    OBVIOUS
  <2>2. m \in 1 .. Len(text) + 1 /\ f = Past(m, Digits)
    BY <1>0, <1>2, <2>0, <2>1
  <2>3. f \in m .. Len(text) + 1 /\ Every(m, f, Digits) /\ Char(f) \notin Digits
    BY <2>2, PastIs, DigitFacts
  <2>4. f \in w .. Len(text) + 1 /\ w < f
    BY <1>0, <2>1, <2>3
  <2>5. ASSUME NEW b \in w .. Len(text) + 1, IsFraction(w, b), b # f
        PROVE  b < f /\ text[b] # "e" /\ text[b] # "f"
    <3>1. CASE b = w
      BY <2>0, <2>4, <3>1
    <3>2. CASE b # w
      <4>1. w < b /\ Every(m, b, Digits)
        BY <2>1, <2>5, <3>2 DEF IsFraction
      <4>2. ~(f < b)
        <5> SUFFICES ASSUME f < b PROVE FALSE
          OBVIOUS
        <5>1. f \in m .. b - 1 /\ f \in Nat \ {0} /\ f <= Len(text)
          BY <1>0, <2>1, <2>3
        <5>2. text[f] \in Digits
          BY <4>1, <5>1 DEF Every
        <5> QED BY <2>3, <5>1, <5>2, CharIs
      <4>3. b \in m .. f - 1
        BY <1>0, <2>1, <2>3, <2>5, <4>1, <4>2
      <4>4. text[b] \in Digits
        BY <2>3, <4>3 DEF Every
      <4> QED BY <2>3, <4>3, <4>4, DigitFacts
    <3> QED BY <3>1, <3>2
  <2>6. IsFraction(w, f)
    BY <2>0, <2>1, <2>3, <2>4 DEF IsFraction
  <2> QED BY <2>4, <2>5, <2>6
<1> QED BY <1>1, <1>2

LEMMA ExponentPart ==
  ASSUME TextOK, NEW f \in 1 .. Len(text) + 1,
         NEW e, e = ExponentEnd(f)
  PROVE  /\ e \in f .. Len(text) + 1 /\ IsExponent(f, e)
         /\ \A c \in f .. Len(text) + 1 : IsExponent(f, c) /\ c # e => c < e /\ text[c] # "f"
<1> USE DEF ExponentEnd
<1>0. Len(text) \in Nat /\ f \in Nat \ {0}
  BY DEF TextOK
<1>1. CASE Char(f) # "e"
  <2>1. e = f /\ e \in f .. Len(text) + 1
    BY <1>0, <1>1
  <2>2. ASSUME NEW c \in f .. Len(text) + 1, IsExponent(f, c), c # e PROVE FALSE
    <3>1. text[f] = "e" /\ f <= Len(text)
      BY <1>0, <2>1, <2>2 DEF IsExponent
    <3> QED BY <1>0, <1>1, <3>1, CharIs
  <2> QED BY <2>1, <2>2 DEF IsExponent
<1>2. CASE Char(f) = "e"
  <2>0. f \in 1 .. Len(text) /\ text[f] = "e"
    <3>1. Char(f) # "eof"
      BY <1>2
    <3> QED BY <1>0, <1>2, <3>1, CharIs
  <2>1. PICK m : m = f + 1
    OBVIOUS
  <2>2. m \in 1 .. Len(text) + 1 /\ m \in Nat \ {0}
    BY <1>0, <2>0, <2>1
  <2>3. PICK d : d = f + (IF Char(m) \in {"+", "-"} THEN 2 ELSE 1)
    OBVIOUS
  <2>4. /\ d \in m .. Len(text) + 1 /\ e = Past(d, Digits)
        /\ d = m \/ (d = m + 1 /\ m <= Len(text) /\ text[m] \in {"+", "-"})
        /\ m <= Len(text) /\ text[m] \in {"+", "-"} => d = m + 1
    <3>1. e = Past(d, Digits)
      BY <1>2, <2>1, <2>3
    <3>2. CASE Char(m) \in {"+", "-"}
      <4>1. m \in 1 .. Len(text) /\ Char(m) = text[m]
        <5>1. Char(m) # "eof"
          BY <3>2
        <5> QED BY <2>2, <5>1, CharIs
      <4> QED BY <1>0, <2>1, <2>3, <3>1, <3>2, <4>1
    <3>3. CASE Char(m) \notin {"+", "-"}
      <4>1. d = m
        BY <2>1, <2>3, <3>3
      <4>2. m <= Len(text) => text[m] \notin {"+", "-"}
        BY <2>2, <3>3, CharIs
      <4> QED BY <2>2, <3>1, <4>1, <4>2
    <3> QED BY <3>2, <3>3
  <2>5. d \in 1 .. Len(text) + 1
    BY <2>2, <2>4
  <2>6. e \in d .. Len(text) + 1 /\ Every(d, e, Digits) /\ Char(e) \notin Digits
    BY <2>4, <2>5, PastIs, DigitFacts
  <2>7. e \in f .. Len(text) + 1 /\ f < e /\ m <= d /\ d <= e /\ d \in Nat /\ e \in Nat \ {0}
    BY <1>0, <2>1, <2>2, <2>4, <2>6
  <2>8. IsExponent(f, e)
    <3>1. CASE d = m
      BY <2>0, <2>1, <2>6, <2>7, <3>1 DEF IsExponent
    <3>2. CASE d # m
      <4>1. d = f + 2 /\ f + 1 < e /\ text[f + 1] \in {"+", "-"}
        BY <1>0, <2>1, <2>4, <2>7, <3>2
      <4> QED BY <2>0, <2>6, <2>7, <4>1 DEF IsExponent
    <3> QED BY <3>1, <3>2
  <2>9. ASSUME NEW g \in d .. Len(text) + 1, Every(d, g, Digits), g # e
        PROVE  g < e /\ text[g] # "f"
    <3>1. ~(e < g)
      <4> SUFFICES ASSUME e < g PROVE FALSE
        OBVIOUS
      <4>1. e \in d .. g - 1 /\ e <= Len(text)
        BY <1>0, <2>6, <2>7
      <4>2. text[e] \in Digits
        BY <2>9, <4>1 DEF Every
      <4> QED BY <2>6, <2>7, <4>1, <4>2, CharIs
    <3>2. g \in d .. e - 1
      BY <2>6, <2>7, <2>9, <3>1
    <3>3. text[g] \in Digits
      BY <2>6, <3>2 DEF Every
    <3> QED BY <2>7, <3>2, <3>3, DigitFacts
  <2>10. ASSUME NEW c \in f .. Len(text) + 1, IsExponent(f, c), c # e
         PROVE  c < e /\ text[c] # "f"
    <3>1. CASE c = f
      BY <2>0, <2>7, <3>1
    <3>2. CASE c # f /\ Every(m, c, Digits) /\ d = m
      <4>1. c \in d .. Len(text) + 1
        BY <1>0, <2>1, <3>2
      <4> QED BY <2>9, <2>10, <3>2, <4>1
    <3>3. CASE c # f /\ Every(m, c, Digits) /\ d # m
      <4>1. text[m] \in {"+", "-"} /\ m <= Len(text) /\ d = m + 1
        BY <2>4, <3>3
      <4>2. text[m] \notin Digits /\ text[m] # "f"
        BY <4>1, DigitFacts
      <4>3. c > m => m \in m .. c - 1
        BY <2>2
      <4>4. c = m
        BY <1>0, <2>1, <2>2, <3>3, <4>2, <4>3 DEF Every
      <4> QED BY <2>2, <2>7, <4>1, <4>2, <4>4
    <3>4. CASE c # f /\ ~Every(m, c, Digits)
      <4>1. m < c /\ text[m] \in {"+", "-"} /\ Every(f + 2, c, Digits)
        BY <2>1, <2>10, <3>4 DEF IsExponent
      <4>2. m <= Len(text) /\ f + 2 = m + 1
        BY <1>0, <2>1, <2>2, <4>1
      <4>3. d = m + 1 /\ c \in d .. Len(text) + 1
        BY <1>0, <2>2, <2>4, <4>1, <4>2
      <4> QED BY <2>9, <2>10, <4>1, <4>2, <4>3
    <3> QED BY <3>1, <3>2, <3>3, <3>4
  <2> QED BY <2>7, <2>8, <2>10
<1> QED BY <1>1, <1>2

LEMMA SuffixPart ==
  ASSUME TextOK, NEW e \in 1 .. Len(text) + 1,
         NEW end, end = SuffixEnd(e)
  PROVE  /\ end \in e .. Len(text) + 1 /\ IsFloatSuffix(e, end)
         /\ \A j \in e .. Len(text) + 1 : IsFloatSuffix(e, j) => j <= end
<1> USE DEF SuffixEnd
<1>0. Len(text) \in Nat /\ e \in Nat \ {0}
  BY DEF TextOK
<1>1. CASE Char(e) = "f"
  <2>1. e \in 1 .. Len(text) /\ text[e] = "f"
    <3>1. Char(e) # "eof"
      BY <1>1
    <3> QED BY <1>0, <1>1, <3>1, CharIs
  <2> QED BY <1>0, <1>1, <2>1 DEF IsFloatSuffix
<1>2. CASE Char(e) # "f"
  <2>1. e <= Len(text) => text[e] # "f"
    BY <1>0, <1>2, CharIs
  <2> QED BY <1>0, <1>2, <2>1 DEF IsFloatSuffix
<1> QED BY <1>1, <1>2

LEMMA DecimalNumber ==
  ASSUME TextOK, NEW i \in 1 .. Len(text), StartsNumber(i), ~(Char(i) = "0" /\ Char(i + 1) = "x"),
         NEW w, w = Past(i, Digits),
         NEW f, f = FractionEnd(w), NEW e, e = ExponentEnd(f), NEW end, end = SuffixEnd(e)
  PROVE  /\ end \in i + 1 .. Len(text) + 1
         /\ end = w => Every(i, end, Digits)
         /\ end # w => IsDecimal(i, end) /\ ~Every(i, end, Digits)
         /\ \A j \in end + 1 .. Len(text) + 1 :
              ~Every(i, j, Digits) /\ ~IsHex(i, j) /\ ~IsDecimal(i, j)
<1>0. Len(text) \in Nat /\ i \in Nat \ {0} /\ i <= Len(text) /\ i \in 1 .. Len(text) + 1
  <2>1. Len(text) \in Nat
    BY DEF TextOK
  <2> QED BY <2>1
<1>1. w \in i .. Len(text) + 1 /\ Every(i, w, Digits) /\ Char(w) \notin Digits
  BY <1>0, PastIs, DigitFacts
<1>2. w \in 1 .. Len(text) + 1
  BY <1>0, <1>1
<1>3. /\ f \in w .. Len(text) + 1 /\ IsFraction(w, f)
      /\ \A b \in w .. Len(text) + 1 : IsFraction(w, b) /\ b # f =>
           b < f /\ text[b] # "e" /\ text[b] # "f"
  BY <1>1, <1>2, FractionPart
<1>4. f \in 1 .. Len(text) + 1
  BY <1>0, <1>2, <1>3
<1>5. /\ e \in f .. Len(text) + 1 /\ IsExponent(f, e)
      /\ \A c \in f .. Len(text) + 1 : IsExponent(f, c) /\ c # e => c < e /\ text[c] # "f"
  BY <1>4, ExponentPart
<1>6. e \in 1 .. Len(text) + 1
  BY <1>0, <1>4, <1>5
<1>7. /\ end \in e .. Len(text) + 1 /\ IsFloatSuffix(e, end)
      /\ \A j \in e .. Len(text) + 1 : IsFloatSuffix(e, j) => j <= end
  BY <1>6, SuffixPart
<1>8. /\ w \in Nat \ {0} /\ f \in Nat /\ e \in Nat /\ end \in Nat
      /\ i <= w /\ w <= f /\ f <= e /\ e <= end /\ end <= Len(text) + 1
  BY <1>0, <1>1, <1>3, <1>5, <1>7
<1>9. w < end => w <= Len(text) /\ text[w] \notin Digits
  <2>1. w < end => w <= Len(text)
    BY <1>0, <1>8
  <2> QED BY <1>1, <1>8, <2>1, CharIs
<1>10. \E h \in i .. f - 1 : text[h] \in Digits
  <2>1. CASE text[i] \in Digits
    <3>1. w # i
      BY <1>0, <1>1, <2>1, CharIs
    <3>2. i \in i .. f - 1
      BY <1>0, <1>8, <3>1
    <3> QED BY <2>1, <3>2
  <2>2. CASE text[i] \notin Digits
    <3>1. text[i] = "." /\ i + 1 <= Len(text) /\ text[i + 1] \in Digits
      BY <2>2 DEF StartsNumber
    <3>2. w = i
      <4>1. i < w => i \in i .. w - 1
        BY <1>0, <1>8
      <4>2. ~(i < w)
        BY <1>1, <2>2, <4>1 DEF Every
      <4> QED BY <1>0, <1>8, <4>2
    <3>3. PICK m : m = i + 1
      OBVIOUS
    <3>4. f = Past(m, Digits)
      <4>1. Char(w) = "."
        BY <1>0, <3>1, <3>2, CharIs
      <4> QED BY <3>2, <3>3, <4>1 DEF FractionEnd
    <3>5. m \in 1 .. Len(text) + 1 /\ m <= Len(text) /\ m \in Nat \ {0}
      BY <1>0, <3>1, <3>3
    <3>6. f \in m .. Len(text) + 1 /\ Char(f) \notin Digits
      BY <3>4, <3>5, PastIs, DigitFacts
    <3>7. f # m
      BY <3>1, <3>3, <3>5, <3>6, CharIs
    <3>8. m \in i .. f - 1
      BY <1>0, <3>3, <3>5, <3>6, <3>7
    <3> QED BY <3>1, <3>3, <3>8
  <2> QED BY <2>1, <2>2
<1>11. end \in i + 1 .. Len(text) + 1
  BY <1>0, <1>8, <1>10
<1>12. end # w => IsDecimal(i, end)
  <2>1. w \in i .. end /\ f \in w .. end /\ e \in f .. end
    BY <1>0, <1>8
  <2> QED BY <1>1, <1>3, <1>5, <1>7, <1>10, <2>1 DEF IsDecimal
<1>13. end # w => ~Every(i, end, Digits)
  <2>1. end # w => w < end /\ w \in i .. end - 1
    BY <1>0, <1>8
  <2> QED BY <1>9, <2>1 DEF Every
<1>14. ASSUME NEW j \in end + 1 .. Len(text) + 1
       PROVE  ~Every(i, j, Digits) /\ ~IsHex(i, j) /\ ~IsDecimal(i, j)
  <2>0. j \in Nat /\ end < j /\ w \in i .. j - 1 /\ w <= Len(text) /\ i < j
    BY <1>0, <1>8
  <2>1. ~Every(i, j, Digits)
    <3>1. text[w] \notin Digits
      BY <1>1, <1>8, <2>0, CharIs
    <3> QED BY <2>0, <3>1 DEF Every
  <2>2. ~IsHex(i, j)
    <3> SUFFICES ASSUME IsHex(i, j) PROVE FALSE
      OBVIOUS
    <3>1. PICK m : m = i + 1
      OBVIOUS
    <3>2. text[i] = "0" /\ text[m] = "x" /\ m <= Len(text) /\ m \in Nat \ {0}
      BY <1>0, <2>0, <3>1 DEF IsHex
    <3>3. Char(i) = "0" /\ Char(m) = "x"
      BY <1>0, <3>2, CharIs
    <3> QED BY <3>1, <3>3
  <2>3. ASSUME IsDecimal(i, j) PROVE FALSE
    <3>1. PICK a \in Nat, b \in Nat, c \in Nat :
           /\ i <= a /\ a <= b /\ b <= c /\ c <= j
           /\ Every(i, a, Digits) /\ IsFraction(a, b) /\ IsExponent(b, c) /\ IsFloatSuffix(c, j)
           /\ \E h \in i .. b - 1 : text[h] \in Digits
      BY <1>0, <2>0, <2>3, DecimalIs
    <3>2. CASE a > w
      <4>1. w \in i .. a - 1 /\ w <= Len(text)
        BY <1>0, <1>8, <2>0, <3>1, <3>2
      <4>2. text[w] \in Digits
        BY <3>1, <4>1 DEF Every
      <4> QED BY <1>1, <1>8, <4>1, <4>2, CharIs
    <3>3. CASE a < w
      <4>1. a \in i .. w - 1
        BY <1>0, <1>8, <3>1, <3>3
      <4>2. text[a] # "." /\ text[a] # "e" /\ text[a] # "f"
        BY <1>1, <4>1, DigitFacts DEF Every
      <4>3. b = a
        BY <3>1, <4>2 DEF IsFraction
      <4>4. j = b
        BY <2>0, <3>1, <4>2, <4>3, NoTail
      <4> QED BY <1>8, <2>0, <3>3, <4>3, <4>4
    <3>4. CASE a = w
      <4>1. b \in w .. Len(text) + 1 /\ c \in b .. Len(text) + 1
        BY <1>0, <3>1, <3>4
      <4>2. b = f
        <5> SUFFICES ASSUME b # f PROVE FALSE
          OBVIOUS
        <5>1. b < f /\ text[b] # "e" /\ text[b] # "f"
          BY <1>3, <3>1, <3>4, <4>1
        <5>2. j = b
          BY <2>0, <3>1, <5>1, NoTail
        <5> QED BY <1>8, <2>0, <3>1, <5>1, <5>2
      <4>3. c = e
        <5> SUFFICES ASSUME c # e PROVE FALSE
          OBVIOUS
        <5>1. c < e /\ text[c] # "f"
          BY <1>5, <3>1, <4>1, <4>2
        <5>2. j = c
          BY <3>1, <5>1 DEF IsFloatSuffix
        <5> QED BY <1>8, <2>0, <3>1, <5>1, <5>2
      <4>4. j \in e .. Len(text) + 1
        BY <1>0, <1>8, <2>0
      <4>5. j <= end
        BY <1>7, <3>1, <4>3, <4>4
      <4> QED BY <1>8, <2>0, <4>5
    <3> QED BY <1>8, <3>1, <3>2, <3>3, <3>4
  <2> QED BY <2>1, <2>2, <2>3
<1>15. end = w => Every(i, end, Digits)
  BY <1>1
<1> QED BY <1>11, <1>12, <1>13, <1>14, <1>15

-----------------------------------------------------------------------------
(* Each scanner takes the longest token that the rest begins with.         *)
Longest(i, to) == \A j \in to + 1 .. Len(text) + 1 : \A k \in Kinds : ~Spells(k, i, j)

Cut(k, i, to) == to \in i + 1 .. Len(text) + 1 /\ Spells(k, i, to) /\ Longest(i, to)

LEMMA CutBy ==
  ASSUME NEW k, NEW i, NEW to \in i + 1 .. Len(text) + 1, Spells(k, i, to),
         \A j \in to + 1 .. Len(text) + 1 :
           /\ ~Spells("ident", i, j) /\ ~Spells("keyword", i, j) /\ ~Spells("int", i, j)
           /\ ~Spells("float", i, j) /\ ~Spells("string", i, j) /\ ~Spells("op", i, j)
  PROVE  Cut(k, i, to)
<1>1. ASSUME NEW j \in to + 1 .. Len(text) + 1, NEW l \in Kinds PROVE ~Spells(l, i, j)
  <2>1. l = "ident" \/ l = "keyword" \/ l = "int" \/ l = "float" \/ l = "string" \/ l = "op"
    BY DEF Kinds
  <2> QED BY <2>1
<1> QED BY <1>1 DEF Cut, Longest

LEMMA Longer ==
  ASSUME TextOK, NEW i \in 1 .. Len(text), NEW to \in i + 1 .. Len(text) + 1,
         NEW j \in to + 1 .. Len(text) + 1
  PROVE  /\ j \in i + 1 .. Len(text) + 1 /\ j # i + 1 /\ i < j /\ j \in Int
         /\ to \in i .. j - 1 /\ to \in 1 .. Len(text) /\ Char(to) = text[to]
<1>0. Len(text) \in Nat
  BY DEF TextOK
<1>1. /\ j \in i + 1 .. Len(text) + 1 /\ j # i + 1 /\ i < j /\ j \in Int
      /\ to \in i .. j - 1 /\ to \in 1 .. Len(text) /\ to \in Nat \ {0} /\ to <= Len(text)
  BY <1>0
<1> QED BY <1>1, CharIs

LEMMA NumberCut ==
  ASSUME TextOK, NEW i \in 1 .. Len(text), IsNumber(i)
  PROVE  Cut(Number(i).k, i, Number(i).to) /\ Number(i).k # "string"
<1>0. Len(text) \in Nat /\ i \in Nat \ {0} /\ i <= Len(text) /\ StartsNumber(i)
  BY NumberStart DEF TextOK
<1>1. PICK k, to : k = Number(i).k /\ to = Number(i).to
  OBVIOUS
<1>2. /\ k \in {"int", "float"} /\ to \in i + 1 .. Len(text) + 1 /\ Spells(k, i, to)
      /\ \A j \in to + 1 .. Len(text) + 1 : ~Every(i, j, Digits) /\ ~IsHex(i, j) /\ ~IsDecimal(i, j)
  <2>1. CASE Char(i) = "0" /\ Char(i + 1) = "x"
    <3>1. Number(i) = [k |-> "int", to |-> Past(i + 2, HexDigits)]
      BY <2>1, Zenon DEF Number
    <3>2. k = "int" /\ to = Past(i + 2, HexDigits)
      BY <1>1, <3>1
    <3>3. /\ to \in i + 2 .. Len(text) + 1 /\ IsHex(i, to)
          /\ \A j \in to + 1 .. Len(text) + 1 : ~Every(i, j, Digits) /\ ~IsHex(i, j) /\ ~IsDecimal(i, j)
      BY <2>1, <3>2, HexNumber
    <3>4. to \in i + 1 .. Len(text) + 1
      BY <1>0, <3>3
    <3> QED BY <3>2, <3>3, <3>4, SpellsIs
  <2>2. CASE ~(Char(i) = "0" /\ Char(i + 1) = "x")
    <3>1. PICK w : w = Past(i, Digits)
      OBVIOUS
    <3>2. PICK f : f = FractionEnd(w)
      OBVIOUS
    <3>3. PICK e : e = ExponentEnd(f)
      OBVIOUS
    <3>4. PICK end : end = SuffixEnd(e)
      OBVIOUS
    <3>5. Number(i) = [k |-> IF end = w THEN "int" ELSE "float", to |-> end]
      BY <2>2, <3>1, <3>2, <3>3, <3>4, Zenon DEF Number, FractionEnd, ExponentEnd, SuffixEnd
    <3>6. k = (IF end = w THEN "int" ELSE "float") /\ to = end
      BY <1>1, <3>5
    <3>7. /\ end \in i + 1 .. Len(text) + 1
          /\ end = w => Every(i, end, Digits)
          /\ end # w => IsDecimal(i, end) /\ ~Every(i, end, Digits)
          /\ \A j \in end + 1 .. Len(text) + 1 :
               ~Every(i, j, Digits) /\ ~IsHex(i, j) /\ ~IsDecimal(i, j)
      BY <1>0, <2>2, <3>1, <3>2, <3>3, <3>4, DecimalNumber
    <3> QED BY <3>6, <3>7, SpellsIs
  <2> QED BY <2>1, <2>2
<1>3. ASSUME NEW j \in to + 1 .. Len(text) + 1
      PROVE  /\ ~Spells("ident", i, j) /\ ~Spells("keyword", i, j) /\ ~Spells("int", i, j)
             /\ ~Spells("float", i, j) /\ ~Spells("string", i, j) /\ ~Spells("op", i, j)
  <2>1. j \in i + 1 .. Len(text) + 1 /\ j # i + 1
    BY <1>2, Longer
  <2>2. ~Spells("int", i, j) /\ ~Spells("float", i, j)
    BY <1>2, SpellsIs
  <2>3. text[i] \in Digits \/ text[i] = "."
    BY <1>0 DEF StartsNumber
  <2>4. text[i] \notin Beginnings /\ text[i] # Quote /\ (text[i] \in Singles => text[i] = ".")
    BY <2>3, LetterFacts, DigitFacts, QuoteFacts, SingleFacts
  <2> QED BY <2>1, <2>2, <2>4, FirstCharacter
<1>4. Cut(k, i, to)
  BY <1>2, <1>3, CutBy
<1> QED BY <1>1, <1>2, <1>4

LEMMA WordCut ==
  ASSUME TextOK, NEW i \in 1 .. Len(text), Char(i) \in Beginnings,
         NEW to, to = Past(i, Wordlike),
         NEW k, k = IF SubSeq(text, i, to - 1) \in Keywords THEN "keyword" ELSE "ident"
  PROVE  Cut(k, i, to)
<1>0. Len(text) \in Nat /\ i \in Nat \ {0} /\ i <= Len(text) /\ i \in 1 .. Len(text) + 1
  <2>1. Len(text) \in Nat
    BY DEF TextOK
  <2> QED BY <2>1
<1>1. to \in i .. Len(text) + 1 /\ Every(i, to, Wordlike) /\ Char(to) \notin Wordlike
  <2>1. "eof" \notin Wordlike
    BY LetterFacts, DigitFacts, Zenon DEF Wordlike
  <2> QED BY <1>0, <2>1, PastIs
<1>2. Beginnings \subseteq Wordlike /\ Letters \subseteq Wordlike
  BY Zenon DEF Wordlike, Beginnings
<1>3. to # i
  BY <1>1, <1>2
<1>4. to \in i + 1 .. Len(text) + 1
  BY <1>0, <1>1, <1>3
<1>5. text[i] \in Beginnings
  BY <1>0, CharIs
<1>6. Spells(k, i, to)
  BY <1>1, <1>5, SpellsIs
<1>7. ASSUME NEW j \in to + 1 .. Len(text) + 1
      PROVE  /\ ~Spells("ident", i, j) /\ ~Spells("keyword", i, j) /\ ~Spells("int", i, j)
             /\ ~Spells("float", i, j) /\ ~Spells("string", i, j) /\ ~Spells("op", i, j)
  <2>1. j \in i + 1 .. Len(text) + 1 /\ to \in i .. j - 1 /\ text[to] \notin Wordlike
    BY <1>1, <1>4, Longer
  <2>2. ~Every(i, j, Wordlike) /\ ~Every(i, j, Letters)
    BY <1>2, <2>1 DEF Every
  <2>3. ~Spells("ident", i, j) /\ ~Spells("keyword", i, j)
    BY <2>1, <2>2, SpellsIs, KeywordPiece
  <2>4. ~StartsNumber(i) /\ text[i] # Quote /\ text[i] \notin Singles
    BY <1>5, LetterFacts, SingleFacts DEF StartsNumber
  <2> QED BY <2>1, <2>3, <2>4, FirstCharacter
<1> QED BY <1>4, <1>6, <1>7, CutBy

LEMMA StringCut ==
  ASSUME TextOK, NEW i \in 1 .. Len(text), text[i] = Quote, NEW to \in i + 2 .. Len(text) + 1,
         IsString(i, to)
  PROVE  Cut("string", i, to)
<1>0. Len(text) \in Nat
  BY DEF TextOK
<1>1. to \in i + 1 .. Len(text) + 1
  BY <1>0
<1>2. Spells("string", i, to)
  BY SpellsIs
<1>3. ASSUME NEW j \in to + 1 .. Len(text) + 1
      PROVE  /\ ~Spells("ident", i, j) /\ ~Spells("keyword", i, j) /\ ~Spells("int", i, j)
             /\ ~Spells("float", i, j) /\ ~Spells("string", i, j) /\ ~Spells("op", i, j)
  <2>1. j \in i + 1 .. Len(text) + 1
    BY <1>1, Longer
  <2>2. ~Spells("string", i, j)
    BY StringLongest, SpellsIs
  <2>3. ~StartsNumber(i) /\ text[i] \notin Beginnings /\ text[i] \notin Singles
    BY LetterFacts, DigitFacts, SingleFacts, QuoteFacts DEF StartsNumber
  <2> QED BY <2>1, <2>2, <2>3, FirstCharacter
<1> QED BY <1>1, <1>2, <1>3, CutBy

LEMMA OperatorCut ==
  ASSUME TextOK, NEW i \in 1 .. Len(text), Char(i) \in Singles, ~IsNumber(i),
         NEW to, to = i + (IF <<Char(i), Char(i + 1)>> \in Doubles THEN 2 ELSE 1)
  PROVE  Cut("op", i, to)
<1>0. Len(text) \in Nat /\ i \in Nat \ {0} /\ i <= Len(text) /\ i \in Int
  BY DEF TextOK
<1>1. text[i] \in Singles /\ Char(i) = text[i]
  BY <1>0, CharIs
<1>2. PICK m : m = i + 1
  OBVIOUS
<1>3. m \in Nat \ {0}
  BY <1>0, <1>2
<1>4. ASSUME m <= Len(text) PROVE SubSeq(text, i, m) = <<Char(i), Char(m)>>
  <2>1. PICK j : j = m + 1
    OBVIOUS
  <2>2. j \in i + 1 .. Len(text) + 1 /\ j - 1 = m /\ j - i = 2 /\ i \in i .. m /\ m \in i .. m
        /\ i - i + 1 = 1 /\ m - i + 1 = 2
    BY <1>0, <1>2, <1>3, <1>4, <2>1
  <2>3. PICK s : s = SubSeq(text, i, m)
    OBVIOUS
  <2>4. s \in Seq(STRING) /\ Len(s) = 2 /\ s[1] = text[i] /\ s[2] = text[m]
    <3>1. s \in Seq(STRING) /\ Len(s) = 2
      BY <2>2, <2>3, Piece
    <3>2. \A h \in i .. m : s[h - i + 1] = text[h]
      BY <2>2, <2>3, Piece
    <3> QED BY <2>2, <3>1, <3>2
  <2>5. s = <<text[i], text[m]>>
    BY ONLY <2>4
  <2>6. Char(m) = text[m]
    BY <1>3, <1>4, CharIs
  <2> QED BY <1>1, <2>3, <2>5, <2>6
<1>5. <<Char(i), Char(m)>> \in Doubles => m <= Len(text)
  <2> SUFFICES ASSUME <<Char(i), Char(m)>> \in Doubles PROVE m <= Len(text)
    OBVIOUS
  <2>1. PICK x \in Singles, y \in Singles : <<Char(i), Char(m)>> = <<x, y>>
    BY DoubleFacts
  <2>2. Char(m) \in Singles
    BY <2>1
  <2> QED BY <1>3, <2>2, CharIs, SingleFacts
<1>6. /\ to \in i + 1 .. Len(text) + 1 /\ Spells("op", i, to)
      /\ to = i + 1 \/ to = i + 2
      /\ to = i + 1 => <<Char(i), Char(m)>> \notin Doubles
  <2>1. CASE <<Char(i), Char(m)>> \in Doubles
    <3>1. to = i + 2 /\ m <= Len(text) /\ to \in i + 1 .. Len(text) + 1 /\ to # i + 1
      BY <1>0, <1>2, <1>5, <2>1
    <3>2. SubSeq(text, i, i + 1) \in TwoLong
      BY <1>2, <1>4, <2>1, <3>1, DoubleFacts
    <3> QED BY <3>1, <3>2, SpellsIs
  <2>2. CASE <<Char(i), Char(m)>> \notin Doubles
    <3>1. to = i + 1 /\ to \in i + 1 .. Len(text) + 1
      BY <1>0, <1>2, <2>2
    <3> QED BY <1>1, <2>2, <3>1, SpellsIs
  <2> QED BY <2>1, <2>2
<1>7. ASSUME NEW j \in to + 1 .. Len(text) + 1
      PROVE  /\ ~Spells("ident", i, j) /\ ~Spells("keyword", i, j) /\ ~Spells("int", i, j)
             /\ ~Spells("float", i, j) /\ ~Spells("string", i, j) /\ ~Spells("op", i, j)
  <2>1. j \in i + 1 .. Len(text) + 1 /\ j # i + 1
    BY <1>6, Longer
  <2>2. ~Spells("op", i, j)
    <3> SUFFICES ASSUME j = i + 2, SubSeq(text, i, i + 1) \in TwoLong PROVE FALSE
      BY <2>1, SpellsIs
    <3>1. to = i + 1 /\ m <= Len(text)
      BY <1>0, <1>2, <1>6
    <3>2. <<Char(i), Char(m)>> \in Doubles
      BY <1>2, <1>4, <3>1, DoubleFacts
    <3> QED BY <1>6, <3>1, <3>2
  <2>3. ~StartsNumber(i) /\ text[i] # Quote /\ text[i] \notin Beginnings
    BY <1>1, NumberStart, SingleFacts, LetterFacts
  <2> QED BY <2>1, <2>2, <2>3, FirstCharacter
<1> QED BY <1>6, <1>7, CutBy

-----------------------------------------------------------------------------
(* The invariant: the tokens so far are tokens of the text, in order, and  *)
(* what is between the last of them and off is a gap.                      *)
IsToken(token, before) ==
  /\ token.from \in before .. Len(text) /\ token.to \in token.from + 1 .. Len(text) + 1
  /\ IsGap(before, token.from)
  /\ \/ token.from \in ToSet(errs)
     \/ /\ Spells(token.k, token.from, token.to)
        /\ token.k = "string" => token.value = ValueOf(token.from, token.to)
  /\ Longest(token.from, token.to)

IsSequence(s) == \E S : s \in Seq(S)

Inv ==
  /\ TextOK
  /\ errs \in Seq(Nat)
  /\ IsSequence(tokens)
  /\ off \in 1 .. Len(text) + 1
  /\ \A n \in DOMAIN tokens : IsToken(tokens[n], End(n - 1))
  /\ End(Len(tokens)) \in 1 .. off
  /\ phase = "lex" => IsGap(End(Len(tokens)), off)
  /\ phase = "done" /\ errs = <<>> => IsGap(End(Len(tokens)), Len(text) + 1)

LEMMA TokenKept ==
  ASSUME NEW token, NEW before, IsToken(token, before), text' = text, ToSet(errs) \subseteq ToSet(errs')
  PROVE  IsToken(token, before)'
<1>1. IsGap(before, token.from)'
  <2>1. PICK from : from = token.from
    OBVIOUS
  <2>2. IsGap(before, from)'
    BY <2>1, GapKept DEF IsToken
  <2> QED BY <2>1, <2>2
<1>2. \A k, i, j : Spells(k, i, j)' <=> Spells(k, i, j)
  BY DEF Spells, Every, IsHex, IsDecimal, IsFraction, IsExponent, IsFloatSuffix, IsString, Escaped
<1>3. Longest(token.from, token.to)'
  BY <1>2 DEF Longest, IsToken
<1>4. \A i, j : ValueOf(i, j)' = ValueOf(i, j)
  BY DEF ValueOf, Meant, Escaped, Every
<1> QED BY <1>1, <1>2, <1>3, <1>4 DEF IsToken

(* Where lexer_next starts a token, all that it skipped was blank.         *)
LEMMA AtToken ==
  ASSUME Inv, phase = "lex", Char(Here) # "eof"
  PROVE  /\ Here \in off .. Len(text) /\ Here \in 1 .. Len(text) /\ Here \in Nat
         /\ Char(Here) = text[Here]
         /\ Skip(off).errs = <<>>
         /\ ~IsMarker(Here)
         /\ End(Len(tokens)) \in 1 .. Here
         /\ IsGap(End(Len(tokens)), Here)
<1>1. TextOK /\ off \in 1 .. Len(text) + 1 /\ Len(text) \in Nat /\ End(Len(tokens)) \in 1 .. off
      /\ IsGap(End(Len(tokens)), off)
  BY DEF Inv, TextOK
<1>2. Settled(off, Skip(off))
  BY <1>1, SkipGap
<1>3. PICK i : i = Here
  OBVIOUS
<1>4. i = Skip(off).at
  BY <1>3 DEF Here
<1>5. i \in off .. Len(text) + 1 /\ i \in Nat \ {0}
  BY <1>1, <1>2, <1>4 DEF Settled
<1>6. i \in 1 .. Len(text) /\ Char(i) = text[i]
  BY <1>1, <1>3, <1>5, CharIs
<1>7. Skip(off).errs = <<>> /\ IsGap(off, i) /\ ~IsMarker(i)
  BY <1>1, <1>2, <1>4, <1>6 DEF Settled
<1>8. PICK e : e = End(Len(tokens))
  OBVIOUS
<1>9. e \in Int /\ off \in Int /\ i \in Int /\ e <= off /\ off <= i /\ IsGap(e, off)
  BY <1>1, <1>5, <1>8
<1>10. IsGap(e, i)
  BY <1>7, <1>9, GapJoin
<1> QED BY <1>1, <1>3, <1>5, <1>6, <1>7, <1>8, <1>9, <1>10

LEMMA Appended ==
  ASSUME NEW s, NEW e, IsSequence(s)
  PROVE  /\ IsSequence(Append(s, e))
         /\ Len(s) \in Nat /\ Len(Append(s, e)) = Len(s) + 1
         /\ DOMAIN s = 1 .. Len(s) /\ DOMAIN Append(s, e) = 1 .. Len(s) + 1
         /\ \A n \in 1 .. Len(s) : Append(s, e)[n] = s[n]
         /\ Append(s, e)[Len(s) + 1] = e
<1>1. PICK S : s \in Seq(S)
  BY DEF IsSequence
<1>2. PICK R : R = S \cup {e}
  OBVIOUS
<1>3. s \in Seq(R) /\ e \in R
  BY <1>1, <1>2
<1>4. Append(s, e) \in Seq(R)
  BY <1>3
<1> QED BY <1>3, <1>4 DEF IsSequence

LEMMA ReportsKept ==
  ASSUME NEW before \in Seq(Nat), NEW more \in Seq(Nat)
  PROVE  /\ before \o more \in Seq(Nat)
         /\ ToSet(before) \subseteq ToSet(before \o more) /\ ToSet(more) \subseteq ToSet(before \o more)
<1>1. PICK after : after = before \o more
  OBVIOUS
<1>2. /\ after \in Seq(Nat) /\ DOMAIN after = 1 .. Len(before) + Len(more)
      /\ DOMAIN before = 1 .. Len(before) /\ DOMAIN more = 1 .. Len(more)
      /\ \A n \in 1 .. Len(before) : after[n] = before[n]
      /\ \A n \in 1 .. Len(more) : after[Len(before) + n] = more[n]
  BY <1>1
<1>3. ASSUME NEW c \in ToSet(before) PROVE c \in ToSet(after)
  <2>1. PICK n \in 1 .. Len(before) : c = before[n]
    BY <1>2 DEF ToSet
  <2>2. n \in DOMAIN after /\ after[n] = c
    BY <1>2, <2>1
  <2> QED BY <2>2, Zenon DEF ToSet
<1>4. ASSUME NEW c \in ToSet(more) PROVE c \in ToSet(after)
  <2>1. PICK n \in 1 .. Len(more) : c = more[n]
    BY <1>2 DEF ToSet
  <2>2. Len(before) + n \in DOMAIN after /\ after[Len(before) + n] = c
    BY <1>2, <2>1
  <2> QED BY <2>2, Zenon DEF ToSet
<1> QED BY <1>1, <1>2, <1>3, <1>4

LEMMA TokenStep ==
  ASSUME Inv, phase = "lex", Char(Here) # "eof",
         NEW k, NEW to, NEW value, NEW more \in Seq(Nat), Token(k, to, value, more),
         to \in Here + 1 .. Len(text) + 1, Longest(Here, to),
         Here \in ToSet(more) \/ (Spells(k, Here, to) /\ (k = "string" => value = ValueOf(Here, to)))
  PROVE  Inv'
<1>1. /\ Here \in 1 .. Len(text) /\ Here \in Nat /\ Skip(off).errs = <<>>
      /\ End(Len(tokens)) \in 1 .. Here /\ IsGap(End(Len(tokens)), Here) /\ Len(text) \in Nat
  BY AtToken DEF Inv, TextOK
<1>2. PICK i : i = Here
  OBVIOUS
<1>3. PICK token : token = [k |-> k, from |-> i, to |-> to, value |-> value]
  OBVIOUS
<1>4. PICK before : before = End(Len(tokens))
  OBVIOUS
<1>5. /\ tokens' = Append(tokens, token) /\ off' = to /\ text' = text /\ phase' = phase
      /\ errs' = errs \o <<>> \o more
  BY <1>1, <1>2, <1>3 DEF Token
<1>6. errs \in Seq(Nat) /\ errs' \in Seq(Nat) /\ ToSet(errs) \subseteq ToSet(errs')
      /\ ToSet(more) \subseteq ToSet(errs')
  <2>1. errs \in Seq(Nat) /\ errs' = errs \o more
    BY <1>5 DEF Inv
  <2> QED BY <2>1, ReportsKept
<1>7. /\ IsSequence(tokens')
      /\ Len(tokens) \in Nat /\ Len(tokens') = Len(tokens) + 1
      /\ DOMAIN tokens = 1 .. Len(tokens) /\ DOMAIN tokens' = 1 .. Len(tokens) + 1
      /\ \A n \in 1 .. Len(tokens) : tokens'[n] = tokens[n]
      /\ tokens'[Len(tokens) + 1] = token
  <2>1. IsSequence(tokens)
    BY DEF Inv
  <2>2. PICK s : s = tokens
    OBVIOUS
  <2> QED BY <1>5, <2>1, <2>2, Appended
<1>8. \A n \in 0 .. Len(tokens) : End(n)' = End(n)
  BY <1>7 DEF End
<1>9. ASSUME NEW n, n = Len(tokens) + 1 PROVE End(n)' = to
  <2>1. n # 0 /\ tokens'[n] = token /\ token.to = to
    BY <1>3, <1>7, <1>9
  <2> QED BY <2>1 DEF End
<1>10. TextOK'
  BY <1>5 DEF Inv, TextOK
<1>11. ASSUME NEW n \in 1 .. Len(tokens) PROVE IsToken(tokens[n], End(n - 1))'
  <2>1. PICK t : t = tokens[n]
    OBVIOUS
  <2>2. PICK b : b = End(n - 1)
    OBVIOUS
  <2>3. IsToken(t, b)
    BY <1>7, <2>1, <2>2 DEF Inv
  <2>4. IsToken(t, b)'
    BY <1>5, <1>6, <2>3, TokenKept
  <2>5. tokens'[n] = t /\ End(n - 1)' = b
    <3>1. n - 1 \in 0 .. Len(tokens)
      BY <1>7
    <3> QED BY <1>7, <1>8, <2>1, <2>2, <3>1
  <2> QED BY <2>4, <2>5
<1>12. IsToken(token, before)'
  <2>1. IsGap(before, i)'
    BY <1>1, <1>2, <1>4, <1>5, <1>6, GapKept
  <2>2. \A l, g, j : Spells(l, g, j)' <=> Spells(l, g, j)
    BY <1>5 DEF Spells, Every, IsHex, IsDecimal, IsFraction, IsExponent, IsFloatSuffix, IsString, Escaped
  <2>3. Longest(i, to)'
    BY <1>2, <1>5, <2>2 DEF Longest
  <2>4. \A g, j : ValueOf(g, j)' = ValueOf(g, j)
    BY <1>5 DEF ValueOf, Meant, Escaped, Every
  <2>5. token.k = k /\ token.from = i /\ token.to = to /\ token.value = value
    BY <1>3
  <2>6. i \in ToSet(errs') \/ (Spells(k, i, to) /\ (k = "string" => value = ValueOf(i, to)))
    BY <1>2, <1>6
  <2>7. i \in before .. Len(text) /\ to \in i + 1 .. Len(text) + 1
    BY <1>1, <1>2, <1>4
  <2> QED BY <1>5, <2>1, <2>2, <2>3, <2>4, <2>5, <2>6, <2>7 DEF IsToken
<1>13. ASSUME NEW n \in DOMAIN tokens' PROVE IsToken(tokens[n], End(n - 1))'
  <2>1. CASE n \in 1 .. Len(tokens)
    BY <1>11, <2>1
  <2>2. CASE n \notin 1 .. Len(tokens)
    <3>1. n = Len(tokens) + 1 /\ n - 1 = Len(tokens) /\ Len(tokens) \in 0 .. Len(tokens)
      BY <1>7, <2>2
    <3>2. tokens'[n] = token /\ End(n - 1)' = before
      BY <1>4, <1>7, <1>8, <3>1
    <3> QED BY <1>12, <3>2
  <2> QED BY <2>1, <2>2
<1>14. End(Len(tokens))' = to
  <2>1. PICK n : n = Len(tokens) + 1
    OBVIOUS
  <2>2. End(n)' = to /\ Len(tokens') = n
    BY <1>7, <1>9, <2>1
  <2> QED BY <2>2
<1>15. to \in 1 .. Len(text) + 1 /\ to \in 1 .. to
  BY <1>1
<1>16. IsGap(End(Len(tokens)), off)'
  <2>1. PICK t : t = to
    OBVIOUS
  <2>2. IsGap(t, t)
    BY <1>1, <2>1, GapEmpty
  <2>3. IsGap(t, t)'
    BY <1>5, <1>6, <2>2, GapKept
  <2> QED BY <1>5, <1>14, <2>1, <2>3
<1> QED BY <1>5, <1>6, <1>7, <1>10, <1>13, <1>14, <1>15, <1>16 DEF Inv

-----------------------------------------------------------------------------
LEMMA InvInit == Init => Inv
<1> SUFFICES ASSUME Init PROVE Inv
  OBVIOUS
<1>0. TextOK /\ Len(text) \in Nat
  <2>1. text \in Inputs /\ Inputs \subseteq Seq(STRING) /\ (\A input \in Inputs : \A i \in DOMAIN input : input[i] # "eof")
    BY LexerAssumption, Zenon DEF Init
  <2> QED BY <2>1 DEF TextOK
<1>1. errs = <<>> /\ tokens = <<>> /\ phase = "lex" /\ off = IF Char(1) = "BOM" THEN 2 ELSE 1
  BY DEF Init
<1>2. errs \in Seq(Nat) /\ IsSequence(tokens) /\ DOMAIN tokens = {} /\ Len(tokens) = 0
  <2>1. tokens \in Seq(Nat)
    BY <1>1
  <2> QED BY <1>1, <2>1 DEF IsSequence
<1>3. End(0) = 1
  BY DEF End
<1>4. CASE Char(1) # "BOM"
  <2>1. off = 1 /\ off \in 1 .. Len(text) + 1 /\ 1 \in 1 .. off
    BY <1>0, <1>1, <1>4
  <2>2. IsGap(1, off)
    BY <2>1, GapEmpty
  <2> QED BY <1>0, <1>1, <1>2, <1>3, <2>1, <2>2 DEF Inv
<1>5. CASE Char(1) = "BOM"
  <2>1. 1 \in 1 .. Len(text) /\ text[1] = "BOM"
    BY <1>0, <1>5, CharIs
  <2>2. off = 2 /\ off \in 1 .. Len(text) + 1 /\ 1 \in 1 .. off
    BY <1>0, <1>1, <1>5, <2>1
  <2>3. PICK i, j : i = 1 /\ j = 2
    OBVIOUS
  <2>4. IsFiller(i, j)
    BY <2>1, <2>3 DEF IsFiller
  <2>5. IsGap(i, j)
    BY <2>3, <2>4, GapFiller
  <2> QED BY <1>0, <1>1, <1>2, <1>3, <2>2, <2>3, <2>5 DEF Inv
<1> QED BY <1>4, <1>5

LEMMA CutStep ==
  ASSUME Inv, phase = "lex", Char(Here) # "eof", NEW k, NEW to, NEW value,
         Token(k, to, value, <<>>), Cut(k, Here, to), k = "string" => value = ValueOf(Here, to)
  PROVE  Inv'
<1>1. <<>> \in Seq(Nat)
  OBVIOUS
<1>2. to \in Here + 1 .. Len(text) + 1 /\ Spells(k, Here, to) /\ Longest(Here, to)
  BY DEF Cut
<1> QED BY <1>1, <1>2, TokenStep

LEMMA IdentStep == Inv /\ LexIdent => Inv'
<1> SUFFICES ASSUME Inv, LexIdent PROVE Inv'
  OBVIOUS
<1>1. PICK i : i = Here
  OBVIOUS
<1>2. PICK to : to = Past(i, Wordlike)
  OBVIOUS
<1>3. PICK word : word = SubSeq(text, i, to - 1)
  OBVIOUS
<1>4. PICK k : k = IF word \in Keywords THEN "keyword" ELSE "ident"
  OBVIOUS
<1>5. phase = "lex" /\ Char(i) \in Beginnings /\ Token(k, to, word, <<>>)
  BY <1>1, <1>2, <1>3, <1>4, Zenon DEF LexIdent
<1>6. Char(i) # "eof"
  BY <1>5, LetterFacts
<1>7. i \in 1 .. Len(text) /\ TextOK
  BY <1>1, <1>5, <1>6, AtToken DEF Inv
<1>8. Cut(k, i, to)
  BY <1>2, <1>3, <1>4, <1>5, <1>7, WordCut
<1>9. k # "string"
  BY <1>4
<1> QED BY <1>1, <1>5, <1>6, <1>8, <1>9, CutStep

LEMMA NumberStep == Inv /\ LexNumber => Inv'
<1> SUFFICES ASSUME Inv, LexNumber PROVE Inv'
  OBVIOUS
<1>1. PICK i : i = Here
  OBVIOUS
<1>2. PICK k, to, value : k = Number(i).k /\ to = Number(i).to /\ value = SubSeq(text, i, to - 1)
  OBVIOUS
<1>3. phase = "lex" /\ IsNumber(i) /\ Token(k, to, value, <<>>)
  BY <1>1, <1>2, Zenon DEF LexNumber
<1>4. Char(i) # "eof"
  BY <1>3, DigitFacts DEF IsNumber
<1>5. i \in 1 .. Len(text) /\ TextOK
  BY <1>1, <1>3, <1>4, AtToken DEF Inv
<1>6. Cut(k, i, to) /\ k # "string"
  BY <1>2, <1>3, <1>5, NumberCut
<1> QED BY <1>1, <1>3, <1>4, <1>6, CutStep

LEMMA StringStep == Inv /\ LexString => Inv'
<1> SUFFICES ASSUME Inv, LexString PROVE Inv'
  OBVIOUS
<1>1. PICK i : i = Here
  OBVIOUS
<1>2. PICK string : string = String(i + 1)
  OBVIOUS
<1>3. PICK to, value : to = string.to /\ value = string.value
  OBVIOUS
<1>4. /\ phase = "lex" /\ Char(i) = Quote
      /\ Token("string", to, value, IF string.closed THEN <<>> ELSE <<i>>)
  BY <1>1, <1>2, <1>3, Zenon DEF LexString
<1>5. Char(i) # "eof"
  BY <1>4, QuoteFacts
<1>6. i \in 1 .. Len(text) /\ i \in Nat /\ text[i] = Quote /\ TextOK /\ Len(text) \in Nat
  BY <1>1, <1>4, <1>5, AtToken DEF Inv, TextOK
<1>7. \/ string.closed = FALSE /\ to = Len(text) + 1
      \/ /\ string.closed = TRUE /\ to \in i + 2 .. Len(text) + 1
         /\ IsString(i, to) /\ value = ValueOf(i, to)
  BY <1>2, <1>3, <1>6, StringIs
<1>8. CASE string.closed = FALSE /\ to = Len(text) + 1
  <2>1. Token("string", to, value, <<i>>)
    BY <1>4, <1>8
  <2>2. to \in i + 1 .. Len(text) + 1 /\ to + 1 .. Len(text) + 1 = {} /\ <<i>> \in Seq(Nat)
    BY <1>6, <1>8
  <2>3. Longest(i, to)
    BY <2>2 DEF Longest
  <2>4. i \in ToSet(<<i>>)
    BY DEF ToSet
  <2> QED BY <1>1, <1>4, <1>5, <2>1, <2>2, <2>3, <2>4, TokenStep
<1>9. CASE /\ string.closed = TRUE /\ to \in i + 2 .. Len(text) + 1
           /\ IsString(i, to) /\ value = ValueOf(i, to)
  <2>1. Token("string", to, value, <<>>)
    BY <1>4, <1>9
  <2>2. Cut("string", i, to)
    BY <1>6, <1>9, StringCut
  <2> QED BY <1>1, <1>4, <1>5, <1>9, <2>1, <2>2, CutStep
<1> QED BY <1>7, <1>8, <1>9

LEMMA OperatorStep == Inv /\ LexOperator => Inv'
<1> SUFFICES ASSUME Inv, LexOperator PROVE Inv'
  OBVIOUS
<1>1. PICK i : i = Here
  OBVIOUS
<1>2. PICK width : width = IF <<Char(i), Char(i + 1)>> \in Doubles THEN 2 ELSE 1
  OBVIOUS
<1>3. PICK to, value : to = i + width /\ value = SubSeq(text, i, i + width - 1)
  OBVIOUS
<1>4. phase = "lex" /\ Char(i) \in Singles /\ ~IsNumber(i) /\ Token("op", to, value, <<>>)
  BY <1>1, <1>2, <1>3, Zenon DEF LexOperator
<1>5. Char(i) # "eof"
  BY <1>4, SingleFacts
<1>6. i \in 1 .. Len(text) /\ TextOK
  BY <1>1, <1>4, <1>5, AtToken DEF Inv
<1>7. Cut("op", i, to)
  BY <1>2, <1>3, <1>4, <1>6, OperatorCut
<1>8. "op" # "string"
  OBVIOUS
<1> QED BY <1>1, <1>4, <1>5, <1>7, <1>8, CutStep

LEMMA TokensKept ==
  ASSUME Inv, text' = text, tokens' = tokens, NEW more \in Seq(Nat), errs' = errs \o more
  PROVE  /\ TextOK' /\ IsSequence(tokens)' /\ errs' \in Seq(Nat)
         /\ ToSet(errs) \subseteq ToSet(errs') /\ ToSet(more) \subseteq ToSet(errs')
         /\ \A n \in DOMAIN tokens' : IsToken(tokens[n], End(n - 1))'
         /\ End(Len(tokens))' = End(Len(tokens))
<1>1. TextOK' /\ IsSequence(tokens)' /\ errs' \in Seq(Nat)
      /\ ToSet(errs) \subseteq ToSet(errs') /\ ToSet(more) \subseteq ToSet(errs')
  <2>1. errs \in Seq(Nat)
    BY DEF Inv
  <2> QED BY <2>1, ReportsKept DEF Inv, TextOK, IsSequence
<1>2. \A n : End(n)' = End(n)
  BY DEF End
<1>3. ASSUME NEW n \in DOMAIN tokens' PROVE IsToken(tokens[n], End(n - 1))'
  <2>1. PICK t, b : t = tokens[n] /\ b = End(n - 1)
    OBVIOUS
  <2>2. IsToken(t, b)
    BY <2>1 DEF Inv
  <2>3. IsToken(t, b)'
    BY <1>1, <2>2, TokenKept
  <2>4. tokens'[n] = t /\ End(n - 1)' = b
    BY <1>2, <2>1
  <2> QED BY <2>3, <2>4
<1>4. End(Len(tokens))' = End(Len(tokens))
  BY DEF End
<1> QED BY <1>1, <1>3, <1>4

LEMMA GapExtend ==
  \A a, b, c \in Int : a <= b /\ b < c /\ IsGap(a, b) /\ IsFiller(b, c) => IsGap(a, c)
<1> SUFFICES ASSUME NEW a \in Int, NEW b \in Int, NEW c \in Int, a <= b, b < c, IsGap(a, b), IsFiller(b, c)
             PROVE  IsGap(a, c)
  OBVIOUS
<1>1. IsGap(b, c) /\ b <= c
  BY GapFiller
<1> QED BY <1>1, GapJoin

LEMMA StrayStep == Inv /\ LexStray => Inv'
<1> SUFFICES ASSUME Inv, LexStray PROVE Inv'
  OBVIOUS
<1>1. PICK i : i = Here
  OBVIOUS
<1>2. phase = "lex" /\ Char(i) # "eof" /\ off' = i + 1 /\ errs' = errs \o Skip(off).errs \o <<i>>
      /\ text' = text /\ tokens' = tokens /\ phase' = phase
  BY <1>1, Zenon DEF LexStray
<1>3. /\ i \in 1 .. Len(text) /\ i \in Nat /\ Skip(off).errs = <<>> /\ ~IsMarker(i) /\ TextOK
      /\ End(Len(tokens)) \in 1 .. i /\ IsGap(End(Len(tokens)), i) /\ Len(text) \in Nat
  BY <1>1, <1>2, AtToken DEF Inv, TextOK
<1>4. errs' = errs \o <<i>> /\ <<i>> \in Seq(Nat)
  BY <1>2, <1>3 DEF Inv
<1>5. /\ TextOK' /\ IsSequence(tokens)' /\ errs' \in Seq(Nat)
      /\ ToSet(errs) \subseteq ToSet(errs') /\ ToSet(<<i>>) \subseteq ToSet(errs')
      /\ \A n \in DOMAIN tokens' : IsToken(tokens[n], End(n - 1))'
      /\ End(Len(tokens))' = End(Len(tokens))
  BY <1>2, <1>4, TokensKept
<1>6. PICK e, j : e = End(Len(tokens)) /\ j = i + 1
  OBVIOUS
<1>7. IsGap(e, i)'
  BY <1>2, <1>3, <1>5, <1>6, GapKept
<1>8. IsFiller(i, j)'
  <2>1. i \in ToSet(errs')
    <3>1. i \in ToSet(<<i>>)
      BY DEF ToSet
    <3> QED BY <1>5, <3>1
  <2>2. \A f \in i + 1 .. Len(text) + 1 : ~IsMarkerLine(i, f)
    BY <1>3, OnlyMarkers
  <2>3. \A f : IsMarkerLine(i, f)' <=> IsMarkerLine(i, f)
    BY <1>2 DEF IsMarkerLine, Every
  <2>4. \A f \in i + 1 .. Len(text') + 1 : ~IsMarkerLine(i, f)'
    BY <1>2, <2>2, <2>3
  <2> QED BY <1>6, <2>1, <2>4 DEF IsFiller, Reported
<1>9. e \in Int /\ i \in Int /\ j \in Int /\ e <= i /\ i < j /\ i <= j
  BY <1>3, <1>6
<1>10. IsGap(e, j)'
  <2>1. (\A a, b, c \in Int : a <= b /\ b < c /\ IsGap(a, b) /\ IsFiller(b, c) => IsGap(a, c))'
    BY GapExtend, PTL
  <2> QED BY <1>7, <1>8, <1>9, <2>1
<1>11. off' \in 1 .. Len(text') + 1 /\ End(Len(tokens))' \in 1 .. off' /\ phase' = "lex"
  BY <1>2, <1>3, <1>5
<1>12. IsGap(End(Len(tokens)), off)'
  BY <1>2, <1>5, <1>6, <1>10
<1> QED BY <1>5, <1>11, <1>12 DEF Inv

LEMMA EofStep == Inv /\ LexEof => Inv'
<1> SUFFICES ASSUME Inv, LexEof PROVE Inv'
  OBVIOUS
<1>1. PICK i : i = Here
  OBVIOUS
<1>2. PICK more : more = Skip(off).errs
  OBVIOUS
<1>3. phase = "lex" /\ phase' = "done" /\ Char(i) = "eof" /\ off' = i /\ errs' = errs \o more
      /\ text' = text /\ tokens' = tokens
  BY <1>1, <1>2, Zenon DEF LexEof
<1>4. /\ TextOK /\ off \in 1 .. Len(text) + 1 /\ Len(text) \in Nat /\ End(Len(tokens)) \in 1 .. off
      /\ IsGap(End(Len(tokens)), off) /\ errs \in Seq(Nat)
  BY <1>3 DEF Inv, TextOK
<1>5. Settled(off, Skip(off)) /\ more \in Seq(Nat) /\ i = Skip(off).at
  BY <1>1, <1>2, <1>4, SkipGap DEF Here
<1>6. i \in off .. Len(text) + 1 /\ (more = <<>> => IsGap(off, i))
  BY <1>2, <1>5 DEF Settled
<1>7. i = Len(text) + 1
  BY <1>3, <1>4, <1>6, CharIs
<1>8. /\ TextOK' /\ IsSequence(tokens)' /\ errs' \in Seq(Nat)
      /\ ToSet(errs) \subseteq ToSet(errs')
      /\ \A n \in DOMAIN tokens' : IsToken(tokens[n], End(n - 1))'
      /\ End(Len(tokens))' = End(Len(tokens))
  BY <1>3, <1>5, TokensKept
<1>9. ASSUME errs' = <<>> PROVE IsGap(End(Len(tokens)), Len(text) + 1)'
  <2>1. more = <<>>
    <3>1. Len(errs \o more) = Len(errs) + Len(more) /\ Len(errs) \in Nat /\ Len(more) \in Nat
      BY <1>4, <1>5
    <3>2. Len(errs \o more) = 0
      BY <1>3, <1>9
    <3>3. Len(more) = 0
      BY <3>1, <3>2
    <3> QED BY <1>5, <3>3
  <2>2. PICK e : e = End(Len(tokens))
    OBVIOUS
  <2>3. e \in Int /\ off \in Int /\ i \in Int /\ e <= off /\ off <= i
    BY <1>4, <1>6, <2>2
  <2>4. IsGap(e, i)
    BY <1>4, <1>6, <2>1, <2>2, <2>3, GapJoin
  <2>5. IsGap(e, i)'
    BY <1>3, <1>8, <2>4, GapKept
  <2> QED BY <1>3, <1>7, <1>8, <2>2, <2>5
<1>10. off' \in 1 .. Len(text') + 1 /\ End(Len(tokens))' \in 1 .. off' /\ phase' = "done"
  BY <1>3, <1>4, <1>6, <1>8
<1> QED BY <1>8, <1>9, <1>10 DEF Inv

LEMMA Invariance == Spec => []Inv
<1>1. Init => Inv
  BY InvInit
<1>2. Inv /\ [Next]_vars => Inv'
  <2> SUFFICES ASSUME Inv, [Next]_vars PROVE Inv'
    OBVIOUS
  <2>1. CASE LexIdent
    BY <2>1, IdentStep
  <2>2. CASE LexNumber
    BY <2>2, NumberStep
  <2>3. CASE LexString
    BY <2>3, StringStep
  <2>4. CASE LexOperator
    BY <2>4, OperatorStep
  <2>5. CASE LexStray
    BY <2>5, StrayStep
  <2>6. CASE LexEof
    BY <2>6, EofStep
  <2>7. CASE UNCHANGED vars
    <3>1. text' = text /\ off' = off /\ tokens' = tokens /\ errs' = errs /\ phase' = phase
      BY <2>7, Zenon DEF vars
    <3>2. <<>> \in Seq(Nat) /\ errs' = errs \o <<>>
      BY <3>1 DEF Inv
    <3>3. /\ TextOK' /\ IsSequence(tokens)' /\ errs' \in Seq(Nat)
          /\ ToSet(errs) \subseteq ToSet(errs')
          /\ \A n \in DOMAIN tokens' : IsToken(tokens[n], End(n - 1))'
          /\ End(Len(tokens))' = End(Len(tokens))
      BY <3>1, <3>2, TokensKept
    <3>4. ASSUME NEW a, NEW b, IsGap(a, b) PROVE IsGap(a, b)'
      BY <3>1, <3>3, <3>4, GapKept
    <3>5. phase' = "lex" => IsGap(End(Len(tokens)), off)'
      BY <3>1, <3>3, <3>4 DEF Inv
    <3>6. phase' = "done" /\ errs' = <<>> => IsGap(End(Len(tokens)), Len(text) + 1)'
      BY <3>1, <3>3, <3>4 DEF Inv
    <3>7. off' \in 1 .. Len(text') + 1 /\ End(Len(tokens))' \in 1 .. off'
      BY <3>1, <3>3 DEF Inv
    <3> QED BY <3>3, <3>5, <3>6, <3>7 DEF Inv
  <2> QED BY <2>1, <2>2, <2>3, <2>4, <2>5, <2>6, <2>7, Zenon DEF Next
<1> QED BY <1>1, <1>2, PTL DEF Spec

(* Every token is the longest one that the rest of the text begins with,   *)
(* of the kind and value that its characters spell, with nothing but       *)
(* blanks, comments, line markers and what was reported in between         *)
(* (lexer.c:391-480).                                                      *)
THEOREM TokensAreCut == Spec => []TokensAreTheText
<1>1. Inv => TokensAreTheText
  <2> SUFFICES ASSUME Inv PROVE TokensAreTheText
    OBVIOUS
  <2>1. ASSUME NEW n \in DOMAIN tokens
        PROVE  /\ IsGap(End(n - 1), tokens[n].from)
               /\ \/ tokens[n].from \in ToSet(errs)
                  \/ /\ Spells(tokens[n].k, tokens[n].from, tokens[n].to)
                     /\ tokens[n].k = "string" => tokens[n].value = ValueOf(tokens[n].from, tokens[n].to)
               /\ \A j \in tokens[n].to + 1 .. Len(text) + 1 : \A k \in Kinds : ~Spells(k, tokens[n].from, j)
    BY DEF Inv, IsToken, Longest
  <2>2. phase = "done" /\ errs = <<>> => IsGap(End(Len(tokens)), Len(text) + 1)
    BY DEF Inv
  <2> QED BY <2>1, <2>2, Zenon DEF TokensAreTheText
<1> QED BY <1>1, Invariance, PTL

-----------------------------------------------------------------------------
(* The other scanner.  The loop of estimate_bytecode_size has the values   *)
(* that its definition asks for.                                           *)
Opening(i) == IF Closings(i) # {} THEN Min(Closings(i)) ELSE Max({i + 2, Len(text)})

LEMMA OpeningIs ==
  ASSUME TextOK, NEW i \in 1 .. Len(text) + 1, Comment(i, "*")
  PROVE  Opening(i) \in i + 1 .. Len(text) + 1
<1>0. Len(text) \in Nat
  BY DEF TextOK
<1>1. CASE Closings(i) # {}
  <2>1. Min(Closings(i)) \in i + 1 .. Len(text) + 1
    BY <1>1, BlockComment
  <2> QED BY <1>1, <2>1 DEF Opening
<1>2. CASE Closings(i) = {}
  <2>1. i \in 1 .. Len(text) - 1
    BY CommentIs
  <2>2. \E m \in {i + 2, Len(text)} : \A j \in {i + 2, Len(text)} : m >= j
    BY <1>0, <2>1
  <2>3. Max({i + 2, Len(text)}) \in {i + 2, Len(text)}
    BY <2>2 DEF Max
  <2> QED BY <1>0, <1>2, <2>1, <2>3 DEF Opening
<1> QED BY <1>1, <1>2

LEMMA EstimateStep ==
  ASSUME TextOK, NEW i \in 1 .. Len(text) + 1, NEW b \in BOOLEAN, NEW rest
  PROVE  /\ i = Len(text) + 1 => EstimateFrom(i, b, rest) = 0
         /\ i # Len(text) + 1 /\ ~b /\ Comment(i, "/") =>
              EstimateFrom(i, b, rest) = rest[Before(i, {"\n"})][b]
         /\ i # Len(text) + 1 /\ ~b /\ Comment(i, "*") =>
              EstimateFrom(i, b, rest) = rest[Opening(i)][b]
         /\ i # Len(text) + 1 /\ (b \/ (~Comment(i, "/") /\ ~Comment(i, "*"))) =>
              EstimateFrom(i, b, rest) = (IF b \/ Char(i) \notin Blanks THEN 1 ELSE 0)
                + rest[i + 1][IF Char(i) = Quote THEN ~b ELSE b]
<1>0. Len(text) \in Nat
  BY DEF TextOK
<1>1. i = Len(text) + 1 => EstimateFrom(i, b, rest) = 0
  <2>1. i = Len(text) + 1 => i > Len(text)
    BY <1>0
  <2> QED BY <2>1, Zenon DEF EstimateFrom
<1>2. i # Len(text) + 1 => ~(i > Len(text))
  BY <1>0
<1>3. ~b /\ Comment(i, "/") => ~Comment(i, "*")
  <2>1. Comment(i, "/") => Char(i + 1) = "/"
    BY DEF Comment
  <2> QED BY <2>1 DEF Comment
<1>4. i # Len(text) + 1 /\ ~b /\ Comment(i, "/") => EstimateFrom(i, b, rest) = rest[Before(i, {"\n"})][b]
  BY <1>2, Zenon DEF EstimateFrom, Opens
<1>5. i # Len(text) + 1 /\ ~b /\ Comment(i, "*") => EstimateFrom(i, b, rest) = rest[Opening(i)][b]
  BY <1>2, <1>3, Zenon DEF EstimateFrom, Opens, Opening
<1>6. i # Len(text) + 1 /\ (b \/ (~Comment(i, "/") /\ ~Comment(i, "*"))) =>
        EstimateFrom(i, b, rest) = (IF b \/ Char(i) \notin Blanks THEN 1 ELSE 0)
          + rest[i + 1][IF Char(i) = Quote THEN ~b ELSE b]
  BY <1>2, Zenon DEF EstimateFrom, Opens
<1> QED BY <1>1, <1>4, <1>5, <1>6

LEMMA EstimateTyped ==
  ASSUME TextOK, NEW i \in 1 .. Len(text) + 1, NEW b \in BOOLEAN, NEW rest,
         \A j \in i + 1 .. Len(text) + 1 : rest[j] \in [BOOLEAN -> Nat]
  PROVE  EstimateFrom(i, b, rest) \in Nat
<1>0. Len(text) \in Nat
  BY DEF TextOK
<1>1. CASE i = Len(text) + 1
  BY <1>1, EstimateStep
<1>2. CASE i # Len(text) + 1 /\ ~b /\ Comment(i, "/")
  <2>1. Before(i, {"\n"}) \in i + 1 .. Len(text) + 1
    BY <1>2, LineComment
  <2>2. EstimateFrom(i, b, rest) = rest[Before(i, {"\n"})][b]
    BY <1>2, EstimateStep
  <2> QED BY <2>1, <2>2
<1>3. CASE i # Len(text) + 1 /\ ~b /\ Comment(i, "*")
  <2>1. Opening(i) \in i + 1 .. Len(text) + 1
    BY <1>3, OpeningIs
  <2>2. EstimateFrom(i, b, rest) = rest[Opening(i)][b]
    BY <1>3, EstimateStep
  <2> QED BY <2>1, <2>2
<1>4. CASE i # Len(text) + 1 /\ (b \/ (~Comment(i, "/") /\ ~Comment(i, "*")))
  <2>1. i + 1 \in i + 1 .. Len(text) + 1
    BY <1>0, <1>4
  <2>2. PICK c \in BOOLEAN : c = IF Char(i) = Quote THEN ~b ELSE b
    OBVIOUS
  <2>3. EstimateFrom(i, b, rest) = (IF b \/ Char(i) \notin Blanks THEN 1 ELSE 0) + rest[i + 1][c]
    BY <1>4, <2>2, EstimateStep
  <2>4. rest[i + 1][c] \in Nat
    BY <2>1
  <2> QED BY <2>3, <2>4
<1> QED BY <1>1, <1>2, <1>3, <1>4

LEMMA EstimateLocal ==
  ASSUME TextOK, NEW i \in 1 .. Len(text) + 1, NEW b \in BOOLEAN, NEW f, NEW g,
         \A j \in i + 1 .. Len(text) + 1 : f[j] = g[j]
  PROVE  EstimateFrom(i, b, f) = EstimateFrom(i, b, g)
<1>0. Len(text) \in Nat
  BY DEF TextOK
<1>1. CASE i = Len(text) + 1
  BY <1>1, EstimateStep
<1>2. CASE i # Len(text) + 1 /\ ~b /\ Comment(i, "/")
  <2>1. PICK j \in i + 1 .. Len(text) + 1 : j = Before(i, {"\n"})
    BY <1>2, LineComment
  <2>2. EstimateFrom(i, b, f) = f[j][b] /\ EstimateFrom(i, b, g) = g[j][b]
    BY <1>2, <2>1, EstimateStep
  <2> QED BY <2>2
<1>3. CASE i # Len(text) + 1 /\ ~b /\ Comment(i, "*")
  <2>1. PICK j \in i + 1 .. Len(text) + 1 : j = Opening(i)
    BY <1>3, OpeningIs
  <2>2. EstimateFrom(i, b, f) = f[j][b] /\ EstimateFrom(i, b, g) = g[j][b]
    BY <1>3, <2>1, EstimateStep
  <2> QED BY <2>2
<1>4. CASE i # Len(text) + 1 /\ (b \/ (~Comment(i, "/") /\ ~Comment(i, "*")))
  <2>1. f[i + 1] = g[i + 1]
    <3>1. i + 1 \in i + 1 .. Len(text) + 1
      BY <1>0, <1>4
    <3> QED BY <3>1
  <2>2. PICK c \in BOOLEAN : c = IF Char(i) = Quote THEN ~b ELSE b
    OBVIOUS
  <2>3. PICK d : d = IF b \/ Char(i) \notin Blanks THEN 1 ELSE 0
    OBVIOUS
  <2>4. EstimateFrom(i, b, f) = d + f[i + 1][c] /\ EstimateFrom(i, b, g) = d + g[i + 1][c]
    BY <1>4, <2>2, <2>3, EstimateStep
  <2> QED BY <2>1, <2>4
<1> QED BY <1>1, <1>2, <1>3, <1>4

Counting(est) ==
  \A i \in 1 .. Len(text) + 1 :
    est[i] \in [BOOLEAN -> Nat] /\ \A b \in BOOLEAN : est[i][b] = EstimateFrom(i, b, est)

LEMMA EstimateSolved ==
  ASSUME TextOK
  PROVE  \E est \in [1 .. Len(text) + 1 -> [BOOLEAN -> Nat]] :
           \A i \in 1 .. Len(text) + 1 : est[i] = [b \in BOOLEAN |-> EstimateFrom(i, b, est)]
<1> DEFINE n == Len(text) + 1
           V == [BOOLEAN -> Nat]
           F == [1 .. n -> V]
           step == [i \in 1 .. n |-> [f \in F |-> [b \in BOOLEAN |-> EstimateFrom(i, b, f)]]]
<1>1. n \in Nat \ {0}
  BY DEF TextOK
<1>2. V # {}
  <2>1. [b \in BOOLEAN |-> 0] \in V
    OBVIOUS
  <2> QED BY <2>1
<1>3. step \in [1 .. n -> [F -> V]]
  <2>1. ASSUME NEW i \in 1 .. n, NEW f \in F PROVE [b \in BOOLEAN |-> EstimateFrom(i, b, f)] \in V
    <3>1. \A j \in i + 1 .. Len(text) + 1 : f[j] \in [BOOLEAN -> Nat]
      BY <1>1
    <3>2. \A b \in BOOLEAN : EstimateFrom(i, b, f) \in Nat
      BY <3>1, EstimateTyped
    <3> QED BY <3>2
  <2> HIDE DEF F, n, V
  <2> QED BY <2>1
<1>4. ASSUME NEW i \in 1 .. n, NEW g \in F, NEW h \in F, \A j \in i + 1 .. n : g[j] = h[j]
      PROVE  step[i][g] = step[i][h]
  <2>1. \A b \in BOOLEAN : EstimateFrom(i, b, g) = EstimateFrom(i, b, h)
    BY <1>4, EstimateLocal
  <2> HIDE DEF F, n
  <2> QED BY <2>1
<1>5. Backward(n, V, step)
  <2> HIDE DEF step, n, V
  <2> QED BY <1>3, <1>4 DEF Backward
<1>6. Solvable(n, V, step)
  <2> HIDE DEF step, n, V
  <2> QED BY <1>1, <1>2, <1>5, Recursion
<1>7. PICK est \in F : \A i \in 1 .. n : est[i] = step[i][est]
  <2> HIDE DEF step, n, V
  <2> QED BY <1>6 DEF Solvable
<1>8. \A i \in 1 .. n : est[i] = [b \in BOOLEAN |-> EstimateFrom(i, b, est)]
  <2> HIDE DEF F, n
  <2> QED BY <1>7
<1> QED BY <1>8

LEMMA EstimateExists ==
  ASSUME TextOK
  PROVE  \E est : Counting(est) /\ EstimateBytecodeSize = est[1][FALSE]
<1> DEFINE n == Len(text) + 1
           G(f) == [i \in 1 .. n |-> [b \in BOOLEAN |-> EstimateFrom(i, b, f)]]
           rec == CHOOSE f : f = G(f)
<1>0. n \in Nat \ {0}
  BY DEF TextOK
<1>1. PICK est \in [1 .. n -> [BOOLEAN -> Nat]] :
        \A i \in 1 .. n : est[i] = [b \in BOOLEAN |-> EstimateFrom(i, b, est)]
  BY EstimateSolved
<1>2. rec = G(rec)
  <2>1. est = G(est)
    <3> HIDE DEF n
    <3> QED BY <1>1
  <2> HIDE DEF G
  <2> QED BY <2>1, Zenon
<1>3. EstimateBytecodeSize = rec[1][FALSE]
  BY Zenon DEF EstimateBytecodeSize
<1> HIDE DEF rec
<1>4. \A i \in 1 .. n : rec[i] = [b \in BOOLEAN |-> EstimateFrom(i, b, rec)]
  <2> HIDE DEF n
  <2>1. \A i \in 1 .. n : G(rec)[i] = [b \in BOOLEAN |-> EstimateFrom(i, b, rec)]
    OBVIOUS
  <2> HIDE DEF G
  <2> QED BY <1>2, <2>1
<1>5. \A i \in 1 .. n : rec[i] \in [BOOLEAN -> Nat]
  <2> DEFINE S == {k \in 1 .. n : rec[k] \in [BOOLEAN -> Nat]}
  <2>1. ASSUME NEW k \in 1 .. n, \A i \in k + 1 .. n : i \in S
        PROVE  k \in S
    <3>1. \A b \in BOOLEAN : EstimateFrom(k, b, rec) \in Nat
      BY <2>1, EstimateTyped
    <3> HIDE DEF n
    <3> QED BY <1>4, <3>1
  <2> HIDE DEF S
  <2>2. \A k \in 1 .. n : k \in S
    BY <1>0, <2>1, FromAbove
  <2> QED BY <2>2 DEF S
<1>6. Counting(rec)
  <2>1. ASSUME NEW i \in 1 .. n, NEW b \in BOOLEAN PROVE rec[i][b] = EstimateFrom(i, b, rec)
    <3> HIDE DEF n
    <3> QED BY <1>4
  <2> QED BY <1>5, <2>1 DEF Counting
<1> QED BY <1>3, <1>6

(* It counts one for every character that is not blank ...                 *)
LEMMA RunCounted ==
  ASSUME TextOK, NEW est, Counting(est), NEW i \in 1 .. Len(text) + 1, NEW to \in i .. Len(text) + 1,
         \A h \in i .. to - 1 :
           text[h] \notin Blanks /\ text[h] # Quote /\ ~Comment(h, "/") /\ ~Comment(h, "*")
  PROVE  est[i][FALSE] = to - i + est[to][FALSE]
<1>0. Len(text) \in Nat /\ i \in Nat \ {0} /\ to \in Nat /\ i \in 1 .. to /\ to \in 1 .. Len(text) + 1
  <2>1. Len(text) \in Nat
    BY DEF TextOK
  <2> QED BY <2>1
<1>1. \A k \in 1 .. Len(text) + 1 : est[k][FALSE] \in Nat
  BY DEF Counting
<1>11. PICK u \in Nat : u = est[to][FALSE]
  BY <1>0, <1>1
<1> DEFINE S == {k \in 1 .. to : k >= i => est[k][FALSE] = to - k + u}
<1>2. ASSUME NEW k \in 1 .. to, \A j \in k + 1 .. to : j \in S, k >= i
      PROVE  est[k][FALSE] = to - k + u
  <2>1. CASE k = to
    <3>1. to - k + u = u
      BY <1>0, <2>1
    <3> QED BY <1>11, <2>1, <3>1
  <2>2. CASE k # to
    <3>1. PICK m : m = k + 1
      OBVIOUS
    <3>2. k \in i .. to - 1 /\ k \in 1 .. Len(text) + 1 /\ k # Len(text) + 1 /\ k <= Len(text) /\ k \in Nat \ {0}
          /\ m \in k + 1 .. to /\ m >= i /\ m \in 1 .. Len(text) + 1
      BY <1>0, <1>2, <2>2, <3>1
    <3>3. Char(k) \notin Blanks /\ Char(k) # Quote /\ ~Comment(k, "/") /\ ~Comment(k, "*")
      BY <3>2, CharIs
    <3>4. EstimateFrom(k, FALSE, est) = 1 + est[m][FALSE]
      BY <3>1, <3>2, <3>3, EstimateStep
    <3>5. est[k][FALSE] = 1 + est[m][FALSE]
      BY <3>2, <3>4 DEF Counting
    <3>6. est[m][FALSE] = to - m + u
      BY <1>2, <3>2
    <3>7. 1 + (to - m + u) = to - k + u
      BY <1>0, <3>1
    <3> QED BY <3>5, <3>6, <3>7
  <2> QED BY <2>1, <2>2
<1>3. \A k \in 1 .. to : (\A j \in k + 1 .. to : j \in S) => k \in S
  BY <1>2
<1>4. \A k \in 1 .. to : k \in S
  <2> HIDE DEF S
  <2> QED BY <1>0, <1>3, FromAbove
<1>5. i \in S /\ i >= i
  <2> HIDE DEF S
  <2> QED BY <1>0, <1>4
<1> QED BY <1>5, <1>11

LEMMA Within ==
  ASSUME NEW a \in Int, NEW b \in Int, NEW S, S \subseteq a .. b
  PROVE  IsFiniteSet(S) /\ Cardinality(S) \in Nat
<1>1. IsFiniteSet(a .. b)
  BY FS_Interval
<1>2. IsFiniteSet(S)
  BY <1>1, FS_Subset
<1> QED BY <1>2, FS_CardinalityType

Below(S, T) == \E a, l, m, b \in Int : l < m /\ S \subseteq a .. l /\ T \subseteq m .. b

LEMMA Apart ==
  ASSUME NEW S, NEW T, Below(S, T)
  PROVE  /\ Cardinality(S) \in Nat /\ Cardinality(T) \in Nat
         /\ Cardinality(S \cup T) = Cardinality(S) + Cardinality(T)
<1>1. PICK a \in Int, l \in Int, m \in Int, b \in Int : l < m /\ S \subseteq a .. l /\ T \subseteq m .. b
  BY DEF Below
<1>2. IsFiniteSet(S) /\ Cardinality(S) \in Nat
  BY <1>1, Within
<1>3. IsFiniteSet(T) /\ Cardinality(T) \in Nat
  BY <1>1, Within
<1>4. S \cap T = {}
  BY <1>1
<1>5. Cardinality(S \cup T) = Cardinality(S) + Cardinality(T) - Cardinality(S \cap T)
  BY <1>2, <1>3, FS_Union
<1>6. Cardinality(S \cap T) = 0
  BY <1>4, FS_EmptySet
<1> QED BY <1>2, <1>3, <1>5, <1>6

Solid(i, to) == {h \in i .. to - 1 : text[h] \notin Blanks}

LEMMA SolidCounted ==
  ASSUME TextOK, NEW est, Counting(est), NEW i \in 1 .. Len(text) + 1, NEW to \in i .. Len(text) + 1,
         \A h \in i .. to - 1 : text[h] # Quote /\ text[h] # "/"
  PROVE  est[i][FALSE] = Cardinality(Solid(i, to)) + est[to][FALSE]
<1>0. Len(text) \in Nat /\ i \in Nat \ {0} /\ to \in Nat /\ i \in 1 .. to /\ to \in 1 .. Len(text) + 1
  <2>1. Len(text) \in Nat
    BY DEF TextOK
  <2> QED BY <2>1
<1>1. \A k \in 1 .. Len(text) + 1 : est[k][FALSE] \in Nat
  BY DEF Counting
<1>2. PICK u \in Nat : u = est[to][FALSE]
  BY <1>0, <1>1
<1> DEFINE S == {k \in 1 .. to : k >= i => est[k][FALSE] = Cardinality(Solid(k, to)) + u}
<1>3. ASSUME NEW k \in 1 .. to, \A j \in k + 1 .. to : j \in S, k >= i
      PROVE  est[k][FALSE] = Cardinality(Solid(k, to)) + u
  <2>1. CASE k = to
    <3>1. Solid(k, to) = {}
      BY <1>0, <2>1 DEF Solid
    <3>2. Cardinality(Solid(k, to)) = 0
      BY <3>1, FS_EmptySet
    <3>3. 0 + u = u
      OBVIOUS
    <3> QED BY <1>2, <2>1, <3>2, <3>3
  <2>2. CASE k # to
    <3>1. PICK m : m = k + 1
      OBVIOUS
    <3>2. k \in i .. to - 1 /\ k \in 1 .. Len(text) + 1 /\ k # Len(text) + 1 /\ k <= Len(text) /\ k \in Nat \ {0}
          /\ m \in k + 1 .. to /\ m >= i /\ m \in 1 .. Len(text) + 1
      BY <1>0, <1>3, <2>2, <3>1
    <3>3. Char(k) = text[k] /\ text[k] # Quote /\ text[k] # "/"
      BY <3>2, CharIs
    <3>4. ~Comment(k, "/") /\ ~Comment(k, "*")
      BY <3>3 DEF Comment
    <3>5. PICK one \in {0, 1} : one = IF text[k] \notin Blanks THEN 1 ELSE 0
      OBVIOUS
    <3>6. EstimateFrom(k, FALSE, est) = one + est[m][FALSE]
      BY <3>1, <3>2, <3>3, <3>4, <3>5, EstimateStep
    <3>7. est[k][FALSE] = one + est[m][FALSE]
      BY <3>2, <3>6 DEF Counting
    <3>8. PICK c : c = Cardinality(Solid(m, to))
      OBVIOUS
    <3>9. est[m][FALSE] = c + u
      BY <1>3, <3>2, <3>8
    <3>10. IsFiniteSet(Solid(m, to)) /\ c \in Nat
      <4>1. PICK last \in Int : last = to - 1
        BY <1>0
      <4>2. m \in Int /\ Solid(m, to) \subseteq m .. last
        BY <3>2, <4>1 DEF Solid
      <4> QED BY <3>8, <4>2, Within
    <3>11. Cardinality(Solid(k, to)) = one + c
      <4>1. CASE text[k] \notin Blanks
        <5>1. Solid(k, to) = Solid(m, to) \cup {k}
          BY <1>0, <3>1, <3>2, <4>1 DEF Solid
        <5>2. k \notin Solid(m, to)
          BY <1>0, <3>1, <3>2 DEF Solid
        <5>3. Cardinality(Solid(m, to) \cup {k}) = c + 1
          BY <3>8, <3>10, <5>2, FS_AddElement
        <5>4. one = 1 /\ c + 1 = 1 + c
          BY <3>5, <3>10, <4>1
        <5> QED BY <5>1, <5>3, <5>4
      <4>2. CASE text[k] \in Blanks
        <5>1. Solid(k, to) = Solid(m, to)
          BY <1>0, <3>1, <3>2, <4>2 DEF Solid
        <5>2. one = 0 /\ 0 + c = c
          BY <3>5, <3>10, <4>2
        <5> QED BY <3>8, <5>1, <5>2
      <4> QED BY <4>1, <4>2
    <3>12. one + (c + u) = (one + c) + u
      BY <3>10
    <3> QED BY <3>7, <3>9, <3>11, <3>12
  <2> QED BY <2>1, <2>2
<1>4. \A k \in 1 .. to : (\A j \in k + 1 .. to : j \in S) => k \in S
  BY <1>3
<1>5. \A k \in 1 .. to : k \in S
  <2> HIDE DEF S
  <2> QED BY <1>0, <1>4, FromAbove
<1>6. i \in S /\ i >= i
  <2> HIDE DEF S
  <2> QED BY <1>0, <1>5
<1> QED BY <1>2, <1>6

(* ... and all between two quotes.                                         *)
LEMMA QuotedCounted ==
  ASSUME TextOK, NEW est, Counting(est), NEW i \in 1 .. Len(text), NEW to \in i + 2 .. Len(text) + 1,
         text[i] = Quote, text[to - 1] = Quote, \A h \in i + 1 .. to - 2 : text[h] # Quote
  PROVE  est[i][FALSE] = to - i + est[to][FALSE]
<1>0. Len(text) \in Nat /\ i \in Nat \ {0} /\ to \in Nat
  <2>1. Len(text) \in Nat
    BY DEF TextOK
  <2> QED BY <2>1
<1>1. \A k \in 1 .. Len(text) + 1 : est[k][FALSE] \in Nat /\ est[k][TRUE] \in Nat
  BY DEF Counting
<1>2. PICK q : q = to - 1
  OBVIOUS
<1>3. q \in i + 1 .. Len(text) /\ q \in Nat /\ to = q + 1 /\ i + 1 \in 1 .. q
  BY <1>0, <1>2
<1>4. text[i] = Quote /\ text[q] = Quote
  BY <1>2
<1>5. ASSUME NEW h \in i + 1 .. q - 1 PROVE text[h] # Quote
  <2>1. h \in i + 1 .. to - 2
    BY <1>0, <1>2
  <2> QED BY <2>1
<1>13. PICK u \in Nat : u = est[to][FALSE]
  <2>1. to \in 1 .. Len(text) + 1
    BY <1>0
  <2> QED BY <1>1, <2>1
<1> DEFINE S == {k \in 1 .. q : k >= i + 1 => est[k][TRUE] = to - k + u}
<1>6. ASSUME NEW k \in 1 .. q, \A j \in k + 1 .. q : j \in S, k >= i + 1
      PROVE  est[k][TRUE] = to - k + u
  <2>1. PICK m : m = k + 1
    OBVIOUS
  <2>2. /\ k \in 1 .. Len(text) + 1 /\ k # Len(text) + 1 /\ k <= Len(text) /\ k \in Nat \ {0}
        /\ m \in 1 .. Len(text) + 1 /\ to \in 1 .. Len(text) + 1
    BY <1>0, <1>3, <2>1
  <2>3. Char(k) = text[k]
    BY <2>2, CharIs
  <2>4. est[k][TRUE] = EstimateFrom(k, TRUE, est)
    BY <2>2 DEF Counting
  <2>5. EstimateFrom(k, TRUE, est) = 1 + est[m][IF text[k] = Quote THEN FALSE ELSE TRUE]
    BY <2>1, <2>2, <2>3, EstimateStep
  <2>6. CASE k = q
    <3>1. m = to /\ to - k = 1
      BY <1>3, <2>1, <2>6
    <3>2. est[k][TRUE] = 1 + u
      BY <1>4, <1>13, <2>4, <2>5, <2>6, <3>1
    <3> QED BY <3>1, <3>2
  <2>7. CASE k # q
    <3>1. k \in i + 1 .. q - 1 /\ m \in k + 1 .. q /\ m >= i + 1
      BY <1>0, <1>3, <1>6, <2>1, <2>7
    <3>2. est[k][TRUE] = 1 + est[m][TRUE]
      BY <1>5, <2>4, <2>5, <3>1
    <3>3. est[m][TRUE] = to - m + u
      BY <1>6, <3>1
    <3>4. 1 + (to - m + u) = to - k + u
      BY <1>0, <1>3, <2>1
    <3> QED BY <3>2, <3>3, <3>4
  <2> QED BY <2>6, <2>7
<1>7. \A k \in 1 .. q : (\A j \in k + 1 .. q : j \in S) => k \in S
  BY <1>6
<1>8. \A k \in 1 .. q : k \in S
  <2> HIDE DEF S
  <2> QED BY <1>3, <1>7, FromAbove
<1>9. PICK m : m = i + 1
  OBVIOUS
<1>10. est[m][TRUE] = to - m + u
  <2>1. m \in S /\ m >= i + 1
    <3> HIDE DEF S
    <3> QED BY <1>0, <1>3, <1>8, <1>9
  <2> QED BY <2>1
<1>11. est[i][FALSE] = 1 + est[m][TRUE]
  <2>1. i \in 1 .. Len(text) + 1 /\ i # Len(text) + 1 /\ i <= Len(text)
    BY <1>0
  <2>2. Char(i) = Quote
    BY <1>0, <1>4, <2>1, CharIs
  <2>3. ~Comment(i, "/") /\ ~Comment(i, "*") /\ Char(i) \notin Blanks
    BY <2>2, QuoteFacts, BlankFacts DEF Comment
  <2>4. EstimateFrom(i, FALSE, est) = 1 + est[m][TRUE]
    BY <1>9, <2>1, <2>2, <2>3, EstimateStep
  <2> QED BY <2>1, <2>4 DEF Counting
<1>12. 1 + (to - m + u) = to - i + u
  BY <1>0, <1>9
<1> QED BY <1>10, <1>11, <1>12, <1>13

LEMMA StringCounted ==
  ASSUME TextOK, NEW est, Counting(est), NEW i \in 1 .. Len(text), NEW to \in i + 2 .. Len(text) + 1,
         IsString(i, to), \A h \in DOMAIN text : text[h] # "\\"
  PROVE  est[i][FALSE] = to - i + est[to][FALSE]
<1>0. Len(text) \in Nat
  BY DEF TextOK
<1>1. text[i] = Quote /\ text[to - 1] = Quote
  BY DEF IsString
<1>2. ASSUME NEW h \in i + 1 .. to - 2 PROVE text[h] # Quote
  <2>1. h \in i + 1 .. to - 1 /\ h # to - 1
    BY <1>0
  <2>2. ~Escaped(i, h)
    <3> SUFFICES ASSUME Escaped(i, h) PROVE FALSE
      OBVIOUS
    <3>1. PICK n \in 0 .. h - i - 1 : n % 2 = 1 /\ Every(h - n, h, {"\\"})
      BY DEF Escaped
    <3>2. n # 0
      BY <3>1
    <3>3. h - 1 \in h - n .. h - 1 /\ h - 1 \in 1 .. Len(text)
      BY <1>0, <3>1, <3>2
    <3>4. text[h - 1] = "\\"
      BY <3>1, <3>3 DEF Every
    <3> QED BY <3>3, <3>4 DEF TextOK
  <2> QED BY <2>1, <2>2 DEF IsString
<1> QED BY <1>1, <1>2, QuotedCounted

(* It counts nothing of what the lexer skips but line markers.             *)
LEMMA MarkerTextMore ==
  ASSUME NEW S, NEW T
  PROVE  MarkerText(S \cup T) = MarkerText(S) \cup MarkerText(T)
BY DEF MarkerText

LEMMA MarkerCounted ==
  ASSUME TextOK, NEW est, Counting(est), NEW i \in 1 .. Len(text), WellQuoted(i)
  PROVE  /\ MarkerText({i}) \subseteq i .. MarkerEnd(i) - 1
         /\ est[i][FALSE] = Cardinality(MarkerText({i})) + est[MarkerEnd(i)][FALSE]
<1>0. Len(text) \in Nat /\ i \in Nat /\ DOMAIN text = 1 .. Len(text)
  BY DEF TextOK
<1>1. PICK m \in i + 1 .. Len(text) + 1 : m = MarkerEnd(i)
  BY MarkerEndIs
<1>21. PICK q \in i .. m - 1 : \E r \in q + 1 .. m - 1 :
         \A h \in i .. m - 1 : (text[h] = Quote <=> h \in {q, r}) /\ (text[h] = "/" => q < h /\ h < r)
  BY <1>1 DEF WellQuoted
<1>2. PICK r \in q + 1 .. m - 1 :
         \A h \in i .. m - 1 : (text[h] = Quote <=> h \in {q, r}) /\ (text[h] = "/" => q < h /\ h < r)
  BY <1>21
<1>3. q \in Nat /\ r \in Nat /\ m \in Nat /\ i <= q /\ q < r /\ r < m /\ m <= Len(text) + 1 /\ 1 <= i
  BY <1>0, <1>1, <1>2
<1>4. text[q] = Quote /\ text[r] = Quote
  BY <1>2, <1>3
<1>5. PICK s : s = r + 1
  OBVIOUS
<1>6. PICK first, inner, last : first = Solid(i, q) /\ inner = q .. r /\ last = Solid(s, m)
  OBVIOUS
<1>7. first \subseteq i .. q - 1 /\ inner \subseteq q .. r /\ last \subseteq s .. m - 1
  BY <1>6 DEF Solid
<1>8. ASSUME NEW h PROVE h \in MarkerText({i}) <=> h \in (first \cup inner) \cup last
  <2>1. h \in MarkerText({i}) <=> h \in i .. m - 1 /\ (text[h] \notin Blanks \/ Quoted(i, h))
    BY <1>0, <1>1, <1>3 DEF MarkerText
  <2>2. CASE h \in i .. q - 1
    <3>1. ~Quoted(i, h)
      <4>1. \A g \in i .. h - 1 : g \in i .. m - 1 /\ g \notin {q, r}
        BY <1>3, <2>2
      <4> QED BY <1>2, <4>1 DEF Quoted
    <3>2. h \in i .. m - 1 /\ h \notin inner /\ h \notin last
      BY <1>3, <1>5, <1>7, <2>2
    <3> QED BY <1>6, <2>1, <2>2, <3>1, <3>2 DEF Solid
  <2>3. CASE h \in q .. r
    <3>1. h \in i .. m - 1 /\ h \in inner
      BY <1>3, <1>6, <2>3
    <3>2. CASE h \in {q, r}
      BY <1>4, <2>1, <3>1, <3>2, BlankFacts
    <3>3. CASE h \notin {q, r}
      <4>1. q \in i .. h - 1 /\ r \in h + 1 .. m - 1
        BY <1>3, <2>3, <3>3
      <4>2. Quoted(i, h)
        BY <1>1, <1>4, <4>1 DEF Quoted
      <4> QED BY <2>1, <3>1, <4>2
    <3> QED BY <3>2, <3>3
  <2>4. CASE h \in s .. m - 1
    <3>1. ~Quoted(i, h)
      <4>1. \A g \in h + 1 .. m - 1 : g \in i .. m - 1 /\ g \notin {q, r}
        BY <1>3, <1>5, <2>4
      <4> QED BY <1>1, <1>2, <4>1 DEF Quoted
    <3>2. h \in i .. m - 1 /\ h \notin inner /\ h \notin first
      BY <1>3, <1>5, <1>7, <2>4
    <3> QED BY <1>6, <2>1, <2>4, <3>1, <3>2 DEF Solid
  <2>5. CASE h \notin i .. m - 1
    <3>1. h \notin i .. q - 1 /\ h \notin q .. r /\ h \notin s .. m - 1
      BY <1>3, <1>5, <2>5
    <3> QED BY <1>7, <2>1, <2>5, <3>1
  <2>6. h \in i .. m - 1 => h \in i .. q - 1 \/ h \in q .. r \/ h \in s .. m - 1
    BY <1>3, <1>5
  <2> QED BY <2>2, <2>3, <2>4, <2>5, <2>6
<1>9. MarkerText({i}) = (first \cup inner) \cup last
  BY <1>8, Zenon
<1>10. PICK f, c, l : f = Cardinality(first) /\ c = Cardinality(inner) /\ l = Cardinality(last)
  OBVIOUS
<1>11. c = r - q + 1
  <2>1. Cardinality(q .. r) = r - q + 1
    BY <1>3, FS_Interval
  <2> QED BY <1>6, <1>10, <2>1
<1>12. f \in Nat /\ c \in Nat /\ Cardinality(first \cup inner) = f + c
  <2>1. PICK p \in Int : p = q - 1
    BY <1>3
  <2>2. i \in Int /\ q \in Int /\ r \in Int /\ p < q /\ first \subseteq i .. p /\ inner \subseteq q .. r
    BY <1>0, <1>3, <1>7, <2>1
  <2>3. Below(first, inner)
    BY ONLY <2>1, <2>2, Zenon DEF Below
  <2> QED BY <1>10, <2>3, Apart
<1>13. l \in Nat /\ Cardinality((first \cup inner) \cup last) = f + c + l
  <2>1. PICK e \in Int : e = m - 1
    BY <1>3
  <2>3. PICK both : both = first \cup inner
    OBVIOUS
  <2>2. both \subseteq i .. r /\ last \subseteq s .. e /\ s \in Int /\ i \in Int /\ r \in Int /\ r < s
    BY <1>0, <1>3, <1>5, <1>7, <2>1, <2>3
  <2>5. e \in Int
    BY <2>1
  <2>6. Below(both, last)
    BY ONLY <2>2, <2>5, Zenon DEF Below
  <2>4. Cardinality(last) \in Nat /\ Cardinality(both \cup last) = Cardinality(both) + Cardinality(last)
    BY <2>6, Apart
  <2> QED BY <1>10, <1>12, <2>3, <2>4
<1>14. PICK u \in Nat : u = est[m][FALSE]
  <2>1. m \in 1 .. Len(text) + 1
    BY <1>0, <1>3
  <2> QED BY <2>1 DEF Counting
<1>15. est[i][FALSE] = f + est[q][FALSE]
  <2>1. i \in 1 .. Len(text) + 1 /\ q \in i .. Len(text) + 1
    BY <1>0, <1>3
  <2>2. \A h \in i .. q - 1 : h \in i .. m - 1 /\ h \notin {q, r} /\ ~(q < h)
    BY <1>3
  <2>3. \A h \in i .. q - 1 : text[h] # Quote /\ text[h] # "/"
    BY <1>2, <2>2
  <2> QED BY <1>6, <1>10, <2>1, <2>3, SolidCounted
<1>16. est[q][FALSE] = c + est[s][FALSE]
  <2>1. q \in 1 .. Len(text) /\ s \in q + 2 .. Len(text) + 1 /\ s - 1 = r /\ s - q = r - q + 1
    BY <1>3, <1>5
  <2>2. \A h \in q + 1 .. s - 2 : h \in i .. m - 1 /\ h \notin {q, r}
    BY <1>3, <1>5
  <2>3. \A h \in q + 1 .. s - 2 : text[h] # Quote
    BY <1>2, <2>2
  <2>4. est[q][FALSE] = s - q + est[s][FALSE]
    BY <1>4, <2>1, <2>3, QuotedCounted
  <2> QED BY <1>11, <2>1, <2>4
<1>17. est[s][FALSE] = l + u
  <2>1. s \in 1 .. Len(text) + 1 /\ m \in s .. Len(text) + 1
    BY <1>0, <1>3, <1>5
  <2>2. \A h \in s .. m - 1 : h \in i .. m - 1 /\ h \notin {q, r} /\ ~(h < r)
    BY <1>3, <1>5
  <2>3. \A h \in s .. m - 1 : text[h] # Quote /\ text[h] # "/"
    BY <1>2, <2>2
  <2> QED BY <1>6, <1>10, <1>14, <2>1, <2>3, SolidCounted
<1>18. f + (c + (l + u)) = (f + c + l) + u
  BY <1>12, <1>13
<1>19. est[i][FALSE] = (f + c + l) + u
  BY <1>15, <1>16, <1>17, <1>18
<1>20. (first \cup inner) \cup last \subseteq i .. m - 1
  BY <1>3, <1>5, <1>7
<1> QED BY <1>1, <1>9, <1>13, <1>14, <1>19, <1>20

Regular(s) == s.errs = <<>> /\ \A m \in s.marks : WellQuoted(m)

Counts(est, i, s) ==
  /\ MarkerText(s.marks) \subseteq i .. s.at - 1
  /\ est[i][FALSE] = Cardinality(MarkerText(s.marks)) + est[s.at][FALSE]

LEMMA SkipCounted ==
  ASSUME TextOK, NEW est, Counting(est), NEW i \in 1 .. Len(text) + 1, Regular(Skip(i))
  PROVE  Counts(est, i, Skip(i))
<1> DEFINE n == Len(text) + 1
           rest == [j \in 1 .. n |-> Skip(j)]
           S == {k \in 1 .. n : Regular(Skip(k)) => Counts(est, k, Skip(k))}
<1>0. n \in Nat \ {0} /\ Len(text) \in Nat
  BY DEF TextOK
<1>1. \A j \in 1 .. n : rest[j] = Skip(j)
  OBVIOUS
<1> HIDE DEF rest
<1>2. \A j \in 1 .. n : Skip(j) = SkipFrom(j, rest)
  BY <1>1, SkipExists
<1>3. ASSUME NEW k \in 1 .. n, \A j \in k + 1 .. n : j \in S, Regular(Skip(k))
      PROVE  Counts(est, k, Skip(k))
  <2>0. est[k][FALSE] = EstimateFrom(k, FALSE, est)
    BY DEF Counting
  <2>1. ASSUME NEW m \in k + 1 .. n, Skip(k) = rest[m], est[k][FALSE] = est[m][FALSE]
        PROVE  Counts(est, k, Skip(k))
    <3>1. m \in 1 .. n /\ m \in Nat /\ k \in Nat /\ k < m
      BY <1>0
    <3>2. Counts(est, m, Skip(k))
      BY <1>1, <1>3, <2>1, <3>1
    <3>3. Skip(k).at \in m .. n
      BY <1>1, <2>1, <3>1, SkipGap DEF Settled
    <3> QED BY <2>1, <3>1, <3>2, <3>3 DEF Counts
  <2>7. CASE IsMarker(k)
    <3>1. PICK m : m = MarkerEnd(k)
      OBVIOUS
    <3>2. m \in k + 1 .. n /\ k \in 1 .. Len(text)
      BY <1>0, <2>7, <3>1, MarkerIs
    <3>3. m \in Nat /\ k \in Nat /\ k < m /\ m \in 1 .. n
      BY <1>0, <3>2
    <3>4. PICK s : s = Skip(m)
      OBVIOUS
    <3>5. Settled(m, s) /\ s \in Skipped
      BY <3>3, <3>4, SkipExists, SkipGap
    <3>6. Skip(k) = [s EXCEPT !.marks = @ \cup {k}]
      BY <1>1, <1>2, <2>7, <3>1, <3>3, <3>4, Zenon DEF SkipFrom
    <3>7. Skip(k).at = s.at /\ Skip(k).errs = s.errs /\ Skip(k).marks = s.marks \cup {k}
      BY <3>5, <3>6 DEF Skipped
    <3>8. WellQuoted(k) /\ Regular(s)
      BY <1>3, <3>7 DEF Regular
    <3>9. Counts(est, m, s)
      BY <1>3, <3>2, <3>4, <3>8
    <3>10. PICK own, later : own = MarkerText({k}) /\ later = MarkerText(s.marks)
      OBVIOUS
    <3>11. own \subseteq k .. m - 1 /\ est[k][FALSE] = Cardinality(own) + est[m][FALSE]
      BY <3>1, <3>2, <3>8, <3>10, MarkerCounted
    <3>12. PICK last \in Int : last = s.at - 1
      BY <3>5 DEF Skipped
    <3>13. later \subseteq m .. last /\ est[m][FALSE] = Cardinality(later) + est[s.at][FALSE]
      BY <3>9, <3>10, <3>12 DEF Counts
    <3>14. MarkerText(Skip(k).marks) = own \cup later
      BY <3>7, <3>10, MarkerTextMore
    <3>15. s.at \in m .. n /\ s.at \in 1 .. Len(text) + 1
      BY <3>5 DEF Settled, Skipped
    <3>16. own \cup later \subseteq k .. last
      BY <1>0, <3>3, <3>11, <3>12, <3>13, <3>15
    <3>17. /\ Cardinality(own) \in Nat /\ Cardinality(later) \in Nat
           /\ Cardinality(own \cup later) = Cardinality(own) + Cardinality(later)
      <4>1. PICK p \in Int : p = m - 1
        BY <3>3
      <4>2. k \in Int /\ m \in Int /\ last \in Int /\ p < m /\ own \subseteq k .. p /\ later \subseteq m .. last
        BY <3>3, <3>11, <3>13, <4>1
      <4>3. Below(own, later)
        BY ONLY <4>1, <4>2, Zenon DEF Below
      <4> QED BY <4>3, Apart
    <3>18. PICK a \in Nat, b \in Nat, u \in Nat :
             a = Cardinality(own) /\ b = Cardinality(later) /\ u = est[s.at][FALSE]
      BY <3>15, <3>17 DEF Counting
    <3>19. est[k][FALSE] = a + (b + u) /\ a + (b + u) = (a + b) + u
      <4>1. PICK v : v = est[m][FALSE]
        OBVIOUS
      <4>2. v = b + u /\ est[k][FALSE] = a + v
        BY <3>11, <3>13, <3>18, <4>1
      <4>3. a + (b + u) = (a + b) + u
        OBVIOUS
      <4> QED BY <4>2, <4>3
    <3>20. est[k][FALSE] = Cardinality(own \cup later) + est[s.at][FALSE]
      BY <3>17, <3>18, <3>19
    <3> QED BY <3>7, <3>12, <3>14, <3>16, <3>20 DEF Counts
  <2>2. CASE ~IsMarker(k) /\ Char(k) \in Blanks
    <3>1. k \in 1 .. Len(text)
      BY <1>0, <2>2, CharIs, BlankFacts
    <3>2. PICK m : m = k + 1
      OBVIOUS
    <3>3. m \in k + 1 .. n /\ k # Len(text) + 1 /\ m \in 1 .. n
      BY <1>0, <3>1, <3>2
    <3>4. ~Comment(k, "/") /\ ~Comment(k, "*") /\ Char(k) # Quote
      BY <2>2, BlankFacts DEF Comment
    <3>5. EstimateFrom(k, FALSE, est) = 0 + est[m][FALSE]
      BY <2>2, <3>2, <3>3, <3>4, EstimateStep
    <3>6. est[m][FALSE] \in Nat
      BY <3>3 DEF Counting
    <3>7. Skip(k) = rest[m]
      BY <1>2, <2>2, <3>2 DEF SkipFrom
    <3>8. est[k][FALSE] = est[m][FALSE]
      <4>1. PICK u \in Nat : u = est[m][FALSE]
        BY <3>6
      <4>2. 0 + u = u
        OBVIOUS
      <4> QED BY <2>0, <3>5, <4>1, <4>2
    <3> QED BY <2>1, <3>3, <3>7, <3>8
  <2>3. CASE ~IsMarker(k) /\ Char(k) \notin Blanks /\ Comment(k, "/")
    <3>1. PICK m : m = Before(k, {"\n"})
      OBVIOUS
    <3>2. m \in k + 1 .. n /\ k # Len(text) + 1
      BY <1>0, <2>3, <3>1, LineComment
    <3>3. Skip(k) = rest[m]
      BY <1>2, <2>3, <3>1 DEF SkipFrom
    <3>4. EstimateFrom(k, FALSE, est) = est[m][FALSE]
      BY <2>3, <3>1, <3>2, EstimateStep
    <3> QED BY <2>0, <2>1, <3>2, <3>3, <3>4
  <2>4. CASE ~IsMarker(k) /\ Char(k) \notin Blanks /\ ~Comment(k, "/") /\ Comment(k, "*") /\ Closings(k) # {}
    <3>1. PICK m : m = Min(Closings(k))
      OBVIOUS
    <3>2. m \in k + 1 .. n /\ k # Len(text) + 1
      BY <1>0, <2>4, <3>1, BlockComment
    <3>3. Skip(k) = rest[m]
      BY <1>2, <2>4, <3>1 DEF SkipFrom
    <3>4. EstimateFrom(k, FALSE, est) = est[m][FALSE]
      BY <2>4, <3>1, <3>2, EstimateStep DEF Opening
    <3> QED BY <2>0, <2>1, <3>2, <3>3, <3>4
  <2>5. CASE ~IsMarker(k) /\ Char(k) \notin Blanks /\ ~Comment(k, "/") /\ Comment(k, "*") /\ Closings(k) = {}
    <3>1. Skip(k) = [at |-> Len(text) + 1, errs |-> <<k>>, marks |-> {}]
      BY <1>2, <2>5 DEF SkipFrom
    <3>2. <<k>> # <<>>
      OBVIOUS
    <3> QED BY <1>3, <3>1, <3>2 DEF Regular
  <2>6. CASE ~IsMarker(k) /\ Char(k) \notin Blanks /\ ~Comment(k, "/") /\ ~Comment(k, "*")
    <3>1. Skip(k) = [at |-> k, errs |-> <<>>, marks |-> {}]
      BY <1>2, <2>6 DEF SkipFrom
    <3>2. MarkerText({}) = {} /\ Cardinality({}) = 0
      BY FS_EmptySet DEF MarkerText
    <3>3. PICK u \in Nat : u = est[k][FALSE]
      BY DEF Counting
    <3>4. 0 + u = u
      OBVIOUS
    <3>5. Skip(k).at = k /\ Skip(k).marks = {}
      BY <3>1
    <3> QED BY <3>2, <3>3, <3>4, <3>5 DEF Counts
  <2> QED BY <2>2, <2>3, <2>4, <2>5, <2>6, <2>7
<1>4. \A k \in 1 .. n : (\A j \in k + 1 .. n : j \in S) => k \in S
  BY <1>3
<1>5. \A k \in 1 .. n : k \in S
  <2> HIDE DEF S, n
  <2> QED BY <1>0, <1>4, FromAbove
<1> QED BY <1>5

LEMMA PlainCharacters ==
  ASSUME TextOK, NEW i \in 1 .. Len(text), NEW to \in i + 1 .. Len(text) + 1,
         NEW k \in {"ident", "keyword", "int", "float"}, Spells(k, i, to)
  PROVE  \A h \in i .. to - 1 : text[h] \notin Blanks /\ text[h] # Quote /\ text[h] # "/"
<1>0. Len(text) \in Nat /\ i \in Nat /\ to \in Nat /\ i < to
  <2>1. Len(text) \in Nat
    BY DEF TextOK
  <2> QED BY <2>1
<1>1. \A c \in Wordlike : c \notin Blanks /\ c # Quote /\ c # "/"
  <2>1. \A c \in Beginnings : c \notin Blanks /\ c # Quote /\ c # "/"
    BY LetterFacts, SingleFacts, Zenon
  <2> QED BY <2>1, DigitFacts, Zenon DEF Wordlike
<1>2. \A c \in HexDigits : c \notin Blanks /\ c # Quote /\ c # "/"
  BY HexFacts
<1>3. ("x" \notin Blanks /\ "." \notin Blanks /\ "e" \notin Blanks /\ "f" \notin Blanks
       /\ "+" \notin Blanks /\ "-" \notin Blanks) /\ ("x" # Quote /\ "." # Quote /\ "e" # Quote /\ "f" # Quote
       /\ "+" # Quote /\ "-" # Quote)
  BY Zenon DEF Blanks, Quote
<1>4. CASE k \in {"ident", "keyword"}
  <2>1. Every(i, to, Letters) \/ Every(i, to, Wordlike)
    BY <1>4, SpellsIs, KeywordPiece
  <2>2. Letters \subseteq Wordlike
    BY Zenon DEF Wordlike, Beginnings
  <2>3. \A h \in i .. to - 1 : text[h] \in Wordlike
    BY <2>1, <2>2 DEF Every
  <2> QED BY <1>1, <2>3
<1>5. CASE Every(i, to, Digits)
  <2>1. \A h \in i .. to - 1 : text[h] \in HexDigits
    BY <1>5, DigitFacts DEF Every
  <2> QED BY <1>2, <2>1
<1>6. CASE IsHex(i, to)
  <2>1. ASSUME NEW h \in i .. to - 1 PROVE text[h] \in HexDigits \/ text[h] = "x"
    <3>1. h = i \/ h = i + 1 \/ h \in i + 2 .. to - 1
      BY <1>0
    <3> QED BY <1>6, <3>1, DigitFacts DEF IsHex, Every
  <2> QED BY <1>2, <1>3, <2>1
<1>7. CASE IsDecimal(i, to)
  <2>1. PICK a \in Nat, b \in Nat, c \in Nat :
           /\ i <= a /\ a <= b /\ b <= c /\ c <= to
           /\ Every(i, a, Digits) /\ IsFraction(a, b) /\ IsExponent(b, c) /\ IsFloatSuffix(c, to)
    BY <1>0, <1>7, DecimalIs
  <2>2. ASSUME NEW h \in i .. to - 1
        PROVE  text[h] \in Digits \/ text[h] \in {".", "e", "f", "+", "-"}
    <3>1. CASE h < a
      <4>1. h \in i .. a - 1
        BY <1>0, <2>1, <3>1
      <4> QED BY <2>1, <4>1 DEF Every
    <3>2. CASE a <= h /\ h < b
      <4>1. h = a \/ h \in a + 1 .. b - 1
        BY <1>0, <2>1, <3>2
      <4>2. a < b
        BY <1>0, <2>1, <3>2
      <4> QED BY <2>1, <4>1, <4>2 DEF IsFraction, Every
    <3>3. CASE b <= h /\ h < c
      <4>1. h = b \/ h = b + 1 \/ h \in b + 2 .. c - 1
        BY <1>0, <2>1, <3>3
      <4>2. h = b \/ h \in b + 1 .. c - 1
        BY <1>0, <2>1, <3>3
      <4>3. b < c
        BY <1>0, <2>1, <3>3
      <4> QED BY <2>1, <4>1, <4>2, <4>3 DEF IsExponent, Every
    <3>4. CASE c <= h
      <4>1. to = c + 1 /\ h = c
        BY <1>0, <2>1, <3>4 DEF IsFloatSuffix
      <4> QED BY <1>0, <2>1, <4>1 DEF IsFloatSuffix
    <3>5. h \in Int
      BY <1>0
    <3> QED BY <2>1, <3>1, <3>2, <3>3, <3>4, <3>5
  <2> QED BY <1>3, <2>2, DigitFacts
<1> QED BY <1>4, <1>5, <1>6, <1>7, SpellsIs

LEMMA TokenCounted ==
  ASSUME TextOK, NEW est, Counting(est), \A h \in DOMAIN text : text[h] # "\\",
         NEW i \in 1 .. Len(text), NEW to \in i + 1 .. Len(text) + 1,
         NEW k \in Kinds, Spells(k, i, to), ~Comment(i, "/"), ~Comment(i, "*")
  PROVE  est[i][FALSE] = to - i + est[to][FALSE]
<1>0. Len(text) \in Nat /\ i \in Nat \ {0} /\ to \in i .. Len(text) + 1 /\ i \in 1 .. Len(text) + 1
  <2>1. Len(text) \in Nat
    BY DEF TextOK
  <2> QED BY <2>1
<1>1. ASSUME \A h \in i .. to - 1 : text[h] \notin Blanks /\ text[h] # Quote /\ (h # i => text[h] # "/")
      PROVE  est[i][FALSE] = to - i + est[to][FALSE]
  <2>1. ASSUME NEW h \in i .. to - 1 PROVE ~Comment(h, "/") /\ ~Comment(h, "*")
    <3>1. CASE h = i
      BY <3>1
    <3>2. CASE h # i
      <4>1. h \in Nat \ {0} /\ h <= Len(text)
        BY <1>0
      <4>2. Char(h) # "/"
        BY <1>1, <3>2, <4>1, CharIs
      <4> QED BY <4>2 DEF Comment
    <3> QED BY <3>1, <3>2
  <2> QED BY <1>0, <1>1, <2>1, RunCounted
<1>2. CASE k \in {"ident", "keyword", "int", "float"}
  BY <1>1, <1>2, PlainCharacters
<1>3. CASE k = "string"
  <2>1. IsString(i, to)
    BY <1>3, SpellsIs
  <2>2. to \in i + 2 .. Len(text) + 1
    BY <1>0, <2>1 DEF IsString
  <2> QED BY <2>1, <2>2, StringCounted
<1>4. CASE k = "op"
  <2>1. text[i] \in Singles
    BY <1>4, FirstCharacter
  <2>2. text[i] \notin Blanks /\ text[i] # Quote
    BY <2>1, SingleFacts
  <2>3. ASSUME NEW h \in i .. to - 1, h # i PROVE text[h] \notin Blanks /\ text[h] # Quote /\ text[h] # "/"
    <3>1. to = i + 2 /\ SubSeq(text, i, i + 1) \in TwoLong
      <4>1. to # i + 1
        BY <1>0, <2>3
      <4> QED BY <1>4, <4>1, SpellsIs
    <3>2. PICK x \in Singles, y \in Singles : SubSeq(text, i, i + 1) = <<x, y>> /\ y # "/"
      BY <3>1, DoubleFacts
    <3>3. h = i + 1 /\ to - 1 = i + 1 /\ h - i + 1 = 2 /\ h \in i .. to - 1
      BY <1>0, <2>3, <3>1
    <3>4. SubSeq(text, i, to - 1)[h - i + 1] = text[h]
      BY <1>0, <3>3, Piece
    <3>5. text[h] = y
      <4>1. SubSeq(text, i, to - 1) = <<x, y>> /\ <<x, y>>[2] = y
        BY <3>2, <3>3
      <4> QED BY <3>3, <3>4, <4>1
    <3> QED BY <3>2, <3>5, SingleFacts
  <2>4. \A h \in i .. to - 1 : text[h] \notin Blanks /\ text[h] # Quote /\ (h # i => text[h] # "/")
    BY <2>2, <2>3
  <2> QED BY <1>1, <2>4
<1> QED BY <1>2, <1>3, <1>4 DEF Kinds

(* The invariant: what has been counted up to off are the characters of    *)
(* the tokens and line markers so far.                                     *)
Plain ==
  /\ errs = <<>> /\ \A h \in DOMAIN text : text[h] # "\\"
  /\ \A m \in markers : WellQuoted(m)

Sizes(covered, marked) == Cardinality(covered) + Cardinality(marked) + Mark

Balanced(est) ==
  /\ phase = "lex" => est[1][FALSE] = Sizes(Covered, MarkerText(markers)) + est[off][FALSE]
  /\ phase = "done" => est[1][FALSE] = Sizes(Covered, MarkerText(markers))

Balance ==
  /\ Covered \subseteq 1 .. off - 1
  /\ Plain => /\ MarkerText(markers) \subseteq 1 .. off - 1
              /\ \A est : Counting(est) => Balanced(est)

LEMMA CountingKept ==
  ASSUME text' = text, NEW est
  PROVE  Counting(est)' <=> Counting(est)
<1>1. \A i, b : EstimateFrom(i, b, est)' = EstimateFrom(i, b, est)
  BY DEF EstimateFrom, Opens, Comment, Char, Before, Closings
<1> QED BY <1>1 DEF Counting

LEMMA MarkersKept ==
  ASSUME text' = text
  PROVE  /\ \A S : MarkerText(S)' = MarkerText(S)
         /\ \A i : WellQuoted(i)' <=> WellQuoted(i)
         /\ Mark' = Mark
<1>1. \A i : MarkerEnd(i)' = MarkerEnd(i)
  BY DEF MarkerEnd, Before, Char
<1>2. \A i, h : Quoted(i, h)' <=> Quoted(i, h)
  BY <1>1 DEF Quoted
<1> QED BY <1>1, <1>2 DEF MarkerText, WellQuoted, Mark, Char

LEMMA NothingCovered ==
  ASSUME TextOK, off \in 1 .. Len(text) + 1, Covered \subseteq 1 .. off - 1
  PROVE  IsFiniteSet(Covered) /\ Cardinality(Covered) \in Nat
<1>1. off - 1 \in Int /\ 1 \in Int
  BY DEF TextOK
<1>2. IsFiniteSet(1 .. off - 1)
  BY <1>1, FS_Interval
<1>3. IsFiniteSet(Covered)
  BY <1>2, FS_Subset
<1> QED BY <1>3, FS_CardinalityType

LEMMA CoveredMore ==
  ASSUME Inv, NEW token, tokens' = Append(tokens, token), text' = text,
         NEW i \in 1 .. Len(text), NEW to \in i + 1 .. Len(text) + 1, token.from = i, token.to = to,
         Covered \subseteq 1 .. i - 1
  PROVE  /\ Covered' \subseteq 1 .. to - 1
         /\ Cardinality(Covered') = Cardinality(Covered) + (to - i)
         /\ Cardinality(Covered) \in Nat
<1>0. Len(text) \in Nat /\ DOMAIN text = 1 .. Len(text) /\ i \in Nat /\ to \in Nat /\ i < to /\ to <= Len(text) + 1
  <2>1. Len(text) \in Nat /\ DOMAIN text = 1 .. Len(text)
    BY DEF Inv, TextOK
  <2> QED BY <2>1
<1>1. /\ DOMAIN tokens = 1 .. Len(tokens) /\ DOMAIN tokens' = 1 .. Len(tokens) + 1 /\ Len(tokens) \in Nat
      /\ \A n \in 1 .. Len(tokens) : tokens'[n] = tokens[n]
      /\ tokens'[Len(tokens) + 1] = token
  <2>1. IsSequence(tokens)
    BY DEF Inv
  <2>2. PICK s : s = tokens
    OBVIOUS
  <2> QED BY <2>1, <2>2, Appended
<1>2. ASSUME NEW x \in Covered' PROVE x \in Covered \/ x \in i .. to - 1
  <2>1. x \in DOMAIN text
    BY <1>2 DEF Covered
  <2>2. PICK n \in DOMAIN tokens' : tokens'[n].from <= x /\ x < tokens'[n].to
    BY <1>2 DEF Covered
  <2>3. CASE n \in 1 .. Len(tokens)
    BY <1>1, <2>1, <2>2, <2>3 DEF Covered
  <2>4. CASE n \notin 1 .. Len(tokens)
    <3>1. n = Len(tokens) + 1
      BY <1>1, <2>4
    <3>2. i <= x /\ x < to
      BY <1>1, <2>2, <3>1
    <3> QED BY <1>0, <2>1, <3>2
  <2> QED BY <2>3, <2>4
<1>3. ASSUME NEW x \in Covered PROVE x \in Covered'
  <2>1. PICK n \in DOMAIN tokens : tokens[n].from <= x /\ x < tokens[n].to
    BY DEF Covered
  <2>2. n \in DOMAIN tokens' /\ tokens'[n] = tokens[n]
    BY <1>1, <2>1
  <2>3. x \in DOMAIN text'
    BY DEF Covered
  <2> QED BY <2>1, <2>2, <2>3 DEF Covered
<1>4. ASSUME NEW x \in i .. to - 1 PROVE x \in Covered'
  <2>1. x \in DOMAIN text' /\ token.from <= x /\ x < token.to
    BY <1>0
  <2>2. PICK n : n = Len(tokens) + 1
    OBVIOUS
  <2>3. n \in DOMAIN tokens' /\ tokens'[n] = token
    BY <1>1, <2>2
  <2> QED BY <2>1, <2>3 DEF Covered
<1>5. PICK before, after, own : before = Covered /\ after = Covered' /\ own = i .. to - 1
  OBVIOUS
<1>6. after = before \cup own /\ before \cap own = {} /\ after \subseteq 1 .. to - 1
  <2>1. \A x : x \in after <=> x \in before \/ x \in own
    BY <1>2, <1>3, <1>4, <1>5
  <2>2. before \subseteq 1 .. i - 1
    BY <1>5
  <2>3. own = i .. to - 1
    BY <1>5
  <2>4. before \cap own = {}
    BY <1>0, <2>2, <2>3
  <2>5. ASSUME NEW x \in after PROVE x \in 1 .. to - 1
    <3>1. x \in 1 .. i - 1 \/ x \in i .. to - 1
      BY <2>1, <2>2, <2>3
    <3>2. i \in Nat /\ to \in Nat /\ i < to /\ 1 <= i
      BY <1>0
    <3> QED BY ONLY <3>1, <3>2
  <2>6. after = before \cup own
    BY ONLY <2>1, Zenon
  <2> QED BY <2>4, <2>5, <2>6
<1>7. IsFiniteSet(own) /\ Cardinality(own) = to - i
  <2>1. PICK last : last = to - 1
    OBVIOUS
  <2>2. last \in Int /\ i \in Int /\ own = i .. last /\ ~(i > last) /\ last - i + 1 = to - i
    BY <1>0, <1>5, <2>1
  <2> QED BY <2>2, FS_Interval
<1>8. IsFiniteSet(before)
  <2>1. PICK last \in Int : last = i - 1
    BY <1>0
  <2>2. IsFiniteSet(1 .. last)
    BY <2>1, FS_Interval
  <2> QED BY <1>5, <2>1, <2>2, FS_Subset
<1>9. Cardinality(before \cup own) = Cardinality(before) + Cardinality(own) - Cardinality(before \cap own)
  BY <1>7, <1>8, FS_Union
<1>10. Cardinality(before) \in Nat /\ Cardinality(before \cap own) = 0
  <2>1. Cardinality(before) \in Nat
    BY <1>8, FS_CardinalityType
  <2>2. Cardinality(before \cap own) = 0
    BY <1>6, FS_EmptySet
  <2> QED BY <2>1, <2>2
<1>11. Cardinality(after) = Cardinality(before) + (to - i)
  BY <1>0, <1>6, <1>7, <1>9, <1>10
<1> QED BY <1>5, <1>6, <1>10, <1>11

(* What lexer_next skips before a token is counted as it is marked.        *)
Marked == MarkerText(markers \cup Skip(off).marks)

LEMMA SkipBalance ==
  ASSUME Inv, Balance, phase = "lex", Plain, Regular(Skip(off)), NEW est, Counting(est)
  PROVE  /\ Marked \subseteq 1 .. Here - 1 /\ Cardinality(Marked) \in Nat
         /\ est[1][FALSE] = Sizes(Covered, Marked) + est[Here][FALSE]
<1>1. TextOK /\ off \in 1 .. Len(text) + 1 /\ Len(text) \in Nat /\ Settled(off, Skip(off))
  BY SkipGap DEF Inv, TextOK
<1>2. PICK i : i = Here
  OBVIOUS
<1>3. i = Skip(off).at /\ i \in off .. Len(text) + 1
  BY <1>1, <1>2 DEF Here, Settled
<1>4. PICK own, later : own = MarkerText(markers) /\ later = MarkerText(Skip(off).marks)
  OBVIOUS
<1>5. own \subseteq 1 .. off - 1 /\ est[1][FALSE] = Sizes(Covered, own) + est[off][FALSE]
  BY <1>4 DEF Balance, Balanced
<1>6. later \subseteq off .. i - 1 /\ est[off][FALSE] = Cardinality(later) + est[i][FALSE]
  <2>1. Counts(est, off, Skip(off))
    BY <1>1, SkipCounted
  <2> QED BY <1>3, <1>4, <2>1 DEF Counts
<1>7. Marked = own \cup later
  BY <1>4, MarkerTextMore DEF Marked
<1>8. PICK p \in Int, q \in Int : p = off - 1 /\ q = i - 1
  BY <1>1, <1>3
<1>9. 1 \in Int /\ off \in Int /\ p < off /\ own \subseteq 1 .. p /\ later \subseteq off .. q
  BY <1>1, <1>5, <1>6, <1>8
<1>10. Below(own, later)
  BY ONLY <1>8, <1>9, Zenon DEF Below
<1>11. PICK a \in Nat, b \in Nat : a = Cardinality(own) /\ b = Cardinality(later) /\ Cardinality(Marked) = a + b
  BY <1>7, <1>10, Apart
<1>12. PICK c \in Nat : c = Cardinality(Covered)
  BY <1>1, NothingCovered DEF Balance
<1>13. PICK m \in {0, 1} : m = Mark
  BY DEF Mark
<1>14. PICK u \in Nat : u = est[i][FALSE]
  <2>1. i \in 1 .. Len(text) + 1
    BY <1>1, <1>3
  <2> QED BY <2>1 DEF Counting
<1>15. est[off][FALSE] = b + u
  BY <1>6, <1>11, <1>14
<1>16. est[1][FALSE] = (c + a + m) + (b + u)
  BY <1>5, <1>11, <1>12, <1>13, <1>15 DEF Sizes
<1>17. (c + a + m) + (b + u) = (c + (a + b) + m) + u
  OBVIOUS
<1>18. Sizes(Covered, Marked) = c + (a + b) + m
  BY <1>11, <1>12, <1>13 DEF Sizes
<1>19. own \cup later \subseteq 1 .. i - 1
  BY <1>1, <1>3, <1>5, <1>6
<1>20. Marked \subseteq 1 .. i - 1 /\ Cardinality(Marked) \in Nat
  BY <1>7, <1>11, <1>19
<1>21. est[1][FALSE] = Sizes(Covered, Marked) + est[i][FALSE]
  BY <1>14, <1>16, <1>17, <1>18
<1> QED BY <1>2, <1>20, <1>21

LEMMA BalanceInit == Init /\ Inv => Balance
<1> SUFFICES ASSUME Init, Inv PROVE Balance
  OBVIOUS
<1>1. /\ tokens = <<>> /\ phase = "lex" /\ off = (IF Char(1) = "BOM" THEN 2 ELSE 1) /\ TextOK
      /\ Len(text) \in Nat /\ markers = {}
  BY DEF Init, Inv, TextOK
<1>2. Covered = {}
  BY <1>1 DEF Covered
<1>3. MarkerText(markers) = {} /\ Sizes(Covered, MarkerText(markers)) = 0 + 0 + Mark
  <2>1. MarkerText(markers) = {}
    BY <1>1 DEF MarkerText
  <2> QED BY <1>2, <2>1, FS_EmptySet DEF Sizes
<1>4. ASSUME NEW est, Counting(est) PROVE Balanced(est)
  <2>1. \A k \in 1 .. Len(text) + 1 : est[k][FALSE] \in Nat
    BY <1>4 DEF Counting
  <2>2. CASE Char(1) # "BOM"
    <3>1. PICK u \in Nat : u = est[1][FALSE]
      <4>1. 1 \in 1 .. Len(text) + 1
        BY <1>1
      <4> QED BY <2>1, <4>1
    <3>2. off = 1 /\ Mark = 0 /\ 0 + 0 + 0 + u = u
      BY <1>1, <2>2 DEF Mark
    <3> QED BY <1>1, <1>3, <3>1, <3>2 DEF Balanced
  <2>3. CASE Char(1) = "BOM"
    <3>1. 1 \in 1 .. Len(text) + 1 /\ 1 # Len(text) + 1 /\ 2 \in 1 .. Len(text) + 1
      <4>1. 1 \in 1 .. Len(text)
        BY <1>1, <2>3, CharIs
      <4> QED BY <1>1, <4>1
    <3>2. "BOM" \notin Blanks /\ "BOM" # Quote /\ "BOM" # "/"
      BY Zenon DEF Blanks, Quote
    <3>3. ~Comment(1, "/") /\ ~Comment(1, "*")
      BY <2>3, <3>2 DEF Comment
    <3>4. PICK i : i = 1
      OBVIOUS
    <3>5. EstimateFrom(i, FALSE, est) = 1 + est[i + 1][FALSE]
      BY <1>1, <2>3, <3>1, <3>2, <3>3, <3>4, EstimateStep
    <3>6. est[1][FALSE] = 1 + est[2][FALSE]
      <4>1. est[i][FALSE] = EstimateFrom(i, FALSE, est)
        BY <1>4, <3>1, <3>4 DEF Counting
      <4>2. i + 1 = 2
        BY <3>4
      <4> QED BY <3>4, <3>5, <4>1, <4>2
    <3>7. PICK u \in Nat : u = est[2][FALSE]
      BY <2>1, <3>1
    <3>8. off = 2 /\ Mark = 1 /\ 0 + 0 + 1 + u = 1 + u
      BY <1>1, <2>3 DEF Mark
    <3> QED BY <1>1, <1>3, <3>6, <3>7, <3>8 DEF Balanced
  <2> QED BY <2>2, <2>3
<1>5. {} \subseteq 1 .. off - 1
  OBVIOUS
<1> QED BY <1>2, <1>3, <1>4, <1>5 DEF Balance

(* The token that is cut was still to be counted, and no more than it.     *)
LEMMA TokenBalance ==
  ASSUME Inv, Inv', Balance, phase = "lex", Char(Here) # "eof",
         NEW k \in Kinds, NEW to, NEW value, NEW more \in Seq(Nat), Token(k, to, value, more)
  PROVE  Balance'
<1>1. /\ Here \in off .. Len(text) /\ Here \in 1 .. Len(text) /\ Skip(off).errs = <<>>
      /\ TextOK /\ off \in 1 .. Len(text) + 1 /\ Len(text) \in Nat /\ Settled(off, Skip(off))
  BY AtToken, SkipGap DEF Inv, TextOK
<1>2. PICK i : i = Here
  OBVIOUS
<1>3. PICK token : token = [k |-> k, from |-> i, to |-> to, value |-> value]
  OBVIOUS
<1>4. /\ tokens' = Append(tokens, token) /\ off' = to /\ text' = text /\ phase' = "lex"
      /\ errs' = errs \o Skip(off).errs \o more /\ markers' = markers \cup Skip(off).marks
  BY <1>2, <1>3 DEF Token
<1>5. token.from = i /\ token.to = to /\ token.k = k
  BY <1>3
<1>6. to \in i + 1 .. Len(text) + 1 /\ (errs' = <<>> => Spells(k, i, to))
  <2>1. DOMAIN tokens' = 1 .. Len(tokens) + 1 /\ tokens'[Len(tokens) + 1] = token /\ Len(tokens) \in Nat
    <3>1. IsSequence(tokens)
      BY DEF Inv
    <3>2. PICK s : s = tokens
      OBVIOUS
    <3> QED BY <1>4, <3>1, <3>2, Appended
  <2>2. PICK n : n = Len(tokens) + 1
    OBVIOUS
  <2>3. n \in DOMAIN tokens' /\ tokens'[n] = token
    BY <2>1, <2>2
  <2>4. IsToken(tokens[n], End(n - 1))'
    BY <2>3 DEF Inv
  <2>5. /\ tokens'[n].to \in tokens'[n].from + 1 .. Len(text') + 1
        /\ \/ tokens'[n].from \in ToSet(errs')
           \/ Spells(tokens[n].k, tokens[n].from, tokens[n].to)'
    BY <2>4 DEF IsToken
  <2>6. errs' = <<>> => ToSet(errs') = {}
    BY DEF ToSet
  <2>7. \A l, g, j : Spells(l, g, j)' <=> Spells(l, g, j)
    BY <1>4 DEF Spells, Every, IsHex, IsDecimal, IsFraction, IsExponent, IsFloatSuffix, IsString, Escaped
  <2> QED BY <1>4, <1>5, <2>3, <2>5, <2>6, <2>7
<1>7. Covered \subseteq 1 .. i - 1
  BY <1>1, <1>2 DEF Balance
<1>8. /\ Covered' \subseteq 1 .. to - 1 /\ Cardinality(Covered) \in Nat
      /\ Cardinality(Covered') = Cardinality(Covered) + (to - i)
  BY <1>1, <1>2, <1>4, <1>5, <1>6, <1>7, CoveredMore
<1>10. (\A h \in markers' : WellQuoted(h)') => \A h \in markers \cup Skip(off).marks : WellQuoted(h)
  BY <1>4, MarkersKept
<1>11. Marked = MarkerText(markers)' /\ Mark' = Mark
  BY <1>4, MarkersKept DEF Marked
<1>12. ASSUME Plain' PROVE Plain /\ Regular(Skip(off)) /\ errs' = <<>> /\ \A h \in DOMAIN text : text[h] # "\\"
  <2>1. errs' = <<>> /\ (\A h \in DOMAIN text : text[h] # "\\") /\ \A h \in markers' : WellQuoted(h)'
    BY <1>4, <1>12 DEF Plain
  <2>2. errs = <<>>
    <3>1. errs \in Seq(Nat) /\ errs' = errs \o more
      BY <1>1, <1>4 DEF Inv
    <3>2. PICK a \in Nat, b \in Nat : a = Len(errs) /\ b = Len(more)
      BY <3>1
    <3>3. a + b = 0
      <4>1. Len(errs \o more) = a + b
        BY <3>1, <3>2
      <4>2. errs \o more = <<>> /\ Len(<<>>) = 0
        BY <2>1, <3>1
      <4> QED BY <4>1, <4>2
    <3>4. Len(errs) = 0
      BY ONLY <3>2, <3>3, a \in Nat, b \in Nat
    <3> QED BY <3>1, <3>4
  <2> QED BY <1>1, <1>10, <2>1, <2>2 DEF Plain, Regular
<1>9. ASSUME Plain', NEW est, Counting(est)'
      PROVE  MarkerText(markers)' \subseteq 1 .. off' - 1 /\ Balanced(est)'
  <2>1. Plain /\ Regular(Skip(off)) /\ errs' = <<>> /\ \A h \in DOMAIN text : text[h] # "\\"
    BY <1>9, <1>12
  <2>2. Counting(est)
    BY <1>4, <1>9, CountingKept
  <2>3. /\ Marked \subseteq 1 .. i - 1 /\ Cardinality(Marked) \in Nat
        /\ est[1][FALSE] = Sizes(Covered, Marked) + est[i][FALSE]
    BY <1>2, <2>1, <2>2, SkipBalance
  <2>4. ~Comment(i, "/") /\ ~Comment(i, "*")
    BY <1>1, <1>2 DEF Settled, Here
  <2>5. est[i][FALSE] = to - i + est[to][FALSE]
    BY <1>1, <1>2, <1>6, <2>1, <2>2, <2>4, TokenCounted
  <2>6. PICK c \in Nat, d \in Nat, u \in Nat, l \in Int :
           c = Cardinality(Covered) /\ d = Cardinality(Marked) /\ u = est[to][FALSE] /\ l = to - i
    <3>1. to \in 1 .. Len(text) + 1 /\ to - i \in Int
      BY <1>1, <1>2, <1>6
    <3>2. est[to][FALSE] \in Nat
      BY <2>2, <3>1 DEF Counting
    <3> QED BY <1>8, <2>3, <3>1, <3>2
  <2>7. PICK m \in {0, 1} : m = Mark
    BY DEF Mark
  <2>8. est[1][FALSE] = (c + d + m) + (l + u)
    BY <2>3, <2>5, <2>6, <2>7 DEF Sizes
  <2>9. (c + d + m) + (l + u) = ((c + l) + d + m) + u
    OBVIOUS
  <2>10. Sizes(Covered, MarkerText(markers))' = (c + l) + d + m
    BY <1>8, <1>11, <2>6, <2>7 DEF Sizes
  <2>11. est[1][FALSE] = Sizes(Covered, MarkerText(markers))' + est[off'][FALSE]
    BY <1>4, <2>6, <2>8, <2>9, <2>10
  <2>12. MarkerText(markers)' \subseteq 1 .. off' - 1
    <3>1. i \in Nat /\ to \in Nat /\ i < to /\ off' = to
      BY <1>1, <1>2, <1>4, <1>6
    <3>2. Marked \subseteq 1 .. to - 1
      BY <2>3, <3>1
    <3> QED BY <1>11, <3>1, <3>2
  <2> QED BY <1>4, <2>11, <2>12 DEF Balanced
<1>13. \E est : Counting(est)'
  <2>1. PICK est : Counting(est)
    BY <1>1, EstimateExists
  <2> QED BY <1>4, <2>1, CountingKept
<1> QED BY <1>4, <1>8, <1>9, <1>13 DEF Balance

LEMMA StrayBalance == Inv /\ Inv' /\ Balance /\ LexStray => Balance'
<1> SUFFICES ASSUME Inv, Inv', Balance, LexStray PROVE Balance'
  OBVIOUS
<1>1. PICK i : i = Here
  OBVIOUS
<1>2. phase = "lex" /\ Char(i) # "eof" /\ off' = i + 1 /\ errs' = errs \o Skip(off).errs \o <<i>>
      /\ text' = text /\ tokens' = tokens
  BY <1>1, Zenon DEF LexStray
<1>3. i \in off .. Len(text) /\ i \in Nat /\ Skip(off).errs = <<>> /\ errs \in Seq(Nat) /\ off \in Int
  BY <1>1, <1>2, AtToken DEF Inv
<1>4. Covered' = Covered /\ Covered \subseteq 1 .. off - 1
  BY <1>2 DEF Covered, Balance
<1>5. Covered' \subseteq 1 .. off' - 1
  BY <1>2, <1>3, <1>4
<1>6. errs' # <<>>
  <2>1. errs' = errs \o <<i>> /\ errs \in Seq(Nat) /\ <<i>> \in Seq(Nat)
    BY <1>2, <1>3
  <2>2. Len(errs') = Len(errs) + 1 /\ Len(errs) \in Nat
    BY <2>1
  <2> QED BY <2>2
<1> QED BY <1>5, <1>6 DEF Balance, Plain

LEMMA EofBalance == Inv /\ Inv' /\ Balance /\ LexEof => Balance'
<1> SUFFICES ASSUME Inv, Inv', Balance, LexEof PROVE Balance'
  OBVIOUS
<1>1. PICK i : i = Here
  OBVIOUS
<1>2. PICK more : more = Skip(off).errs
  OBVIOUS
<1>3. phase = "lex" /\ phase' = "done" /\ Char(i) = "eof" /\ off' = i /\ errs' = errs \o more
      /\ text' = text /\ tokens' = tokens /\ markers' = markers \cup Skip(off).marks
  BY <1>1, <1>2, Zenon DEF LexEof
<1>4. TextOK /\ off \in 1 .. Len(text) + 1 /\ Len(text) \in Nat /\ errs \in Seq(Nat)
  BY DEF Inv, TextOK
<1>5. Settled(off, Skip(off)) /\ more \in Seq(Nat) /\ i = Skip(off).at
  BY <1>1, <1>2, <1>4, SkipGap DEF Here
<1>6. i \in off .. Len(text) + 1
  BY <1>5 DEF Settled
<1>7. i = Len(text) + 1
  BY <1>3, <1>4, <1>6, CharIs
<1>8. Covered' = Covered /\ Covered \subseteq 1 .. off - 1
  BY <1>3 DEF Covered, Balance
<1>9. Covered' \subseteq 1 .. off' - 1
  BY <1>3, <1>4, <1>6, <1>8
<1>10. Marked = MarkerText(markers)' /\ Mark' = Mark
  BY <1>3, MarkersKept DEF Marked
<1>11. ASSUME Plain' PROVE Plain /\ Regular(Skip(off))
  <2>1. /\ errs \o more = <<>> /\ (\A h \in DOMAIN text : text[h] # "\\")
        /\ \A m \in markers \cup Skip(off).marks : WellQuoted(m)
    BY <1>3, <1>11, MarkersKept DEF Plain
  <2>2. errs = <<>> /\ more = <<>>
    <3>1. Len(errs \o more) = Len(errs) + Len(more) /\ Len(errs) \in Nat /\ Len(more) \in Nat
      BY <1>4, <1>5
    <3>2. Len(errs \o more) = 0
      BY <2>1
    <3>3. Len(errs) = 0 /\ Len(more) = 0
      BY <3>1, <3>2
    <3> QED BY <1>4, <1>5, <3>3
  <2> QED BY <1>2, <2>1, <2>2 DEF Plain, Regular
<1>12. ASSUME Plain', NEW est, Counting(est)'
       PROVE  MarkerText(markers)' \subseteq 1 .. off' - 1 /\ Balanced(est)'
  <2>1. Plain /\ Regular(Skip(off))
    BY <1>11, <1>12
  <2>2. Counting(est)
    BY <1>3, <1>12, CountingKept
  <2>3. /\ Marked \subseteq 1 .. i - 1 /\ Cardinality(Marked) \in Nat
        /\ est[1][FALSE] = Sizes(Covered, Marked) + est[i][FALSE]
    BY <1>1, <1>3, <2>1, <2>2, SkipBalance
  <2>4. i \in 1 .. Len(text) + 1
    BY <1>4, <1>7
  <2>5. EstimateFrom(i, FALSE, est) = 0
    BY <1>4, <1>7, <2>4, EstimateStep
  <2>6. est[i][FALSE] = 0
    BY <2>2, <2>4, <2>5 DEF Counting
  <2>7. Cardinality(Covered) \in Nat
    BY <1>4, <1>8, NothingCovered
  <2>8. PICK c \in Nat, d \in Nat, m \in {0, 1} : c = Cardinality(Covered) /\ d = Cardinality(Marked) /\ m = Mark
    BY <2>3, <2>7 DEF Mark
  <2>9. est[1][FALSE] = (c + d + m) + 0
    BY <2>3, <2>6, <2>8 DEF Sizes
  <2>10. Sizes(Covered, MarkerText(markers))' = c + d + m
    BY <1>8, <1>10, <2>8 DEF Sizes
  <2>11. est[1][FALSE] = Sizes(Covered, MarkerText(markers))'
    BY <2>9, <2>10
  <2>12. MarkerText(markers)' \subseteq 1 .. off' - 1
    BY <1>3, <1>10, <2>3
  <2> QED BY <1>3, <2>11, <2>12 DEF Balanced
<1>13. \E est : Counting(est)'
  <2>1. PICK est : Counting(est)
    BY <1>4, EstimateExists
  <2> QED BY <1>3, <2>1, CountingKept
<1> QED BY <1>9, <1>12, <1>13 DEF Balance

LEMMA BalanceInvariance == Spec => [](Inv /\ Balance)
<1>1. Init => Inv /\ Balance
  BY InvInit, BalanceInit
<1>2. Inv /\ Inv' /\ Balance /\ [Next]_vars => Balance'
  <2> SUFFICES ASSUME Inv, Inv', Balance, [Next]_vars PROVE Balance'
    OBVIOUS
  <2>1. CASE LexIdent
    <3>1. PICK k \in {"keyword", "ident"} :
            \E to, word : Token(k, to, word, <<>>)
      <4>1. PICK to : to = Past(Here, Wordlike)
        OBVIOUS
      <4>2. PICK word : word = SubSeq(text, Here, to - 1)
        OBVIOUS
      <4>3. PICK k \in {"keyword", "ident"} : k = IF word \in Keywords THEN "keyword" ELSE "ident"
        OBVIOUS
      <4>4. Token(k, to, word, <<>>)
        BY <2>1, <4>1, <4>2, <4>3, Zenon DEF LexIdent
      <4> QED BY <4>4
    <3>2. phase = "lex" /\ Char(Here) # "eof" /\ k \in Kinds
      BY <2>1, LetterFacts DEF LexIdent, Kinds
    <3>3. PICK to, word : Token(k, to, word, <<>>)
      BY <3>1
    <3>4. <<>> \in Seq(Nat)
      OBVIOUS
    <3> QED BY <3>2, <3>3, <3>4, TokenBalance
  <2>2. CASE LexNumber
    <3>1. PICK i : i = Here
      OBVIOUS
    <3>2. PICK k, to, value : k = Number(i).k /\ to = Number(i).to /\ value = SubSeq(text, i, to - 1)
      OBVIOUS
    <3>3. k \in {"int", "float"}
      BY <3>2 DEF Number
    <3>4. Token(k, to, value, <<>>)
      BY <2>2, <3>1, <3>2, Zenon DEF LexNumber
    <3>5. phase = "lex" /\ Char(Here) # "eof" /\ k \in Kinds
      BY <2>2, <3>3, DigitFacts DEF LexNumber, IsNumber, Kinds
    <3>6. <<>> \in Seq(Nat)
      OBVIOUS
    <3> QED BY <3>4, <3>5, <3>6, TokenBalance
  <2>3. CASE LexString
    <3>1. phase = "lex" /\ Char(Here) # "eof" /\ "string" \in Kinds
      BY <2>3, QuoteFacts DEF LexString, Kinds
    <3>2. PICK string : string = String(Here + 1)
      OBVIOUS
    <3>3. PICK more : more = IF string.closed THEN <<>> ELSE <<Here>>
      OBVIOUS
    <3>4. more \in Seq(Nat)
      <4>1. Here \in Nat
        BY <3>1, AtToken
      <4> QED BY <3>3, <4>1
    <3>5. Token("string", string.to, string.value, more)
      BY <2>3, <3>2, <3>3, Zenon DEF LexString
    <3> QED BY <3>1, <3>4, <3>5, TokenBalance
  <2>4. CASE LexOperator
    <3>1. PICK to, value : Token("op", to, value, <<>>)
      BY <2>4, Zenon DEF LexOperator
    <3>2. phase = "lex" /\ Char(Here) # "eof" /\ "op" \in Kinds
      BY <2>4, SingleFacts DEF LexOperator, Kinds
    <3>3. <<>> \in Seq(Nat)
      OBVIOUS
    <3> QED BY <3>1, <3>2, <3>3, TokenBalance
  <2>5. CASE LexStray
    BY <2>5, StrayBalance
  <2>6. CASE LexEof
    BY <2>6, EofBalance
  <2>7. CASE UNCHANGED vars
    <3>1. /\ text' = text /\ off' = off /\ tokens' = tokens /\ errs' = errs /\ phase' = phase
          /\ markers' = markers
      BY <2>7, Zenon DEF vars
    <3>2. Covered' = Covered /\ Mark' = Mark /\ (Plain' <=> Plain) /\ MarkerText(markers)' = MarkerText(markers)
      BY <3>1, MarkersKept DEF Covered, Plain
    <3>3. \A est : Balanced(est)' <=> Balanced(est)
      BY <3>1, <3>2 DEF Balanced, Sizes
    <3>4. \A est : Counting(est)' <=> Counting(est)
      BY <3>1, CountingKept
    <3> QED BY <3>1, <3>2, <3>3, <3>4 DEF Balance
  <2> QED BY <2>1, <2>2, <2>3, <2>4, <2>5, <2>6, <2>7, Zenon DEF Next
<1> QED BY <1>1, <1>2, Invariance, PTL DEF Spec

(* The two scanners agree: the size that the compiler estimates for a text *)
(* without errors and backslashes is the number of characters of its       *)
(* tokens and of its line markers (main.c:142-163, lexer.c:44-130).        *)
THEOREM EstimateIsExact == Spec => []EstimateIsTokens
<1>1. Inv /\ Balance => EstimateIsTokens
  <2> SUFFICES ASSUME Inv, Balance, Comparable
               PROVE  EstimateBytecodeSize = Sizes(Covered, MarkerText(markers))
    BY Zenon DEF EstimateIsTokens, Sizes
  <2>1. PICK est : Counting(est) /\ EstimateBytecodeSize = est[1][FALSE]
    BY EstimateExists DEF Inv
  <2>2. Plain /\ phase = "done"
    BY DEF Comparable, Plain
  <2>3. Balanced(est)
    BY <2>1, <2>2 DEF Balance
  <2> QED BY <2>1, <2>2, <2>3 DEF Balanced
<1> QED BY <1>1, BalanceInvariance, PTL
=============================================================================
