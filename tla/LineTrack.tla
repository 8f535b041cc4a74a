------------------------------ MODULE LineTrack ------------------------------
(***************************************************************************)
(* The lexer reading what the preprocessor wrote, line by line             *)
(* (lexer.c:7-130, 299-342, 391-480): how it keeps track of the file and   *)
(* line it is in, which every later diagnostic reports.                    *)
(*                                                                         *)
(* A marker is obeyed only where the lexer skips white space at the start  *)
(* of a line; inside a block comment or a string that spans lines it is    *)
(* just another line of text.  The file names of the markers are kept in   *)
(* a table that is static, hence shared by all the files of one run of the *)
(* compiler, and that never holds more than MaxInterned names.  A name of  *)
(* NameSize characters or more is not taken over at all.                   *)
(***************************************************************************)
EXTENDS Preproc

CONSTANTS
  MaxInterned,        \* size of the table of file names
  NameSize,           \* size of the buffer for one name
  CutNames,           \* names that a marker without its end may be read as
  CutLines,           \* bound: newlines, and errors, a cut marker may add
  EarlierNames        \* sets of names the files compiled before may have left in it

ASSUME LineTrackAssumption ==
  /\ MaxInterned \in Nat
  /\ NameSize \in Nat /\ TmpSize <= NameSize
  /\ CutNames \subseteq Path
  /\ CutLines \in Nat
  /\ \A names \in EarlierNames :
       names \subseteq Path /\ IsFiniteSet(names) /\ Cardinality(names) <= MaxInterned

VARIABLES
  pos,        \* the next line of out to be read
  lexLine,    \* Lexer.line
  lexFile,    \* Lexer.file
  interned,   \* the table of file names
  mode,       \* what the line begins in: "code", "comment" or "string"
  lexErrors,  \* errors the lexer has reported
  eof,        \* the end of the text was reached
  swallowed   \* history: a marker was read as part of a comment or a string

lexVars == <<pos, lexLine, lexFile, interned, mode, lexErrors, eof, swallowed>>

-----------------------------------------------------------------------------
BlockOpen  == "/*"
BlockClose == "*/"
Bom        == "BOM"     \* the byte order mark, skipped at offset 0 only
Hash       == "#"

(* One token of a line: the mode it leaves the lexer in and whether it is  *)
(* an "unexpected character".  "line" is a // comment, over with the line. *)
ReadToken(st, tok) ==
  LET m == st.mode
  IN  [mode |-> CASE m = "code" /\ tok = Quote       -> "string"
                  [] m = "code" /\ tok = BlockOpen   -> "comment"
                  [] m = "code" /\ tok = Comment     -> "line"
                  [] m = "string" /\ tok = Quote     -> "code"
                  [] m = "comment" /\ tok = BlockClose -> "code"
                  [] OTHER -> m,
       errs |-> st.errs + (IF m = "code" /\ tok \in {Bom, Hash} THEN 1 ELSE 0)]

ReadLine(toks) == FoldLeft(ReadToken, [mode |-> mode, errs |-> 0], toks)

AtNewline(m) == IF m = "line" THEN "code" ELSE m

-----------------------------------------------------------------------------
LexInit ==
  /\ pos = 1
  /\ lexLine = 1
  /\ lexFile = Main
  /\ interned \in EarlierNames
  /\ mode = "code"
  /\ lexErrors = 0
  /\ eof = FALSE
  /\ swallowed = FALSE

Reading(kinds) ==
  /\ status = "done"
  /\ pos <= Len(out)
  /\ out[pos].k \in kinds
  /\ pos' = pos + 1

(* The table of names after a marker for path, and the file it leaves the  *)
(* lexer in: in a full table only a known name is found.                   *)
Interned(path) ==
  IF Cardinality(interned) < MaxInterned THEN interned \cup {path} ELSE interned

FileAfter(path) == IF path \in Interned(path) THEN path ELSE lexFile

(* A faulty variant of LexMarker: a name that is known is not looked up.   *)
LexMarkerForgetsKnown ==
  /\ Reading({"marker"})
  /\ mode = "code"
  /\ lexLine' = out[pos].line
  /\ LET new == out[pos].path \in Interned(out[pos].path) \ interned
     IN  /\ interned' = Interned(out[pos].path)
         /\ lexFile' = IF new THEN out[pos].path ELSE lexFile
  /\ UNCHANGED <<mode, lexErrors, eof, swallowed>>

(* try_line_marker.  The line is taken over in any case; the file is not   *)
(* when its name is too long for the buffer or the table is full.          *)
LexMarker ==
  /\ Reading({"marker"})
  /\ mode = "code"
  /\ lexLine' = out[pos].line
  /\ \/ /\ PathLength(out[pos].path) < NameSize
        /\ interned' = Interned(out[pos].path)
        /\ lexFile' = FileAfter(out[pos].path)
     \/ /\ PathLength(out[pos].path) >= NameSize
        /\ UNCHANGED <<interned, lexFile>>
  /\ UNCHANGED <<mode, lexErrors, eof, swallowed>>

(* A marker that lost its end runs on into what lay behind the buffer,     *)
(* which may be anything, newlines, quotes and comments included, and then *)
(* into the next line of the output: that line is read as part of the      *)
(* marker, or as a line, and the mode at its end is any.                   *)
LexCutMarker ==
  /\ status = "done"
  /\ pos <= Len(out)
  /\ out[pos].k = "cut"
  /\ \E n \in pos .. Len(out) :
        pos' = n + 1 /\ \A i \in pos .. n - 1 : out[i].k = "cut"
  /\ \E n \in 0 .. CutLines : lexLine' \in {lexLine + n, out[pos].line + n}
  /\ \/ UNCHANGED <<interned, lexFile>>
     \/ \E name \in CutNames : interned' = Interned(name) /\ lexFile' = FileAfter(name)
  /\ mode' \in {"code", "comment", "string"}
  /\ \E n \in 0 .. CutLines : lexErrors' = lexErrors + n
  /\ swallowed' \in {swallowed, TRUE}
  /\ UNCHANGED eof

(* A marker inside a comment or a string is text.  In a string, the quotes *)
(* around the path close and reopen it, and the path between them is read  *)
(* as code; paths hold no quote and no comment opener, so the line ends in *)
(* the mode it began in.                                                   *)
LexMarkerAsText ==
  /\ Reading({"marker"})
  /\ mode # "code"
  /\ lexLine' = lexLine + 1
  /\ swallowed' = TRUE
  /\ UNCHANGED <<lexFile, interned, mode, lexErrors, eof>>

LexLine ==
  /\ Reading({"text", "pragma"})
  /\ LET toks == IF out[pos].k = "pragma" THEN <<Hash>> ELSE out[pos].toks
         end  == ReadLine(toks)
     IN  /\ mode' = AtNewline(end.mode)
         /\ lexErrors' = lexErrors + end.errs
  /\ lexLine' = lexLine + 1
  /\ UNCHANGED <<lexFile, interned, eof, swallowed>>

(* A comment or a string that is still open is reported at the end.        *)
LexEof ==
  /\ status = "done"
  /\ pos > Len(out)
  /\ ~eof
  /\ eof' = TRUE
  /\ lexErrors' = IF mode = "code" THEN lexErrors ELSE lexErrors + 1
  /\ UNCHANGED <<pos, lexLine, lexFile, interned, mode, swallowed>>

TrackInit == Init /\ LexInit

TrackNext ==
  \/ Next /\ UNCHANGED lexVars
  \/ (LexMarker \/ LexCutMarker \/ LexMarkerAsText \/ LexLine \/ LexEof) /\ UNCHANGED vars

TrackSpec == TrackInit /\ [][TrackNext]_<<vars, lexVars>>

-----------------------------------------------------------------------------
(* The line about to be read, when it is text.                             *)
NextText == status = "done" /\ pos \in DOMAIN out /\ out[pos].k = "text"

(* No marker was swallowed by a comment or a string, none was written by   *)
(* the script, none lost its end, and the table has had room for every     *)
(* file of this run.                                                       *)
Undisturbed ==
  /\ ~swallowed
  /\ \A i \in DOMAIN out : out[i].k # "cut" /\ (out[i].k = "marker" => ~out[i].user)
  /\ \A i \in 1 .. pos - 1 : out[i].k = "marker" => out[i].path \in interned

(* Then the lexer knows the file of every line of text, however deep the   *)
(* includes, and its line number up to one: exactly right until the first  *)
(* #include of the activation that wrote the line, one too large after it, *)
(* and the error does not grow with further includes.                      *)
AttributedUpToOne ==
  NextText /\ Undisturbed =>
    /\ lexFile = out[pos].path
    /\ lexLine = out[pos].line + (IF out[pos].included THEN 1 ELSE 0)

(* A line is attributed to the wrong file for one of these reasons only: a *)
(* marker was swallowed by a comment or a string, the table is full, the   *)
(* script wrote a marker of its own (of any length), or a marker was cut   *)
(* because its path does not fit sb_printf's buffer (preproc.c:55-62).     *)
(* The limit of NameSize is not a further one: a marker of the             *)
(* preprocessor that long has been cut before (lexer.c:72).                *)
WrongFileHasACause ==
  NextText /\ ~swallowed /\ lexFile # out[pos].path
    => \/ Cardinality(interned) = MaxInterned
       \/ \E i \in DOMAIN out :
            out[i].k = "cut" \/ (out[i].k = "marker" /\ out[i].user)
=============================================================================
