----------------------------- MODULE MCLineTrack -----------------------------
(***************************************************************************)
(* Main files and headers whose lines open and close comments and strings  *)
(* around includes and markers.                                            *)
(***************************************************************************)
EXTENDS LineTrack, MCPreproc

Toks(toks) == [op |-> "text", toks |-> toks]

TrackLines ==
  {IncludeLine("h"), IncludeLine("g"), TextOf("x"), Bare("pragma"), UserLine,
   TextOf(BlockOpen), TextOf(BlockClose), TextOf(Quote), Toks(<<Comment, BlockOpen, Quote>>)}

TextHeader    == <<TextOf("x")>>
NestedHeader  == <<TextOf("x"), IncludeLine("h"), TextOf("x")>>
CommentHeader == <<TextOf(BlockOpen), TextOf("x")>>

(* Markers at the limits: a marker for line 10 that does not fit, a header *)
(* with too long a path, and names of any length given by the script.      *)
LongLines == {IncludeLine("l"), IncludeLine("h"), TextOf("x"), TextOf(Quote),
              [op |-> "line", num |-> 5, path |-> <<".", "name">>]}

LongMains ==
  Mains(LongLines, 2)
    \cup {[i \in 1 .. 8 |-> TextOf("x")] \o m : m \in Mains({IncludeLine("h"), TextOf("x")}, 2)}

MCTrackSources ==
  {FilesOf(m, h, NestedHeader) : m \in Mains(TrackLines, MainLength),
                                 h \in {TextHeader, CommentHeader}}
    \cup {FilesOf(m, TextHeader, TextHeader) @@ (L :> TextHeader) : m \in LongMains}

IncludeSources ==
  {FilesOf(<<TextOf("x"), IncludeLine("h"), TextOf("x")>>, TextHeader, TextHeader)}

(* What the table may hold when a file is begun: nothing, the headers of   *)
(* an earlier file, or nearly as many names as it takes.                   *)
MCEarlierNames == {{}, {H}, {H, <<".", "other">>}}

(* The path of a cut marker, when only its newline is lost, or another.    *)
MCCutNames == {L, <<".", "cut">>}

-----------------------------------------------------------------------------
(* DOCUMENTATION.md:583-584: "Diagnostics inside #included files point at  *)
(* the right path and line".  The lines of the including file count too.   *)
AttributedExactly ==
  NextText => lexFile = out[pos].path /\ lexLine = out[pos].line
=============================================================================
