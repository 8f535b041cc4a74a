------------------------------ MODULE MCPreproc ------------------------------
(***************************************************************************)
(* Every main file of a few lines over a small alphabet, with a few        *)
(* headers.                                                                *)
(***************************************************************************)
EXTENDS Preproc

CONSTANT MainLength    \* bound: lines of the main file

Obj(body) == [func |-> FALSE, params |-> <<>>, body |-> body]

IncludeLine(name)    == [op |-> "include", name |-> name, system |-> FALSE]
SysIncludeLine(name) == [op |-> "include", name |-> name, system |-> TRUE]
DefineLine(name)     == [op |-> "define", name |-> name, macro |-> Obj(<<"1">>)]
GuardLine(name)      == [op |-> "define", name |-> name, macro |-> Obj(<<>>)]
UndefLine(name)      == [op |-> "undef", name |-> name]
IfdefLine(name)      == [op |-> "ifdef", name |-> name]
IfndefLine(name)     == [op |-> "ifndef", name |-> name]
IfLine(name)   == [op |-> "if",   cond |-> <<<<[negated |-> FALSE, kind |-> "name", v |-> name]>>>>]
ElifLine(name) == [op |-> "elif", cond |-> <<<<[negated |-> FALSE, kind |-> "defined", v |-> name]>>>>]
Bare(op)       == [op |-> op]
TextOf(tok)    == [op |-> "text", toks |-> <<tok>>]
UserLine       == [op |-> "line", num |-> 9, path |-> <<".", "other">>]

Main0 == <<".", "main">>
H     == <<".", "h">>
G     == <<"lib", "g">>
L     == <<".", "l">>

(* Headers: one with an include guard, one that leaves a conditional open, *)
(* one that closes or reverses the conditional of its includer, one that   *)
(* includes itself.                                                        *)
GuardedHeader ==
  <<IfndefLine("G"), GuardLine("G"), TextOf("x"), Bare("endif")>>
OpenHeader    == <<IfdefLine("A"), TextOf("x")>>
ClosingHeader == <<Bare("else"), TextOf("x"), Bare("endif")>>
SelfHeader    == <<TextOf("x"), IncludeLine("h"), Bare("warning")>>
GuardedSelfHeader ==
  <<IfndefLine("G"), GuardLine("G"), IncludeLine("h"), TextOf("x"), Bare("endif")>>
OtherHeader   == <<IncludeLine("h"), SysIncludeLine("h"), TextOf("A")>>

ConditionalLines ==
  {IfdefLine("A"), ElifLine("A"), Bare("else"), Bare("endif"),
   DefineLine("A"), UndefLine("A"), TextOf("A"), Bare("error")}

IncludeLines ==
  {IncludeLine("h"), IncludeLine("g"), IfndefLine("G"), Bare("else"), Bare("endif"),
   TextOf("A")}

RareLines ==
  {IncludeLine("h"), SysIncludeLine("g"), SysIncludeLine("z"), Bare("malformed"),
   Bare("unknown"), Bare("warning"), Bare("pragma"), UserLine, IfLine("A"), IfndefLine("G"),
   Bare("endif"), DefineLine("G"), TextOf("G")}

FilesOf(main, h, g) ==
  (Main0 :> main) @@ (H :> h) @@ (G :> g)

Mains(lines, n) == [1 .. n -> lines]

(* As many open conditionals as the code has frames, then one more.        *)
DeepMains ==
  {[i \in 1 .. 31 |-> IfdefLine("B")] \o m : m \in Mains(ConditionalLines, MainLength)}

(* The conditionals of one file; guarded and self-including headers; headers *)
(* that meddle with the conditionals of their includer; a missing main file. *)
MCSources ==
  UNION {{Main0 :> m : m \in Mains(ConditionalLines, MainLength)},
         {FilesOf(m, h, g) : m \in Mains(IncludeLines, MainLength),
                             h \in {GuardedHeader, GuardedSelfHeader, SelfHeader},
                             g \in {GuardedHeader, OtherHeader}},
         {FilesOf(m, h, OtherHeader) : m \in Mains(RareLines, MainLength - 1),
                                       h \in {OpenHeader, ClosingHeader}},
         {H :> GuardedHeader}}

DeepSources == {Main0 :> m : m \in DeepMains}

MCIncludeDirs == <<"lib">>

MCPredefined == [B |-> Obj(<<"2">>)]

(* One path whose markers fit the 512 characters of sb_printf's buffer up  *)
(* to line 9, one whose markers never do, and a name as long as the buffer *)
(* of the lexer.                                                           *)
MCPathLength(path) ==
  CASE path = Main0            -> 500
    [] path = L                -> 501
    [] path = <<".", "name">>  -> 1024
    [] OTHER                   -> 7

-----------------------------------------------------------------------------
(* DOCUMENTATION.md:568: #endif is to "Close the most recent conditional", *)
(* and preproc.c:20-22: skipped branches "are replaced with blank lines".  *)
(* So text is emitted exactly when the branches it stands in are selected, *)
(* however deep they nest.                                                 *)
ActiveAtAnyDepth == CondActive(cs) <=> Included(chains)
=============================================================================
