------------------------------- MODULE Preproc -------------------------------
(***************************************************************************)
(* The preprocessor's main loop (preproc.c:415-612): preprocess_file reads *)
(* a file line by line, dispatches on the directive, calls itself for an   *)
(* #include, and appends to one output buffer.  One action is one line of  *)
(* source, the opening of a file or the return from an included one.       *)
(*                                                                         *)
(* The conditional stack, the macro table and the output belong to the run *)
(* and are shared by all the files; only the position in the file is local *)
(* to an activation of preprocess_file.                                    *)
(***************************************************************************)
EXTENDS CondStack, Macros

CONSTANTS
  Sources,            \* the file systems considered: functions from paths to lines
  Main,               \* the path given on the command line
  IncludeDirs,        \* the -I directories, in order
  Cwd,                \* the directory the compiler runs in
  Predefined,         \* the macro table made by the -D options
  Werror,             \* warnings count as errors
  MaxIncludeDepth,    \* Preproc.max_include_depth
  PathLength(_),      \* the length of a path in characters
  TmpSize             \* size of the buffer that sb_printf formats into

(* A path is a directory and a name. *)
Path == STRING \X STRING

Line ==
  [op : {"include"}, name : STRING, system : BOOLEAN]
  \cup [op : {"define"}, name : STRING, macro : Macro]
  \cup [op : {"undef", "ifdef", "ifndef"}, name : STRING]
  \cup [op : {"if", "elif"}, cond : Cond]
  \cup [op : {"else", "endif", "error", "warning", "pragma", "malformed", "unknown"}]
  \cup [op : {"line"}, num : Nat, path : Path]
  \cup [op : {"text"}, toks : Seq(STRING)]

(* A file always has a line: the empty file is one empty line.             *)
FileSystem(fs) ==
  \A p \in DOMAIN fs : p \in Path /\ fs[p] \in Seq(Line) \ {<<>>}

ASSUME PreprocAssumption ==
  /\ \A fs \in Sources : FileSystem(fs)
  /\ Main \in Path
  /\ IncludeDirs \in Seq(STRING)
  /\ Cwd \in STRING
  /\ \A name \in DOMAIN Predefined : name \in STRING /\ Predefined[name] \in Macro
  /\ Werror \in BOOLEAN
  /\ MaxIncludeDepth \in Nat \ {0}
  /\ \A fs \in Sources : \A p \in DOMAIN fs : PathLength(p) \in Nat
  /\ TmpSize \in Nat

VARIABLES
  files,      \* the file system of this run; a path outside its domain is unreadable
  calls,      \* the activations of preprocess_file, outermost first
  macros,     \* Preproc.macros
  out,        \* the output buffer, line by line
  diags,      \* the diagnostics reported
  status      \* "start", "running", "done" (text returned) or "failed" (NULL)

ppVars == <<files, calls, macros, out, diags, status>>
vars   == <<condVars, ppVars>>

-----------------------------------------------------------------------------
(* An activation: the file, the next line, and two histories: whether an   *)
(* include of this activation has returned, and the conditional stack as   *)
(* it was when the file was entered.                                       *)
Call == [path : Path, line : Nat \ {0}, included : BOOLEAN, base : Seq(Frame)]

(* A line of output has a kind k: a "marker" with its line and path and    *)
(* whether it was the script that wrote it; a "cut" marker, which did not  *)
(* fit the buffer; a "pragma" copied verbatim; or "text", empty for a      *)
(* blank line, with where it comes from and whether an include had         *)
(* returned before it in its activation.  A diagnostic is [level,          *)
(* located], where located says whether it has a file and a line.          *)
Cur == Last(calls)
AtEnd == Cur.line > Len(files[Cur.path])
Here == files[Cur.path][Cur.line]

(* The line being processed is a directive of one of these kinds.          *)
At(ops) ==
  /\ status = "running"
  /\ ~AtEnd
  /\ Here.op \in ops

(* #line N "path" and a newline have to leave room for the final zero of   *)
(* the buffer.  Of a longer marker sb_putn copies as many characters as    *)
(* were wanted, the last of them from behind the buffer: the end of the    *)
(* path, the quote and the newline are lost, the newline first.            *)
Digits(n) == 1 + Cardinality({k \in 1 .. 9 : n >= 10^k})

Fits(line, path) == 10 + Digits(line) + PathLength(path) < TmpSize

Marker(line, path) ==
  [k |-> IF Fits(line, path) THEN "marker" ELSE "cut",
   line |-> line, path |-> path, user |-> FALSE]

(* A #line directive of the script is copied by sb_puts, at any length.    *)
UserMarker(line, path) == [k |-> "marker", line |-> line, path |-> path, user |-> TRUE]

Text(call, toks) ==
  [k |-> "text", toks |-> toks, path |-> call.path, line |-> call.line,
   included |-> call.included]

Enter(path, base) == [path |-> path, line |-> 1, included |-> FALSE, base |-> base]

Put(items) == out' = out \o items

NextLine == calls' = [calls EXCEPT ![Len(calls)].line = @ + 1]

(* The line is replaced by a blank one. *)
Blank == Put(<<Text(Cur, <<>>)>>) /\ NextLine

Reports(level, located, n) ==
  diags' = diags \o [i \in 1 .. n |-> [level |-> level, located |-> located]]

Error == Reports("error", TRUE, 1)
Warning == Reports(IF Werror THEN "error" ELSE "warning", TRUE, 1)

-----------------------------------------------------------------------------
(* resolve_include: the directory of the including file (unless <...>),    *)
(* then the -I directories, then the spec as it stands.                    *)
SearchPath(dir, system) ==
  (IF system THEN <<>> ELSE <<dir>>) \o IncludeDirs \o <<Cwd>>

Hits(dir, line) ==
  {i \in DOMAIN SearchPath(dir, line.system) :
     <<SearchPath(dir, line.system)[i], line.name>> \in DOMAIN files}

Resolve(dir, line) ==
  <<SearchPath(dir, line.system)[Min(Hits(dir, line))], line.name>>

-----------------------------------------------------------------------------
PpInit ==
  /\ files \in Sources
  /\ calls = <<>>
  /\ macros = Predefined
  /\ out = <<>>
  /\ diags = <<>>
  /\ status = "start"

Init == CondInit /\ PpInit

(* preproc_run on a file that can be read, and on one that cannot.         *)
Open ==
  /\ status = "start"
  /\ Main \in DOMAIN files
  /\ status' = "running"
  /\ calls' = <<Enter(Main, <<>>)>>
  /\ Put(<<Marker(1, Main)>>)
  /\ UNCHANGED <<condVars, files, macros, diags>>

OpenFails ==
  /\ status = "start"
  /\ Main \notin DOMAIN files
  /\ status' = "failed"
  /\ Reports("error", FALSE, 1)
  /\ UNCHANGED <<condVars, files, calls, macros, out>>

(* A faulty variant: one file more than the limit is opened.               *)
IncludeOneTooDeep ==
  /\ At({"include"})
  /\ CondActive(cs)
  /\ Hits(Cur.path[1], Here) # {}
  /\ Len(calls) <= MaxIncludeDepth
  /\ LET path == Resolve(Cur.path[1], Here)
     IN  /\ calls' = Append(calls, Enter(path, cs))
         /\ Put(<<Marker(1, path)>>)
  /\ UNCHANGED <<condVars, files, macros, diags, status>>

(* #include of a file that is found, within the depth limit.               *)
Include ==
  /\ At({"include"})
  /\ CondActive(cs)
  /\ Hits(Cur.path[1], Here) # {}
  /\ Len(calls) < MaxIncludeDepth
  /\ LET path == Resolve(Cur.path[1], Here)
     IN  /\ calls' = Append(calls, Enter(path, cs))
         /\ Put(<<Marker(1, path)>>)
  /\ UNCHANGED <<condVars, files, macros, diags, status>>

(* A faulty variant of the next one: no marker after the include.         *)
AfterIncludeUnmarked(call) == <<Text([call EXCEPT !.included = TRUE], <<>>)>>

(* What the includer writes once an include is over: a marker for the line *)
(* after the directive, and the blank line that replaces the directive.    *)
AfterInclude(call) ==
  <<Marker(call.line + 1, call.path), Text([call EXCEPT !.included = TRUE], <<>>)>>

Resumed(call) ==
  [path |-> call.path, line |-> call.line + 1, included |-> TRUE, base |-> call.base]

IncludeTooDeep ==
  /\ At({"include"})
  /\ CondActive(cs)
  /\ Hits(Cur.path[1], Here) # {}
  /\ Len(calls) >= MaxIncludeDepth
  /\ Reports("error", FALSE, 1)
  /\ Put(AfterInclude(Cur))
  /\ calls' = [calls EXCEPT ![Len(calls)] = Resumed(@)]
  /\ UNCHANGED <<condVars, files, macros, status>>

(* A faulty variant of Return: an include gets back the conditional stack  *)
(* it was entered with.                                                    *)
ReturnRestoring ==
  /\ status = "running"
  /\ AtEnd
  /\ Len(calls) > 1
  /\ cs' = Cur.base
  /\ LET n == Len(calls) - 1
     IN  /\ Put(AfterInclude(calls[n]))
         /\ calls' = [Front(calls) EXCEPT ![n] = Resumed(@)]
  /\ UNCHANGED <<chains, dropped, files, macros, diags, status>>

Return ==
  /\ status = "running"
  /\ AtEnd
  /\ Len(calls) > 1
  /\ LET n == Len(calls) - 1
     IN  /\ Put(AfterInclude(calls[n]))
         /\ calls' = [Front(calls) EXCEPT ![n] = Resumed(@)]
  /\ UNCHANGED <<condVars, files, macros, diags, status>>

(* A faulty variant of Finish: it waits for the conditionals to be closed. *)
FinishWhenClosed ==
  /\ status = "running"
  /\ AtEnd
  /\ Len(calls) = 1
  /\ cs = <<>>
  /\ calls' = <<>>
  /\ status' = "done"
  /\ UNCHANGED <<condVars, files, macros, out, diags>>

(* The end of the main file: open conditionals are not looked at.          *)
Finish ==
  /\ status = "running"
  /\ AtEnd
  /\ Len(calls) = 1
  /\ calls' = <<>>
  /\ status' = "done"
  /\ UNCHANGED <<condVars, files, macros, out, diags>>

(* #include that finds no file or cannot be read as a directive.           *)
IncludeFails ==
  /\ \/ At({"include"}) /\ Hits(Cur.path[1], Here) = {}
     \/ At({"malformed"})
  /\ CondActive(cs)
  /\ Error
  /\ Blank
  /\ UNCHANGED <<condVars, files, macros, status>>

(* A faulty variant of Define: skipped definitions are made as well.       *)
DefineAlways ==
  /\ At({"define"})
  /\ macros' = AddMacro(macros, Here.name, Here.macro)
  /\ Blank
  /\ UNCHANGED <<condVars, files, diags, status>>

Define ==
  /\ At({"define"})
  /\ macros' = IF CondActive(cs) THEN AddMacro(macros, Here.name, Here.macro) ELSE macros
  /\ Blank
  /\ UNCHANGED <<condVars, files, diags, status>>

Undef ==
  /\ At({"undef"})
  /\ macros' = IF CondActive(cs) THEN RemoveMacro(macros, Here.name) ELSE macros
  /\ Blank
  /\ UNCHANGED <<condVars, files, diags, status>>

(* Faulty variants: a macro with an empty body passes for one that is not  *)
(* defined; #endif is ignored in a skipped region.                         *)
HasBody(name) == name \in DOMAIN macros /\ macros[name].body # <<>>

IfDirectiveOnBody ==
  /\ \/ At({"ifdef"})  /\ If(HasBody(Here.name))
     \/ At({"ifndef"}) /\ If(~HasBody(Here.name))
     \/ At({"if"})     /\ If(EvalCond(macros, Here.cond))
  /\ Blank
  /\ UNCHANGED <<files, macros, diags, status>>

BranchDirectiveWhenActive ==
  /\ \/ At({"elif"})  /\ Elif(EvalCond(macros, Here.cond))
     \/ At({"else"})  /\ Else
     \/ At({"endif"}) /\ IF CondActive(cs) THEN Endif ELSE UNCHANGED condVars
  /\ Blank
  /\ UNCHANGED <<files, macros, diags, status>>

IfDirective ==
  /\ \/ At({"ifdef"})  /\ If(Here.name \in DOMAIN macros)
     \/ At({"ifndef"}) /\ If(Here.name \notin DOMAIN macros)
     \/ At({"if"})     /\ If(EvalCond(macros, Here.cond))
  /\ Blank
  /\ UNCHANGED <<files, macros, diags, status>>

BranchDirective ==
  /\ \/ At({"elif"})  /\ Elif(EvalCond(macros, Here.cond))
     \/ At({"else"})  /\ Else
     \/ At({"endif"}) /\ Endif
  /\ Blank
  /\ UNCHANGED <<files, macros, diags, status>>

(* #error, #warning and a directive that is not known.                     *)
Message ==
  /\ At({"error", "warning", "unknown"})
  /\ IF CondActive(cs)
       THEN IF Here.op = "error" THEN Error ELSE Warning
       ELSE UNCHANGED diags
  /\ Blank
  /\ UNCHANGED <<condVars, files, macros, status>>

(* #include and what stands for it when it is skipped.                     *)
IncludeSkipped ==
  /\ At({"include", "malformed"})
  /\ ~CondActive(cs)
  /\ Blank
  /\ UNCHANGED <<condVars, files, macros, diags, status>>

(* #pragma and #line are copied whether or not the branch is active.       *)
PassThrough ==
  /\ At({"pragma", "line"})
  /\ Put(IF Here.op = "pragma"
           THEN <<[k |-> "pragma"]>>
           ELSE <<UserMarker(Here.num, Here.path)>>)
  /\ NextLine
  /\ UNCHANGED <<condVars, files, macros, diags, status>>

TextLine ==
  /\ At({"text"})
  /\ \/ /\ CondActive(cs)
        /\ LET result == ExpandLine(macros, Here.toks)
           IN  /\ Put(<<Text(Cur, result.toks)>>)
               /\ Reports("error", FALSE, result.errs)
     \/ /\ ~CondActive(cs)
        /\ Put(<<Text(Cur, <<>>)>>)
        /\ UNCHANGED diags
  /\ NextLine
  /\ UNCHANGED <<condVars, files, macros, status>>

Next ==
  \/ Open \/ OpenFails
  \/ Include \/ IncludeTooDeep \/ IncludeFails \/ IncludeSkipped
  \/ Return \/ Finish
  \/ Define \/ Undef
  \/ IfDirective \/ BranchDirective
  \/ Message \/ PassThrough \/ TextLine

Spec == Init /\ [][Next]_vars

(* The loop is never interrupted: a step that can be taken is taken.       *)
FairSpec == Spec /\ WF_vars(Next)

-----------------------------------------------------------------------------
(* The recursion is a chain of includes: never deeper than the limit, and  *)
(* every activation but the innermost is stopped at an #include line that  *)
(* its file resolves to the file of the next one, so that the markers it   *)
(* writes on return are those of the directive it stopped at.              *)
CallChain ==
  /\ Len(calls) <= MaxIncludeDepth
  /\ \A i \in DOMAIN calls : calls[i].path \in DOMAIN files
  /\ \A i \in 1 .. Len(calls) - 1 :
       LET line == files[calls[i].path][calls[i].line]
       IN  /\ calls[i].line <= Len(files[calls[i].path])
           /\ line.op = "include"
           /\ Hits(calls[i].path[1], line) # {}
           /\ calls[i + 1].path = Resolve(calls[i].path[1], line)

(* In a skipped region no macro is defined or removed, no file is entered  *)
(* and nothing is reported; and every line becomes a blank one but for two *)
(* exceptions, which the code copies to the output without asking whether  *)
(* the branch is active (preproc.c:570-574): #pragma and #line.  The end   *)
(* of an included file in a skipped region writes its marker.              *)
SkippedOnlyCopies ==
  [][~dropped /\ ~Included(chains) =>
       /\ macros' = macros
       /\ diags' = diags
       /\ Len(calls') <= Len(calls)
       /\ \A i \in Len(out) + 1 .. Len(out') :
            \/ out'[i].k = "text" /\ out'[i].toks = <<>>
            \/ At({"pragma"}) /\ out'[i].k = "pragma"
            \/ At({"line"}) /\ out'[i].k = "marker" /\ out'[i].user
            \/ Len(calls') < Len(calls) /\ out'[i].k \in {"marker", "cut"} /\ ~out'[i].user]_vars

(* How many conditionals of a file are open after its line k.              *)
OpenIn(f, k) ==
  Cardinality({j \in 1 .. k : f[j].op \in {"ifdef", "ifndef", "if"}})
    - Cardinality({j \in 1 .. k : f[j].op = "endif"})

WellNested(f) ==
  /\ \A k \in DOMAIN f :
       /\ OpenIn(f, k) >= 0
       /\ f[k].op \in {"elif", "else"} => OpenIn(f, k) > 0
  /\ OpenIn(f, Len(f)) = 0

AllWellNested == \A p \in DOMAIN files : WellNested(files[p])

(* The stack is shared by all the files and nothing marks where a file     *)
(* begins on it; still, when every file closes what it opens, a file never *)
(* disturbs the conditionals of its includer and leaves them as it found   *)
(* them, wherever in the branches the include stands.                      *)
IncludeKeepsConditionals ==
  AllWellNested /\ ~dropped /\ calls # <<>> =>
    /\ IsPrefix(Cur.base, cs)
    /\ AtEnd => cs = Cur.base

(* An include guard: #ifndef G, #define G, ..., the matching #endif.       *)
Guarded(f, name) ==
  /\ Len(f) >= 3
  /\ f[1].op = "ifndef" /\ f[1].name = name
  /\ f[2].op = "define" /\ f[2].name = name
  /\ f[Len(f)].op = "endif"
  /\ \A k \in 1 .. Len(f) - 1 :
       OpenIn(f, k) > 0 /\ (f[k].op \in {"elif", "else"} => OpenIn(f, k) > 1)

NeverRemoved(name) ==
  \A p \in DOMAIN files : \A k \in DOMAIN files[p] :
    files[p][k].op = "undef" => files[p][k].name # name

(* A guarded file contributes its text at most once, however it is reached: *)
(* twice from one file, through another one, or from itself.                *)
GuardedOnce ==
  AllWellNested /\ ~dropped =>
    \A p \in DOMAIN files :
      (\E k \in {1} \cap DOMAIN files[p] :
         files[p][k].op = "ifndef" /\ Guarded(files[p], files[p][k].name)
           /\ NeverRemoved(files[p][k].name)) =>
        \A i, j \in {n \in DOMAIN out :
                     out[n].k = "text" /\ out[n].path = p /\ out[n].toks # <<>>} :
          out[i].line = out[j].line => i = j

(* Preprocessing ends, also for files that include themselves or each      *)
(* other and for conditionals that are never closed.                       *)
Termination == <>(status \in {"done", "failed"})
=============================================================================
