------------------------------- MODULE Driver --------------------------------
(***************************************************************************)
(* The compiler driver (main.c:165-289, 356-365): the files of the command *)
(* line are compiled one after the other, each through the preprocessor,   *)
(* the size check, the parser, the checker and, with -c, the bytecode      *)
(* writer; the exit code of the run is put together from theirs.  What the *)
(* stages find is a property of the script; how their errors are counted,  *)
(* when a stage is cut short or left out, and what reaches the disk is the *)
(* driver's doing.                                                         *)
(***************************************************************************)
EXTENDS Integers, SequencesExt

CONSTANTS
  OptionSets,         \* the combinations of options considered
  Batches,            \* the command lines: sequences of paths
  ScriptSets,         \* the file systems: functions from paths to scripts
  LongPaths,          \* paths too long for the buffer of the output name
  MaxCascade          \* bound: errors that follow from what the parser lost

(* A path is its name split at the dots.                                   *)
Path == Seq(STRING) \ {<<>>}

(* What the stages have to say of a script: errors and warnings of the     *)
(* preprocessor, whether its estimated size (Lexer) is near the memory     *)
(* budget or over it, the errors in each of its top-level forms, errors    *)
(* and warnings of the checker.                                            *)
Script ==
  [readable : BOOLEAN, ppErrors : Nat, ppWarnings : Nat, size : {"fits", "near", "over"},
   forms : Seq(Nat), semErrors : Nat, semWarnings : Nat]

Default == <<>>       \* no -o was given
Earlier == <<>>       \* in place of a script: bytecode from before this run

Options ==
  [werror : BOOLEAN, noPreproc : BOOLEAN, noMemoryCheck : BOOLEAN, dump : BOOLEAN,
   emit : BOOLEAN, maxErrors : Nat, out : Path \cup {Default}]

ASSUME DriverAssumption ==
  /\ OptionSets \subseteq Options
  /\ Batches \subseteq Seq(Path) \ {<<>>}
  /\ \A scripts \in ScriptSets :
       \A path \in DOMAIN scripts : path \in Path /\ scripts[path] \in Script
  /\ \A batch \in Batches, scripts \in ScriptSets : ToSet(batch) \subseteq DOMAIN scripts
  /\ LongPaths \subseteq Path
  /\ MaxCascade \in Nat

VARIABLES
  opts,       \* CliOpts
  scripts,    \* the input files
  todo,       \* the files still to be compiled, the current one first
  stage,      \* of the current file: "read", "parse", "check", "output"; or "exit"
  form,       \* the next top-level form
  errs,       \* DiagCtx.errors of the current file
  rc,         \* rc_overall
  disk,       \* the bytecode files: of which script, and whether all of it
  results     \* history: the files compiled, with their own return codes

vars == <<opts, scripts, todo, stage, form, errs, rc, disk, results>>

-----------------------------------------------------------------------------
File   == Head(todo)
Source == scripts[File]

(* diag_init, and main.c:204: a limit of zero is no option at all.         *)
ErrorLimit == IF opts.maxErrors > 0 THEN opts.maxErrors ELSE 50

(* A warning counts as an error under -Werror.                             *)
Counted(errors, warnings) == errors + (IF opts.werror THEN warnings ELSE 0)

PpErrors == Counted(Source.ppErrors, Source.ppWarnings)

(* From 80 percent of the budget on there is a warning.                    *)
SizeErrors(script) ==
  IF opts.noMemoryCheck THEN 0
  ELSE Counted(IF script.size = "over" THEN 1 ELSE 0, IF script.size = "near" THEN 1 ELSE 0)

(* The name without an extension that stands for a script.                 *)
Stem(path) == IF Len(path) > 1 /\ Last(path) \in {"lsl", "txt"} THEN Front(path) ELSE path

(* A faulty variant of OutPath: the name is cut at its first dot.          *)
OutPathFirstDot(path) ==
  IF opts.out # Default THEN opts.out
  ELSE IF path \in LongPaths THEN <<"out", "lslbc">>
  ELSE IF Last(path) \in {"lsl", "txt"} THEN <<Head(path), "lslbc">>
  ELSE Append(path, "lslbc")

(* Where the bytecode of a script goes (main.c:250-264).                   *)
OutPath(path) ==
  IF opts.out # Default THEN opts.out
  ELSE IF path \in LongPaths THEN <<"out", "lslbc">>
  ELSE Append(Stem(path), "lslbc")

(* A faulty variant of FileDone: the last code is the exit code.           *)
FileDoneLastCode(code) ==
  /\ rc' = code
  /\ results' = Append(results, [path |-> File, code |-> code])
  /\ todo' = Tail(todo)
  /\ stage' = IF Len(todo) = 1 THEN "exit" ELSE "read"
  /\ UNCHANGED <<opts, scripts>>

(* The current file is over, with this code; main then takes the next.     *)
FileDone(code) ==
  /\ rc' = IF code # 0 THEN code ELSE rc
  /\ results' = Append(results, [path |-> File, code |-> code])
  /\ todo' = Tail(todo)
  /\ stage' = IF Len(todo) = 1 THEN "exit" ELSE "read"
  /\ UNCHANGED <<opts, scripts>>

Stay == UNCHANGED <<opts, scripts, todo, rc, results>>

-----------------------------------------------------------------------------
Init ==
  /\ opts \in OptionSets
  /\ scripts \in ScriptSets
  /\ todo \in Batches
  /\ stage = "read"
  /\ form = 1
  /\ errs = 0
  /\ rc = 0
  /\ disk \in {[path \in {} |-> <<>>],
               [path \in {OutPath(p) : p \in ToSet(todo)} |-> [of |-> Earlier, whole |-> TRUE]]}
  /\ results = <<>>

ReadFails ==
  /\ stage = "read"
  /\ ~Source.readable
  /\ FileDone(2)
  /\ UNCHANGED <<form, errs, disk>>

PreprocessFails ==
  /\ stage = "read"
  /\ Source.readable
  /\ ~opts.noPreproc
  /\ PpErrors > 0
  /\ FileDone(1)
  /\ UNCHANGED <<form, errs, disk>>

(* -E; without the preprocessor it has no effect.                          *)
Dump ==
  /\ stage = "read"
  /\ Source.readable
  /\ ~opts.noPreproc /\ PpErrors = 0
  /\ opts.dump
  /\ FileDone(0)
  /\ UNCHANGED <<form, errs, disk>>

(* A faulty variant of Load: the errors of the file before are kept.       *)
LoadKeepingErrors ==
  /\ stage = "read"
  /\ Source.readable
  /\ opts.noPreproc \/ (PpErrors = 0 /\ ~opts.dump)
  /\ stage' = "parse"
  /\ form' = 1
  /\ errs' = errs + SizeErrors(Source)
  /\ Stay
  /\ UNCHANGED disk

(* A new diagnostic context, the size check, and the parser set up.        *)
Load ==
  /\ stage = "read"
  /\ Source.readable
  /\ opts.noPreproc \/ (PpErrors = 0 /\ ~opts.dump)
  /\ stage' = "parse"
  /\ form' = 1
  /\ errs' = SizeErrors(Source)
  /\ Stay
  /\ UNCHANGED disk

(* The top-level loop of the parser looks at the limit before every form.  *)
ParseForm ==
  /\ stage = "parse"
  /\ form <= Len(Source.forms)
  /\ errs < ErrorLimit
  /\ errs' = errs + Source.forms[form]
  /\ form' = form + 1
  /\ Stay
  /\ UNCHANGED <<stage, disk>>

ParseEnd ==
  /\ stage = "parse"
  /\ form > Len(Source.forms) \/ errs >= ErrorLimit
  /\ stage' = "check"
  /\ Stay
  /\ UNCHANGED <<form, errs, disk>>

(* The checker sees the forms that were parsed without error; what the     *)
(* others declared is missing, and may be reported as such.                *)
Lost ==
  \/ form <= Len(Source.forms)
  \/ \E i \in DOMAIN Source.forms : Source.forms[i] > 0

(* A faulty variant of SemCheck: -Werror is not applied.                   *)
SemCheckLenient ==
  /\ stage = "check"
  /\ errs < 5
  /\ \E cascade \in 0 .. (IF Lost THEN MaxCascade ELSE 0) :
       errs' = errs + cascade + Source.semErrors
  /\ stage' = "output"
  /\ Stay
  /\ UNCHANGED <<form, disk>>

SemCheck ==
  /\ stage = "check"
  /\ errs < 5
  /\ \E cascade \in 0 .. (IF Lost THEN MaxCascade ELSE 0) :
       errs' = errs + cascade + Counted(Source.semErrors, Source.semWarnings)
  /\ stage' = "output"
  /\ Stay
  /\ UNCHANGED <<form, disk>>

(* Too noisy to be checked. *)
SemSkipped ==
  /\ stage = "check"
  /\ errs >= 5
  /\ stage' = "output"
  /\ Stay
  /\ UNCHANGED <<form, errs, disk>>

ReportErrors ==
  /\ stage = "output"
  /\ errs > 0
  /\ FileDone(1)
  /\ UNCHANGED <<form, errs, disk>>

ReportOk ==
  /\ stage = "output"
  /\ errs = 0
  /\ ~opts.emit
  /\ FileDone(0)
  /\ UNCHANGED <<form, errs, disk>>

(* The output cannot be opened. *)
EmitFails ==
  /\ stage = "output"
  /\ errs = 0
  /\ opts.emit
  /\ errs' = 1
  /\ FileDone(1)
  /\ UNCHANGED <<form, disk>>

(* It is opened, hence emptied, and written; no write is checked, so that  *)
(* a disk that fills up leaves part of a file and nobody notices.          *)
Emit ==
  /\ stage = "output"
  /\ errs = 0
  /\ opts.emit
  /\ \E whole \in BOOLEAN :
       disk' = [path \in DOMAIN disk \cup {OutPath(File)} |->
                  IF path = OutPath(File) THEN [of |-> File, whole |-> whole] ELSE disk[path]]
  /\ FileDone(0)
  /\ UNCHANGED <<form, errs>>

Next ==
  \/ ReadFails \/ PreprocessFails \/ Dump \/ Load
  \/ ParseForm \/ ParseEnd
  \/ SemCheck \/ SemSkipped
  \/ ReportErrors \/ ReportOk \/ EmitFails \/ Emit

Spec == Init /\ [][Next]_vars

-----------------------------------------------------------------------------
(* -E takes effect: the stages after the preprocessor are not run.         *)
Dumped == opts.dump /\ ~opts.noPreproc

(* A script none of whose stages has anything to report.                   *)
Faultless(script) ==
  /\ script.readable
  /\ ~opts.noPreproc => Counted(script.ppErrors, script.ppWarnings) = 0
  /\ ~Dumped =>
       /\ SizeErrors(script) = 0
       /\ \A i \in DOMAIN script.forms : script.forms[i] = 0
       /\ Counted(script.semErrors, script.semWarnings) = 0

(* man/lslc.1:231-232: exit code 0 says that every file was compiled and   *)
(* found free of errors - also when an error was found in the first of     *)
(* many files, by a stage that cut the others short, or was a warning.     *)
(* Unless bytecode could not be written, the converse holds as well.       *)
ZeroMeansFaultless ==
  stage = "exit" =>
    LET faultless == \A i \in DOMAIN results : Faultless(scripts[results[i].path])
    IN  /\ rc = 0 => faultless
        /\ faultless /\ ~opts.emit => rc = 0

(* Each file is compiled independently (DOCUMENTATION.md:278): its own     *)
(* return code depends on the file and the options, not on the files       *)
(* before it, and neither on how often it is given.  What the code is when *)
(* the target of -o cannot be opened is left open here: main.c:265 makes   *)
(* it 1, man/lslc.1:240-244 says 2.                                        *)
VerdictsAreTheirOwn ==
  \A i \in DOMAIN results :
    LET script == scripts[results[i].path]
        code   == results[i].code
    IN  /\ ~script.readable => code = 2
        /\ code = 2 =>
             \/ ~script.readable
             \/ opts.emit /\ opts.out # Default /\ Faultless(script)
        /\ ~opts.emit => (code = 0 <=> Faultless(script))

(* Only scripts without errors have bytecode, each in its place; and what  *)
(* an earlier run left is found only where nothing was compiled, so that   *)
(* a code of zero under -c vouches for the bytecode (main.c:241-270).      *)
BytecodeOfFaultless ==
  \A path \in DOMAIN disk :
    IF disk[path].of = Earlier
      THEN \A i \in DOMAIN results :
             OutPath(results[i].path) = path /\ opts.emit /\ ~Dumped => results[i].code # 0
      ELSE Faultless(scripts[disk[path].of]) /\ OutPath(disk[path].of) = path

(* What is left of a name for the bytecode, by the code and by the manual. *)
(* A path that is too long counts as one with the stem "out".              *)
PlainStem(path) == IF path \in LongPaths THEN <<"out">> ELSE Stem(path)

BareStem(path) ==
  IF path \in LongPaths THEN <<"out">>
  ELSE IF Len(path) > 1 THEN Front(path) ELSE path

(* Without -o, scripts of different names do not overwrite each other's    *)
(* bytecode: at the end each one that was compiled has its own.  Two names *)
(* count as different here if they differ by the extensions that the code  *)
(* takes off, .lsl and .txt (main.c:250-264), and without any extension,   *)
(* as man/lslc.1:139-140 has it: where those disagree the property takes   *)
(* no side.                                                                *)
OutputsApart ==
  /\ stage = "exit"
  /\ opts.emit
  /\ opts.out = Default
  /\ ~Dumped
  /\ \A i, j \in DOMAIN results :
       results[i].path # results[j].path =>
         /\ PlainStem(results[i].path) # PlainStem(results[j].path)
         /\ BareStem(results[i].path) # BareStem(results[j].path)
  => \A i \in DOMAIN results :
       results[i].code = 0 =>
         \E path \in DOMAIN disk : disk[path].of = results[i].path
=============================================================================
