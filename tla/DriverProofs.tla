---------------------------- MODULE DriverProofs -----------------------------
(***************************************************************************)
(* The driver, for any batch of files, any scripts and any options: what   *)
(* the return code of a file and the exit code of the run say about the    *)
(* scripts, and whose bytecode is found on the disk.                       *)
(***************************************************************************)
EXTENDS Driver, Facts

Stages == {"read", "parse", "check", "output", "exit"}
Inside == {"parse", "check", "output"}
Result == [path : DOMAIN scripts, code : {0, 1, 2}]

PlaceInv ==
  /\ opts \in Options
  /\ \A path \in DOMAIN scripts : path \in Path /\ scripts[path] \in Script
  /\ todo \in Seq(DOMAIN scripts)
  /\ stage \in Stages
  /\ stage = "exit" <=> todo = <<>>
  /\ form \in Nat \ {0}
  /\ errs \in Nat
  /\ results \in Seq(Result)

(* What the count of errors says about the script, stage by stage.  Before *)
(* the checker it speaks of the forms parsed so far; if the parser stopped *)
(* at the limit, the count is not zero.                                    *)
SoFar(n) == SizeErrors(Source) = 0 /\ \A i \in 1 .. n : Source.forms[i] = 0

StageInv ==
  stage \in Inside =>
    /\ Source.readable /\ ~Dumped /\ (~opts.noPreproc => PpErrors = 0)
    /\ form <= Len(Source.forms) + 1
    /\ stage = "parse"  => (errs = 0 <=> SoFar(form - 1))
    /\ stage = "check"  => (errs = 0 <=> SoFar(Len(Source.forms)))
    /\ stage = "check"  => (errs = 0 => form = Len(Source.forms) + 1)
    /\ stage = "output" => (errs = 0 <=> Faultless(Source))

(* The code of a file that is done, and the exit code so far.              *)
Verdict(script, code) ==
  /\ code = 2 <=> ~script.readable
  /\ code = 0 => Faultless(script)
  /\ ~opts.emit /\ Faultless(script) => code = 0

ResultInv ==
  /\ \A i \in DOMAIN results : Verdict(scripts[results[i].path], results[i].code)
  /\ rc = 0 <=> \A i \in DOMAIN results : results[i].code = 0

(* The bytecode found is that of a file that is done, or is older than the *)
(* run; and where bytecode was written there still is some.                *)
Writes == opts.emit /\ ~Dumped

DiskInv ==
  /\ BytecodeOfFaultless
  /\ \A path \in DOMAIN disk :
       disk[path].of = Earlier \/ \E i \in DOMAIN results : results[i].path = disk[path].of
  /\ Writes => \A i \in DOMAIN results :
       results[i].code = 0 => OutPath(results[i].path) \in DOMAIN disk

DriverInv == PlaceInv /\ StageInv /\ ResultInv /\ DiskInv

-----------------------------------------------------------------------------
(* Errors and warnings counted together.                                   *)
LEMMA CountedZero ==
  ASSUME NEW e \in Nat, NEW w \in Nat
  PROVE  Counted(e, w) \in Nat /\ (Counted(e, w) = 0 <=> e = 0 /\ (opts.werror => w = 0))
BY DEF Counted

LEMMA SizeErrorsNat ==
  ASSUME NEW script
  PROVE  SizeErrors(script) \in Nat
BY CountedZero DEF SizeErrors

LEMMA ScriptFacts ==
  ASSUME NEW script \in Script
  PROVE  /\ script.forms \in Seq(Nat) /\ Len(script.forms) \in Nat
         /\ \A i \in 1 .. Len(script.forms) : script.forms[i] \in Nat
         /\ script.readable \in BOOLEAN
         /\ script.ppErrors \in Nat /\ script.ppWarnings \in Nat
         /\ script.semErrors \in Nat /\ script.semWarnings \in Nat
BY DEF Script

(* The options do not change, and all verdicts are about them.             *)
LEMMA SameOptions ==
  ASSUME UNCHANGED opts
  PROVE  /\ \A script : Faultless(script)' <=> Faultless(script)
         /\ \A path : OutPath(path)' = OutPath(path)
         /\ Dumped' <=> Dumped
         /\ Writes' <=> Writes
         /\ \A script : SizeErrors(script)' = SizeErrors(script)
         /\ \A script, code : Verdict(script, code)' <=> Verdict(script, code)
BY DEF Faultless, OutPath, Dumped, Writes, SizeErrors, Counted, Verdict

(* While there is a file, there is a script.                               *)
LEMMA CurrentFile ==
  ASSUME PlaceInv, stage # "exit"
  PROVE  /\ File \in DOMAIN scripts /\ File \in Path /\ Source \in Script
         /\ todo # <<>> /\ Len(todo) \in Nat \ {0}
         /\ Tail(todo) \in Seq(DOMAIN scripts)
         /\ Tail(todo) = <<>> <=> Len(todo) = 1
<1>1. todo \in Seq(DOMAIN scripts) /\ todo # <<>>
  BY DEF PlaceInv
<1>2. Len(todo) \in Nat \ {0}
  BY <1>1, EmptySeq
<1>3. File \in DOMAIN scripts
  BY <1>1, <1>2 DEF File
<1>4. File \in Path /\ Source \in Script
  BY <1>3 DEF PlaceInv, Source
<1>5. Tail(todo) \in Seq(DOMAIN scripts) /\ Len(Tail(todo)) = Len(todo) - 1
  BY <1>1, <1>2
<1>6. Tail(todo) = <<>> <=> Len(todo) = 1
  BY <1>2, <1>5, EmptySeq
<1> QED BY <1>1, <1>2, <1>3, <1>4, <1>5, <1>6

-----------------------------------------------------------------------------
LEMMA DriverInvInit == Init => DriverInv
<1> SUFFICES ASSUME Init PROVE DriverInv
  OBVIOUS
<1>1. /\ opts \in OptionSets /\ scripts \in ScriptSets /\ todo \in Batches
      /\ stage = "read" /\ form = 1 /\ errs = 0 /\ rc = 0 /\ results = <<>>
  BY DEF Init
<1>2. /\ opts \in Options
      /\ \A path \in DOMAIN scripts : path \in Path /\ scripts[path] \in Script
      /\ todo \in Seq(Path) /\ todo # <<>> /\ ToSet(todo) \subseteq DOMAIN scripts
  BY <1>1, DriverAssumption
<1>3. todo \in Seq(DOMAIN scripts)
  <2>1. \A i \in DOMAIN todo : todo[i] \in DOMAIN scripts
    BY <1>2 DEF ToSet
  <2> QED BY <1>2, <2>1
<1>4. PlaceInv
  BY <1>1, <1>2, <1>3 DEF PlaceInv, Stages
<1>5. StageInv /\ ResultInv
  BY <1>1 DEF StageInv, Inside, ResultInv
<1>6. DOMAIN results = {}
  BY <1>1
<1>7. \A path \in DOMAIN disk : disk[path].of = Earlier
  BY DEF Init
<1>8. DiskInv
  BY <1>6, <1>7 DEF DiskInv, BytecodeOfFaultless
<1> QED BY <1>4, <1>5, <1>8 DEF DriverInv

-----------------------------------------------------------------------------
(* A file is done: its code is true to it, and all that can be wrong with  *)
(* the bytecode is up to the step that ends it.                            *)
LEMMA FileDoneStep ==
  ASSUME DriverInv, stage # "exit", NEW code \in {0, 1, 2}, FileDone(code),
         Verdict(Source, code), form' \in Nat \ {0}, errs' \in Nat
  PROVE  /\ PlaceInv' /\ StageInv' /\ ResultInv'
         /\ UNCHANGED <<opts, scripts>>
         /\ DOMAIN results' = DOMAIN results \cup {Len(results) + 1}
         /\ \A i \in DOMAIN results : results'[i] = results[i]
         /\ results'[Len(results) + 1] = [path |-> File, code |-> code]
<1>1. PlaceInv /\ ResultInv
  BY DEF DriverInv
<1>2. /\ File \in DOMAIN scripts /\ Len(todo) \in Nat \ {0}
      /\ Tail(todo) \in Seq(DOMAIN scripts)
      /\ Tail(todo) = <<>> <=> Len(todo) = 1
  BY <1>1, CurrentFile
<1>3. /\ UNCHANGED <<opts, scripts>>
      /\ rc' = IF code # 0 THEN code ELSE rc
      /\ results' = Append(results, [path |-> File, code |-> code])
      /\ todo' = Tail(todo)
      /\ stage' = IF Len(todo) = 1 THEN "exit" ELSE "read"
  BY DEF FileDone
<1>4. results \in Seq(Result) /\ Len(results) \in Nat /\ [path |-> File, code |-> code] \in Result
  BY <1>1, <1>2 DEF PlaceInv, Result
<1>5. /\ results' \in Seq(Result)
      /\ DOMAIN results' = DOMAIN results \cup {Len(results) + 1}
      /\ \A i \in DOMAIN results : results'[i] = results[i]
      /\ results'[Len(results) + 1] = [path |-> File, code |-> code]
  BY <1>3, <1>4
<1>6. PlaceInv'
  <2>1. Result' = Result
    BY <1>3 DEF Result
  <2>2. results' \in Seq(Result')
    BY <1>5, <2>1
  <2>3. stage' \in Stages /\ (stage' = "exit" <=> todo' = <<>>)
    BY <1>2, <1>3 DEF Stages
  <2> QED BY <1>1, <1>2, <1>3, <2>2, <2>3 DEF PlaceInv
<1>7. StageInv'
  BY <1>3 DEF StageInv, Inside
<1>8. ResultInv'
  <2>1. \A script, c : Verdict(script, c)' <=> Verdict(script, c)
    BY <1>3, SameOptions
  <2>2. ASSUME NEW i \in DOMAIN results' PROVE Verdict(scripts[results[i].path], results[i].code)'
    <3>1. CASE i \in DOMAIN results
      <4>1. Verdict(scripts[results[i].path], results[i].code)
        BY <1>1, <3>1 DEF ResultInv
      <4> QED BY <1>3, <1>5, <2>1, <3>1, <4>1
    <3>2. CASE i = Len(results) + 1
      <4>1. results'[i].path = File /\ results'[i].code = code
        BY <1>5, <3>2
      <4>2. Verdict(scripts[File], code)
        BY DEF Source
      <4> QED BY <1>3, <2>1, <4>1, <4>2
    <3> QED BY <1>5, <3>1, <3>2
  <2>3. rc' = 0 <=> \A i \in DOMAIN results' : results'[i].code = 0
    <3>1. rc = 0 <=> \A i \in DOMAIN results : results[i].code = 0
      BY <1>1 DEF ResultInv
    <3>2. rc' = 0 <=> rc = 0 /\ code = 0
      BY <1>3
    <3>3. (\A i \in DOMAIN results' : results'[i].code = 0)
            <=> (\A i \in DOMAIN results : results[i].code = 0) /\ code = 0
      BY <1>5
    <3> QED BY <3>1, <3>2, <3>3
  <2> QED BY <2>2, <2>3 DEF ResultInv
<1> QED BY <1>3, <1>5, <1>6, <1>7, <1>8

(* The disk when no bytecode is written: it was not asked for, or the file *)
(* has a code that says so.                                                *)
LEMMA SameDisk ==
  ASSUME DriverInv, stage # "exit", NEW code \in {0, 1, 2}, FileDone(code),
         Verdict(Source, code), form' \in Nat \ {0}, errs' \in Nat,
         UNCHANGED disk, code # 0 \/ ~Writes
  PROVE  DriverInv'
<1>1. /\ PlaceInv' /\ StageInv' /\ ResultInv'
      /\ UNCHANGED <<opts, scripts>>
      /\ DOMAIN results' = DOMAIN results \cup {Len(results) + 1}
      /\ \A i \in DOMAIN results : results'[i] = results[i]
      /\ results'[Len(results) + 1] = [path |-> File, code |-> code]
  BY FileDoneStep
<1>2. /\ \A script : Faultless(script)' <=> Faultless(script)
      /\ \A path : OutPath(path)' = OutPath(path)
      /\ Dumped' <=> Dumped
      /\ Writes' <=> Writes
  BY <1>1, SameOptions
<1>3. DiskInv
  BY DEF DriverInv
<1>4. BytecodeOfFaultless'
  <2> SUFFICES ASSUME NEW path \in DOMAIN disk
               PROVE  IF disk[path].of = Earlier
                        THEN \A i \in DOMAIN results' :
                               OutPath(results'[i].path) = path /\ Writes => results'[i].code # 0
                        ELSE Faultless(scripts[disk[path].of]) /\ OutPath(disk[path].of) = path
    BY <1>1, <1>2 DEF BytecodeOfFaultless, Writes
  <2>1. IF disk[path].of = Earlier
          THEN \A i \in DOMAIN results :
                 OutPath(results[i].path) = path /\ Writes => results[i].code # 0
          ELSE Faultless(scripts[disk[path].of]) /\ OutPath(disk[path].of) = path
    BY <1>3 DEF DiskInv, BytecodeOfFaultless, Writes
  <2>2. \A i \in DOMAIN results' : i \in DOMAIN results \/ results'[i].code = code
    BY <1>1
  <2> QED BY <1>1, <2>1, <2>2
<1>5. \A path \in DOMAIN disk' :
        disk'[path].of = Earlier \/ \E i \in DOMAIN results' : results'[i].path = disk'[path].of
  BY <1>1, <1>3 DEF DiskInv
<1>6. Writes' => \A i \in DOMAIN results' :
        (results[i].code = 0 => OutPath(results[i].path) \in DOMAIN disk)'
  <2> SUFFICES ASSUME Writes, NEW i \in DOMAIN results', results'[i].code = 0
               PROVE  OutPath(results'[i].path) \in DOMAIN disk
    BY <1>2
  <2>1. i \in DOMAIN results
    BY <1>1
  <2> QED BY <1>1, <1>3, <2>1 DEF DiskInv
<1>7. DiskInv'
  BY <1>4, <1>5, <1>6 DEF DiskInv
<1> QED BY <1>1, <1>7 DEF DriverInv

(* Bytecode is written, over whatever was found in its place.              *)
LEMMA WrittenDisk ==
  ASSUME DriverInv, stage # "exit", FileDone(0), Faultless(Source), UNCHANGED <<form, errs>>,
         NEW whole \in BOOLEAN,
         disk' = [path \in DOMAIN disk \cup {OutPath(File)} |->
                    IF path = OutPath(File) THEN [of |-> File, whole |-> whole] ELSE disk[path]]
  PROVE  DriverInv'
<1>0. Verdict(Source, 0) /\ form' \in Nat \ {0} /\ errs' \in Nat
  BY DEF Verdict, Faultless, DriverInv, PlaceInv
<1>1. /\ PlaceInv' /\ StageInv' /\ ResultInv'
      /\ UNCHANGED <<opts, scripts>>
      /\ DOMAIN results' = DOMAIN results \cup {Len(results) + 1}
      /\ \A i \in DOMAIN results : results'[i] = results[i]
      /\ results'[Len(results) + 1] = [path |-> File, code |-> 0]
  BY <1>0, FileDoneStep
<1>2. /\ \A script : Faultless(script)' <=> Faultless(script)
      /\ \A path : OutPath(path)' = OutPath(path)
      /\ Dumped' <=> Dumped
      /\ Writes' <=> Writes
  BY <1>1, SameOptions
<1>3. DiskInv /\ File \in Path
  BY CurrentFile DEF DriverInv
<1>4. /\ DOMAIN disk' = DOMAIN disk \cup {OutPath(File)}
      /\ disk'[OutPath(File)].of = File
      /\ \A path \in DOMAIN disk : path # OutPath(File) => disk'[path] = disk[path]
  OBVIOUS
<1>5. File # Earlier
  BY <1>3 DEF Path, Earlier
<1>6. BytecodeOfFaultless'
  <2> SUFFICES ASSUME NEW path \in DOMAIN disk'
               PROVE  IF disk'[path].of = Earlier
                        THEN \A i \in DOMAIN results' :
                               OutPath(results'[i].path) = path /\ Writes => results'[i].code # 0
                        ELSE /\ Faultless(scripts[disk'[path].of])
                             /\ OutPath(disk'[path].of) = path
    BY <1>1, <1>2 DEF BytecodeOfFaultless, Writes
  <2>1. CASE path = OutPath(File)
    BY <1>4, <1>5, <2>1 DEF Source
  <2>2. CASE path # OutPath(File)
    <3>1. path \in DOMAIN disk /\ disk'[path] = disk[path]
      BY <1>4, <2>2
    <3>2. IF disk[path].of = Earlier
            THEN \A i \in DOMAIN results :
                   OutPath(results[i].path) = path /\ Writes => results[i].code # 0
            ELSE Faultless(scripts[disk[path].of]) /\ OutPath(disk[path].of) = path
      BY <1>3, <3>1 DEF DiskInv, BytecodeOfFaultless, Writes
    <3>3. \A i \in DOMAIN results' : i \in DOMAIN results \/ results'[i].path = File
      BY <1>1
    <3> QED BY <1>1, <2>2, <3>1, <3>2, <3>3
  <2> QED BY <2>1, <2>2
<1>7. \A path \in DOMAIN disk' :
        disk'[path].of = Earlier \/ \E i \in DOMAIN results' : results'[i].path = disk'[path].of
  <2> SUFFICES ASSUME NEW path \in DOMAIN disk', disk'[path].of # Earlier
               PROVE  \E i \in DOMAIN results' : results'[i].path = disk'[path].of
    OBVIOUS
  <2>1. CASE path = OutPath(File)
    BY <1>1, <1>4, <2>1
  <2>2. CASE path # OutPath(File)
    <3>1. path \in DOMAIN disk /\ disk'[path] = disk[path]
      BY <1>4, <2>2
    <3> QED BY <1>1, <1>3, <3>1 DEF DiskInv
  <2> QED BY <2>1, <2>2
<1>8. Writes' => \A i \in DOMAIN results' :
        (results[i].code = 0 => OutPath(results[i].path) \in DOMAIN disk)'
  <2> SUFFICES ASSUME Writes, NEW i \in DOMAIN results', results'[i].code = 0
               PROVE  OutPath(results'[i].path) \in DOMAIN disk'
    BY <1>2
  <2>1. CASE i \in DOMAIN results
    BY <1>1, <1>3, <1>4, <2>1 DEF DiskInv
  <2>2. CASE i = Len(results) + 1
    BY <1>1, <1>4, <2>2
  <2> QED BY <1>1, <2>1, <2>2
<1>9. DiskInv'
  BY <1>6, <1>7, <1>8 DEF DiskInv
<1> QED BY <1>1, <1>9 DEF DriverInv

(* Within a file nothing is said of the files before it, nor of the disk.  *)
LEMMA SameResults ==
  ASSUME DriverInv, Stay, UNCHANGED disk
  PROVE  ResultInv' /\ DiskInv'
<1>1. UNCHANGED <<opts, scripts, todo, rc, results, disk>>
  BY DEF Stay
<1>2. ResultInv /\ DiskInv
  BY DEF DriverInv
<1>3. /\ \A script : Faultless(script)' <=> Faultless(script)
      /\ \A path : OutPath(path)' = OutPath(path)
      /\ Dumped' <=> Dumped
      /\ Writes' <=> Writes
      /\ \A script, code : Verdict(script, code)' <=> Verdict(script, code)
  BY <1>1, SameOptions
<1>4. ResultInv'
  BY <1>1, <1>2, <1>3 DEF ResultInv
<1>5. BytecodeOfFaultless'
  BY <1>1, <1>2, <1>3 DEF DiskInv, BytecodeOfFaultless
<1>6. DiskInv'
  BY <1>1, <1>2, <1>3, <1>5 DEF DiskInv
<1> QED BY <1>4, <1>6

LEMMA WithinFile ==
  ASSUME DriverInv, stage # "exit", Stay, UNCHANGED disk,
         stage' \in Inside, form' \in Nat \ {0}, errs' \in Nat, StageInv'
  PROVE  DriverInv'
<1>1. UNCHANGED <<opts, scripts, todo, results>>
  BY DEF Stay
<1>2. PlaceInv
  BY DEF DriverInv
<1>3. Result' = Result
  BY <1>1 DEF Result
<1>4. stage' \in Stages /\ stage' # "exit" /\ todo' # <<>>
  BY <1>1, <1>2, CurrentFile DEF Inside, Stages
<1>5. PlaceInv'
  BY <1>1, <1>2, <1>3, <1>4 DEF PlaceInv
<1> QED BY <1>5, SameResults DEF DriverInv

(* The script of the current file, and what is said of it, stay too.       *)
LEMMA SameFile ==
  ASSUME Stay
  PROVE  /\ Source' = Source
         /\ PpErrors' = PpErrors
         /\ \A n : SoFar(n)' <=> SoFar(n)
         /\ Faultless(Source)' <=> Faultless(Source)
         /\ Dumped' <=> Dumped
         /\ opts' = opts
<1>1. UNCHANGED <<opts, scripts, todo>>
  BY DEF Stay
<1>2. Source' = Source
  BY <1>1 DEF Source, File
<1>3. /\ \A script : Faultless(script)' <=> Faultless(script)
      /\ \A script : SizeErrors(script)' = SizeErrors(script)
      /\ Dumped' <=> Dumped
  BY <1>1, SameOptions
<1>4. PpErrors' = PpErrors
  BY <1>1, <1>2 DEF PpErrors, Counted
<1>5. \A n : SoFar(n)' <=> SoFar(n)
  BY <1>2, <1>3 DEF SoFar
<1>6. Faultless(Source)' <=> Faultless(Source)
  BY <1>2, <1>3 DEF Faultless, Counted, Dumped, SizeErrors
<1> QED BY <1>1, <1>2, <1>3, <1>4, <1>5, <1>6

-----------------------------------------------------------------------------
(* The file that cannot be read, or has errors before it is parsed.        *)
LEMMA FailsEarly == DriverInv /\ (ReadFails \/ PreprocessFails) => DriverInv'
<1> SUFFICES ASSUME DriverInv, ReadFails \/ PreprocessFails PROVE DriverInv'
  OBVIOUS
<1>1. stage # "exit" /\ form' \in Nat \ {0} /\ errs' \in Nat /\ UNCHANGED disk
  BY DEF ReadFails, PreprocessFails, DriverInv, PlaceInv
<1>2. CASE ReadFails
  <2>1. FileDone(2) /\ ~Source.readable
    BY <1>2 DEF ReadFails
  <2>2. Verdict(Source, 2)
    BY <2>1 DEF Verdict, Faultless
  <2> QED BY <1>1, <2>1, <2>2, SameDisk
<1>3. CASE PreprocessFails
  <2>1. FileDone(1) /\ Source.readable /\ ~opts.noPreproc /\ PpErrors > 0
    BY <1>3 DEF PreprocessFails
  <2>2. Verdict(Source, 1)
    <3>1. PpErrors # 0
      BY <2>1
    <3> QED BY <2>1, <3>1 DEF Verdict, Faultless, PpErrors
  <2> QED BY <1>1, <2>1, <2>2, SameDisk
<1> QED BY <1>2, <1>3

LEMMA DumpStep == DriverInv /\ Dump => DriverInv'
<1> SUFFICES ASSUME DriverInv, Dump PROVE DriverInv'
  OBVIOUS
<1>1. /\ stage # "exit" /\ UNCHANGED <<form, errs, disk>> /\ FileDone(0)
      /\ Source.readable /\ PpErrors = 0 /\ Dumped
  BY DEF Dump, Dumped
<1>2. form' \in Nat \ {0} /\ errs' \in Nat
  BY <1>1 DEF DriverInv, PlaceInv
<1>3. Verdict(Source, 0)
  BY <1>1 DEF Verdict, Faultless, PpErrors
<1> QED BY <1>1, <1>2, <1>3, SameDisk DEF Writes

LEMMA LoadStep == DriverInv /\ Load => DriverInv'
<1> SUFFICES ASSUME DriverInv, Load PROVE DriverInv'
  OBVIOUS
<1>1. /\ stage = "read" /\ stage' = "parse" /\ form' = 1 /\ errs' = SizeErrors(Source)
      /\ Stay /\ UNCHANGED disk
      /\ Source.readable /\ ~Dumped /\ (~opts.noPreproc => PpErrors = 0)
  BY DEF Load, Dumped
<1>2. errs' \in Nat /\ form' \in Nat \ {0} /\ stage' \in Inside
  BY <1>1, SizeErrorsNat DEF Inside
<1>3. Len(Source.forms) \in Nat
  BY <1>1, CurrentFile, ScriptFacts DEF DriverInv
<1>4. errs' = 0 <=> SoFar(form' - 1)
  BY <1>1 DEF SoFar
<1>5. StageInv'
  BY <1>1, <1>3, <1>4, SameFile DEF StageInv
<1> QED BY <1>1, <1>2, <1>5, WithinFile

(* Errors are only added: after a form there are none if there were none   *)
(* before it and it has none.                                              *)
LEMMA ParseFormStep == DriverInv /\ ParseForm => DriverInv'
<1> SUFFICES ASSUME DriverInv, ParseForm PROVE DriverInv'
  OBVIOUS
<1>1. /\ stage = "parse" /\ stage' = "parse" /\ form <= Len(Source.forms)
      /\ errs' = errs + Source.forms[form] /\ form' = form + 1
      /\ Stay /\ UNCHANGED disk
  BY DEF ParseForm
<1>2. errs \in Nat /\ form \in Nat \ {0} /\ StageInv
  BY DEF DriverInv, PlaceInv
<1>3. /\ Len(Source.forms) \in Nat
      /\ \A i \in 1 .. Len(Source.forms) : Source.forms[i] \in Nat
  BY <1>1, CurrentFile, ScriptFacts DEF DriverInv
<1>4. Source.forms[form] \in Nat
  BY <1>1, <1>2, <1>3
<1>5. errs' \in Nat /\ form' \in Nat \ {0} /\ stage' \in Inside
  BY <1>1, <1>2, <1>4 DEF Inside
<1>6. errs' = 0 <=> SoFar(form' - 1)
  <2>1. errs = 0 <=> SoFar(form - 1)
    BY <1>1, <1>2 DEF StageInv, Inside
  <2>2. errs' = 0 <=> errs = 0 /\ Source.forms[form] = 0
    BY <1>1, <1>2, <1>4
  <2>3. SoFar(form' - 1) <=> SoFar(form - 1) /\ Source.forms[form] = 0
    <3>1. form' - 1 = form /\ 1 .. form = (1 .. (form - 1)) \cup {form}
      BY <1>1, <1>2
    <3> QED BY <3>1 DEF SoFar
  <2> QED BY <2>1, <2>2, <2>3
<1>7. StageInv'
  BY <1>1, <1>2, <1>3, <1>6, SameFile DEF StageInv, Inside
<1> QED BY <1>1, <1>5, <1>7, WithinFile

(* The parser stops at the end of the script, or because there are errors. *)
LEMMA ParseEndStep == DriverInv /\ ParseEnd => DriverInv'
<1> SUFFICES ASSUME DriverInv, ParseEnd PROVE DriverInv'
  OBVIOUS
<1>1. /\ stage = "parse" /\ stage' = "check"
      /\ form > Len(Source.forms) \/ errs >= ErrorLimit
      /\ Stay /\ UNCHANGED <<form, errs, disk>>
  BY DEF ParseEnd
<1>2. errs \in Nat /\ form \in Nat \ {0} /\ StageInv /\ opts \in Options
  BY DEF DriverInv, PlaceInv
<1>3. /\ Len(Source.forms) \in Nat
      /\ \A i \in 1 .. Len(Source.forms) : Source.forms[i] \in Nat
  BY <1>1, CurrentFile, ScriptFacts DEF DriverInv
<1>4. ErrorLimit \in Nat \ {0}
  BY <1>2 DEF ErrorLimit, Options
<1>5. /\ form <= Len(Source.forms) + 1
      /\ errs = 0 <=> SoFar(form - 1)
      /\ Source.readable /\ ~Dumped /\ (~opts.noPreproc => PpErrors = 0)
  BY <1>1, <1>2 DEF StageInv, Inside
<1>6. errs = 0 => form = Len(Source.forms) + 1
  BY <1>1, <1>2, <1>3, <1>4, <1>5
<1>7. errs = 0 <=> SoFar(Len(Source.forms))
  <2>1. SoFar(Len(Source.forms)) => SoFar(form - 1)
    BY <1>2, <1>3, <1>5 DEF SoFar
  <2>2. errs = 0 => Len(Source.forms) = form - 1
    BY <1>2, <1>3, <1>6
  <2> QED BY <1>5, <2>1, <2>2
<1>8. StageInv'
  BY <1>1, <1>5, <1>6, <1>7, SameFile DEF StageInv
<1> QED BY <1>1, <1>2, <1>8, WithinFile DEF Inside

(* Where the forms had no error, nothing was lost, and the errors of the   *)
(* checker are those of the script; where they had, it does not matter.    *)
LEMMA CheckStep == DriverInv /\ (SemCheck \/ SemSkipped) => DriverInv'
<1> SUFFICES ASSUME DriverInv, SemCheck \/ SemSkipped PROVE DriverInv'
  OBVIOUS
<1>1. stage = "check" /\ stage' = "output" /\ Stay /\ UNCHANGED <<form, disk>>
  BY DEF SemCheck, SemSkipped
<1>2. errs \in Nat /\ form \in Nat \ {0} /\ StageInv
  BY DEF DriverInv, PlaceInv
<1>3. /\ Source.forms \in Seq(Nat) /\ Len(Source.forms) \in Nat
      /\ Source.semErrors \in Nat /\ Source.semWarnings \in Nat
  BY <1>1, CurrentFile, ScriptFacts DEF DriverInv
<1>4. /\ errs = 0 <=> SoFar(Len(Source.forms))
      /\ errs = 0 => form = Len(Source.forms) + 1
      /\ form <= Len(Source.forms) + 1
      /\ Source.readable /\ ~Dumped /\ (~opts.noPreproc => PpErrors = 0)
  BY <1>1, <1>2 DEF StageInv, Inside
<1>5. DOMAIN Source.forms = 1 .. Len(Source.forms)
  BY <1>3
<1>6. Faultless(Source) <=> errs = 0 /\ Counted(Source.semErrors, Source.semWarnings) = 0
  BY <1>4, <1>5 DEF Faultless, SoFar, PpErrors
<1>7. errs' \in Nat /\ (errs' = 0 <=> Faultless(Source))
  <2>1. CASE SemCheck
    <3>1. Counted(Source.semErrors, Source.semWarnings) \in Nat
      BY <1>3, CountedZero
    <3>2. PICK cascade \in 0 .. (IF Lost THEN MaxCascade ELSE 0) :
            errs' = errs + cascade + Counted(Source.semErrors, Source.semWarnings)
      BY <2>1 DEF SemCheck
    <3>3. cascade \in Nat
      BY <3>2, DriverAssumption
    <3>4. errs = 0 => ~Lost
      <4>1. errs = 0 => \A i \in DOMAIN Source.forms : Source.forms[i] = 0
        BY <1>4, <1>5 DEF SoFar
      <4>2. errs = 0 => ~(form <= Len(Source.forms))
        BY <1>3, <1>4
      <4> QED BY <4>1, <4>2 DEF Lost
    <3>5. errs = 0 => cascade = 0
      BY <3>2, <3>4
    <3> QED BY <1>2, <1>6, <3>1, <3>2, <3>3, <3>5
  <2>2. CASE SemSkipped
    BY <1>2, <1>6, <2>2 DEF SemSkipped
  <2> QED BY <2>1, <2>2
<1>8. StageInv'
  BY <1>1, <1>4, <1>7, SameFile DEF StageInv
<1> QED BY <1>1, <1>2, <1>7, <1>8, WithinFile DEF Inside

(* The end of a file that was compiled.                                    *)
LEMMA OutputStep == DriverInv /\ (ReportErrors \/ ReportOk \/ EmitFails \/ Emit) => DriverInv'
<1> SUFFICES ASSUME DriverInv, ReportErrors \/ ReportOk \/ EmitFails \/ Emit PROVE DriverInv'
  OBVIOUS
<1>1. stage = "output" /\ UNCHANGED form
  BY DEF ReportErrors, ReportOk, EmitFails, Emit
<1>2. errs \in Nat /\ form \in Nat \ {0} /\ StageInv
  BY DEF DriverInv, PlaceInv
<1>3. Source.readable /\ (errs = 0 <=> Faultless(Source))
  BY <1>1, <1>2 DEF StageInv, Inside
<1>4. CASE ReportErrors
  <2>1. errs # 0 /\ FileDone(1) /\ UNCHANGED <<form, errs, disk>>
    BY <1>2, <1>4 DEF ReportErrors
  <2>2. Verdict(Source, 1)
    BY <1>3, <2>1 DEF Verdict
  <2> QED BY <1>1, <1>2, <2>1, <2>2, SameDisk
<1>5. CASE ReportOk
  <2>1. errs = 0 /\ FileDone(0) /\ UNCHANGED <<form, errs, disk>> /\ ~Writes
    BY <1>5 DEF ReportOk, Writes
  <2>2. Verdict(Source, 0)
    BY <1>3, <2>1 DEF Verdict
  <2> QED BY <1>1, <1>2, <2>1, <2>2, SameDisk
<1>6. CASE EmitFails
  <2>1. opts.emit /\ errs' = 1 /\ FileDone(1) /\ UNCHANGED <<form, disk>>
    BY <1>6 DEF EmitFails
  <2>2. Verdict(Source, 1)
    BY <1>3, <2>1 DEF Verdict
  <2> QED BY <1>1, <1>2, <2>1, <2>2, SameDisk
<1>7. CASE Emit
  <2>1. errs = 0 /\ FileDone(0) /\ UNCHANGED <<form, errs>>
    BY <1>7 DEF Emit
  <2>2. PICK whole \in BOOLEAN :
          disk' = [path \in DOMAIN disk \cup {OutPath(File)} |->
                     IF path = OutPath(File) THEN [of |-> File, whole |-> whole] ELSE disk[path]]
    BY <1>7 DEF Emit
  <2> QED BY <1>1, <1>3, <2>1, <2>2, WrittenDisk
<1> QED BY <1>4, <1>5, <1>6, <1>7

LEMMA DriverInvStep == DriverInv /\ [Next]_vars => DriverInv'
<1>1. DriverInv /\ UNCHANGED vars => DriverInv'
  <2> SUFFICES ASSUME DriverInv, UNCHANGED vars PROVE DriverInv'
    OBVIOUS
  <2>1. UNCHANGED <<opts, scripts, todo, stage, form, errs, disk, results>> /\ Stay
    BY DEF vars, Stay
  <2>2. PlaceInv /\ StageInv
    BY DEF DriverInv
  <2>3. PlaceInv'
    BY <2>1, <2>2 DEF PlaceInv, Result
  <2>4. StageInv'
    BY <2>1, <2>2, SameFile DEF StageInv
  <2> QED BY <2>1, <2>3, <2>4, SameResults DEF DriverInv
<1> QED
  BY <1>1, FailsEarly, DumpStep, LoadStep, ParseFormStep, ParseEndStep, CheckStep, OutputStep
     DEF Next

LEMMA DriverInvAlways == Spec => []DriverInv
BY DriverInvInit, DriverInvStep, PTL DEF Spec

-----------------------------------------------------------------------------
(* Exit code 0 vouches for every file of the batch, and only errors or     *)
(* unwritten bytecode lead to another one (man/lslc.1, EXIT STATUS).       *)
THEOREM ZeroMeansFaultlessAlways == Spec => []ZeroMeansFaultless
<1>1. DriverInv => ZeroMeansFaultless
  BY DEF DriverInv, ResultInv, Verdict, ZeroMeansFaultless
<1> QED BY <1>1, DriverInvAlways, PTL

(* The code of a file depends on the file and the options alone, however   *)
(* many files there are and in whatever order (compile_file).              *)
THEOREM VerdictsAlways == Spec => []VerdictsAreTheirOwn
<1>1. DriverInv => VerdictsAreTheirOwn
  BY DEF DriverInv, ResultInv, Verdict, VerdictsAreTheirOwn
<1> QED BY <1>1, DriverInvAlways, PTL

(* Whatever bytecode is on the disk after this run's writing is that of a  *)
(* script without errors, and older bytecode vouches for nothing.          *)
THEOREM BytecodeAlways == Spec => []BytecodeOfFaultless
<1>1. DriverInv => BytecodeOfFaultless
  BY DEF DriverInv, DiskInv
<1> QED BY <1>1, DriverInvAlways, PTL

(* Without -o the place of the bytecode gives away the stem.               *)
LEMMA PlaceGivesStem ==
  ASSUME opts.out = Default, NEW q \in Path, NEW r \in Path, OutPath(q) = OutPath(r)
  PROVE  PlainStem(q) = PlainStem(r)
<1> DEFINE Words == STRING \cup {"out", "lslbc"}
<1>1. ASSUME NEW p \in Path
      PROVE  PlainStem(p) \in Seq(Words) /\ OutPath(p) = Append(PlainStem(p), "lslbc")
  <2>1. p \in Seq(Words) /\ p # <<>>
    BY DEF Path
  <2>2. Front(p) \in Seq(Words)
    BY <2>1, EmptySeq DEF Front
  <2>3. Stem(p) \in Seq(Words)
    BY <2>1, <2>2 DEF Stem
  <2>4. <<"out">> \in Seq(Words)
    OBVIOUS
  <2>5. <<"out", "lslbc">> = Append(<<"out">>, "lslbc")
    OBVIOUS
  <2> QED BY <2>3, <2>4, <2>5 DEF PlainStem, OutPath
<1>2. /\ PlainStem(q) \in Seq(Words) /\ PlainStem(r) \in Seq(Words)
      /\ Append(PlainStem(q), "lslbc") = Append(PlainStem(r), "lslbc")
  BY <1>1
<1>3. "lslbc" \in Words
  OBVIOUS
<1> HIDE DEF Words
<1> QED BY <1>2, <1>3, AppendInjective

(* As long as no two of them have names alike, each script that was        *)
(* compiled finds its own bytecode at the end (main.c:250-264).            *)
THEOREM OutputsApartAlways == Spec => []OutputsApart
<1>1. DriverInv => OutputsApart
  <2> SUFFICES ASSUME DriverInv, opts.emit, opts.out = Default, ~Dumped,
                      \A i, j \in DOMAIN results :
                        results[i].path # results[j].path =>
                          /\ PlainStem(results[i].path) # PlainStem(results[j].path)
                          /\ BareStem(results[i].path) # BareStem(results[j].path),
                      NEW i \in DOMAIN results, results[i].code = 0
               PROVE  \E path \in DOMAIN disk : disk[path].of = results[i].path
    BY DEF OutputsApart
  <2>1. \A j \in DOMAIN results : results[j].path \in Path
    <3>1. results \in Seq(Result) /\ \A path \in DOMAIN scripts : path \in Path
      BY DEF DriverInv, PlaceInv
    <3>2. \A j \in DOMAIN results : results[j] \in Result
      BY <3>1
    <3> QED BY <3>1, <3>2 DEF Result
  <2> DEFINE place == OutPath(results[i].path)
  <2>2. place \in DOMAIN disk /\ disk[place].of # Earlier /\ OutPath(disk[place].of) = place
    BY DEF DriverInv, DiskInv, BytecodeOfFaultless, Writes
  <2>3. PICK j \in DOMAIN results : results[j].path = disk[place].of
    BY <2>2 DEF DriverInv, DiskInv
  <2>4. PlainStem(results[j].path) = PlainStem(results[i].path)
    BY <2>1, <2>2, <2>3, PlaceGivesStem
  <2> QED BY <2>2, <2>3, <2>4
<1> QED BY <1>1, DriverInvAlways, PTL
=============================================================================
