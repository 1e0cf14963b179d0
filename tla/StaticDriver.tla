---------------------------- MODULE StaticDriver ----------------------------
(***************************************************************************)
(* The command line program: main() hands the options, one by one and in   *)
(* any order, to a StaticDriver, whose run() makes a random tree of four   *)
(* levels, compiles it and writes the module to a file or to stdout.       *)
(*                                                                         *)
(* A file name is a sequence of pieces that start at a slash or a dot. The *)
(* code looks at the length of a name, at its last dot and at its end.     *)
(***************************************************************************)
EXTENDS CodeGenerators, SequencesExt

CONSTANTS
  None,            \* no generator, no file, still running
  OutputNames,     \* what users pass with -o, without leading dash
  PieceLength,     \* the number of characters of every piece
  Dotted, Slashed, \* the pieces that start with a dot, with a slash
  MaxOptions       \* bound on the options of a command line

ASSUME NamesAssumption ==
  /\ OutputNames \subseteq Seq(DOMAIN PieceLength) \ {<<>>}
  /\ PieceLength \in [DOMAIN PieceLength -> Nat \ {0}]
  /\ {".bc", ".ll"} \subseteq Dotted /\ PieceLength[".bc"] = 3 /\ PieceLength[".ll"] = 3
  /\ Dotted \cup Slashed \subseteq DOMAIN PieceLength

ASSUME NoneAssumption == None \notin {"success", "failure", "aborted", "thrown"}
ASSUME MaxOptionsAssumption == MaxOptions \in Nat

VARIABLES
  phase,           \* where main() or run() is
  given,           \* options consumed so far
  config,          \* StaticDriver's members; names are <<>> when empty
  selector,        \* what run() passes to setCodegenSelector
  stdout,          \* what has been printed, in order
  file,            \* the module written to a file
  exit             \* how the process ended

vars == <<phase, given, config, selector, stdout, file, exit>>

InputLevels == 4   \* of the tree that run() makes; the input is not read yet

-----------------------------------------------------------------------------
(* File names *)

\* The position of the piece at the last dot, 0 if there is none.
LastDot(name) == SelectLastInSeq(name, LAMBDA piece : piece \in Dotted)
Size(name) == FoldLeft(LAMBDA n, piece : n + PieceLength[piece], 0, name)

Ext == IF config.writeAsBitcode THEN ".bc" ELSE ".ll"

\* name.size() - ext.size() wraps, and substr throws beyond the end.
TooShort(name) == Size(name) < PieceLength[Ext]

\* Mutant: an extension is appended only where there is none.
EnsureOutputFileExtOnce(name) ==
  IF LastDot(name) # 0 THEN name ELSE Append(name, Ext)

EnsureOutputFileExt(name) ==
  IF Last(name) = Ext THEN name
  ELSE IF LastDot(name) = 0 THEN Append(name, Ext)
       ELSE Append(SubSeq(name, 1, LastDot(name) - 1), Ext)

IsOutputFileSpecified == config.outputFileName # <<>>

-----------------------------------------------------------------------------
(* main: options *)

Init ==
  /\ phase = "options" /\ given = 0
  /\ config = [writeAsBitcode |-> TRUE, debug |-> FALSE, optimizationLevel |-> 0,
               defaultCodegen |-> None, fallbackCodegen |-> None,
               outputFileName |-> <<>>]
  /\ selector = None
  /\ stdout = <<>>
  /\ file = None
  /\ exit = None

Consume == phase = "options" /\ given < MaxOptions /\ given' = given + 1

Set(newConfig) ==
  /\ Consume
  /\ config' = newConfig
  /\ UNCHANGED <<phase, selector, stdout, file, exit>>

Exit(status) == phase' = "exited" /\ exit' = status

OptionHelp ==
  /\ Consume
  /\ stdout' = Append(stdout, "help")
  /\ Exit("success")
  /\ UNCHANGED <<config, selector, file>>

OptionDebug == Set([config EXCEPT !.debug = TRUE])
OptionText == Set([config EXCEPT !.writeAsBitcode = FALSE])
OptionOutput(name) == Set([config EXCEPT !.outputFileName = name])

\* Mutant: the digit's character code is taken for its value.
OptionOptimizeCode(level) == Set([config EXCEPT !.optimizationLevel = 48 + level])
OptionOptimize(level) == Set([config EXCEPT !.optimizationLevel = level])

OptionGenerator(codegen) ==
  Set([config EXCEPT !.defaultCodegen = codegen, !.fallbackCodegen = L1IfThenElse])

\* An unknown option, or one whose argument is missing.
OptionIgnored == Set(config)

\* An argument of -O, -L or -o that is not valid.
InvalidArgument ==
  /\ Consume
  /\ Exit("failure")
  /\ UNCHANGED <<config, selector, stdout, file>>

\* -o with an empty argument fails isValidArgument's assertion.
EmptyArgument ==
  /\ Consume
  /\ Exit("aborted")
  /\ UNCHANGED <<config, selector, stdout, file>>

\* No input, or an empty name.
MissingInput ==
  /\ phase = "options"
  /\ Exit("failure")
  /\ UNCHANGED <<given, config, selector, stdout, file>>

\* The first input is taken, others are ignored.
Input ==
  /\ phase = "options"
  /\ phase' = "run"
  /\ UNCHANGED <<given, config, selector, stdout, file, exit>>

-----------------------------------------------------------------------------
(* run *)

\* run() returns early and main() does not know.
CannotReadInput ==
  /\ phase = "run"
  /\ Exit("success")
  /\ UNCHANGED <<given, config, selector, stdout, file>>

\* Mutant: no fallback for the last levels.
ChosenSelectorDefaultOnly ==
  IF config.defaultCodegen = None THEN DefaultSelector
  ELSE [r \in 1..255 |-> config.defaultCodegen]

ChosenSelector ==
  IF config.defaultCodegen = None \/ config.fallbackCodegen = None
  THEN DefaultSelector
  ELSE [r \in 1..255 |-> IF r >= config.defaultCodegen.depth
                         THEN config.defaultCodegen ELSE config.fallbackCodegen]

\* Mutant: progress is reported in any case.
ProgressAlways ==
  IF config.debug THEN <<"compiling", "debug">> ELSE <<"compiling">>

Progress ==
  IF ~IsOutputFileSpecified THEN <<>>
  ELSE IF config.debug THEN <<"compiling", "debug">> ELSE <<"compiling">>

Compile ==
  /\ phase = "run"
  /\ phase' = "compiled"
  /\ selector' = ChosenSelector
  /\ stdout' = stdout \o Progress
  /\ UNCHANGED <<given, config, file, exit>>

Module == [bitcode |-> config.writeAsBitcode, optimized |-> config.optimizationLevel > 0]

WriteToStdout ==
  /\ phase = "compiled" /\ ~IsOutputFileSpecified
  /\ stdout' = Append(stdout, "module")
  /\ Exit("success")
  /\ UNCHANGED <<given, config, selector, file>>

\* std::out_of_range leaves main()
ThrowOnName ==
  /\ phase = "compiled" /\ IsOutputFileSpecified
  /\ TooShort(config.outputFileName)
  /\ Exit("thrown")
  /\ UNCHANGED <<given, config, selector, stdout, file>>

CannotOpenOutput ==
  /\ phase = "compiled" /\ IsOutputFileSpecified
  /\ ~TooShort(config.outputFileName)
  /\ Exit("success")
  /\ UNCHANGED <<given, config, selector, stdout, file>>

WriteToFile ==
  /\ phase = "compiled" /\ IsOutputFileSpecified
  /\ ~TooShort(config.outputFileName)
  /\ stdout' = Append(stdout, "writing")
  /\ file' = [name |-> EnsureOutputFileExt(config.outputFileName), module |-> Module]
  /\ Exit("success")
  /\ UNCHANGED <<given, config, selector>>

MainStep ==
  \/ OptionHelp \/ OptionDebug \/ OptionText \/ OptionIgnored
  \/ InvalidArgument \/ EmptyArgument
  \/ \E level \in 0..3 : OptionOptimize(level)
  \/ \E codegen \in {L1IfThenElse, LXSubtreeSwitch(2), L3SubtreeSwitchAVX} :
       OptionGenerator(codegen)
  \/ \E name \in OutputNames : OptionOutput(name)
  \/ MissingInput \/ Input

RunStep ==
  \/ CannotReadInput \/ Compile
  \/ WriteToStdout \/ ThrowOnName \/ CannotOpenOutput \/ WriteToFile

Next == MainStep \/ RunStep
Spec == Init /\ [][Next]_vars

-----------------------------------------------------------------------------
(* Properties *)

TypeOK ==
  /\ phase \in {"options", "run", "compiled", "exited"} /\ given \in 0..MaxOptions
  /\ config.outputFileName \in OutputNames \cup {<<>>}
  /\ {config.writeAsBitcode, config.debug} \subseteq BOOLEAN
  /\ config.optimizationLevel \in 0..3
  /\ {config.defaultCodegen, config.fallbackCodegen} \subseteq Generators \cup {None}
  /\ exit \in {None, "success", "failure", "aborted", "thrown"} /\ (exit # None <=> phase = "exited")
  /\ file # None => phase = "exited" /\ exit = "success"

(* Whatever the options, a module written to stdout is all that is written *)
(* there, so that it can be piped: messages are for the run with a file.   *)
ModuleAlone ==
  Contains(stdout, "module") => stdout = <<"module">> /\ file = None

(* Whether -S comes before or after -o, the extension of the file written  *)
(* tells its format.                                                       *)
ExtensionTellsFormat ==
  file # None => Last(file.name) = IF file.module.bitcode THEN ".bc" ELSE ".ll"

(* With any of the generators a user may select, the selector that run()   *)
(* makes of it and its fallback is one that compile() does not abort on.   *)
SelectorFits == selector # None => UsesUp(selector, InputLevels, 4)

Directory(name) ==
  SubSeq(name, 1, SelectLastInSeq(name, LAMBDA piece : piece \in Slashed) - 1)

(* main_static.cpp:24 offers "-o FILE_NAME   Write output to FILE_NAME":   *)
(* no name ends the program in an exception, or sends the output to        *)
(* another directory than the one it names.                                *)
WritesToFileName ==
  /\ exit # "thrown"
  /\ file # None => Directory(file.name) = Directory(config.outputFileName)
=============================================================================
