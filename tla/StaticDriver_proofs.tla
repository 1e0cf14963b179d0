------------------------- MODULE StaticDriver_proofs -------------------------
(***************************************************************************)
(* The command line program, with any options in any number and any names: *)
(* what it writes to stdout can be piped, the name of its file tells the   *)
(* format, and every generator that can be chosen compiles the tree.       *)
(***************************************************************************)
EXTENDS StaticDriver, SequenceTheorems, WellFoundedInduction, TLAPS

(* A selection that uses the levels up whatever level it is asked for.     *)
Spans(chosen, levels, maxDepth) ==
  \A r \in 1..levels : chosen[r].depth \in 1..maxDepth /\ chosen[r].depth <= r

(* The options given so far, in whatever order.                            *)
Options ==
  /\ config \in [writeAsBitcode : BOOLEAN, debug : BOOLEAN, optimizationLevel : 0..3,
                 defaultCodegen : {None, L1IfThenElse, LXSubtreeSwitch(2), L3SubtreeSwitchAVX},
                 fallbackCodegen : {None, L1IfThenElse},
                 outputFileName : OutputNames \cup {<<>>}]
  /\ phase \in {"options", "run", "compiled", "exited"} /\ given \in 0..MaxOptions

(* What has been written where the program is: nothing before it is done,  *)
(* progress only when there will be a file.                                *)
Written ==
  /\ phase \in {"options", "run"} => stdout = <<>> /\ selector = None
  /\ phase # "exited" => file = None /\ exit = None
  /\ phase = "compiled" => stdout = Progress
  /\ phase = "exited" =>
       /\ exit \in {"success", "failure", "aborted", "thrown"}
       /\ file # None => exit = "success"

StaticInv == Options /\ Written /\ ModuleAlone /\ ExtensionTellsFormat /\ SelectorFits

(* A set of natural numbers has a least one: that `<` is well-founded says *)
(* so, of sets. It makes up for the induction theorems on predicates.      *)
LEMMA LeastNumber ==
  ASSUME NEW T \in SUBSET Nat, T # {}
  PROVE  \E x \in T : \A y \in T : x <= y
<1> DEFINE less == {p \in Nat \X Nat : p[1] < p[2]}
<1>1. IsWellFoundedOn(less, Nat)
  BY NatLessThanWellFounded DEF OpToRel
<1>2. \A p \in Nat \X Nat : p[1] < p[2] => p \in less
  OBVIOUS
<1> HIDE DEF less
<1>3. PICK x \in T : \A y \in T : ~(<<y, x>> \in less)
  BY <1>1, WFMin, Zenon
<1>4. ASSUME NEW y \in T PROVE x <= y
  <2>1. <<y, x>> \in Nat \X Nat /\ <<y, x>>[1] = y /\ <<y, x>>[2] = x
    OBVIOUS
  <2>2. ~(y < x)
    BY <1>2, <1>3, <2>1
  <2> QED BY <2>2
<1> QED BY <1>4

(* Such a selection suits compile().                                       *)
LEMMA SpansUsesUp ==
  ASSUME NEW chosen, NEW levels \in Nat, NEW maxDepth \in Nat, Spans(chosen, levels, maxDepth)
  PROVE  UsesUp(chosen, levels, maxDepth)
<1> DEFINE Unfold(f) == [r \in 0..levels |->
             r > 0 => /\ chosen[r].depth \in 1..maxDepth /\ chosen[r].depth <= r
                      /\ f[r - chosen[r].depth]]
           all == [r \in 0..levels |-> TRUE]
           fits == CHOOSE f : f = Unfold(f)
<1>1. \A r \in 1..levels : /\ chosen[r].depth \in 1..maxDepth /\ chosen[r].depth <= r
                           /\ r - chosen[r].depth \in 0..levels /\ r - chosen[r].depth < r
  BY DEF Spans
<1>2. all = Unfold(all)
  <2> DEFINE Fits(r) == r > 0 => /\ chosen[r].depth \in 1..maxDepth /\ chosen[r].depth <= r
                                 /\ all[r - chosen[r].depth]
  <2>1. ASSUME NEW r \in 0..levels PROVE Fits(r) <=> TRUE
    <3>1. r > 0 => /\ chosen[r].depth \in 1..maxDepth /\ chosen[r].depth <= r
                   /\ r - chosen[r].depth \in 0..levels
      BY <1>1
    <3> QED BY <3>1
  <2>2. Unfold(all) = [r \in 0..levels |-> Fits(r)]
    OBVIOUS
  <2> HIDE DEF Fits, Unfold
  <2>3. [r \in 0..levels |-> Fits(r)] = [r \in 0..levels |-> TRUE]
    BY <2>1, Zenon
  <2> QED BY <2>2, <2>3
<1> HIDE DEF all
<1>3. fits = Unfold(fits)
  BY <1>2
<1> HIDE DEF fits
<1>4. fits[levels]
  <2> DEFINE T == {r \in 0..levels : ~fits[r]}
  <2> SUFFICES ASSUME T # {} PROVE FALSE
    OBVIOUS
  <2>1. PICK x \in T : \A y \in T : x <= y
    <3>1. T \in SUBSET Nat
      OBVIOUS
    <3> HIDE DEF T
    <3> QED BY <3>1, LeastNumber
  <2>2. x > 0 /\ ~(/\ chosen[x].depth \in 1..maxDepth /\ chosen[x].depth <= x
                   /\ fits[x - chosen[x].depth])
    BY <1>3, <2>1
  <2>3. ~fits[x - chosen[x].depth] /\ x - chosen[x].depth \in 0..levels /\ x - chosen[x].depth < x
    BY <1>1, <2>2
  <2>4. x - chosen[x].depth \in T /\ ~(x <= x - chosen[x].depth)
    BY <2>1, <2>3
  <2> QED BY <2>1, <2>4
<1> QED BY <1>4 DEF UsesUp, fits, Unfold

(* The last dot, if there is one, is a position in the name.               *)
LEMMA LastDotWithin ==
  ASSUME NEW name \in Seq(DOMAIN PieceLength)
  PROVE  LastDot(name) \in 0..Len(name)
<1> DEFINE I == {i \in 1..Len(name) : name[i] \in Dotted}
           max == CHOOSE x \in I : \A y \in I : x >= y
<1>1. LastDot(name) = IF I # {} THEN max ELSE 0
  BY DEF LastDot, SelectLastInSeq, Max
<1>2. Len(name) \in Nat
  OBVIOUS
<1>3. CASE I # {}
  <2> DEFINE T == {Len(name) - i : i \in I}
  <2>1. T \in SUBSET Nat /\ T # {}
    BY <1>2, <1>3
  <2>2. PICK t \in T : \A u \in T : t <= u
    BY <2>1, LeastNumber
  <2>3. PICK x \in I : t = Len(name) - x
    BY <2>2
  <2>4. ASSUME NEW y \in I PROVE x >= y
    <3>1. t <= Len(name) - y
      BY <2>2
    <3> QED BY <1>2, <2>3, <3>1
  <2> HIDE DEF I, T
  <2>5. max \in I
    BY <2>3, <2>4
  <2> QED BY <1>1, <1>2, <1>3, <2>5 DEF I
<1>4. CASE I = {}
  BY <1>1, <1>2, <1>4
<1> QED BY <1>3, <1>4

(* The last piece of a file's name is its extension.                       *)
LEMMA ExtensionEnsured ==
  ASSUME NEW name \in OutputNames
  PROVE  Last(EnsureOutputFileExt(name)) = Ext
<1>1. name \in Seq(DOMAIN PieceLength)
  BY NamesAssumption
<1>2. Ext \in DOMAIN PieceLength
  BY NamesAssumption DEF Ext
<1>3. \A front \in Seq(DOMAIN PieceLength) : Last(Append(front, Ext)) = Ext
  BY <1>2, AppendProperties DEF Last
<1>4. CASE Last(name) = Ext
  BY <1>4 DEF EnsureOutputFileExt
<1>5. CASE Last(name) # Ext /\ LastDot(name) = 0
  BY <1>1, <1>3, <1>5 DEF EnsureOutputFileExt
<1>6. CASE Last(name) # Ext /\ LastDot(name) # 0
  <2> DEFINE front == SubSeq(name, 1, LastDot(name) - 1)
  <2>1. LastDot(name) \in 1..Len(name) /\ Len(name) \in Nat
    BY <1>1, <1>6, LastDotWithin
  <2>2. front \in Seq(DOMAIN PieceLength)
    BY <1>1, <2>1, SubSeqProperties
  <2> HIDE DEF front
  <2>3. EnsureOutputFileExt(name) = Append(front, Ext)
    BY <1>6 DEF EnsureOutputFileExt, front
  <2> QED BY <1>3, <2>2, <2>3
<1> QED BY <1>4, <1>5, <1>6

(* Whatever generator was chosen, the selector uses up the input's levels. *)
LEMMA ChosenFits ==
  ASSUME Options
  PROVE  UsesUp(ChosenSelector, InputLevels, 4)
<1> DEFINE default == config.defaultCodegen
           fallback == config.fallbackCodegen
<1>1. /\ default \in {None, L1IfThenElse, LXSubtreeSwitch(2), L3SubtreeSwitchAVX}
      /\ fallback \in {None, L1IfThenElse}
  BY DEF Options
<1>2. /\ L1IfThenElse.depth = 1 /\ LXSubtreeSwitch(2).depth = 2 /\ L3SubtreeSwitchAVX.depth = 3
  BY DEF L1IfThenElse, LXSubtreeSwitch, L3SubtreeSwitchAVX
<1> HIDE DEF default, fallback
<1>3. ASSUME NEW r \in 1..4
      PROVE  ChosenSelector[r].depth \in 1..4 /\ ChosenSelector[r].depth <= r
  <2>1. r \in 1..255
    OBVIOUS
  <2>2. CASE default = None \/ fallback = None
    <3>1. ChosenSelector = DefaultSelector
      BY <2>2 DEF ChosenSelector, default, fallback
    <3>2. DefaultSelector[r] = IF r = 3 THEN L3SubtreeSwitchAVX
                               ELSE IF r = 2 THEN LXSubtreeSwitch(2) ELSE L1IfThenElse
      BY <2>1 DEF DefaultSelector
    <3> QED BY <1>2, <3>1, <3>2
  <2>3. CASE ~(default = None \/ fallback = None)
    <3>1. ChosenSelector[r] = IF r >= default.depth THEN default ELSE fallback
      BY <2>1, <2>3 DEF ChosenSelector, default, fallback
    <3>2. default \in {L1IfThenElse, LXSubtreeSwitch(2), L3SubtreeSwitchAVX} /\ fallback = L1IfThenElse
      BY <1>1, <2>3
    <3>3. default.depth \in 1..3 /\ fallback.depth = 1
      BY <1>2, <3>2
    <3> QED BY <3>1, <3>3
  <2> QED BY <2>2, <2>3
<1>4. Spans(ChosenSelector, InputLevels, 4)
  BY <1>3 DEF Spans, InputLevels
<1> QED BY <1>4, SpansUsesUp DEF InputLevels

-----------------------------------------------------------------------------
(* The invariant                                                           *)

(* Words that are printed around a module are not the module.              *)
LEMMA NoModuleIn ==
  /\ ~Contains(<<>>, "module") /\ ~Contains(<<"help">>, "module")
  /\ ~Contains(<<"compiling">>, "module") /\ ~Contains(<<"compiling", "debug">>, "module")
BY DEF Contains

Words == {"compiling", "debug", "writing"}

(* ...nor is the message that the module is being written.                 *)
LEMMA NoModuleAppended ==
  ASSUME NEW words \in Seq(Words), ~Contains(words, "module")
  PROVE  ~Contains(Append(words, "writing"), "module")
<1>1. "writing" \in Words
  BY DEF Words
<1>2. Len(Append(words, "writing")) = Len(words) + 1 /\ Len(words) \in Nat
  BY <1>1, AppendProperties
<1>3. /\ \A i \in 1..Len(words) : Append(words, "writing")[i] = words[i]
      /\ Append(words, "writing")[Len(words) + 1] = "writing"
  BY <1>1, AppendProperties
<1> QED BY <1>2, <1>3 DEF Contains

(* While options are read, only the configuration changes, or main() ends. *)
LEMMA MainKeeps ==
  ASSUME StaticInv, MainStep
  PROVE  StaticInv'
<1>1. phase = "options" /\ stdout = <<>> /\ selector = None /\ file = None /\ exit = None
  BY DEF MainStep, OptionHelp, OptionDebug, OptionText, OptionIgnored, InvalidArgument, EmptyArgument,
    OptionOptimize, OptionGenerator, OptionOutput, MissingInput, Input, Set, Consume, StaticInv, Written
<1> DEFINE Generator == {L1IfThenElse, LXSubtreeSwitch(2), L3SubtreeSwitchAVX}
           Configs == [writeAsBitcode : BOOLEAN, debug : BOOLEAN, optimizationLevel : 0..3,
                       defaultCodegen : {None} \cup Generator, fallbackCodegen : {None, L1IfThenElse},
                       outputFileName : OutputNames \cup {<<>>}]
<1>2. config \in Configs /\ given \in 0..MaxOptions
  BY DEF StaticInv, Options
<1>3. given' \in 0..MaxOptions
  BY <1>1, <1>2, MaxOptionsAssumption DEF MainStep, OptionHelp, OptionDebug, OptionText, OptionIgnored, InvalidArgument, EmptyArgument,
    OptionOptimize, OptionGenerator, OptionOutput, MissingInput, Input, Set, Consume
<1>4. config' \in Configs
  <2> HIDE DEF Generator
  <2>1. ASSUME NEW newConfig, Set(newConfig) PROVE config' = newConfig
    BY <2>1 DEF Set
  <2>2. CASE OptionDebug
    BY <1>2, <2>1, <2>2 DEF OptionDebug
  <2>3. CASE OptionText
    BY <1>2, <2>1, <2>3 DEF OptionText
  <2>4. CASE OptionIgnored
    BY <1>2, <2>1, <2>4 DEF OptionIgnored
  <2>5. ASSUME NEW level \in 0..3, OptionOptimize(level) PROVE config' \in Configs
    BY <1>2, <2>1, <2>5 DEF OptionOptimize
  <2>6. ASSUME NEW codegen \in Generator, OptionGenerator(codegen) PROVE config' \in Configs
    BY <1>2, <2>1, <2>6 DEF OptionGenerator
  <2>7. ASSUME NEW name \in OutputNames, OptionOutput(name) PROVE config' \in Configs
    BY <1>2, <2>1, <2>7 DEF OptionOutput
  <2>8. CASE OptionHelp \/ InvalidArgument \/ EmptyArgument \/ MissingInput \/ Input
    BY <1>2, <2>8 DEF OptionHelp, InvalidArgument, EmptyArgument, MissingInput, Input
  <2> QED BY <2>2, <2>3, <2>4, <2>5, <2>6, <2>7, <2>8 DEF MainStep, Generator
<1>5. /\ selector' = None /\ file' = None
      /\ \/ phase' \in {"options", "run"} /\ stdout' = <<>> /\ exit' = None
         \/ /\ phase' = "exited" /\ stdout' \in {<<>>, <<"help">>}
            /\ exit' \in {"success", "failure", "aborted", "thrown"}
  BY <1>1 DEF MainStep, OptionHelp, OptionDebug, OptionText, OptionIgnored, InvalidArgument, EmptyArgument,
    OptionOptimize, OptionGenerator, OptionOutput, MissingInput, Input, Set, Consume, Exit
<1>6. Options'
  BY <1>3, <1>4, <1>5 DEF Options
<1>7. Written'
  BY <1>5 DEF Written
<1>8. ModuleAlone' /\ ExtensionTellsFormat' /\ SelectorFits'
  BY <1>5, NoModuleIn DEF ModuleAlone, ExtensionTellsFormat, SelectorFits
<1> QED BY <1>6, <1>7, <1>8 DEF StaticInv

(* run() prints progress only if a file was named, and the module only if  *)
(* none was.                                                               *)
LEMMA RunKeeps ==
  ASSUME StaticInv, RunStep
  PROVE  StaticInv'
<1>1. phase \in {"run", "compiled"} /\ UNCHANGED <<given, config>> /\ file = None /\ exit = None
  BY DEF RunStep, CannotReadInput, Compile, WriteToStdout, ThrowOnName, CannotOpenOutput, WriteToFile,
    StaticInv, Written
<1>2. phase' \in {"compiled", "exited"}
  BY DEF RunStep, CannotReadInput, Compile, WriteToStdout, ThrowOnName, CannotOpenOutput, WriteToFile, Exit
<1>3. Options'
  BY <1>1, <1>2 DEF StaticInv, Options
<1>4. Progress \in {<<>>, <<"compiling">>, <<"compiling", "debug">>}
      /\ (~IsOutputFileSpecified => Progress = <<>>)
  BY DEF Progress
<1>5. CASE CannotReadInput
  <2>1. /\ phase = "run" /\ phase' = "exited" /\ exit' = "success"
        /\ stdout' = <<>> /\ selector' = None /\ file' = None
    BY <1>1, <1>5 DEF CannotReadInput, Exit, StaticInv, Written
  <2>2. Written' /\ ModuleAlone' /\ ExtensionTellsFormat' /\ SelectorFits'
    BY <2>1, NoModuleIn DEF Written, ModuleAlone, ExtensionTellsFormat, SelectorFits
  <2> QED BY <1>3, <2>2 DEF StaticInv
<1>6. CASE Compile
  <2>1. /\ phase' = "compiled" /\ stdout' = <<>> \o Progress /\ selector' = ChosenSelector
        /\ file' = None /\ exit' = None
    BY <1>1, <1>6 DEF Compile, StaticInv, Written
  <2>2. stdout' = Progress
    BY <1>4, <2>1
  <2>3. ~Contains(stdout', "module")
    BY <1>4, <2>2, NoModuleIn
  <2>4. Progress' = Progress
    BY <1>1 DEF Progress, IsOutputFileSpecified
  <2>5. Written' /\ ModuleAlone' /\ ExtensionTellsFormat'
    BY <2>1, <2>2, <2>3, <2>4 DEF Written, ModuleAlone, ExtensionTellsFormat
  <2>6. SelectorFits'
    BY <2>1, ChosenFits DEF SelectorFits, StaticInv
  <2> QED BY <1>3, <2>5, <2>6 DEF StaticInv
<1>7. CASE WriteToStdout
  <2>1. /\ phase' = "exited" /\ exit' = "success" /\ stdout' = Append(<<>>, "module")
        /\ selector' = selector /\ file' = None
    BY <1>1, <1>4, <1>7 DEF WriteToStdout, Exit, StaticInv, Written
  <2>2. stdout' = <<"module">>
    BY <2>1
  <2>3. Written' /\ ModuleAlone' /\ ExtensionTellsFormat'
    BY <2>1, <2>2 DEF Written, ModuleAlone, ExtensionTellsFormat
  <2>4. SelectorFits'
    BY <2>1 DEF SelectorFits, StaticInv
  <2> QED BY <1>3, <2>3, <2>4 DEF StaticInv
<1>8. CASE ThrowOnName \/ CannotOpenOutput
  <2>1. /\ phase' = "exited" /\ exit' \in {"success", "thrown"} /\ stdout' = Progress
        /\ selector' = selector /\ file' = None
    BY <1>1, <1>8 DEF ThrowOnName, CannotOpenOutput, Exit, StaticInv, Written
  <2>2. ~Contains(stdout', "module")
    BY <1>4, <2>1, NoModuleIn
  <2>3. Written' /\ ModuleAlone' /\ ExtensionTellsFormat'
    BY <2>1, <2>2 DEF Written, ModuleAlone, ExtensionTellsFormat
  <2>4. SelectorFits'
    BY <2>1 DEF SelectorFits, StaticInv
  <2> QED BY <1>3, <2>3, <2>4 DEF StaticInv
<1>9. CASE WriteToFile
  <2> DEFINE name == config.outputFileName
  <2>1. /\ phase' = "exited" /\ exit' = "success" /\ stdout' = Append(Progress, "writing")
        /\ selector' = selector /\ IsOutputFileSpecified
        /\ file' = [name |-> EnsureOutputFileExt(name), module |-> Module]
    BY <1>9 DEF WriteToFile, Exit, StaticInv, Written
  <2>2. Progress \in {<<"compiling">>, <<"compiling", "debug">>}
    BY <2>1 DEF Progress
  <2>3. Progress \in Seq(Words) /\ ~Contains(Progress, "module")
    <3>1. ASSUME NEW p \in Words, NEW q \in Words PROVE <<p>> \in Seq(Words) /\ <<p, q>> \in Seq(Words)
      OBVIOUS
    <3>2. "compiling" \in Words /\ "debug" \in Words
      BY DEF Words
    <3>3. <<"compiling">> \in Seq(Words) /\ <<"compiling", "debug">> \in Seq(Words)
      BY <3>1, <3>2, Zenon
    <3> QED BY <2>2, <3>3, NoModuleIn, Zenon
  <2>4. ~Contains(stdout', "module")
    BY <2>1, <2>3, NoModuleAppended
  <2>5. name \in OutputNames
    BY <2>1 DEF IsOutputFileSpecified, StaticInv, Options
  <2>6. Last(file'.name) = IF file'.module.bitcode THEN ".bc" ELSE ".ll"
    BY <2>1, <2>5, ExtensionEnsured DEF Module, Ext
  <2>7. Written' /\ ModuleAlone' /\ ExtensionTellsFormat'
    BY <2>1, <2>4, <2>6 DEF Written, ModuleAlone, ExtensionTellsFormat
  <2>8. SelectorFits'
    BY <2>1 DEF SelectorFits, StaticInv
  <2> QED BY <1>3, <2>7, <2>8 DEF StaticInv
<1> QED BY <1>5, <1>6, <1>7, <1>8, <1>9 DEF RunStep

(* Whatever the options, in whatever order, and wherever the program is,   *)
(* what has been written so far is in order.                               *)
THEOREM StaticInvariant == Spec => []StaticInv
<1>1. Init => StaticInv
  <2> SUFFICES ASSUME Init PROVE StaticInv
    OBVIOUS
  <2>1. Options
    BY MaxOptionsAssumption DEF Init, Options
  <2>2. Written
    BY DEF Init, Written
  <2>3. ModuleAlone /\ ExtensionTellsFormat /\ SelectorFits
    BY NoModuleIn DEF Init, ModuleAlone, ExtensionTellsFormat, SelectorFits
  <2> QED BY <2>1, <2>2, <2>3 DEF StaticInv
<1>2. StaticInv /\ [Next]_vars => StaticInv'
  <2> SUFFICES ASSUME StaticInv, [Next]_vars PROVE StaticInv'
    OBVIOUS
  <2>1. CASE UNCHANGED vars
    BY <2>1 DEF vars, StaticInv, Options, Written, Progress, IsOutputFileSpecified,
      ModuleAlone, ExtensionTellsFormat, SelectorFits
  <2> QED BY <2>1, MainKeeps, RunKeeps DEF Next
<1> QED BY <1>1, <1>2, PTL DEF Spec

(* The program's state is typed, its generators among those there are.     *)
THEOREM StaticTypeCorrect == Spec => []TypeOK
<1>1. StaticInv => TypeOK
  <2> SUFFICES ASSUME StaticInv PROVE TypeOK
    OBVIOUS
  <2>1. {L1IfThenElse, LXSubtreeSwitch(2), L3SubtreeSwitchAVX} \subseteq Generators
    BY DEF Generators
  <2>2. exit # None <=> phase = "exited"
    BY NoneAssumption DEF StaticInv, Options, Written
  <2> QED BY <2>1, <2>2 DEF StaticInv, Options, Written, TypeOK
<1> QED BY <1>1, StaticInvariant, PTL

(* A module on stdout is all that is written there.                        *)
THEOREM StdoutCanBePiped == Spec => []ModuleAlone
<1>1. StaticInv => ModuleAlone
  BY DEF StaticInv
<1> QED BY <1>1, StaticInvariant, PTL

(* The extension of the file written tells its format, for every name a    *)
(* user may give and for every order of -S and -o.                         *)
THEOREM FilesTellTheirFormat == Spec => []ExtensionTellsFormat
<1>1. StaticInv => ExtensionTellsFormat
  BY DEF StaticInv
<1> QED BY <1>1, StaticInvariant, PTL

(* Every generator that a user may select compiles the input's tree.       *)
THEOREM SelectionCompiles == Spec => []SelectorFits
<1>1. StaticInv => SelectorFits
  BY DEF StaticInv
<1> QED BY <1>1, StaticInvariant, PTL
=============================================================================
