---------------------------- MODULE Driver_proofs ---------------------------
(***************************************************************************)
(* Proofs about main of src/main.cpp as modelled in module Driver:         *)
(* DriverOutcome for every value of the constants.                        *)
(***************************************************************************)
EXTENDS Driver, SequenceTheorems, TLAPS

USE DriverBuildAssumption, DriverDirsAssumption

-----------------------------------------------------------------------------
(* Lemmas about the search paths and the search.                          *)

\* Concatenations of the tuples SearchPaths is built from.
LEMMA ConcatTuples ==
    ASSUME NEW a, NEW b, NEW c
    PROVE  /\ <<a>> \o <<b>> = <<a, b>>
           /\ <<a, b>> \o <<c>> = <<a, b, c>>
           /\ << >> \o <<c>> = <<c>>
<1> DEFINE S == {a, b, c}
<1>1. <<a>> \in Seq(S) /\ <<b>> \in Seq(S) /\ <<c>> \in Seq(S)
        /\ <<a, b>> \in Seq(S) /\ <<a, b, c>> \in Seq(S) /\ << >> \in Seq(S)
  BY SeqDef
<1>2. <<a>> \o <<b>> = <<a, b>>
  <2>1. <<a>> \o <<b>> \in Seq(S) /\ Len(<<a>> \o <<b>>) = 2
          /\ (<<a>> \o <<b>>)[1] = a /\ (<<a>> \o <<b>>)[2] = b
    BY <1>1, ConcatProperties
  <2>2. Len(<<a, b>>) = 2 /\ \A i \in 1..2 : (<<a>> \o <<b>>)[i] = <<a, b>>[i]
    BY <2>1
  <2>. QED
    BY <1>1, <2>1, <2>2, SeqEqual
<1>3. <<a, b>> \o <<c>> = <<a, b, c>>
  <2>1. <<a, b>> \o <<c>> \in Seq(S) /\ Len(<<a, b>> \o <<c>>) = 3
          /\ (<<a, b>> \o <<c>>)[1] = a /\ (<<a, b>> \o <<c>>)[2] = b
          /\ (<<a, b>> \o <<c>>)[3] = c
    BY <1>1, ConcatProperties
  <2>2. Len(<<a, b, c>>) = 3 /\ \A i \in 1..3 : (<<a, b>> \o <<c>>)[i] = <<a, b, c>>[i]
    BY <2>1
  <2>. QED
    BY <1>1, <2>1, <2>2, SeqEqual
<1>4. << >> \o <<c>> = <<c>>
  BY <1>1, ConcatEmptySeq
<1>. QED
  BY <1>2, <1>3, <1>4

\* SearchPaths lists the directories of the build's macros, in order, and
\* then the lib directory next to d; at most three paths.
LEMMA PathsForm ==
    ASSUME NEW d
    PROVE  /\ SearchPathsFor(d) \in Seq(SearchDirs \cup {d})
           /\ 1 <= Len(SearchPathsFor(d)) /\ Len(SearchPathsFor(d)) <= 3
           /\ SearchPathsFor(d)[Len(SearchPathsFor(d))] = d
           /\ \A j \in 1..(Len(SearchPathsFor(d)) - 1) : SearchPathsFor(d)[j] \in SearchDirs \ {CwdLib}
           /\ \A p \in SearchDirs \ {ExeLib, CwdLib} : \E j \in 1..Len(SearchPathsFor(d)) : SearchPathsFor(d)[j] = p
<1>1. CASE QemuInstall /\ Install
  <2>1. SearchPathsFor(d) = (<<QemuLib>> \o <<InstallLib>>) \o <<d>>
    BY <1>1 DEF SearchPathsFor
  <2>2. SearchPathsFor(d) = <<QemuLib, InstallLib, d>>
    BY <2>1, ConcatTuples
  <2>. QED
    BY <1>1, <2>2 DEF SearchDirs
<1>2. CASE QemuInstall /\ ~Install
  <2>1. SearchPathsFor(d) = (<<QemuLib>> \o << >>) \o <<d>>
    BY <1>2 DEF SearchPathsFor
  <2>2. <<QemuLib>> \o << >> = <<QemuLib>> /\ <<QemuLib>> \in Seq({QemuLib})
    BY ConcatEmptySeq, SeqDef
  <2>3. SearchPathsFor(d) = <<QemuLib, d>>
    BY <2>1, <2>2, ConcatTuples
  <2>. QED
    BY <1>2, <2>3 DEF SearchDirs
<1>3. CASE ~QemuInstall /\ Install
  <2>1. SearchPathsFor(d) = <<InstallLib, d>>
    BY <1>3, ConcatTuples DEF SearchPathsFor
  <2>. QED
    BY <1>3, <2>1 DEF SearchDirs
<1>4. CASE ~QemuInstall /\ ~Install
  <2>1. SearchPathsFor(d) = <<d>>
    BY <1>4, ConcatTuples DEF SearchPathsFor
  <2>. QED
    BY <1>4, <2>1 DEF SearchDirs
<1>. QED
  BY <1>1, <1>2, <1>3, <1>4

-----------------------------------------------------------------------------
(* The inductive invariant.                                                *)

\* The search paths of the run, and the index findQemu stops at.
Paths == SearchPathsFor(ExeDirOf(RealPathOK))
Pick == FirstIndex(Paths, LAMBDA p : HasBoth(Dir[p]))

\* The entry address parseArgs stores for the -e argument.
ExpectedEntry == IF EntryArg = NoArg THEN 0 ELSE ToSizeT(ScanValue(EntryArg))

\* DriverOutcome with what each earlier point of main has established:
\* before the search the globals are empty; after parseArgs the command
\* line is accepted and its entry stored; after findQemu the globals hold
\* the first directory with both files, or stay empty when there is none;
\* a library that loads is the usable one.
DriverInv ==
    /\ pc \in {"parse", "findqemu", "load", "generate", "exit", "fatal"}
    /\ pc = "parse" => Params.EntryPointAddress = 0
    /\ pc \in {"parse", "findqemu"} =>
          LibTinycodePath = EmptyPath /\ LibHelpersPath = EmptyPath
    /\ pc \in {"findqemu", "load", "generate"} =>
          ArgsAccepted /\ Params.EntryPointAddress = ExpectedEntry
    /\ pc \in {"load", "generate"} =>
          /\ RealPathOK \/ ~AssertsEnabled
          /\ Pick = 0 => LibTinycodePath = EmptyPath
          /\ Pick # 0 => LibTinycodePath = Paths[Pick] /\ LibHelpersPath = Paths[Pick]
    /\ pc = "generate" => UsableLibrary
    /\ DriverOutcome

\* The first index of a short sequence that satisfies the search's test
\* exists when some index satisfies it, and is 0 otherwise.
LEMMA FirstHasBoth ==
    ASSUME Paths \in Seq(SearchDirs), Len(Paths) <= 3
    PROVE  /\ (FirstIndex(Paths, LAMBDA p : HasBoth(Dir[p])) = 0)
                <=> ~\E i \in 1..Len(Paths) : HasBoth(Dir[Paths[i]])
           /\ FirstIndex(Paths, LAMBDA p : HasBoth(Dir[p])) # 0 =>
                /\ FirstIndex(Paths, LAMBDA p : HasBoth(Dir[p])) \in 1..Len(Paths)
                /\ HasBoth(Dir[Paths[FirstIndex(Paths, LAMBDA p : HasBoth(Dir[p]))]])
<1> DEFINE P(i) == HasBoth(Dir[Paths[i]])
           Least(j) == P(j) /\ \A k \in 1..(j - 1) : ~P(k)
<1>1. Len(Paths) \in Nat
  BY LenProperties
<1>2. ASSUME \E i \in 1..Len(Paths) : P(i)
      PROVE  \E j \in 1..Len(Paths) : Least(j)
  <2>1. CASE P(1)
    BY <1>1, <1>2, <2>1
  <2>2. CASE ~P(1) /\ P(2) /\ 2 <= Len(Paths)
    BY <1>1, <1>2, <2>2
  <2>3. CASE ~P(1) /\ ~(P(2) /\ 2 <= Len(Paths))
    BY <1>1, <1>2, <2>3
  <2>. QED
    BY <2>1, <2>2, <2>3
<1>. QED
  BY <1>1, <1>2 DEF FirstIndex

\* The search paths lie among the search directories; findQemu's test
\* "some path holds both files" is Pick # 0, and Pick is then a path.
LEMMA PickFacts ==
    /\ Paths \in Seq(SearchDirs)
    /\ 1 <= Len(Paths) /\ Len(Paths) <= 3
    /\ (Pick = 0) <=> ~\E i \in 1..Len(Paths) : HasBoth(Dir[Paths[i]])
    /\ Pick # 0 => Pick \in 1..Len(Paths) /\ Paths[Pick] \in SearchDirs
<1>1. ExeDirOf(RealPathOK) \in SearchDirs
  BY DEF ExeDirOf, SearchDirs
<1>2. Paths \in Seq(SearchDirs) /\ 1 <= Len(Paths) /\ Len(Paths) <= 3
  <2>1. SearchDirs \cup {ExeDirOf(RealPathOK)} = SearchDirs
    BY <1>1
  <2>. QED
    BY <2>1, PathsForm DEF Paths
<1>3. /\ (Pick = 0) <=> ~\E i \in 1..Len(Paths) : HasBoth(Dir[Paths[i]])
      /\ Pick # 0 => Pick \in 1..Len(Paths)
  BY <1>2, FirstHasBoth DEF Pick
<1>. QED
  BY <1>2, <1>3, ElementOfSeq

\* UsableLibrary is the test of loadPTCLibrary on the directory findQemu
\* stops at.
LEMMA UsableIsPick ==
    UsableLibrary <=> Pick # 0 /\ Dir[Paths[Pick]] = "good"
BY DEF UsableLibrary, Pick, Paths, ExeDirOf

\* The entry address an -e argument converts to depends on it alone.
LEMMA EntryUnchanged ==
    ASSUME EntryArg' = EntryArg
    PROVE  ExpectedEntry' = ExpectedEntry
BY DEF ExpectedEntry

\* What no step of main changes: the inputs, and so the search and the
\* verdicts on the command line and the library.
LEMMA InputsUnchanged ==
    ASSUME Positional' = Positional, EntryArg' = EntryArg, DebugArg' = DebugArg,
           Dir' = Dir, RealPathOK' = RealPathOK
    PROVE  /\ Paths' = Paths /\ Pick' = Pick
           /\ ArgsAccepted' = ArgsAccepted /\ UsableLibrary' = UsableLibrary
           /\ ExpectedEntry' = ExpectedEntry
<1>1. Paths' = Paths /\ Pick' = Pick
  BY DEF Paths, Pick, FirstIndex
<1>2. ArgsAccepted' = ArgsAccepted
  BY DEF ArgsAccepted
<1>3. UsableLibrary' = UsableLibrary
  BY DEF UsableLibrary, FirstIndex
<1>4. ExpectedEntry' = ExpectedEntry
  BY EntryUnchanged
<1>. QED
  BY <1>1, <1>2, <1>3, <1>4

LEMMA InitDriverInv == Init => DriverInv
BY DEF Init, DriverInv, DriverOutcome

\* parseArgs: every early return ends main with EXIT_FAILURE on a command
\* line that is not accepted; the last branch stores the entry address.
LEMMA ParseStep ==
    ASSUME DriverInv, ParseArgs
    PROVE  DriverInv'
<1>0. /\ pc = "parse"
      /\ Positional' = Positional /\ EntryArg' = EntryArg /\ DebugArg' = DebugArg
      /\ Dir' = Dir /\ RealPathOK' = RealPathOK
      /\ LibTinycodePath' = LibTinycodePath /\ LibHelpersPath' = LibHelpersPath
  BY DEF ParseArgs, dinput
<1>1. /\ Paths' = Paths /\ Pick' = Pick
      /\ ArgsAccepted' = ArgsAccepted /\ UsableLibrary' = UsableLibrary
      /\ ExpectedEntry' = ExpectedEntry
  BY <1>0, InputsUnchanged
<1>2. CASE Positional # 2
  <2>1. pc' = "exit" /\ status' = "failure"
    BY <1>2 DEF ParseArgs
  <2>2. ~ArgsAccepted
    BY <1>2 DEF ArgsAccepted
  <2>. QED
    BY <1>0, <1>1, <2>1, <2>2 DEF DriverInv, DriverOutcome
<1>3. CASE Positional = 2 /\ EntryArg # NoArg /\ ScanCount(EntryArg) # 1
  <2>1. pc' = "exit" /\ status' = "failure"
    BY <1>3 DEF ParseArgs, EntryScanned
  <2>2. ~ArgsAccepted
    BY <1>3 DEF ArgsAccepted
  <2>. QED
    BY <1>0, <1>1, <2>1, <2>2 DEF DriverInv, DriverOutcome
<1>4. CASE /\ Positional = 2 /\ (EntryArg = NoArg \/ ScanCount(EntryArg) = 1)
           /\ DebugArg # NoArg /\ DebugArg \notin DebugTypes
  <2>1. pc' = "exit" /\ status' = "failure"
    BY <1>4 DEF ParseArgs, EntryScanned
  <2>2. ~ArgsAccepted
    BY <1>4 DEF ArgsAccepted
  <2>. QED
    BY <1>0, <1>1, <2>1, <2>2 DEF DriverInv, DriverOutcome
<1>5. CASE /\ Positional = 2 /\ (EntryArg = NoArg \/ ScanCount(EntryArg) = 1)
           /\ (DebugArg = NoArg \/ DebugArg \in DebugTypes)
  <2>1. /\ pc' = "findqemu"
        /\ Params'.EntryPointAddress =
              IF EntryArg = NoArg THEN Params.EntryPointAddress ELSE EntryAddress(EntryArg)
    BY <1>5 DEF ParseArgs, EntryScanned
  <2>2. ArgsAccepted
    BY <1>5 DEF ArgsAccepted
  <2>3. Params'.EntryPointAddress = ExpectedEntry
    BY <1>0, <2>1 DEF DriverInv, ExpectedEntry, EntryAddress
  <2>. QED
    BY <1>0, <1>1, <2>1, <2>2, <2>3 DEF DriverInv, DriverOutcome
<1>. QED
  BY <1>2, <1>3, <1>4, <1>5

\* A build with assertions searches the installation's directories and
\* the executable's: a directory of either kind that holds both files
\* is one findQemu looks at.
LEMMA InstallSearched ==
    ASSUME RealPathOK
    PROVE  \A p \in {ExeLib} \cup (SearchDirs \ {CwdLib}) :
              \E i \in 1..Len(Paths) : Paths[i] = p
<1>1. Paths = SearchPathsFor(ExeLib)
  BY DEF Paths, ExeDirOf
<1>2. /\ 1 <= Len(Paths) /\ Paths[Len(Paths)] = ExeLib
      /\ \A p \in SearchDirs \ {ExeLib, CwdLib} : \E i \in 1..Len(Paths) : Paths[i] = p
  <2>1. /\ 1 <= Len(SearchPathsFor(ExeLib))
        /\ SearchPathsFor(ExeLib)[Len(SearchPathsFor(ExeLib))] = ExeLib
        /\ \A p \in SearchDirs \ {ExeLib, CwdLib} :
              \E i \in 1..Len(SearchPathsFor(ExeLib)) : SearchPathsFor(ExeLib)[i] = p
    BY PathsForm
  <2>. QED
    BY <1>1, <2>1
<1>. QED
  BY <1>2

\* findQemu: the globals get the first directory with both files; a
\* build with assertions stops when realpath fails or no directory has
\* them.
LEMMA FindStep ==
    ASSUME DriverInv, FindQemu
    PROVE  DriverInv'
<1>0. /\ pc = "findqemu"
      /\ Positional' = Positional /\ EntryArg' = EntryArg /\ DebugArg' = DebugArg
      /\ Dir' = Dir /\ RealPathOK' = RealPathOK
      /\ Params' = Params /\ status' = status
  BY DEF FindQemu, dinput
<1>1. /\ Paths' = Paths /\ Pick' = Pick
      /\ ArgsAccepted' = ArgsAccepted /\ UsableLibrary' = UsableLibrary
      /\ ExpectedEntry' = ExpectedEntry
  BY <1>0, InputsUnchanged
<1>2. /\ ArgsAccepted /\ Params.EntryPointAddress = ExpectedEntry
      /\ LibTinycodePath = EmptyPath /\ LibHelpersPath = EmptyPath
  BY <1>0 DEF DriverInv
<1>3. (Pick = 0) <=> ~\E i \in 1..Len(Paths) : HasBoth(Dir[Paths[i]])
  BY PickFacts
<1>4. CASE ~RealPathOK /\ AssertsEnabled
  <2>1. pc' = "fatal"
    BY <1>4 DEF FindQemu
  <2>. QED
    BY <1>0, <1>1, <1>2, <1>4, <2>1 DEF DriverInv, DriverOutcome
<1>5. CASE (RealPathOK \/ ~AssertsEnabled) /\ Pick # 0
  <2>1. /\ pc' = "load"
        /\ LibTinycodePath' = Paths[Pick] /\ LibHelpersPath' = Paths[Pick]
    BY <1>3, <1>5 DEF FindQemu, ChosenDir, Paths, Pick
  <2>. QED
    BY <1>0, <1>1, <1>2, <1>5, <2>1 DEF DriverInv, DriverOutcome
<1>6. CASE (RealPathOK \/ ~AssertsEnabled) /\ Pick = 0 /\ AssertsEnabled
  <2>1. pc' = "fatal"
    BY <1>3, <1>6 DEF FindQemu, Paths
  <2>2. ~\E p \in {ExeLib} \cup (SearchDirs \ {CwdLib}) : HasBoth(Dir[p])
    BY <1>3, <1>6, InstallSearched
  <2>. QED
    BY <1>0, <1>1, <1>2, <1>6, <2>1, <2>2 DEF DriverInv, DriverOutcome
<1>7. CASE (RealPathOK \/ ~AssertsEnabled) /\ Pick = 0 /\ ~AssertsEnabled
  <2>1. /\ pc' = "load"
        /\ LibTinycodePath' = LibTinycodePath /\ LibHelpersPath' = LibHelpersPath
    BY <1>3, <1>7 DEF FindQemu, Paths
  <2>. QED
    BY <1>0, <1>1, <1>2, <1>7, <2>1 DEF DriverInv, DriverOutcome
<1>. QED
  BY <1>4, <1>5, <1>6, <1>7

\* loadPTCLibrary: the library findQemu chose loads exactly when it is
\* usable; with no directory chosen dlopen("") fails.
LEMMA LoadStep ==
    ASSUME DriverInv, LoadPTCLibrary
    PROVE  DriverInv'
<1>0. /\ pc = "load"
      /\ Positional' = Positional /\ EntryArg' = EntryArg /\ DebugArg' = DebugArg
      /\ Dir' = Dir /\ RealPathOK' = RealPathOK /\ Params' = Params
      /\ LibTinycodePath' = LibTinycodePath /\ LibHelpersPath' = LibHelpersPath
  BY DEF LoadPTCLibrary, dinput
<1>1. /\ Paths' = Paths /\ Pick' = Pick
      /\ ArgsAccepted' = ArgsAccepted /\ UsableLibrary' = UsableLibrary
      /\ ExpectedEntry' = ExpectedEntry
  BY <1>0, InputsUnchanged
<1>2. /\ ArgsAccepted /\ Params.EntryPointAddress = ExpectedEntry
      /\ RealPathOK \/ ~AssertsEnabled
      /\ Pick = 0 => LibTinycodePath = EmptyPath
      /\ Pick # 0 => LibTinycodePath = Paths[Pick] /\ LibHelpersPath = Paths[Pick]
  BY <1>0 DEF DriverInv
<1>3. CASE Pick = 0
  <2>1. ~UsableLibrary
    BY <1>3, UsableIsPick
  <2>2. pc' = "exit" /\ status' = "failure"
    BY <1>2, <1>3 DEF LoadPTCLibrary
  <2>. QED
    BY <1>0, <1>1, <2>1, <2>2 DEF DriverInv, DriverOutcome
<1>4. CASE Pick # 0
  <2>1. LibTinycodePath \in SearchDirs
    BY <1>2, <1>4, PickFacts
  <2>2. LibTinycodePath # EmptyPath
    BY <2>1 DEF SearchDirs
  <2>3. UsableLibrary <=> Dir[LibTinycodePath] = "good"
    BY <1>2, <1>4, UsableIsPick
  <2>4. CASE UsableLibrary
    <3>1. pc' = "generate"
      BY <2>2, <2>3, <2>4 DEF LoadPTCLibrary
    <3>. QED
      BY <1>0, <1>1, <1>2, <2>4, <3>1 DEF DriverInv, DriverOutcome
  <2>5. CASE ~UsableLibrary
    <3>1. pc' = "exit" /\ status' = "failure"
      BY <2>2, <2>3, <2>5 DEF LoadPTCLibrary
    <3>. QED
      BY <1>0, <1>1, <2>5, <3>1 DEF DriverInv, DriverOutcome
  <2>. QED
    BY <2>4, <2>5
<1>. QED
  BY <1>3, <1>4

\* The generator runs and main returns 0 with what parseArgs and findQemu
\* stored.
LEMMA GenerateStep ==
    ASSUME DriverInv, Generate
    PROVE  DriverInv'
<1>0. /\ pc = "generate" /\ pc' = "exit" /\ status' = "success"
      /\ Positional' = Positional /\ EntryArg' = EntryArg /\ DebugArg' = DebugArg
      /\ Dir' = Dir /\ RealPathOK' = RealPathOK /\ Params' = Params
      /\ LibTinycodePath' = LibTinycodePath /\ LibHelpersPath' = LibHelpersPath
  BY DEF Generate, dinput
<1>1. /\ Paths' = Paths /\ Pick' = Pick
      /\ ArgsAccepted' = ArgsAccepted /\ UsableLibrary' = UsableLibrary
      /\ ExpectedEntry' = ExpectedEntry
  BY <1>0, InputsUnchanged
<1>2. /\ ArgsAccepted /\ Params.EntryPointAddress = ExpectedEntry /\ UsableLibrary
      /\ Pick # 0 => LibTinycodePath = Paths[Pick] /\ LibHelpersPath = Paths[Pick]
  BY <1>0 DEF DriverInv
<1>3. LibHelpersPath = LibTinycodePath
  BY <1>2, UsableIsPick
<1>. QED
  BY <1>0, <1>1, <1>2, <1>3 DEF DriverInv, DriverOutcome, ExpectedEntry

\* Once main has returned or stopped nothing changes.
LEMMA StutterStep ==
    ASSUME DriverInv, UNCHANGED dvars
    PROVE  DriverInv'
<1>0. /\ Positional' = Positional /\ EntryArg' = EntryArg /\ DebugArg' = DebugArg
      /\ Dir' = Dir /\ RealPathOK' = RealPathOK /\ Params' = Params
      /\ LibTinycodePath' = LibTinycodePath /\ LibHelpersPath' = LibHelpersPath
      /\ pc' = pc /\ status' = status
  BY DEF dvars
<1>1. /\ Paths' = Paths /\ Pick' = Pick
      /\ ArgsAccepted' = ArgsAccepted /\ UsableLibrary' = UsableLibrary
      /\ ExpectedEntry' = ExpectedEntry
  BY <1>0, InputsUnchanged
<1>. QED
  BY <1>0, <1>1 DEF DriverInv, DriverOutcome

LEMMA NextDriverInv == DriverInv /\ [DNext]_dvars => DriverInv'
<1> SUFFICES ASSUME DriverInv, [DNext]_dvars PROVE DriverInv'
  OBVIOUS
<1>1. CASE ParseArgs
  BY <1>1, ParseStep
<1>2. CASE FindQemu
  BY <1>2, FindStep
<1>3. CASE LoadPTCLibrary
  BY <1>3, LoadStep
<1>4. CASE Generate
  BY <1>4, GenerateStep
<1>5. CASE Stopped \/ UNCHANGED dvars
  BY <1>5, StutterStep DEF Stopped
<1>. QED
  BY <1>1, <1>2, <1>3, <1>4, <1>5 DEF DNext

-----------------------------------------------------------------------------
(* The theorems.                                                           *)

\* For every command line, file layout, library behaviour and build, main
\* returns 0 exactly when the command line is accepted and the first
\* directory with both files holds a working library, then with the
\* converted entry address and the helpers of that directory, and stops
\* on an assertion only where DriverOutcome says (parseArgs, findQemu,
\* loadPTCLibrary and main's checks).
THEOREM DriverOutcomeHolds == DSpec => []DriverOutcome
<1>1. Init => DriverInv
  BY InitDriverInv
<1>2. DriverInv /\ [DNext]_dvars => DriverInv'
  BY NextDriverInv
<1>3. DriverInv => DriverOutcome
  BY DEF DriverInv
<1>. QED
  BY <1>1, <1>2, <1>3, PTL DEF DSpec

=============================================================================
