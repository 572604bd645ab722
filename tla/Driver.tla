------------------------------ MODULE Driver -------------------------------
(***************************************************************************)
(* The command-line driver of revamb (src/main.cpp): main parses the      *)
(* arguments (parseArgs), looks for the libtinycode library and its        *)
(* helpers on a list of search paths (findQemu), loads the library and    *)
(* initialises the PTC interface (loadPTCLibrary), and hands the           *)
(* parameters to the code generator.                                       *)
(*                                                                         *)
(* The inputs are chosen in Init: what argparse leaves of the command      *)
(* line, the text of the -e and -g options, the files on disk and how the *)
(* library behaves when it is opened.  A path is a model value naming one *)
(* search directory; file names are not spelled out.  The entry address is *)
(* a string over a small alphabet, converted as sscanf("%lld") converts   *)
(* it into a long long of LLBits bits, and cast to a size_t of the same   *)
(* width.                                                                  *)
(***************************************************************************)
EXTENDS Integers, Sequences

CONSTANTS
    Chars,          \* the characters an -e argument is written with
    MaxArgLen,      \* bound on the length of an -e argument
    LLBits,         \* the width of long long and of size_t
    DebugWords,     \* the words a -g argument may be
    QemuInstall,    \* is QEMU_INSTALL_PATH defined in the build?
    Install,        \* is INSTALL_PATH defined in the build?
    QemuLib, InstallLib, ExeLib, CwdLib,  \* the search directories
    NoArg,          \* an option that is not given
    EmptyPath,      \* the empty std::string
    AssertsEnabled  \* TRUE for a build without NDEBUG

ASSUME DriverAssumption ==
    /\ Chars \subseteq {" ", "+", "-", "0", "1", "7", "9", "x", "a"}
    /\ MaxArgLen \in Nat
    /\ LLBits \in Nat \ {0}
    /\ DebugWords \subseteq {"none", "asm", "ptc", "ll", "dwarf"}

\* The macros of the build are defined or not.
ASSUME DriverBuildAssumption == {QemuInstall, Install, AssertsEnabled} \subseteq BOOLEAN

\* "./../lib" is none of the other search directories, and no search
\* directory is the empty path the globals start with.
ASSUME DriverDirsAssumption ==
    /\ CwdLib \notin {QemuLib, InstallLib, ExeLib}
    /\ EmptyPath \notin {QemuLib, InstallLib, ExeLib, CwdLib}

\* The index of the first element of s that satisfies P, or 0 when none
\* does.
FirstIndex(s, P(_)) ==
    IF \E j \in 1..Len(s) : P(s[j])
    THEN CHOOSE j \in 1..Len(s) : P(s[j]) /\ \A k \in 1..(j - 1) : ~P(s[k])
    ELSE 0

\* The index of the last element of s that satisfies P, or 0.
LastIndex(s, P(_)) ==
    IF \E j \in 1..Len(s) : P(s[j])
    THEN CHOOSE j \in 1..Len(s) : P(s[j]) /\ \A k \in (j + 1)..Len(s) : ~P(s[k])
    ELSE 0

\* The directories findQemu may search: those of the build's macros, the
\* lib directory next to the executable, and "./../lib" (dirname(NULL) is
\* ".").
SearchDirs ==
    (IF QemuInstall THEN {QemuLib} ELSE {}) \cup (IF Install THEN {InstallLib} ELSE {})
    \cup {ExeLib, CwdLib}

(***************************************************************************)
(* What a directory holds: neither file, only one of libtinycode-ARCH.so   *)
(* and libtinycode-helpers-ARCH.ll, or both, and then what dlopen, dlsym  *)
(* and ptc_load do with the library.                                       *)
(***************************************************************************)
DirStates == {"empty", "libonly", "helpersonly", "noload", "nosym", "initfail", "good"}

HasBoth(st) == st \in {"noload", "nosym", "initfail", "good"}

DebugTypes == {"none", "asm", "ptc", "ll"}

\* The DebugInfoType each accepted -g word selects (src/main.cpp 252-267).
DebugInfoOf(w) ==
    CASE w = "none" -> "None"
      [] w = "asm"  -> "OriginalAssembly"
      [] w = "ptc"  -> "PTC"
      [] w = "ll"   -> "LLVMIR"

Strings == UNION {[1..n -> Chars] : n \in 0..MaxArgLen}

-----------------------------------------------------------------------------
(***************************************************************************)
(* sscanf(s, "%lld", &x), as glibc does it: skip white space, take an      *)
(* optional sign and the longest run of decimal digits after it.  Without *)
(* a digit the conversion fails (the result is EOF when nothing but white *)
(* space is left, 0 otherwise).  What follows the digits is not looked    *)
(* at.  A value out of the range of long long is clamped to its bounds    *)
(* (strtoll); the C standard leaves that case undefined.                   *)
(***************************************************************************)
DecimalDigits == <<"0", "1", "2", "3", "4", "5", "6", "7", "8", "9">>

IsDigit(c) == \E d \in 1..10 : DecimalDigits[d] = c
DigitValue(c) == CHOOSE v \in 0..9 : DecimalDigits[v + 1] = c

LLMax == 2^(LLBits - 1) - 1
LLMin == -(2^(LLBits - 1))

\* The index of the first character that is not white space.
FirstNonSpace(s) ==
    LET j == FirstIndex(s, LAMBDA c : c # " ") IN IF j = 0 THEN Len(s) + 1 ELSE j

\* The index where the digits start, after an optional sign.
DigitsStart(s) ==
    LET j == FirstNonSpace(s)
    IN  IF j <= Len(s) /\ s[j] \in {"+", "-"} THEN j + 1 ELSE j

\* The longest run of digits from index j on.
DigitRun(s, j) ==
    LET rest == SubSeq(s, j, Len(s))
        stop == FirstIndex(rest, LAMBDA c : ~IsDigit(c))
    IN  IF stop = 0 THEN rest ELSE SubSeq(rest, 1, stop - 1)

DecimalValue(ds) ==
    LET v[n \in 0..Len(ds)] == IF n = 0 THEN 0 ELSE 10 * v[n - 1] + DigitValue(ds[n])
    IN  v[Len(ds)]

Clamp(v) == IF v > LLMax THEN LLMax ELSE IF v < LLMin THEN LLMin ELSE v

\* The return value of sscanf.
ScanCount(s) ==
    IF FirstNonSpace(s) > Len(s) THEN -1
    ELSE IF DigitRun(s, DigitsStart(s)) = << >> THEN 0
    ELSE 1

\* The long long sscanf stores when ScanCount(s) = 1.
ScanValue(s) ==
    LET v == DecimalValue(DigitRun(s, DigitsStart(s)))
    IN  Clamp(IF s[FirstNonSpace(s)] = "-" THEN -v ELSE v)

\* (size_t)x: reduction modulo 2^LLBits.
ToSizeT(x) == x % (2^LLBits)

-----------------------------------------------------------------------------
VARIABLES
    Positional,     \* Argc as argparse_parse returns it
    EntryArg,       \* the -e argument, or NoArg
    DebugArg,       \* the -g argument, or NoArg
    Dir,            \* Dir[p]: what directory p holds
    RealPathOK,     \* realpath("/proc/self/exe") succeeds
    Params,         \* ProgramParameters: the entry address and the debug type
    LibTinycodePath, LibHelpersPath,  \* the globals findQemu sets ("" at first)
    pc, status      \* where main is, and its exit status

dvars == <<Positional, EntryArg, DebugArg, Dir, RealPathOK,
           Params, LibTinycodePath, LibHelpersPath, pc, status>>
dinput == <<Positional, EntryArg, DebugArg, Dir, RealPathOK>>

\* ProgramParameters Parameters{} value-initialises every field.
Init ==
    /\ Positional \in 0..3
    /\ EntryArg \in {NoArg} \cup Strings
    /\ DebugArg \in {NoArg} \cup DebugWords
    /\ Dir \in [SearchDirs -> DirStates]
    /\ RealPathOK \in BOOLEAN
    /\ Params = [EntryPointAddress |-> 0, DebugInfo |-> "None"]
    /\ LibTinycodePath = EmptyPath
    /\ LibHelpersPath = EmptyPath
    /\ pc = "parse"
    /\ status = NoArg

\* if (sscanf(...) != 1) fails the -e argument.
EntryScanned(s) == ScanCount(s) = 1

\* Mutant: the long long is stored without the conversion to size_t.
EntryAddressNoCast(s) == ScanValue(s)

\* The value parseArgs stores from an accepted -e argument.
EntryAddress(s) == ToSizeT(ScanValue(s))

(***************************************************************************)
(* parseArgs (lines 168-299) and main's check of its result (306-307):    *)
(* the positional count, then -e, then -g, each failing with              *)
(* EXIT_FAILURE; the -e value is stored before -g is looked at.  The -d    *)
(* option and the default paths (lines 276-296) change nothing the model   *)
(* tells apart.                                                            *)
(***************************************************************************)
ParseArgs ==
    /\ pc = "parse"
    /\ LET entryOK == IF EntryArg = NoArg THEN TRUE ELSE EntryScanned(EntryArg)
           entry   == IF EntryArg = NoArg THEN Params.EntryPointAddress
                      ELSE EntryAddress(EntryArg)
       IN  \/ /\ Positional # 2
              /\ pc' = "exit" /\ status' = "failure"
              /\ UNCHANGED Params
           \/ /\ Positional = 2 /\ ~entryOK
              /\ pc' = "exit" /\ status' = "failure"
              /\ UNCHANGED Params
           \/ /\ Positional = 2 /\ entryOK
              /\ DebugArg # NoArg /\ DebugArg \notin DebugTypes
              /\ pc' = "exit" /\ status' = "failure"
              /\ Params' = [Params EXCEPT !.EntryPointAddress = entry]
           \/ /\ Positional = 2 /\ entryOK
              /\ DebugArg = NoArg \/ DebugArg \in DebugTypes
              /\ pc' = "findqemu" /\ UNCHANGED status
              /\ Params' = [EntryPointAddress |-> entry,
                            DebugInfo |-> IF DebugArg = NoArg THEN Params.DebugInfo
                                          ELSE DebugInfoOf(DebugArg)]
    /\ UNCHANGED <<dinput, LibTinycodePath, LibHelpersPath>>

\* Mutant: the search takes the last directory that has both files (the
\* loop has no return).
ChosenDirLast(paths) ==
    paths[LastIndex(paths, LAMBDA p : HasBoth(Dir[p]))]

\* The first search directory that holds both files.
ChosenDir(paths) ==
    paths[FirstIndex(paths, LAMBDA p : HasBoth(Dir[p]))]

\* SearchPaths (lines 81-89) for the directory of the executable d.
SearchPathsFor(d) ==
    (IF QemuInstall THEN <<QemuLib>> ELSE << >>)
    \o (IF Install THEN <<InstallLib>> ELSE << >>)
    \o <<d>>

\* The directory whose ../lib is searched last: the executable's, or "."
\* when realpath failed.
ExeDirOf(ok) == IF ok THEN ExeLib ELSE CwdLib

(***************************************************************************)
(* findQemu (lines 70-109).  realpath fails: the assert stops a build with *)
(* assertions; without them dirname(NULL) is "." and the last search path *)
(* is ./../lib.  The first directory holding both files sets the two      *)
(* globals; when there is none, assert(false) stops a build with          *)
(* assertions and a build without them returns with both globals "".     *)
(***************************************************************************)
FindQemu ==
    /\ pc = "findqemu"
    /\ LET paths == SearchPathsFor(ExeDirOf(RealPathOK))
           found == \E j \in 1..Len(paths) : HasBoth(Dir[paths[j]])
       IN  \/ /\ ~RealPathOK /\ AssertsEnabled
              /\ pc' = "fatal"
              /\ UNCHANGED <<LibTinycodePath, LibHelpersPath>>
           \/ /\ RealPathOK \/ ~AssertsEnabled
              /\ found
              /\ LibTinycodePath' = ChosenDir(paths)
              /\ LibHelpersPath' = ChosenDir(paths)
              /\ pc' = "load"
           \/ /\ RealPathOK \/ ~AssertsEnabled
              /\ ~found
              /\ pc' = IF AssertsEnabled THEN "fatal" ELSE "load"
              /\ UNCHANGED <<LibTinycodePath, LibHelpersPath>>
    /\ UNCHANGED <<dinput, Params, status>>

(***************************************************************************)
(* loadPTCLibrary (lines 120-158) and main's check (316-317).  dlopen("")  *)
(* either fails or, in glibc, opens the executable itself, which has no    *)
(* ptc_load: both end in EXIT_FAILURE.  Otherwise dlopen, dlsym and       *)
(* ptc_load behave as the directory's library does.  The unique_ptr owns  *)
(* the handle from line 137 on and closes it when main returns.            *)
(***************************************************************************)
LoadPTCLibrary ==
    /\ pc = "load"
    /\ LET loads == IF LibTinycodePath = EmptyPath THEN FALSE ELSE Dir[LibTinycodePath] = "good"
       IN  \/ /\ ~loads
              /\ pc' = "exit" /\ status' = "failure"
           \/ /\ loads
              /\ pc' = "generate" /\ UNCHANGED status
    /\ UNCHANGED <<dinput, Params, LibTinycodePath, LibHelpersPath>>

\* Lines 319-340: the code generator translates from the entry point and
\* writes its output (its code is not part of src/), and main returns 0.
Generate ==
    /\ pc = "generate"
    /\ pc' = "exit" /\ status' = "success"
    /\ UNCHANGED <<dinput, Params, LibTinycodePath, LibHelpersPath>>

\* main has returned, or the process stopped on an assertion.
Stopped ==
    /\ pc \in {"exit", "fatal"}
    /\ UNCHANGED dvars

DNext == ParseArgs \/ FindQemu \/ LoadPTCLibrary \/ Generate \/ Stopped

\* main is sequential code that runs to its end.
DSpec == Init /\ [][DNext]_dvars /\ WF_dvars(DNext)

-----------------------------------------------------------------------------
\* Type invariant.
DTypeOK ==
    /\ Positional \in 0..3
    /\ EntryArg \in {NoArg} \cup Strings
    /\ DebugArg \in {NoArg} \cup DebugWords
    /\ Dir \in [SearchDirs -> DirStates]
    /\ RealPathOK \in BOOLEAN
    /\ Params.EntryPointAddress \in 0..(2^LLBits - 1)
    /\ Params.DebugInfo \in {"None", "OriginalAssembly", "PTC", "LLVMIR"}
    /\ LibTinycodePath \in SearchDirs \cup {EmptyPath}
    /\ LibHelpersPath \in SearchDirs \cup {EmptyPath}
    /\ pc \in {"parse", "findqemu", "load", "generate", "exit", "fatal"}
    /\ status \in {NoArg, "success", "failure"}

\* The command line is one main accepts: two positional arguments, an -e
\* that sscanf converts, a -g among the four words.
ArgsAccepted ==
    /\ Positional = 2
    /\ EntryArg = NoArg \/ ScanCount(EntryArg) = 1
    /\ DebugArg = NoArg \/ DebugArg \in DebugTypes

\* The first directory of the search holding both files has a library
\* that loads and initialises.
UsableLibrary ==
    LET paths == SearchPathsFor(IF RealPathOK THEN ExeLib ELSE CwdLib)
        j == FirstIndex(paths, LAMBDA p : HasBoth(Dir[p]))
    IN  j # 0 /\ Dir[paths[j]] = "good"

(***************************************************************************)
(* How main ends, for every command line, file layout and library: it     *)
(* returns 0 exactly when the command line is accepted and the first      *)
(* directory with both files holds a working library, and then it hands   *)
(* the generator the entry address the -e argument converts to, and the   *)
(* helpers of the same directory; it stops on an assertion only in a      *)
(* build with assertions, for an accepted command line, when the          *)
(* executable's path or the files are missing.  It is about the early     *)
(* returns of parseArgs, the order of the search in findQemu, the three   *)
(* failures of loadPTCLibrary and the checks in main.                      *)
(***************************************************************************)
DriverOutcome ==
    /\ pc = "exit" => (status = "success" <=> ArgsAccepted /\ UsableLibrary)
    /\ pc = "exit" /\ status = "success" =>
          /\ Params.EntryPointAddress =
                IF EntryArg = NoArg THEN 0 ELSE ToSizeT(ScanValue(EntryArg))
          /\ LibHelpersPath = LibTinycodePath
    /\ pc = "fatal" =>
          /\ AssertsEnabled /\ ArgsAccepted
          /\ ~RealPathOK \/ ~\E p \in {ExeLib} \cup (SearchDirs \ {CwdLib}) : HasBoth(Dir[p])

\* The library that is loaded is one of the installation: from a
\* directory of the build's macros or next to the executable, never one
\* found relative to the working directory.  It is about findQemu's use of
\* the result of realpath (lines 74-77).
LibraryFromInstallation ==
    pc = "generate" => LibTinycodePath \in SearchDirs \ {CwdLib}

\* The message of line 242 says -e is rejected when it "is not a number":
\* an -e argument parseArgs accepts is white space, an optional sign and
\* digits, and nothing after them.  It is about the sscanf check of line
\* 240.
EntryIsNumber ==
    pc = "findqemu" /\ EntryArg # NoArg =>
        DigitsStart(EntryArg) + Len(DigitRun(EntryArg, DigitsStart(EntryArg))) = Len(EntryArg) + 1
=============================================================================
