\* -e arguments of up to three characters of a hexadecimal or signed
\* number, a 4-bit long long.
CONSTANTS
    dQemu = dQemu
    dInstall = dInstall
    dExe = dExe
    dCwd = dCwd
    QemuLib <- dQemu
    InstallLib <- dInstall
    ExeLib <- dExe
    CwdLib <- dCwd
    NoArg = NoArg
    EmptyPath = ""
    Chars = {"0", "1", "9", "x", "-"}
    MaxArgLen = 3
    LLBits = 4
    DebugWords = {"ll", "dwarf"}
    QemuInstall = FALSE
    Install = FALSE
    AssertsEnabled = TRUE
SPECIFICATION DSpec
INVARIANT EntryIsNumber
