\* A build with NDEBUG in which realpath may fail.
CONSTANTS
    dQemu = dQemu
    dInstall = dInstall
    dExe = dExe
    dCwd = dCwd
    QemuLib <- dQemu
    InstallLib <- dInstall
    ExeLib <- dExe
    CwdLib <- dCwd
    NoArg = NoArg
    EmptyPath = ""
    Chars = {" ", "-", "1", "9", "a"}
    MaxArgLen = 2
    LLBits = 4
    DebugWords = {"ll", "dwarf"}
    QemuInstall = FALSE
    Install = FALSE
    AssertsEnabled = FALSE
SPECIFICATION DSpec
INVARIANT LibraryFromInstallation
