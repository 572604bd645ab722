\* A build with assertions and QEMU_INSTALL_PATH; -e arguments of up to two
\* characters, a 4-bit long long.
CONSTANTS
    dQemu = dQemu
    dInstall = dInstall
    dExe = dExe
    dCwd = dCwd
    QemuLib <- dQemu
    InstallLib <- dInstall
    ExeLib <- dExe
    CwdLib <- dCwd
    NoArg = NoArg
    EmptyPath = ""
    Chars = {" ", "-", "1", "9", "a"}
    MaxArgLen = 2
    LLBits = 4
    DebugWords = {"ll", "dwarf"}
    QemuInstall = TRUE
    Install = FALSE
    AssertsEnabled = TRUE
SPECIFICATION DSpec
INVARIANTS DTypeOK DriverOutcome
