----------------------------- MODULE MC_Driver ------------------------------
(* Model values for Driver: the search directories.                        *)
EXTENDS Driver

CONSTANTS dQemu, dInstall, dExe, dCwd
=============================================================================
