---------------------------- MODULE ClassifyData ----------------------------
(***************************************************************************)
(* The data GeneratedCodeBasicInfo::runOnFunction works on                 *)
(* (src/generatedcodebasicinfo.cpp): the functions of the module as        *)
(* sequences of blocks, the roles getType gives them (BlockType of         *)
(* src/revamb.h), and the blocks of each role.  Shared by the pass         *)
(* (Classify) and its contract (ClassifyContract).                         *)
(***************************************************************************)
EXTENDS Naturals, Sequences, FiniteSets

CONSTANTS
    Addrs,          \* the addresses a newpc call at the start of a block may carry
    NumFuncs,       \* the number of functions the pass is run on
    MaxBlocks,      \* bound on the number of blocks of a function
    MDStates,       \* the shapes of the metadata record the module may carry
    DelayVals,      \* the delay-slot sizes a metadata record may hold
    NoBlock,        \* nullptr, as a BasicBlock *
    NoAddr,         \* the address field of a block that is not a jump target
    NoPCVar,        \* nullptr, as the GlobalVariable * of the PC
    PCVar,          \* the global variable that stores the PC
    AssertsEnabled, \* TRUE for a build without NDEBUG
    DistinctTargets \* do the jump targets of a function carry distinct addresses?

ASSUME ClassifyAssumption ==
    /\ NumFuncs \in Nat \ {0}
    /\ MaxBlocks \in Nat
    /\ MDStates \subseteq {"ok", "absent", "notuple", "nopcvar"}
    /\ AssertsEnabled \in BOOLEAN
    /\ DistinctTargets \in BOOLEAN

\* The three singleton roles, each held by one member of the pass.
Singletons == {"Dispatcher", "AnyPC", "UnexpectedPC"}

\* BlockType (src/revamb.h, lines 34-43).
Roles == {"Untyped", "JumpTarget"} \cup Singletons

\* A block: empty (no instruction, so getType is never asked) or non-empty
\* with its role; a jump target carries the address of its leading newpc
\* call.
BlockKinds ==
    {[empty |-> TRUE, role |-> "Untyped", addr |-> NoAddr]}
    \cup {[empty |-> FALSE, role |-> r, addr |-> NoAddr] : r \in {"Untyped"} \cup Singletons}
    \cup {[empty |-> FALSE, role |-> "JumpTarget", addr |-> a] : a \in Addrs}

Functions == UNION {[1..n -> BlockKinds] : n \in 0..MaxBlocks}

\* The positions of the non-empty blocks of function f with role r.
RoleBlocks(F, f, r) ==
    {<<f, j>> : j \in {j \in DOMAIN F[f] : ~F[f][j].empty /\ F[f][j].role = r}}

\* The positions of the jump targets of function f with address a.
TargetBlocks(F, f, a) ==
    {<<f, j>> : j \in {j \in DOMAIN F[f] : F[f][j].role = "JumpTarget" /\ F[f][j].addr = a}}

\* No two jump targets of a function carry the same address (spec.md 3).
HasDistinctTargets(F, f) == \A a \in Addrs : Cardinality(TargetBlocks(F, f, a)) <= 1

\* A block of the run: the function it belongs to and its position there.
BlockRefs == (1..NumFuncs) \X (1..MaxBlocks)

\* nullptr is no block, and the PC global is not nullptr.
ASSUME ClassifyNullAssumption == NoBlock \notin BlockRefs /\ PCVar # NoPCVar

=============================================================================
