----------------------------- MODULE Classify ------------------------------
(***************************************************************************)
(* GeneratedCodeBasicInfo::runOnFunction (src/generatedcodebasicinfo.cpp, *)
(* lines 29-77): the pass reads the architecture metadata of the module,   *)
(* then walks the blocks of one function in order and records the         *)
(* dispatcher, the AnyPC and UnexpectedPC blocks and the table of jump     *)
(* targets in members of the pass object.                                  *)
(*                                                                         *)
(* The pass object is a FunctionPass: the pass manager calls               *)
(* runOnFunction once for every function of the module, on the same        *)
(* object, and nothing resets the members between two calls.  The model    *)
(* therefore runs the pass over a sequence Funcs of functions.  A function *)
(* is a sequence of blocks; a block is either empty or carries the role    *)
(* getType gives it (getType is declared in a header that is not part of   *)
(* src/: its roles are taken from spec.md 4.3).                            *)
(***************************************************************************)
EXTENDS ClassifyData

VARIABLES
    Funcs,          \* the functions of the module, in the order the pass meets them
    MD,             \* the shape of the "revamb.input.architecture" record
    MDDelay,        \* the delay-slot size the record holds
    fn,             \* the function runOnFunction is working on
    i,              \* the block of the range-for loop
    DelaySlotSize,  \* member DelaySlotSize
    PC,             \* member PC
    slot,           \* members Dispatcher, AnyPC, UnexpectedPC
    JumpTargets,    \* member JumpTargets: std::map<uint64_t, BasicBlock *>
    pc              \* where runOnFunction is

cvars == <<Funcs, MD, MDDelay, fn, i, DelaySlotSize, PC, slot, JumpTargets, pc>>
input == <<Funcs, MD, MDDelay>>

\* The constructor of the pass leaves every pointer member null and the
\* map empty (a missing key of JumpTargets maps to NoBlock).
Init ==
    /\ Funcs \in [1..NumFuncs -> Functions]
    /\ DistinctTargets => \A f \in 1..NumFuncs : HasDistinctTargets(Funcs, f)
    /\ MD \in MDStates
    /\ MDDelay \in DelayVals
    /\ fn = 1
    /\ i = 0
    /\ DelaySlotSize \in DelayVals
    /\ PC = NoPCVar
    /\ slot = [r \in Singletons |-> NoBlock]
    /\ JumpTargets = [a \in Addrs |-> NoBlock]
    /\ pc = "load"

(***************************************************************************)
(* Lines 32-39.  getOrInsertNamedMetadata creates an empty record when     *)
(* the module has none, and getOperand(0) of it is out of bounds: LLVM's   *)
(* assertion stops a build with assertions, in a build without them the    *)
(* read is undefined and either crashes or hands garbage on (any delay     *)
(* size, any PC).  A first operand that is not a tuple makes dyn_cast      *)
(* return null, and extract dereferences it.  A PC name for which the     *)
(* module has no global makes getGlobalVariable return null, unchecked.    *)
(***************************************************************************)
LoadMetadata ==
    /\ pc = "load"
    /\ \/ /\ MD = "ok"
          /\ DelaySlotSize' = MDDelay
          /\ PC' = PCVar
          /\ pc' = "visit"
       \/ /\ MD = "nopcvar"
          /\ DelaySlotSize' = MDDelay
          /\ PC' = NoPCVar
          /\ pc' = "visit"
       \/ /\ MD = "notuple" \/ (MD = "absent" /\ AssertsEnabled)
          /\ pc' = "fatal"
          /\ UNCHANGED <<DelaySlotSize, PC>>
       \/ /\ MD = "absent" /\ ~AssertsEnabled
          /\ \/ pc' = "fatal" /\ UNCHANGED <<DelaySlotSize, PC>>
             \/ /\ pc' = "visit"
                /\ DelaySlotSize' \in DelayVals
                /\ PC' \in {PCVar, NoPCVar}
    /\ i' = 1
    /\ UNCHANGED <<input, fn, slot, JumpTargets>>

\* Mutant: the AnyPC case has no break and falls through into the
\* UnexpectedPC case.
SingletonCasesFallThrough(r) == IF r = "AnyPC" THEN {"AnyPC", "UnexpectedPC"} ELSE {r}

\* The cases of the switch a singleton role runs: exactly its own.
SingletonCases(r) == {r}

\* The member each singleton case of the switch writes.
SlotFor(r) == r

\* Mutant: the duplicate check is left out.
SlotFreeAlways(s) == TRUE

\* assert(Member == nullptr) before a singleton member is set.
SlotFree(s) == slot[s] = NoBlock

\* The block of the loop.
Blk == Funcs[fn][i]

(***************************************************************************)
(* Lines 41-67: one iteration of the range-for loop.  An empty block is    *)
(* skipped; a singleton block fills its member after asserting it was     *)
(* free; a jump target is stored under its address, replacing whatever    *)
(* block the address had; an untyped block changes nothing.               *)
(***************************************************************************)
VisitBlock ==
    /\ pc = "visit"
    /\ i \in 1..Len(Funcs[fn])
    /\ i' = i + 1
    /\ \/ /\ Blk.empty \/ Blk.role = "Untyped"
          /\ UNCHANGED <<slot, JumpTargets, pc>>
       \/ /\ ~Blk.empty
          /\ Blk.role \in Singletons
          /\ LET S == {SlotFor(r) : r \in SingletonCases(Blk.role)} IN
             IF AssertsEnabled /\ \E s \in S : ~SlotFree(s)
             THEN pc' = "fatal" /\ UNCHANGED slot
             ELSE /\ slot' = [s \in Singletons |-> IF s \in S THEN <<fn, i>> ELSE slot[s]]
                  /\ UNCHANGED pc
          /\ UNCHANGED JumpTargets
       \/ /\ ~Blk.empty
          /\ Blk.role = "JumpTarget"
          /\ JumpTargets' = [JumpTargets EXCEPT ![Blk.addr] = <<fn, i>>]
          /\ UNCHANGED <<slot, pc>>
    /\ UNCHANGED <<input, fn, DelaySlotSize, PC>>

\* Lines 70-76: the loop is over; assert that the three members are set,
\* and return.
FinishFunction ==
    /\ pc = "visit"
    /\ i \notin 1..Len(Funcs[fn])
    /\ pc' = IF AssertsEnabled /\ \E r \in Singletons : slot[r] = NoBlock
             THEN "fatal" ELSE "returned"
    /\ UNCHANGED <<input, fn, i, DelaySlotSize, PC, slot, JumpTargets>>

\* Mutant: the pass manager's loop over the functions runs one too far.
MoreFunctionsPastEnd(f) == f <= NumFuncs

\* Functions remain after function f.
MoreFunctions(f) == f < NumFuncs

\* The pass manager runs the same pass object on the next function.
NextFunction ==
    /\ pc = "returned"
    /\ MoreFunctions(fn)
    /\ fn' = fn + 1
    /\ i' = 0
    /\ pc' = "load"
    /\ UNCHANGED <<input, DelaySlotSize, PC, slot, JumpTargets>>

\* Every function was classified, or the process stopped on an assertion.
Halted ==
    /\ pc = "fatal" \/ (pc = "returned" /\ ~MoreFunctions(fn))
    /\ UNCHANGED cvars

CNext == LoadMetadata \/ VisitBlock \/ FinishFunction \/ NextFunction \/ Halted

\* The pass manager calls the pass until every function is done.
CSpec == Init /\ [][CNext]_cvars /\ WF_cvars(CNext)

-----------------------------------------------------------------------------
\* Type invariant.
CTypeOK ==
    /\ Funcs \in [1..NumFuncs -> Functions]
    /\ MD \in MDStates /\ MDDelay \in DelayVals
    /\ fn \in 1..NumFuncs
    /\ i \in 0..(MaxBlocks + 1)
    /\ DelaySlotSize \in DelayVals
    /\ PC \in {PCVar, NoPCVar}
    /\ slot \in [Singletons -> BlockRefs \cup {NoBlock}]
    /\ JumpTargets \in [Addrs -> BlockRefs \cup {NoBlock}]
    /\ pc \in {"load", "visit", "returned", "fatal"}

\* What the analyses that use the pass rely on (spec.md 6): when
\* runOnFunction returns, the members describe the function it was given,
\* exactly: each singleton member is the one block of the function with
\* that role, JumpTargets maps each address to the one jump target that
\* carries it and nothing else, and PC and DelaySlotSize are those the
\* metadata names.  It is about the switch of lines 43-66, its asserts,
\* the final assert of lines 70-72, the members left over from an earlier
\* call, and the unchecked getGlobalVariable of line 39.
ClassifyExact ==
    pc = "returned" =>
        /\ \A r \in Singletons : RoleBlocks(Funcs, fn, r) = {slot[r]}
        /\ \A a \in Addrs :
              TargetBlocks(Funcs, fn, a) =
                  IF JumpTargets[a] = NoBlock THEN {} ELSE {JumpTargets[a]}
        /\ PC = PCVar
        /\ DelaySlotSize = MDDelay

\* spec.md 7: the pass stops the process only when the producer broke its
\* contract: the metadata record is missing or malformed, or the function
\* lacks a singleton block or has two of one.  It is about the asserts of
\* lines 45, 49, 53 and 70-72 and the metadata reads of lines 34-38.
FatalOnlyOnBreach ==
    pc = "fatal" =>
        \/ MD \in {"absent", "notuple"}
        \/ \E r \in Singletons : Cardinality(RoleBlocks(Funcs, fn, r)) # 1

\* Whatever the build and however many functions the pass object has seen,
\* each member that is set points to a block, of the current or of an
\* earlier function, that has the member's role, and each JumpTargets entry
\* to a jump target with that address: the switch of lines 43-66 never
\* files a block under the wrong role, even when the asserts are compiled
\* out and members are left over from earlier calls.
MembersSound ==
    /\ \A r \in Singletons :
          slot[r] # NoBlock =>
              /\ slot[r][1] <= fn
              /\ slot[r] \in RoleBlocks(Funcs, slot[r][1], r)
    /\ \A a \in Addrs :
          JumpTargets[a] # NoBlock =>
              /\ JumpTargets[a][1] <= fn
              /\ JumpTargets[a] \in TargetBlocks(Funcs, JumpTargets[a][1], a)

\* The outcome of the call as the contract sees it: the members once the
\* pass has returned, the abort, or nothing yet.
ContractOutcome ==
    CASE pc = "returned" ->
            <<"returned", [slot |-> slot, JumpTargets |-> JumpTargets,
                           PC |-> PC, DelaySlotSize |-> DelaySlotSize]>>
      [] pc = "fatal" -> <<"fatal">>
      [] OTHER -> <<"running">>

Contract == INSTANCE ClassifyContract WITH outcome <- ContractOutcome

\* runOnFunction on one function implements its contract: it ends, with
\* members that describe the function exactly when the producer kept its
\* contract and with an abort when it broke it.  It is about the metadata
\* reads of lines 32-39, the switch and its asserts (lines 43-66) and the
\* final assert (lines 70-72) together.
ClassifyImplementsContract == Contract!ContractSpec
=============================================================================
