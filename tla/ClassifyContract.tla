-------------------------- MODULE ClassifyContract --------------------------
(***************************************************************************)
(* What one call of runOnFunction promises (spec.md 6 and 7), as a single  *)
(* atomic step on the first function of the module: when the producer of   *)
(* the module kept its contract (a well-formed metadata record, exactly    *)
(* one block of each singleton role) the pass returns with members that    *)
(* describe the function exactly; when it broke it, the process stops.     *)
(* The outcome is <<"running">>, <<"fatal">> or <<"returned", o>> with o   *)
(* the record of the members.                                              *)
(***************************************************************************)
EXTENDS ClassifyData

VARIABLES Funcs, MD, MDDelay, outcome

avars == <<Funcs, MD, MDDelay, outcome>>

\* The producer broke its contract on function f.
Breach(F, f, md) ==
    \/ md \in {"absent", "notuple"}
    \/ \E r \in Singletons : Cardinality(RoleBlocks(F, f, r)) # 1

\* The members o describe function f exactly: each singleton member is the
\* one block of its role, JumpTargets maps each address to the one jump
\* target carrying it and nothing else, PC is the global the metadata names
\* and DelaySlotSize the size it holds.
Describes(o, F, f, delay) ==
    /\ \A r \in Singletons : RoleBlocks(F, f, r) = {o.slot[r]}
    /\ \A a \in Addrs :
          TargetBlocks(F, f, a) =
              IF o.JumpTargets[a] = NoBlock THEN {} ELSE {o.JumpTargets[a]}
    /\ o.PC = PCVar
    /\ o.DelaySlotSize = delay

\* The members that may describe function f: its own blocks of the roles.
Candidates(F, f, delay) ==
    [slot : [Singletons -> UNION {RoleBlocks(F, f, r) : r \in Singletons}],
     JumpTargets : [Addrs -> (UNION {TargetBlocks(F, f, a) : a \in Addrs}) \cup {NoBlock}],
     PC : {PCVar},
     DelaySlotSize : {delay}]

\* The outcomes a call on function f may have.
Allowed(F, f, md, delay) ==
    IF Breach(F, f, md) THEN {<<"fatal">>}
    ELSE {<<"returned", o>> : o \in {o \in Candidates(F, f, delay) : Describes(o, F, f, delay)}}

AInit ==
    /\ Funcs \in [1..NumFuncs -> Functions]
    /\ DistinctTargets => \A f \in 1..NumFuncs : HasDistinctTargets(Funcs, f)
    /\ MD \in MDStates
    /\ MDDelay \in DelayVals
    /\ outcome = <<"running">>

\* The call on the first function: the inputs stay, and the outcome becomes
\* one the contract allows.
Classified ==
    /\ outcome = <<"running">>
    /\ outcome' \in Allowed(Funcs, 1, MD, MDDelay)
    /\ UNCHANGED <<Funcs, MD, MDDelay>>

ContractSpec == AInit /\ [][Classified]_avars /\ WF_avars(Classified)
=============================================================================
