--------------------------- MODULE Classify_proofs --------------------------
(***************************************************************************)
(* Proofs about runOnFunction as modelled in module Classify: its type    *)
(* invariant and MembersSound for every value of the constants, and, for  *)
(* a build with assertions that classifies one function, ClassifyExact    *)
(* and FatalOnlyOnBreach; with assertions, for any number of functions,    *)
(* the action property that no set singleton member is ever replaced.     *)
(***************************************************************************)
EXTENDS Classify, SequenceTheorems, FiniteSetTheorems, TLAPS

USE ClassifyAssumption, ClassifyNullAssumption

-----------------------------------------------------------------------------
(* Lemmas about the operators the model is built from.                     *)

\* A function of the module is a sequence of at most MaxBlocks blocks.
LEMMA FunctionsAreSeqs ==
    ASSUME NEW F \in Functions
    PROVE  /\ F \in Seq(BlockKinds)
           /\ Len(F) \in 0..MaxBlocks
           /\ DOMAIN F = 1..Len(F)
<1>1. PICK n \in 0..MaxBlocks : F \in [1..n -> BlockKinds]
  BY DEF Functions
<1>2. F \in Seq(BlockKinds)
  BY <1>1, SeqDef
<1>3. Len(F) = n
  BY <1>1, <1>2, LenProperties
<1>. QED
  BY <1>1, <1>2, <1>3

\* A block that is not empty and not untyped is a singleton or a jump
\* target; a jump target carries an address.
LEMMA BlockKindFacts ==
    ASSUME NEW b \in BlockKinds
    PROVE  /\ b.role \in Roles
           /\ b.empty => b.role = "Untyped"
           /\ b.role = "JumpTarget" => b.addr \in Addrs
BY DEF BlockKinds, Roles, Singletons

\* A set of positions of one function is finite.
LEMMA RefsFinite ==
    ASSUME NEW f, NEW m \in Nat, NEW S \in SUBSET ({f} \X (1..m))
    PROVE  IsFiniteSet(S)
<1> DEFINE g == [x \in S |-> x[2]]
<1>0. \A x \in S : x = <<f, x[2]>> /\ x[2] \in 1..m
  OBVIOUS
<1>1. g \in [S -> 1..m]
  BY <1>0
<1>2. \A a, b \in S : g[a] = g[b] => a = b
  BY <1>0
<1>3. g \in Injection(S, 1..m)
  BY <1>1, <1>2, Zenon DEF Injection, IsInjective
<1>4. IsFiniteSet(1..m)
  BY FS_Interval
<1>. QED
  BY <1>3, <1>4, FS_Injection

\* A finite set with two distinct elements has at least two.
LEMMA TwoElements ==
    ASSUME NEW S, IsFiniteSet(S), NEW x \in S, NEW y \in S, x # y
    PROVE  Cardinality(S) >= 2
<1>1. IsFiniteSet({x}) /\ Cardinality({x}) = 1
  BY FS_Singleton
<1>2. Cardinality({x} \cup {y}) = Cardinality({x}) + 1
  <2>1. IsFiniteSet({x}) /\ y \notin {x}
    BY <1>1
  <2>. QED
    BY <2>1, FS_AddElement, Zenon
<1>3. {x} \cup {y} \in SUBSET S
  OBVIOUS
<1>4. Cardinality({x} \cup {y}) <= Cardinality(S)
  BY <1>3, FS_Subset, Zenon
<1>5. Cardinality(S) \in Nat
  BY FS_CardinalityType
<1>. QED
  BY <1>1, <1>2, <1>4, <1>5

\* The positions of the blocks of function f lie in {f} \X 1..MaxBlocks.
LEMMA RoleBlocksFinite ==
    ASSUME NEW F \in [1..NumFuncs -> Functions], NEW f \in 1..NumFuncs, NEW r
    PROVE  /\ RoleBlocks(F, f, r) \subseteq {f} \X (1..MaxBlocks)
           /\ IsFiniteSet(RoleBlocks(F, f, r))
           /\ IsFiniteSet(TargetBlocks(F, f, r))
<1>1. DOMAIN F[f] = 1..Len(F[f]) /\ Len(F[f]) \in 0..MaxBlocks
  BY FunctionsAreSeqs
<1>2. /\ RoleBlocks(F, f, r) \subseteq {f} \X (1..MaxBlocks)
      /\ TargetBlocks(F, f, r) \subseteq {f} \X (1..MaxBlocks)
  BY <1>1 DEF RoleBlocks, TargetBlocks
<1>. QED
  BY <1>2, RefsFinite

\* The blocks of function f before position n with role r, and the jump
\* targets before n with address a: what the loop of lines 41-67 has seen
\* when it is about to visit block n.
SeenIn(F, f, n, r) ==
    {<<f, j>> : j \in {j \in DOMAIN F[f] : j < n /\ ~F[f][j].empty /\ F[f][j].role = r}}
TargetsIn(F, f, n, a) ==
    {<<f, j>> : j \in {j \in DOMAIN F[f] : j < n /\ F[f][j].role = "JumpTarget"
                                          /\ F[f][j].addr = a}}

\* Nothing is seen before the first block, everything after the last, and
\* what is seen is part of the function.
LEMMA SeenInBounds ==
    ASSUME NEW F, NEW f, NEW L \in Nat, NEW r, DOMAIN F[f] = 1..L, NEW n \in Int
    PROVE  /\ SeenIn(F, f, 1, r) = {} /\ TargetsIn(F, f, 1, r) = {}
           /\ SeenIn(F, f, L + 1, r) = RoleBlocks(F, f, r)
           /\ TargetsIn(F, f, L + 1, r) = TargetBlocks(F, f, r)
           /\ SeenIn(F, f, n, r) \subseteq RoleBlocks(F, f, r)
           /\ TargetsIn(F, f, n, r) \subseteq TargetBlocks(F, f, r)
           /\ \A x \in SeenIn(F, f, n, r) \cup TargetsIn(F, f, n, r) : x[2] < n
BY DEF SeenIn, TargetsIn, RoleBlocks, TargetBlocks

-----------------------------------------------------------------------------
(* Type correctness.                                                       *)

LEMMA InitCTypeOK == Init => CTypeOK
BY DEF Init, CTypeOK

LEMMA NextCTypeOK == CTypeOK /\ [CNext]_cvars => CTypeOK'
<1> SUFFICES ASSUME CTypeOK, [CNext]_cvars PROVE CTypeOK'
  OBVIOUS
<1>0. /\ Funcs[fn] \in Functions
      /\ Funcs[fn] \in Seq(BlockKinds)
      /\ DOMAIN Funcs[fn] = 1..Len(Funcs[fn])
      /\ Len(Funcs[fn]) \in 0..MaxBlocks
  BY FunctionsAreSeqs DEF CTypeOK
<1>1. CASE LoadMetadata
  <2>1. /\ DelaySlotSize' \in DelayVals
        /\ PC' \in {PCVar, NoPCVar}
        /\ pc' \in {"visit", "fatal"}
    BY <1>1 DEF LoadMetadata, CTypeOK
  <2>. QED
    BY <1>1, <2>1 DEF LoadMetadata, CTypeOK, input
<1>2. CASE VisitBlock
  <2>1. /\ i \in 1..MaxBlocks
        /\ i' = i + 1
        /\ Blk \in BlockKinds
        /\ <<fn, i>> \in BlockRefs
    BY <1>0, <1>2 DEF VisitBlock, CTypeOK, Blk, BlockRefs
  <2>2. i' \in 0..(MaxBlocks + 1)
    BY <2>1
  <2>3. slot' \in [Singletons -> BlockRefs \cup {NoBlock}]
    BY <1>2, <2>1 DEF VisitBlock, CTypeOK
  <2>4. JumpTargets' \in [Addrs -> BlockRefs \cup {NoBlock}]
    BY <1>2, <2>1, BlockKindFacts DEF VisitBlock, CTypeOK
  <2>5. pc' \in {"load", "visit", "returned", "fatal"}
    BY <1>2 DEF VisitBlock, CTypeOK
  <2>. QED
    BY <1>2, <2>2, <2>3, <2>4, <2>5 DEF VisitBlock, CTypeOK, input
<1>3. CASE FinishFunction
  BY <1>3 DEF FinishFunction, CTypeOK, input
<1>4. CASE NextFunction
  BY <1>4 DEF NextFunction, MoreFunctions, CTypeOK, input
<1>5. CASE Halted
  BY <1>5 DEF Halted, CTypeOK, cvars
<1>6. CASE UNCHANGED cvars
  BY <1>6 DEF cvars, CTypeOK
<1>. QED
  BY <1>1, <1>2, <1>3, <1>4, <1>5, <1>6 DEF CNext

\* The members of the pass only ever hold blocks of the module (or
\* nullptr), the loop index stays within one past the longest function,
\* and the metadata values read at lines 34-38 are of their types.
THEOREM ClassifyTypeCorrect == CSpec => []CTypeOK
BY InitCTypeOK, NextCTypeOK, PTL DEF CSpec

-----------------------------------------------------------------------------
(* MembersSound, for every build and every number of functions.           *)

SoundInv == CTypeOK /\ MembersSound

LEMMA InitSoundInv == Init => SoundInv
BY InitCTypeOK DEF Init, SoundInv, MembersSound

LEMMA NextSoundInv == SoundInv /\ [CNext]_cvars => SoundInv'
<1> SUFFICES ASSUME SoundInv, [CNext]_cvars PROVE MembersSound'
  BY NextCTypeOK DEF SoundInv
<1>0. /\ Funcs[fn] \in Seq(BlockKinds)
      /\ DOMAIN Funcs[fn] = 1..Len(Funcs[fn])
      /\ fn \in 1..NumFuncs
  BY FunctionsAreSeqs DEF SoundInv, CTypeOK
<1>1. CASE LoadMetadata
  BY <1>1 DEF LoadMetadata, SoundInv, MembersSound, input
<1>2. CASE VisitBlock
  <2>0. /\ i \in DOMAIN Funcs[fn]
        /\ Funcs' = Funcs /\ fn' = fn
    BY <1>0, <1>2 DEF VisitBlock, input
  <2>1. CASE /\ Blk.empty \/ Blk.role = "Untyped"
             /\ UNCHANGED <<slot, JumpTargets, pc>>
    BY <2>0, <2>1 DEF SoundInv, MembersSound
  <2>2. CASE /\ ~Blk.empty
             /\ Blk.role \in Singletons
             /\ LET S == {SlotFor(r) : r \in SingletonCases(Blk.role)} IN
                IF AssertsEnabled /\ \E s \in S : ~SlotFree(s)
                THEN pc' = "fatal" /\ UNCHANGED slot
                ELSE /\ slot' = [s \in Singletons |-> IF s \in S THEN <<fn, i>> ELSE slot[s]]
                     /\ UNCHANGED pc
             /\ UNCHANGED JumpTargets
    <3>1. {SlotFor(r) : r \in SingletonCases(Blk.role)} = {Blk.role}
      BY DEF SlotFor, SingletonCases
    <3>2. <<fn, i>> \in RoleBlocks(Funcs, fn, Blk.role)
      BY <2>0, <2>2 DEF RoleBlocks, Blk
    <3>3. CASE UNCHANGED slot
      BY <2>0, <2>2, <3>3 DEF SoundInv, MembersSound
    <3>4. CASE slot' = [s \in Singletons |-> IF s \in {Blk.role} THEN <<fn, i>> ELSE slot[s]]
      <4>1. ASSUME NEW r \in Singletons, slot'[r] # NoBlock
            PROVE  slot'[r][1] <= fn' /\ slot'[r] \in RoleBlocks(Funcs', slot'[r][1], r)
        <5>1. CASE r = Blk.role
          BY <1>0, <2>0, <2>2, <3>2, <3>4, <4>1, <5>1
        <5>2. CASE r # Blk.role
          BY <2>0, <3>4, <4>1, <5>2 DEF SoundInv, MembersSound
        <5>. QED
          BY <5>1, <5>2
      <4>. QED
        BY <2>0, <2>2, <4>1 DEF SoundInv, MembersSound
    <3>. QED
      BY <2>2, <3>1, <3>3, <3>4
  <2>3. CASE /\ ~Blk.empty
             /\ Blk.role = "JumpTarget"
             /\ JumpTargets' = [JumpTargets EXCEPT ![Blk.addr] = <<fn, i>>]
             /\ UNCHANGED <<slot, pc>>
    <3>1. <<fn, i>> \in TargetBlocks(Funcs, fn, Blk.addr)
      BY <2>0, <2>3 DEF TargetBlocks, Blk
    <3>. QED
      BY <2>0, <2>3, <3>1 DEF SoundInv, MembersSound, CTypeOK
  <2>. QED
    BY <1>2, <2>1, <2>2, <2>3 DEF VisitBlock
<1>3. CASE FinishFunction
  BY <1>3 DEF FinishFunction, SoundInv, MembersSound, input
<1>4. CASE NextFunction
  <2>1. fn' = fn + 1 /\ UNCHANGED <<Funcs, slot, JumpTargets>>
    BY <1>4 DEF NextFunction, input
  <2>2. /\ \A r \in Singletons : slot[r] # NoBlock => slot[r] \in BlockRefs
        /\ \A a \in Addrs : JumpTargets[a] # NoBlock => JumpTargets[a] \in BlockRefs
    BY DEF SoundInv, CTypeOK
  <2>3. ASSUME NEW r \in Singletons, slot[r] # NoBlock
        PROVE  slot[r][1] <= fn + 1
    BY <1>0, <2>2, <2>3 DEF BlockRefs, SoundInv, MembersSound
  <2>4. ASSUME NEW a \in Addrs, JumpTargets[a] # NoBlock
        PROVE  JumpTargets[a][1] <= fn + 1
    BY <1>0, <2>2, <2>4 DEF BlockRefs, SoundInv, MembersSound
  <2>. QED
    BY <2>1, <2>3, <2>4 DEF SoundInv, MembersSound
<1>5. CASE Halted
  BY <1>5 DEF Halted, SoundInv, MembersSound, cvars
<1>6. CASE UNCHANGED cvars
  BY <1>6 DEF cvars, SoundInv, MembersSound
<1>. QED
  BY <1>1, <1>2, <1>3, <1>4, <1>5, <1>6 DEF CNext

\* In every build and however many functions the pass object has
\* classified, a member of the pass that is set holds a block of the
\* current or an earlier function with the member's role, and a
\* JumpTargets entry a jump target with that address (the switch of lines
\* 43-66 never files a block under the wrong key).
THEOREM MembersAlwaysSound == CSpec => []MembersSound
<1>1. SoundInv => MembersSound
  BY DEF SoundInv
<1>. QED
  BY InitSoundInv, NextSoundInv, <1>1, PTL DEF CSpec

-----------------------------------------------------------------------------
(* ClassifyExact and FatalOnlyOnBreach, for a build with assertions that   *)
(* classifies one function whose jump targets have distinct addresses,    *)
(* with metadata that names a PC global of the module.                    *)

OneFunctionWithAsserts ==
    /\ AssertsEnabled = TRUE
    /\ NumFuncs = 1
    /\ "nopcvar" \notin MDStates
    /\ DistinctTargets = TRUE

\* The blocks a member stands for: none for nullptr.
Held(x) == IF x = NoBlock THEN {} ELSE {x}

\* The members describe exactly the blocks the loop has passed.
ExactInv ==
    /\ CTypeOK
    /\ fn = 1
    /\ HasDistinctTargets(Funcs, fn)
    /\ pc = "load" =>
          /\ \A r \in Singletons : slot[r] = NoBlock
          /\ \A a \in Addrs : JumpTargets[a] = NoBlock
    /\ pc \in {"visit", "returned"} =>
          /\ i \in 1..Len(Funcs[fn]) + 1
          /\ \A r \in Singletons : SeenIn(Funcs, fn, i, r) = Held(slot[r])
          /\ \A a \in Addrs : TargetsIn(Funcs, fn, i, a) = Held(JumpTargets[a])
          /\ PC = PCVar /\ DelaySlotSize = MDDelay
    /\ pc = "returned" =>
          /\ i = Len(Funcs[fn]) + 1
          /\ \A r \in Singletons : slot[r] # NoBlock
    /\ FatalOnlyOnBreach

LEMMA InitExactInv ==
    ASSUME OneFunctionWithAsserts PROVE Init => ExactInv
BY InitCTypeOK DEF Init, ExactInv, FatalOnlyOnBreach, OneFunctionWithAsserts

\* A step of the loop that stays in it and advances i keeps ExactInv once
\* the blocks seen up to i + 1 are those the members hold.
LEMMA VisitStepExact ==
    ASSUME ExactInv, CTypeOK',
           pc = "visit", pc' = "visit",
           i \in 1..Len(Funcs[fn]), i' = i + 1, Len(Funcs[fn]) \in Nat,
           Funcs' = Funcs, fn' = fn, MD' = MD, MDDelay' = MDDelay,
           PC' = PC, DelaySlotSize' = DelaySlotSize,
           \A r \in Singletons : SeenIn(Funcs, fn, i + 1, r) = Held(slot'[r]),
           \A a \in Addrs : TargetsIn(Funcs, fn, i + 1, a) = Held(JumpTargets'[a])
    PROVE  ExactInv'
<1>1. fn' = 1 /\ HasDistinctTargets(Funcs', fn')
  BY DEF ExactInv
<1>2. i' \in 1..Len(Funcs'[fn']) + 1
  OBVIOUS
<1>3. /\ \A r \in Singletons : SeenIn(Funcs', fn', i', r) = Held(slot'[r])
      /\ \A a \in Addrs : TargetsIn(Funcs', fn', i', a) = Held(JumpTargets'[a])
  OBVIOUS
<1>4. PC' = PCVar /\ DelaySlotSize' = MDDelay'
  BY DEF ExactInv
<1>5. FatalOnlyOnBreach'
  BY DEF FatalOnlyOnBreach
<1>. QED
  BY <1>1, <1>2, <1>3, <1>4, <1>5 DEF ExactInv

LEMMA NextExactInv ==
    ASSUME OneFunctionWithAsserts PROVE ExactInv /\ [CNext]_cvars => ExactInv'
<1> SUFFICES ASSUME ExactInv, [CNext]_cvars PROVE ExactInv'
  OBVIOUS
<1>. USE DEF OneFunctionWithAsserts
<1>0. /\ CTypeOK'
      /\ Funcs[fn] \in Seq(BlockKinds)
      /\ DOMAIN Funcs[fn] = 1..Len(Funcs[fn])
      /\ Len(Funcs[fn]) \in Nat
      /\ fn \in 1..NumFuncs
  BY NextCTypeOK, FunctionsAreSeqs DEF ExactInv, CTypeOK
<1>1. CASE LoadMetadata
  <2>1. CASE MD = "ok"
    <3>1. /\ pc' = "visit" /\ i' = 1 /\ PC' = PCVar /\ DelaySlotSize' = MDDelay
          /\ UNCHANGED <<Funcs, MD, MDDelay, fn, slot, JumpTargets>>
      BY <1>1, <2>1 DEF LoadMetadata, input
    <3>2. /\ \A r \in Singletons : SeenIn(Funcs, fn, 1, r) = {}
          /\ \A a \in Addrs : TargetsIn(Funcs, fn, 1, a) = {}
      BY <1>0 DEF SeenIn, TargetsIn
    <3>. QED
      BY <1>0, <1>1, <3>1, <3>2 DEF LoadMetadata, ExactInv, Held, FatalOnlyOnBreach
  <2>2. CASE MD # "ok"
    <3>1. /\ pc' = "fatal" /\ MD \in {"absent", "notuple"}
          /\ UNCHANGED <<Funcs, MD, MDDelay, fn, slot, JumpTargets>>
      BY <1>1, <2>2 DEF LoadMetadata, ExactInv, CTypeOK, input
    <3>. QED
      BY <1>0, <3>1 DEF ExactInv, FatalOnlyOnBreach
  <2>. QED
    BY <2>1, <2>2
<1>2. CASE VisitBlock
  <2>0. /\ pc = "visit" /\ pc \in {"visit", "returned"}
        /\ i \in 1..Len(Funcs[fn]) /\ i' = i + 1
        /\ UNCHANGED <<Funcs, MD, MDDelay, fn, PC, DelaySlotSize>>
        /\ Blk = Funcs[fn][i] /\ Blk \in BlockKinds
        /\ <<fn, i>> \in BlockRefs /\ <<fn, i>> # NoBlock
    BY <1>0, <1>2 DEF VisitBlock, Blk, input, ExactInv, CTypeOK, BlockRefs
  <2>s. \A r : /\ SeenIn(Funcs, fn, i + 1, r) =
                    IF ~Blk.empty /\ Blk.role = r
                    THEN SeenIn(Funcs, fn, i, r) \cup {<<fn, i>>} ELSE SeenIn(Funcs, fn, i, r)
               /\ TargetsIn(Funcs, fn, i + 1, r) =
                    IF Blk.role = "JumpTarget" /\ Blk.addr = r
                    THEN TargetsIn(Funcs, fn, i, r) \cup {<<fn, i>>} ELSE TargetsIn(Funcs, fn, i, r)
    BY <1>0, <2>0 DEF SeenIn, TargetsIn
  <2>b. \A r : /\ SeenIn(Funcs, fn, i, r) \subseteq RoleBlocks(Funcs, fn, r)
               /\ TargetsIn(Funcs, fn, i, r) \subseteq TargetBlocks(Funcs, fn, r)
               /\ \A x \in SeenIn(Funcs, fn, i, r) \cup TargetsIn(Funcs, fn, i, r) : x # <<fn, i>>
    BY <1>0, <2>0 DEF SeenIn, TargetsIn, RoleBlocks, TargetBlocks
  <2>k. /\ Blk.role \in Roles
        /\ Blk.empty => Blk.role = "Untyped"
        /\ Blk.role = "JumpTarget" => Blk.addr \in Addrs
    BY <2>0, BlockKindFacts
  <2>1. CASE /\ Blk.empty \/ Blk.role = "Untyped"
             /\ UNCHANGED <<slot, JumpTargets, pc>>
    <3>1. /\ \A r \in Singletons : SeenIn(Funcs, fn, i + 1, r) = SeenIn(Funcs, fn, i, r)
          /\ \A a \in Addrs : TargetsIn(Funcs, fn, i + 1, a) = TargetsIn(Funcs, fn, i, a)
      BY <2>1, <2>s, <2>k DEF Singletons
    <3>. QED
      BY <1>0, <2>0, <2>1, <3>1 DEF ExactInv, FatalOnlyOnBreach
  <2>2. CASE /\ ~Blk.empty
             /\ Blk.role \in Singletons
             /\ LET S == {SlotFor(r) : r \in SingletonCases(Blk.role)} IN
                IF AssertsEnabled /\ \E s \in S : ~SlotFree(s)
                THEN pc' = "fatal" /\ UNCHANGED slot
                ELSE /\ slot' = [s \in Singletons |-> IF s \in S THEN <<fn, i>> ELSE slot[s]]
                     /\ UNCHANGED pc
             /\ UNCHANGED JumpTargets
    <3>0. {SlotFor(r) : r \in SingletonCases(Blk.role)} = {Blk.role}
      BY DEF SlotFor, SingletonCases
    <3>t. \A a \in Addrs : TargetsIn(Funcs, fn, i + 1, a) = TargetsIn(Funcs, fn, i, a)
      BY <2>2, <2>s DEF Singletons
    <3>1. CASE slot[Blk.role] # NoBlock
      <4>1. pc' = "fatal" /\ UNCHANGED slot
        BY <2>2, <3>0, <3>1 DEF SlotFree
      <4>2. slot[Blk.role] \in RoleBlocks(Funcs, fn, Blk.role)
            /\ slot[Blk.role] # <<fn, i>>
        <5>1. SeenIn(Funcs, fn, i, Blk.role) = {slot[Blk.role]}
          BY <2>0, <2>2, <3>1 DEF ExactInv, Held
        <5>. QED
          BY <2>b, <5>1
      <4>3. <<fn, i>> \in RoleBlocks(Funcs, fn, Blk.role)
        BY <2>0, <2>2 DEF RoleBlocks
      <4>4. IsFiniteSet(RoleBlocks(Funcs, fn, Blk.role))
        BY <1>0, RoleBlocksFinite DEF ExactInv, CTypeOK
      <4>5. Cardinality(RoleBlocks(Funcs, fn, Blk.role)) # 1
        BY <4>2, <4>3, <4>4, TwoElements
      <4>. QED
        BY <1>0, <2>0, <2>2, <4>1, <4>5 DEF ExactInv, FatalOnlyOnBreach
    <3>2. CASE slot[Blk.role] = NoBlock
      <4>1. /\ slot' = [s \in Singletons |-> IF s \in {Blk.role} THEN <<fn, i>> ELSE slot[s]]
            /\ UNCHANGED pc
        BY <2>2, <3>0, <3>2 DEF SlotFree
      <4>2. \A r \in Singletons : SeenIn(Funcs, fn, i + 1, r) = Held(slot'[r])
        BY <2>0, <2>2, <2>s, <3>2, <4>1 DEF ExactInv, Held
      <4>3. \A a \in Addrs : TargetsIn(Funcs, fn, i + 1, a) = Held(JumpTargets'[a])
        BY <2>0, <2>2, <3>t DEF ExactInv
      <4>. QED
        BY <1>0, <2>0, <4>1, <4>2, <4>3, VisitStepExact
    <3>. QED
      BY <3>1, <3>2
  <2>3. CASE /\ ~Blk.empty
             /\ Blk.role = "JumpTarget"
             /\ JumpTargets' = [JumpTargets EXCEPT ![Blk.addr] = <<fn, i>>]
             /\ UNCHANGED <<slot, pc>>
    <3>0. Blk.addr \in Addrs
      BY <2>3, <2>k
    <3>1. TargetsIn(Funcs, fn, i, Blk.addr) = {}
      <4> SUFFICES ASSUME NEW x \in TargetsIn(Funcs, fn, i, Blk.addr) PROVE FALSE
        OBVIOUS
      <4>1. x \in TargetBlocks(Funcs, fn, Blk.addr) /\ x # <<fn, i>>
        BY <2>b
      <4>2. <<fn, i>> \in TargetBlocks(Funcs, fn, Blk.addr)
        BY <2>0, <2>3 DEF TargetBlocks
      <4>3. IsFiniteSet(TargetBlocks(Funcs, fn, Blk.addr))
        BY <1>0, RoleBlocksFinite DEF ExactInv, CTypeOK
      <4>4. Cardinality(TargetBlocks(Funcs, fn, Blk.addr)) >= 2
        BY <4>1, <4>2, <4>3, TwoElements
      <4>5. Cardinality(TargetBlocks(Funcs, fn, Blk.addr)) <= 1
        BY <3>0 DEF ExactInv, HasDistinctTargets
      <4>. QED
        BY <4>3, <4>4, <4>5, FS_CardinalityType
    <3>2. JumpTargets[Blk.addr] = NoBlock
      BY <3>0, <3>1, <2>0 DEF ExactInv, Held
    <3>3. /\ \A r \in Singletons : SeenIn(Funcs, fn, i + 1, r) = SeenIn(Funcs, fn, i, r)
          /\ \A a \in Addrs : TargetsIn(Funcs, fn, i + 1, a) = Held(JumpTargets'[a])
      BY <2>0, <2>3, <2>s, <3>0, <3>1, <3>2 DEF ExactInv, Held, Singletons, CTypeOK
    <3>4. \A r \in Singletons : SeenIn(Funcs, fn, i + 1, r) = Held(slot'[r])
      BY <2>0, <2>3, <3>3 DEF ExactInv
    <3>. QED
      BY <1>0, <2>0, <2>3, <3>3, <3>4, VisitStepExact
  <2>. QED
    BY <1>2, <2>1, <2>2, <2>3 DEF VisitBlock
<1>3. CASE FinishFunction
  <2>0. /\ pc = "visit" /\ i = Len(Funcs[fn]) + 1
        /\ UNCHANGED <<Funcs, MD, MDDelay, fn, i, PC, DelaySlotSize, slot, JumpTargets>>
    BY <1>0, <1>3 DEF FinishFunction, input, ExactInv
  <2>1. \A r \in Singletons : SeenIn(Funcs, fn, i, r) = RoleBlocks(Funcs, fn, r)
    BY <1>0, <2>0 DEF SeenIn, RoleBlocks
  <2>2. CASE \E r \in Singletons : slot[r] = NoBlock
    <3>1. PICK r \in Singletons : slot[r] = NoBlock
      BY <2>2
    <3>2. RoleBlocks(Funcs, fn, r) = {}
      BY <2>0, <2>1, <3>1 DEF ExactInv, Held
    <3>3. pc' = "fatal"
      BY <1>3, <2>2 DEF FinishFunction
    <3>. QED
      BY <1>0, <2>0, <3>2, <3>3, FS_EmptySet DEF ExactInv, FatalOnlyOnBreach
  <2>3. CASE \A r \in Singletons : slot[r] # NoBlock
    <3>1. pc' = "returned"
      BY <1>3, <2>3 DEF FinishFunction
    <3>2. /\ fn' = 1 /\ HasDistinctTargets(Funcs', fn')
          /\ i' = Len(Funcs'[fn']) + 1 /\ i' \in 1..Len(Funcs'[fn']) + 1
          /\ \A r \in Singletons : SeenIn(Funcs', fn', i', r) = Held(slot'[r])
          /\ \A a \in Addrs : TargetsIn(Funcs', fn', i', a) = Held(JumpTargets'[a])
          /\ PC' = PCVar /\ DelaySlotSize' = MDDelay'
      BY <1>0, <2>0 DEF ExactInv
    <3>3. \A r \in Singletons : slot'[r] # NoBlock
      BY <2>0, <2>3
    <3>4. FatalOnlyOnBreach'
      BY <3>1 DEF FatalOnlyOnBreach
    <3>. QED
      BY <1>0, <3>1, <3>2, <3>3, <3>4 DEF ExactInv
  <2>. QED
    BY <2>2, <2>3
<1>4. CASE NextFunction
  BY <1>4 DEF NextFunction, MoreFunctions, ExactInv
<1>5. CASE Halted
  BY <1>0, <1>5 DEF Halted, cvars, ExactInv, FatalOnlyOnBreach
<1>6. CASE UNCHANGED cvars
  BY <1>0, <1>6 DEF cvars, ExactInv, FatalOnlyOnBreach
<1>. QED
  BY <1>1, <1>2, <1>3, <1>4, <1>5, <1>6 DEF CNext

LEMMA ExactInvImplies ==
    ExactInv => ClassifyExact /\ FatalOnlyOnBreach
<1> SUFFICES ASSUME ExactInv PROVE ClassifyExact
  BY DEF ExactInv
<1>1. DOMAIN Funcs[fn] = 1..Len(Funcs[fn]) /\ Len(Funcs[fn]) \in Nat
  BY FunctionsAreSeqs DEF ExactInv, CTypeOK
<1>. QED
  BY <1>1, SeenInBounds DEF ExactInv, ClassifyExact, Held

\* With assertions on, on one function whose jump targets have distinct
\* addresses and metadata that names the PC global: when runOnFunction
\* returns, its members are exactly the function's singleton blocks, jump
\* targets, PC and delay-slot size (the switch of lines 43-66 and the
\* asserts of lines 45-53 and 70-72).
THEOREM ClassifyExactOneFunction ==
    ASSUME OneFunctionWithAsserts PROVE CSpec => []ClassifyExact
BY InitExactInv, NextExactInv, ExactInvImplies, PTL DEF CSpec

\* Under the same conditions the pass stops the process only when the
\* metadata is missing or malformed or a singleton block is missing or
\* duplicated (lines 34-38, 45-53, 70-72).
THEOREM FatalOnlyOnBreachOneFunction ==
    ASSUME OneFunctionWithAsserts PROVE CSpec => []FatalOnlyOnBreach
BY InitExactInv, NextExactInv, ExactInvImplies, PTL DEF CSpec
-----------------------------------------------------------------------------
(* The refinement of ClassifyContract, step by step, on one function with  *)
(* assertions.                                                             *)

\* With assertions, the loop is entered only on a well-formed record.
MDOk == pc \in {"visit", "returned"} => MD = "ok"

LEMMA InitMDOk == Init => MDOk
BY DEF Init, MDOk

LEMMA NextMDOk ==
    ASSUME OneFunctionWithAsserts PROVE CTypeOK /\ MDOk /\ [CNext]_cvars => MDOk'
<1> SUFFICES ASSUME CTypeOK, MDOk, [CNext]_cvars PROVE MDOk'
  OBVIOUS
<1>1. CASE LoadMetadata
  BY <1>1 DEF LoadMetadata, MDOk, CTypeOK, OneFunctionWithAsserts, input
<1>2. CASE VisitBlock \/ FinishFunction
  BY <1>2 DEF VisitBlock, FinishFunction, MDOk, input
<1>3. CASE NextFunction \/ Halted \/ UNCHANGED cvars
  BY <1>3 DEF NextFunction, Halted, MDOk, input, cvars
<1>. QED
  BY <1>1, <1>2, <1>3 DEF CNext

\* ClassifyContract extends the same ClassifyData: its initial functions are
\* those of the pass.
LEMMA SameData ==
    /\ Contract!Functions = Functions
    /\ \A F, f : Contract!HasDistinctTargets(F, f) = HasDistinctTargets(F, f)
    /\ \A F, f, r : Contract!RoleBlocks(F, f, r) = RoleBlocks(F, f, r)
    /\ \A F, f, a : Contract!TargetBlocks(F, f, a) = TargetBlocks(F, f, a)
    /\ \A S : Contract!Cardinality(S) = Cardinality(S)
<1>0. \A S : Contract!Cardinality(S) = Cardinality(S)
  BY DEF Contract!Cardinality, Cardinality
<1>1. Contract!Functions = Functions
  BY DEF Contract!Functions, Functions, Contract!BlockKinds, BlockKinds,
         Contract!Singletons, Singletons
<1>2. \A F, f, a : Contract!TargetBlocks(F, f, a) = TargetBlocks(F, f, a)
  BY DEF Contract!TargetBlocks, TargetBlocks
<1>3. \A F, f : Contract!HasDistinctTargets(F, f) = HasDistinctTargets(F, f)
  BY <1>0, <1>2 DEF Contract!HasDistinctTargets, HasDistinctTargets
<1>4. \A F, f, r : Contract!RoleBlocks(F, f, r) = RoleBlocks(F, f, r)
  BY DEF Contract!RoleBlocks, RoleBlocks
<1>. QED
  BY <1>0, <1>1, <1>2, <1>3, <1>4

LEMMA InitRefinesContract == Init => Contract!AInit
BY SameData DEF Init, Contract!AInit, ContractOutcome

\* Members that describe the function exactly on well-formed metadata are
\* an outcome the contract allows.
LEMMA ReturnAllowed ==
    ASSUME NEW sl \in [Singletons -> BlockRefs \cup {NoBlock}],
           NEW jt \in [Addrs -> BlockRefs \cup {NoBlock}],
           MD = "ok",
           \A r \in Singletons : RoleBlocks(Funcs, 1, r) = {sl[r]},
           \A a \in Addrs : TargetBlocks(Funcs, 1, a) =
                               IF jt[a] = NoBlock THEN {} ELSE {jt[a]}
    PROVE  <<"returned", [slot |-> sl, JumpTargets |-> jt,
                          PC |-> PCVar, DelaySlotSize |-> MDDelay]>>
              \in Contract!Allowed(Funcs, 1, MD, MDDelay)
<1>1. ~Contract!Breach(Funcs, 1, MD)
  <2>1. \A r \in Singletons : Cardinality({sl[r]}) = 1
    BY FS_Singleton
  <2>2. \A r \in Singletons : Cardinality(RoleBlocks(Funcs, 1, r)) = 1
    BY <2>1
  <2>. QED
    BY <2>2, SameData DEF Contract!Breach, Contract!Singletons, Singletons
<1>2. Contract!Describes([slot |-> sl, JumpTargets |-> jt, PC |-> PCVar,
                          DelaySlotSize |-> MDDelay], Funcs, 1, MDDelay)
  BY SameData DEF Contract!Describes, Contract!Singletons, Singletons
<1>3. [slot |-> sl, JumpTargets |-> jt, PC |-> PCVar, DelaySlotSize |-> MDDelay]
        \in Contract!Candidates(Funcs, 1, MDDelay)
  <2>1. \A r \in Singletons : sl[r] \in UNION {RoleBlocks(Funcs, 1, q) : q \in Singletons}
    OBVIOUS
  <2>2. \A a \in Addrs : jt[a] \in (UNION {TargetBlocks(Funcs, 1, b) : b \in Addrs}) \cup {NoBlock}
    OBVIOUS
  <2>. QED
    BY <2>1, <2>2, SameData DEF Contract!Candidates, Contract!Singletons, Singletons
<1>. QED
  BY <1>1, <1>2, <1>3 DEF Contract!Allowed

\* What the step lemma needs of a state: the inductive invariant, the
\* metadata check, and the two properties it implies.
CInv == ExactInv /\ MDOk /\ ClassifyExact /\ FatalOnlyOnBreach

\* A step of the pass is a stuttering step of the contract while the loop
\* runs and after the call has ended, and its Classified step where the
\* call returns or aborts.
LEMMA StepRefinesContract ==
    ASSUME OneFunctionWithAsserts, CInv, CInv', [CNext]_cvars
    PROVE  [Contract!Classified]_Contract!avars
<1>0. /\ fn = 1 /\ fn' = 1 /\ NumFuncs = 1
      /\ UNCHANGED <<Funcs, MD, MDDelay>>
  BY DEF CInv, ExactInv, OneFunctionWithAsserts, CNext, LoadMetadata, VisitBlock,
         FinishFunction, NextFunction, Halted, input, cvars
<1>1. CASE pc \in {"returned", "fatal"}
  <2>1. UNCHANGED cvars
    BY <1>0, <1>1 DEF CNext, LoadMetadata, VisitBlock, FinishFunction,
                      NextFunction, MoreFunctions, Halted
  <2>. QED
    BY <2>1 DEF cvars, Contract!avars, ContractOutcome
<1>2. CASE pc \notin {"returned", "fatal"}
  <2>0. ContractOutcome = <<"running">>
    BY <1>2 DEF ContractOutcome
  <2>1. CASE pc' = "returned"
    <3>1. /\ slot' \in [Singletons -> BlockRefs \cup {NoBlock}]
          /\ JumpTargets' \in [Addrs -> BlockRefs \cup {NoBlock}]
          /\ PC' = PCVar /\ DelaySlotSize' = MDDelay'
          /\ \A r \in Singletons : RoleBlocks(Funcs', fn', r) = {slot'[r]}
          /\ \A a \in Addrs : TargetBlocks(Funcs', fn', a) =
                 IF JumpTargets'[a] = NoBlock THEN {} ELSE {JumpTargets'[a]}
      BY <2>1 DEF CInv, ExactInv, CTypeOK, ClassifyExact
    <3>2. MD' = "ok"
      BY <2>1 DEF CInv, MDOk
    <3>3. ContractOutcome' = <<"returned", [slot |-> slot', JumpTargets |-> JumpTargets',
                                            PC |-> PCVar, DelaySlotSize |-> MDDelay]>>
      BY <1>0, <2>1, <3>1 DEF ContractOutcome
    <3>4. ContractOutcome' \in Contract!Allowed(Funcs, 1, MD, MDDelay)
      BY <1>0, <3>1, <3>2, <3>3, ReturnAllowed
    <3>. QED
      BY <1>0, <2>0, <3>4 DEF Contract!Classified
  <2>2. CASE pc' = "fatal"
    <3>1. Contract!Breach(Funcs, 1, MD)
      BY <1>0, <2>2, SameData DEF CInv, FatalOnlyOnBreach, Contract!Breach, Contract!Singletons, Singletons
    <3>2. ContractOutcome' = <<"fatal">>
      BY <2>2 DEF ContractOutcome
    <3>. QED
      BY <1>0, <2>0, <3>1, <3>2 DEF Contract!Classified, Contract!Allowed
  <2>3. CASE pc' \notin {"returned", "fatal"}
    <3>1. ContractOutcome' = <<"running">>
      BY <2>3 DEF ContractOutcome
    <3>. QED
      BY <1>0, <2>0, <3>1 DEF Contract!avars
  <2>. QED
    BY <2>1, <2>2, <2>3
<1>. QED
  BY <1>1, <1>2

\* With assertions, on one function whose jump targets have distinct
\* addresses and metadata that never lacks the PC global, runOnFunction
\* (lines 29-77) implements the safety part of its contract: it aborts
\* only when the producer broke the contract, returns only with members
\* that describe the function exactly, and changes nothing after.
THEOREM ClassifyRefinesContract ==
    ASSUME OneFunctionWithAsserts
    PROVE  CSpec => Contract!AInit /\ [][Contract!Classified]_Contract!avars
<1>1. Init => ExactInv /\ MDOk
  BY InitExactInv, InitMDOk
<1>2. ExactInv /\ MDOk /\ [CNext]_cvars => (ExactInv /\ MDOk)'
  BY NextExactInv, NextMDOk DEF ExactInv
<1>3. ExactInv /\ MDOk => CInv
  BY ExactInvImplies DEF CInv
<1>4. CInv /\ CInv' /\ [CNext]_cvars => [Contract!Classified]_Contract!avars
  BY StepRefinesContract
<1>. QED
  BY InitRefinesContract, <1>1, <1>2, <1>3, <1>4, PTL DEF CSpec
=============================================================================
