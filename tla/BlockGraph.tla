----------------------------- MODULE BlockGraph -----------------------------
(***************************************************************************)
(* The generated function that GeneratedCodeBasicInfo::getPC searches      *)
(* (src/generatedcodebasicinfo.cpp): a set of basic blocks, each an        *)
(* ordered sequence of instructions, and the CFG edges between them.  An   *)
(* instruction is either a call to the marker routine "newpc", carrying    *)
(* (address, size) of the original instruction, or any other instruction. *)
(* Marker calls are model values of the set Markers; MarkerPC and          *)
(* MarkerSize give their two integer arguments.  Two positions may hold    *)
(* the same marker value: two distinct calls with equal arguments.         *)
(*                                                                         *)
(* This module holds the data of the function and the reference            *)
(* definition of the markers that reach a query point (Reaching); the      *)
(* search itself is in GetPC, its contract in PCQuery.                     *)
(***************************************************************************)
EXTENDS Naturals, Sequences, FiniteSets, Relation

CONSTANTS
    Blocks,          \* the basic blocks of the function
    Markers,         \* the newpc calls, as model values
    MarkerPC,        \* first argument of each newpc call (the address)
    MarkerSize,      \* second argument of each newpc call (the size)
    MaxLen,          \* bound on the number of instructions of a block
    Dispatcher,      \* the dispatcher block
    Other,           \* any instruction that is not a call to newpc
    AssertsEnabled   \* TRUE for a build without NDEBUG

ASSUME BlocksAssumption == IsFiniteSet(Blocks) /\ Blocks # {}
ASSUME DispatcherAssumption == Dispatcher \in Blocks
ASSUME MarkersAssumption ==
    /\ Other \notin Markers
    /\ MarkerPC \in [Markers -> Nat]
    /\ MarkerSize \in [Markers -> Nat]
ASSUME MaxLenAssumption == MaxLen \in Nat
ASSUME AssertsAssumption == AssertsEnabled \in BOOLEAN

Instr == Markers \cup {Other}

\* The possible instruction lists of one block.
Bodies == UNION {[1..n -> Instr] : n \in 0..MaxLen}

\* predecessors(BB): the blocks whose terminator branches to b.
Preds(succ, b) == {a \in Blocks : b \in succ[a]}

(***************************************************************************)
(* The scan loop of getPC: walking a block backward from index i, the      *)
(* first call to newpc met, i.e. the largest j <= i holding a marker, or 0 *)
(* when the walk reaches the start of the block without one.              *)
(***************************************************************************)
IsLastNewPC(body, b, i, j) ==
    /\ body[b][j] \in Markers
    /\ \A k \in (j + 1)..i : body[b][k] \notin Markers

LastNewPC(body, b, i) ==
    IF \E j \in 1..i : IsLastNewPC(body, b, i, j)
    THEN CHOOSE j \in 1..i : IsLastNewPC(body, b, i, j)
    ELSE 0

HasNewPC(body, b) == LastNewPC(body, b, Len(body[b])) # 0

(***************************************************************************)
(* The inputs the analysis can meet.  An empty block has no terminator and *)
(* therefore no successors; the dispatcher is generated code (the switch  *)
(* over the program counter) that holds no newpc call.                     *)
(***************************************************************************)
WellFormed(body, succ) ==
    /\ body \in [Blocks -> Bodies]
    /\ succ \in [Blocks -> SUBSET Blocks]
    /\ \A b \in Blocks : body[b] = << >> => succ[b] = {}
    /\ body[Dispatcher] # << >>
    /\ ~HasNewPC(body, Dispatcher)

\* The instruction positions getPC may be asked about.  When AnyPoint is
\* FALSE a point is either the first instruction of its block or not a
\* newpc call itself.
QueryPoints(body, AnyPoint) ==
    {pt \in Blocks \X (1..MaxLen) :
        /\ pt[2] \in 1..Len(body[pt[1]])
        /\ AnyPoint \/ pt[2] = 1 \/ body[pt[1]][pt[2]] = Other}

-----------------------------------------------------------------------------
(***************************************************************************)
(* Reference definition of what getPC looks for.  A marker reaches the     *)
(* point <<b, i>> when a backward walk from the point meets it first: the  *)
(* last marker at or before the point in b, or else the last marker of a   *)
(* block Y from which a CFG path leads to b through blocks without any     *)
(* marker.                                                                 *)
(***************************************************************************)
\* The relation "x has an edge to y and y holds no newpc".
FreeEdge(body, succ) ==
    [xy \in Blocks \X Blocks |-> xy[2] \in succ[xy[1]] /\ ~HasNewPC(body, xy[2])]

\* The blocks a backward walk from the start of b enters.
FreeReach(body, succ, b) ==
    LET tc == TransitiveClosure(FreeEdge(body, succ), Blocks)
    IN  {y \in Blocks :
            \/ y \in Preds(succ, b)
            \/ \E z \in Preds(succ, b) : ~HasNewPC(body, z) /\ tc[y, z]}

Reaching(body, succ, pt) ==
    LET b == pt[1]
        j == LastNewPC(body, b, pt[2])
    IN  IF j # 0
        THEN {<<b, j>>}
        ELSE {<<y, LastNewPC(body, y, Len(body[y]))>> :
                 y \in {z \in FreeReach(body, succ, b) : HasNewPC(body, z)}}

\* The pair getPC returns for a marker position.
Payload(body, m) == <<MarkerPC[body[m[1]][m[2]]], MarkerSize[body[m[1]][m[2]]]>>

\* What getPC returns when it finds nothing or finds two markers.
Unknown == <<0, 0>>
=============================================================================
