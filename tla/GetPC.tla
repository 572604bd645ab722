------------------------------- MODULE GetPC -------------------------------
(***************************************************************************)
(* GeneratedCodeBasicInfo::getPC (src/generatedcodebasicinfo.cpp, lines   *)
(* 79-142): the backward worklist search for the newpc call that covers an *)
(* instruction.  One step of the model is one statement group of the C++  *)
(* function: the seeding of the worklist, one iteration of the while loop *)
(* (pop, scan of the block, dispatcher check), one iteration of the loop   *)
(* over the predecessors, and the final return.                            *)
(*                                                                         *)
(* The function under analysis (body, succ) and the queried instruction   *)
(* are chosen in Init and never change.  The order in which               *)
(* predecessors(BB) lists the predecessors (the use-list order) is chosen  *)
(* when a block's predecessors are enumerated: every block is enumerated   *)
(* at most once with an effect (the start block may be enumerated a       *)
(* second time, when all its non-empty predecessors are already visited), *)
(* so this is the same as fixing one order per block in advance.          *)
(***************************************************************************)
EXTENDS BlockGraph

CONSTANTS
    AnyPoint,    \* may the query point be a newpc call that does not start its block?
    NoCall,      \* NewPCCall == nullptr
    Pending,     \* getPC has not returned yet
    Aborted      \* the process stopped on a failed assert

ASSUME AnyPointAssumption == AnyPoint \in BOOLEAN
ASSUME NoCallAssumption == NoCall \notin Blocks \X Nat

VARIABLES
    body, succ,       \* the generated function
    PredList,         \* predecessors(BB) in use-list order
    TheInstruction,   \* the query point <<block, index>>
    WorkList,         \* std::queue<BasicBlock::reverse_iterator> as <<block, index>>
    Visited,          \* std::set<BasicBlock *>
    NewPCCall,        \* the newpc call found so far, <<block, index>>, or NoCall
    BB,               \* the block whose predecessors are being enqueued
    k,                \* index of the predecessor being enqueued
    pc,               \* where getPC is
    result            \* the returned pair, or Pending

input == <<body, succ, TheInstruction>>
vars == <<body, succ, TheInstruction, WorkList, Visited, NewPCCall,
          BB, PredList, k, pc, result>>

\* The injective sequences listing exactly the set S.
Orderings(S) == {s \in [1..Cardinality(S) -> S] :
                    \A i, j \in 1..Cardinality(S) : s[i] = s[j] => i = j}

Init ==
    /\ body \in [Blocks -> Bodies]
    /\ succ \in [Blocks -> SUBSET Blocks]
    /\ WellFormed(body, succ)
    /\ TheInstruction \in QueryPoints(body, AnyPoint)
    /\ WorkList = << >>
    /\ Visited = {}
    /\ NewPCCall = NoCall
    /\ BB = Dispatcher
    /\ PredList = << >>
    /\ k = 0
    /\ pc = "seed"
    /\ result = Pending

\* Mutant: the scan always starts before the point, as spec.md 4.4 step 1
\* describes it.
SeedIndexBefore(i) == i - 1

\* The scan start for a point: the point itself when it is the first
\* instruction of its block (--rend()), else the instruction before it
\* (make_reverse_iterator).
SeedIndex(i) == IF i = 1 THEN 1 ELSE i - 1

\* Lines 84-87: scan from the instruction itself when it starts its block,
\* else from the one before it.
Seed ==
    /\ pc = "seed"
    /\ WorkList' = << <<TheInstruction[1], SeedIndex(TheInstruction[2])>> >>
    /\ pc' = "scan"
    /\ UNCHANGED <<input, Visited, NewPCCall, BB, PredList, k, result>>

\* The cursor at the head of the worklist and the newpc call its scan meets.
Cursor == Head(WorkList)
Hit == LastNewPC(body, Cursor[1], Cursor[2])

\* Lines 89-107: a second newpc call is met; getPC returns {0, 0}.
ScanAmbiguous ==
    /\ pc = "scan"
    /\ WorkList # << >>
    /\ Hit # 0
    /\ NewPCCall # NoCall
    /\ result' = Unknown
    /\ pc' = "done"
    /\ WorkList' = Tail(WorkList)
    /\ UNCHANGED <<input, Visited, NewPCCall, BB, PredList, k>>

\* Mutant: the predecessors of the block holding the call are explored too.
ScanFoundKeepsExploring ==
    /\ pc = "scan"
    /\ WorkList # << >>
    /\ Hit # 0
    /\ NewPCCall = NoCall
    /\ NewPCCall' = <<Cursor[1], Hit>>
    /\ WorkList' = Tail(WorkList)
    /\ pc' = "enq"
    /\ BB' = Cursor[1]
    /\ PredList' \in Orderings(Preds(succ, Cursor[1]))
    /\ k' = 1
    /\ UNCHANGED <<input, Visited, result>>

\* Lines 89-113: the first newpc call is met; no predecessor is explored.
ScanFound ==
    /\ pc = "scan"
    /\ WorkList # << >>
    /\ Hit # 0
    /\ NewPCCall = NoCall
    /\ NewPCCall' = <<Cursor[1], Hit>>
    /\ WorkList' = Tail(WorkList)
    /\ UNCHANGED <<input, Visited, BB, PredList, k, pc, result>>

\* Lines 89-113: nothing in this block, but a call was already found by an
\* earlier cursor: the block's predecessors are not explored.
ScanSkip ==
    /\ pc = "scan"
    /\ WorkList # << >>
    /\ Hit = 0
    /\ NewPCCall # NoCall
    /\ WorkList' = Tail(WorkList)
    /\ UNCHANGED <<input, Visited, NewPCCall, BB, PredList, k, pc, result>>

\* Lines 89-121: nothing found yet.  The first loop over the predecessors
\* asserts that none of them is the dispatcher (its `continue` has no
\* effect); then the second loop starts.
ScanMiss ==
    /\ pc = "scan"
    /\ WorkList # << >>
    /\ Hit = 0
    /\ NewPCCall = NoCall
    /\ WorkList' = Tail(WorkList)
    /\ IF AssertsEnabled /\ Dispatcher \in Preds(succ, Cursor[1])
       THEN /\ pc' = "fatal"
            /\ UNCHANGED <<BB, PredList, k>>
       ELSE /\ pc' = "enq"
            /\ BB' = Cursor[1]
            /\ PredList' \in Orderings(Preds(succ, Cursor[1]))
            /\ k' = 1
    /\ UNCHANGED <<input, Visited, NewPCCall, result>>

\* Mutant: the cursor starts one past the last instruction.
PushFromEnd(p) == <<p, Len(body[p]) + 1>>

\* Predecessor->rbegin(): a cursor on the last instruction of p.
PushFrom(p) == <<p, Len(body[p])>>

\* Mutant: the predecessor is pushed but not recorded as visited.
MarkVisitedSkipped(p) == Visited

\* Visited.insert(Predecessor).
MarkVisited(p) == Visited \cup {p}

\* Lines 122-129: one predecessor; it is pushed, scanning from its last
\* instruction, unless it is empty or already visited.
Enqueue ==
    /\ pc = "enq"
    /\ k \in 1..Len(PredList)
    /\ LET p == PredList[k] IN
       IF body[p] # << >> /\ p \notin Visited
       THEN /\ WorkList' = Append(WorkList, PushFrom(p))
            /\ Visited' = MarkVisited(p)
       ELSE UNCHANGED <<WorkList, Visited>>
    /\ k' = k + 1
    /\ UNCHANGED <<input, NewPCCall, BB, PredList, pc, result>>

\* Line 122: the loop over the predecessors ends; its locals (BB, the
\* predecessor range and its iterator) go out of scope.
EnqueueDone ==
    /\ pc = "enq"
    /\ k \notin 1..Len(PredList)
    /\ pc' = "scan"
    /\ BB' = Dispatcher
    /\ PredList' = << >>
    /\ k' = 0
    /\ UNCHANGED <<input, WorkList, Visited, NewPCCall, result>>

\* Lines 134-136: the worklist is exhausted without a newpc call.
ReturnUnknown ==
    /\ pc = "scan"
    /\ WorkList = << >>
    /\ NewPCCall = NoCall
    /\ result' = Unknown
    /\ pc' = "done"
    /\ UNCHANGED <<input, WorkList, Visited, NewPCCall, BB, PredList, k>>

\* Lines 138-141: return the arguments of the call found; assert that its
\* size is not zero.
ReturnFound ==
    /\ pc = "scan"
    /\ WorkList = << >>
    /\ NewPCCall # NoCall
    /\ result' = Payload(body, NewPCCall)
    /\ pc' = IF AssertsEnabled /\ result'[2] = 0 THEN "fatal" ELSE "done"
    /\ UNCHANGED <<input, WorkList, Visited, NewPCCall, BB, PredList, k>>

\* getPC has returned, or the process was aborted by an assertion.
Terminated ==
    /\ pc \in {"done", "fatal"}
    /\ UNCHANGED vars

Next ==
    \/ Seed
    \/ ScanAmbiguous \/ ScanFound \/ ScanSkip \/ ScanMiss
    \/ Enqueue \/ EnqueueDone
    \/ ReturnUnknown \/ ReturnFound
    \/ Terminated

\* getPC is ordinary sequential code: it keeps running until it returns.
Spec == Init /\ [][Next]_vars /\ WF_vars(Next)

-----------------------------------------------------------------------------
\* A cursor: a block and the index its backward scan starts from.
Cursors(bd) == {c \in Blocks \X Nat : c[2] <= Len(bd[c[1]])}

\* Positions of newpc calls.
MarkerPositions(bd) ==
    {m \in Blocks \X Nat : m[2] \in 1..Len(bd[m[1]]) /\ bd[m[1]][m[2]] \in Markers}

\* Type invariant: every cursor stays inside its block and NewPCCall is a
\* newpc call of the function.
TypeOK ==
    /\ WellFormed(body, succ)
    /\ PredList \in Seq(Blocks)
    /\ TheInstruction \in Blocks \X Nat
    /\ WorkList \in Seq(Cursors(body))
    /\ Visited \subseteq Blocks
    /\ NewPCCall \in MarkerPositions(body) \cup {NoCall}
    /\ BB \in Blocks
    /\ k \in Nat
    /\ pc \in {"seed", "scan", "enq", "done", "fatal"}
    /\ result \in (Nat \X Nat) \cup {Pending}

\* The answer getPC gives, seen as the abstract call's answer.
AnswerOf == CASE pc = "done"  -> result
              [] pc = "fatal" -> Aborted
              [] OTHER        -> Pending

Abs == INSTANCE PCQuery WITH answer <- AnswerOf

\* What getPC returns is what PCQuery allows: the arguments of the only
\* newpc call that reaches the point, {0, 0} when none does, and an abort
\* only when a marker-free backward path enters the dispatcher.  This is
\* about the interplay of the global NewPCCall with the per-block scans and
\* the Visited set (lines 89-131).
ResultCorrect ==
    /\ pc = "done" => result \in Abs!Allowed(body, succ, TheInstruction)
    /\ pc = "fatal" => Aborted \in Abs!Allowed(body, succ, TheInstruction)

\* The worklist never holds more cursors than the function has blocks: the
\* Visited set (lines 124-127) keeps every block from being pushed twice.
WorklistBound == Len(WorkList) <= Cardinality(Blocks)

\* getPC implements the one-step contract of PCQuery: every run returns
\* (or aborts) once, with an allowed answer.
GetPCImplementsPCQuery == Abs!ASpec

\* spec.md 8: getPC returns {0, 0} when two newpc calls with different
\* arguments reach the point along divergent backward paths.  The code stops exploring
\* predecessors as soon as one call is found (line 113), so a second call
\* further back than the breadth-first frontier is never seen.
AmbiguityDetected ==
    LET R == Reaching(body, succ, TheInstruction)
    IN  pc = "done" /\ Cardinality({Payload(body, m) : m \in R}) >= 2
            => result = Unknown
=============================================================================
