---------------------------- MODULE GetPC_proofs ----------------------------
(***************************************************************************)
(* Proofs about the getPC search of module GetPC, for every set of blocks, *)
(* every set of newpc calls and every bound on the block length.          *)
(***************************************************************************)
EXTENDS GetPC, SequenceTheorems, FiniteSetTheorems, TLAPS

USE BlocksAssumption, DispatcherAssumption, MarkersAssumption,
    MaxLenAssumption, AssertsAssumption, AnyPointAssumption, NoCallAssumption

-----------------------------------------------------------------------------
(* Lemmas about the operators the model is built from.                     *)

\* A block body is a sequence of instructions.
LEMMA BodiesAreSeqs ==
    ASSUME NEW s \in Bodies
    PROVE  s \in Seq(Instr)
<1>1. PICK n \in 0..MaxLen : s \in [1..n -> Instr]
  BY DEF Bodies
<1>2. QED
  BY <1>1, SeqDef

\* The backward scan of a block returns 0 or an index at or below its start
\* that holds a newpc call.
LEMMA LastNewPCType ==
    ASSUME NEW bd, NEW b, NEW i \in Nat
    PROVE  /\ LastNewPC(bd, b, i) \in 0..i
           /\ LastNewPC(bd, b, i) # 0 => bd[b][LastNewPC(bd, b, i)] \in Markers
<1>1. CASE \E j \in 1..i : IsLastNewPC(bd, b, i, j)
  <2>1. PICK j \in 1..i : j = CHOOSE j2 \in 1..i : IsLastNewPC(bd, b, i, j2)
    BY <1>1
  <2>2. IsLastNewPC(bd, b, i, j)
    BY <1>1, <2>1
  <2>3. LastNewPC(bd, b, i) = j
    BY <1>1, <2>1 DEF LastNewPC
  <2>. QED
    BY <2>2, <2>3 DEF IsLastNewPC
<1>2. CASE ~\E j \in 1..i : IsLastNewPC(bd, b, i, j)
  BY <1>2 DEF LastNewPC
<1>. QED
  BY <1>1, <1>2

\* An ordering of a set of blocks is a sequence of blocks.
LEMMA OrderingsAreSeqs ==
    ASSUME NEW S \in SUBSET Blocks, NEW o \in Orderings(S)
    PROVE  o \in Seq(Blocks)
<1>1. Cardinality(S) \in Nat
  BY FS_Subset, FS_CardinalityType
<1>2. o \in [1..Cardinality(S) -> Blocks]
  BY DEF Orderings
<1>. QED
  BY <1>1, <1>2, SeqDef

-----------------------------------------------------------------------------
(* Type correctness.                                                       *)

\* TypeOK together with the fact that the query point lies in its block.
TypeInv ==
    /\ TypeOK
    /\ TheInstruction \in QueryPoints(body, AnyPoint)

LEMMA InitTypeInv == Init => TypeInv
<1> SUFFICES ASSUME Init PROVE TypeInv
  OBVIOUS
<1>1. <<>> \in Seq(Cursors(body)) /\ <<>> \in Seq(Blocks)
  BY EmptySeq
<1>2. TheInstruction \in Blocks \X Nat
  BY DEF Init, QueryPoints
<1>. QED
  BY <1>1, <1>2 DEF Init, TypeInv, TypeOK

LEMMA NextTypeInv == TypeInv /\ [Next]_vars => TypeInv'
<1> SUFFICES ASSUME TypeInv, [Next]_vars PROVE TypeInv'
  OBVIOUS
<1>. USE DEF TypeInv, TypeOK
<1>0. /\ \A b \in Blocks : body[b] \in Seq(Instr)
      /\ WorkList \in Seq(Cursors(body))
  BY BodiesAreSeqs DEF WellFormed
\* Facts about the cursor at the head of a non-empty worklist.
<1>h. ASSUME WorkList # << >>
      PROVE  /\ Cursor \in Cursors(body)
             /\ Tail(WorkList) \in Seq(Cursors(body))
             /\ Hit \in 0..Cursor[2]
             /\ Hit # 0 => <<Cursor[1], Hit>> \in MarkerPositions(body)
  <2>1. Cursor \in Cursors(body) /\ Tail(WorkList) \in Seq(Cursors(body))
    BY <1>h, <1>0, HeadTailProperties DEF Cursor
  <2>2. Cursor[1] \in Blocks /\ Cursor[2] \in Nat /\ Cursor[2] <= Len(body[Cursor[1]])
    BY <2>1 DEF Cursors
  <2>3. /\ Hit \in 0..Cursor[2]
        /\ Hit # 0 => body[Cursor[1]][Hit] \in Markers
    BY <2>2, LastNewPCType DEF Hit
  <2>. QED
    BY <2>1, <2>2, <2>3 DEF MarkerPositions
<1>1. CASE Seed
  <2>1. /\ TheInstruction[1] \in Blocks
        /\ TheInstruction[2] \in 1..Len(body[TheInstruction[1]])
    BY DEF QueryPoints
  <2>2. <<TheInstruction[1], SeedIndex(TheInstruction[2])>> \in Cursors(body)
    BY <1>0, <2>1 DEF SeedIndex, Cursors
  <2>3. << <<TheInstruction[1], SeedIndex(TheInstruction[2])>> >> \in Seq(Cursors(body))
    BY <2>2
  <2>. QED
    BY <1>1, <2>3 DEF Seed, input
<1>2. CASE ScanAmbiguous
  BY <1>2, <1>h DEF ScanAmbiguous, input, Unknown
<1>3. CASE ScanFound
  BY <1>3, <1>h DEF ScanFound, input
<1>4. CASE ScanSkip
  BY <1>4, <1>h DEF ScanSkip, input
<1>5. CASE ScanMiss
  <2>1. Cursor[1] \in Blocks
    BY <1>5, <1>h DEF ScanMiss, Cursors
  <2>2. Preds(succ, Cursor[1]) \in SUBSET Blocks
    BY DEF Preds
  <2>3. PredList' \in Seq(Blocks) \/ PredList' = PredList
    BY <1>5, <2>2, OrderingsAreSeqs DEF ScanMiss
  <2>. QED
    BY <1>5, <1>h, <2>1, <2>3 DEF ScanMiss, input
<1>6. CASE Enqueue
  <2>1. PICK p \in Blocks : p = PredList[k]
    BY <1>6, ElementOfSeq DEF Enqueue
  <2>2. PushFrom(p) \in Cursors(body)
    BY <1>0, <2>1 DEF PushFrom, Cursors
  <2>3. Append(WorkList, PushFrom(p)) \in Seq(Cursors(body))
    BY <1>0, <2>2, AppendProperties
  <2>4. k' \in Nat /\ UNCHANGED <<input, NewPCCall, BB, PredList, pc, result>>
    BY <1>6 DEF Enqueue
  <2>5. CASE body[p] # << >> /\ p \notin Visited
    <3>1. WorkList' = Append(WorkList, PushFrom(p)) /\ Visited' = Visited \cup {p}
      BY <1>6, <2>1, <2>5 DEF Enqueue, MarkVisited
    <3>. QED
      BY <2>1, <2>3, <2>4, <3>1 DEF input
  <2>6. CASE ~(body[p] # << >> /\ p \notin Visited)
    <3>1. UNCHANGED <<WorkList, Visited>>
      BY <1>6, <2>1, <2>6 DEF Enqueue
    <3>. QED
      BY <2>4, <3>1 DEF input
  <2>. QED
    BY <2>5, <2>6
<1>7. CASE EnqueueDone
  BY <1>7, EmptySeq DEF EnqueueDone, input
<1>8. CASE ReturnUnknown
  BY <1>8 DEF ReturnUnknown, input, Unknown
<1>9. CASE ReturnFound
  <2>1. NewPCCall \in MarkerPositions(body)
    BY <1>9 DEF ReturnFound
  <2>2. body[NewPCCall[1]][NewPCCall[2]] \in Markers
    BY <2>1 DEF MarkerPositions
  <2>3. Payload(body, NewPCCall) \in Nat \X Nat
    BY <2>2 DEF Payload
  <2>. QED
    BY <1>9, <2>3 DEF ReturnFound, input
<1>10. CASE Terminated \/ UNCHANGED vars
  BY <1>10 DEF Terminated, vars
<1>. QED
  BY <1>1, <1>2, <1>3, <1>4, <1>5, <1>6, <1>7, <1>8, <1>9, <1>10 DEF Next

\* Type correctness of getPC: TypeOK holds in every state of every run.
THEOREM TypeCorrect == Spec => []TypeOK
<1>1. Init => TypeInv
  BY InitTypeInv
<1>2. TypeInv /\ [Next]_vars => TypeInv'
  BY NextTypeInv
<1>3. TypeInv => TypeOK
  BY DEF TypeInv
<1>. QED
  BY <1>1, <1>2, <1>3, PTL DEF Spec

-----------------------------------------------------------------------------
(* The worklist bound.                                                     *)

\* The cursors of wl are for pairwise distinct blocks, all of them in V.
DistinctIn(wl, V) ==
    /\ \A i \in 1..Len(wl) : wl[i][1] \in V
    /\ \A i, j \in 1..Len(wl) : wl[i][1] = wl[j][1] => i = j

\* The inductive invariant behind WorklistBound: before the first push the
\* worklist holds at most the seed cursor (and none while predecessors are
\* pushed); from then on every cursor is for a distinct visited block.
WorklistInv ==
    /\ pc = "seed" => WorkList = << >> /\ Visited = {}
    /\ \/ /\ Visited = {}
          /\ Len(WorkList) <= 1
          /\ pc = "enq" => WorkList = << >>
       \/ DistinctIn(WorkList, Visited)

\* The interval 1..n has n elements.
LEMMA IntervalCard ==
    ASSUME NEW n \in Nat
    PROVE  Cardinality(1..n) = n
<1>1. Cardinality(1..n) = IF 1 > n THEN 0 ELSE n - 1 + 1
  BY FS_Interval
<1>. QED
  BY <1>1

\* A sequence of cursors for pairwise distinct blocks is no longer than the
\* number of blocks.
LEMMA DistinctBound ==
    ASSUME NEW wl \in Seq(Blocks \X Nat),
           \A i, j \in 1..Len(wl) : wl[i][1] = wl[j][1] => i = j
    PROVE  Len(wl) <= Cardinality(Blocks)
<1> DEFINE f == [i \in 1..Len(wl) |-> wl[i][1]]
<1>0. Len(wl) \in Nat /\ \A i \in 1..Len(wl) : wl[i] \in Blocks \X Nat
  BY LenProperties, ElementOfSeq
<1>1. f \in Injection(1..Len(wl), Blocks)
  <2>1. f \in [1..Len(wl) -> Blocks]
    BY <1>0
  <2>. QED
    BY <2>1 DEF Injection, IsInjective
<1>2. Cardinality(1..Len(wl)) <= Cardinality(Blocks)
  BY <1>1, FS_Injection
<1>3. Cardinality(1..Len(wl)) = Len(wl)
  BY <1>0, IntervalCard
<1>. QED
  BY <1>2, <1>3

\* Popping the head keeps the remaining cursors distinct.
LEMMA TailDistinct ==
    ASSUME NEW S, NEW wl \in Seq(S), wl # << >>, NEW V, DistinctIn(wl, V)
    PROVE  DistinctIn(Tail(wl), V)
<1>1. /\ Len(Tail(wl)) = Len(wl) - 1
      /\ \A i \in 1..Len(Tail(wl)) : Tail(wl)[i] = wl[i + 1]
      /\ Len(wl) \in Nat
  BY HeadTailProperties, LenProperties
<1>. QED
  BY <1>1 DEF DistinctIn

\* Pushing a cursor for an unvisited block and marking it visited keeps the
\* cursors distinct.
LEMMA AppendDistinct ==
    ASSUME NEW S, NEW wl \in Seq(S), NEW V, DistinctIn(wl, V),
           NEW c \in S, NEW p, p \notin V, c[1] = p
    PROVE  DistinctIn(Append(wl, c), V \cup {p})
<1>1. /\ Len(Append(wl, c)) = Len(wl) + 1
      /\ \A i \in 1..Len(wl) : Append(wl, c)[i] = wl[i]
      /\ Append(wl, c)[Len(wl) + 1] = c
      /\ Len(wl) \in Nat
  BY AppendProperties, LenProperties
<1>. QED
  BY <1>1 DEF DistinctIn

LEMMA InitWorklistInv == Init => WorklistInv
  BY DEF Init, WorklistInv

LEMMA NextWorklistInv == TypeInv /\ WorklistInv /\ [Next]_vars => WorklistInv'
<1> SUFFICES ASSUME TypeInv, WorklistInv, [Next]_vars PROVE WorklistInv'
  OBVIOUS
<1>0. WorkList \in Seq(Cursors(body))
  BY DEF TypeInv, TypeOK
\* A pop of a non-empty worklist.
<1>t. ASSUME WorkList # << >>, WorkList' = Tail(WorkList), UNCHANGED Visited
      PROVE  /\ DistinctIn(WorkList, Visited) => DistinctIn(WorkList', Visited')
             /\ Len(WorkList) <= 1 => WorkList' = << >>
  <2>1. DistinctIn(WorkList, Visited) => DistinctIn(WorkList', Visited')
    BY <1>t, <1>0, TailDistinct
  <2>2. Len(WorkList) <= 1 => WorkList' = << >>
    <3>1. Len(Tail(WorkList)) = Len(WorkList) - 1 /\ Tail(WorkList) \in Seq(Cursors(body))
      BY <1>t, <1>0, HeadTailProperties
    <3>. QED
      BY <1>t, <3>1, EmptySeq, LenProperties
  <2>. QED
    BY <2>1, <2>2
<1>1. CASE Seed
  <2>1. Len(WorkList') = 1
    BY <1>1 DEF Seed
  <2>. QED
    BY <1>1, <2>1 DEF Seed, WorklistInv
<1>2. CASE ScanAmbiguous
  BY <1>2, <1>t DEF ScanAmbiguous, WorklistInv
<1>3. CASE ScanFound
  BY <1>3, <1>t DEF ScanFound, WorklistInv
<1>4. CASE ScanSkip
  BY <1>4, <1>t DEF ScanSkip, WorklistInv
<1>5. CASE ScanMiss
  BY <1>5, <1>t DEF ScanMiss, WorklistInv
<1>6. CASE Enqueue
  <2>1. PICK p \in Blocks : p = PredList[k]
    BY <1>6, ElementOfSeq DEF Enqueue, TypeInv, TypeOK
  <2>2. PushFrom(p) \in Cursors(body) /\ PushFrom(p)[1] = p
    BY <2>1, BodiesAreSeqs DEF PushFrom, Cursors, TypeInv, TypeOK, WellFormed
  <2>3. pc' = "enq" /\ pc = "enq"
    BY <1>6 DEF Enqueue
  <2>4. CASE body[p] # << >> /\ p \notin Visited
    <3>1. WorkList' = Append(WorkList, PushFrom(p)) /\ Visited' = Visited \cup {p}
      BY <1>6, <2>1, <2>4 DEF Enqueue, MarkVisited
    <3>2. DistinctIn(WorkList, Visited)
      <4>1. CASE WorkList = << >>
        BY <4>1, EmptySeq DEF DistinctIn
      <4>2. CASE WorkList # << >>
        BY <4>2, <2>3 DEF WorklistInv
      <4>. QED
        BY <4>1, <4>2
    <3>3. DistinctIn(WorkList', Visited')
      BY <1>0, <2>2, <2>4, <3>1, <3>2, AppendDistinct
    <3>. QED
      BY <2>3, <3>3 DEF WorklistInv
  <2>5. CASE ~(body[p] # << >> /\ p \notin Visited)
    <3>1. UNCHANGED <<WorkList, Visited>>
      BY <1>6, <2>1, <2>5 DEF Enqueue
    <3>. QED
      BY <2>3, <3>1 DEF WorklistInv
  <2>. QED
    BY <2>4, <2>5
<1>7. CASE EnqueueDone
  BY <1>7 DEF EnqueueDone, WorklistInv
<1>8. CASE ReturnUnknown
  BY <1>8 DEF ReturnUnknown, WorklistInv
<1>9. CASE ReturnFound
  BY <1>9 DEF ReturnFound, WorklistInv
<1>10. CASE Terminated \/ UNCHANGED vars
  BY <1>10 DEF Terminated, vars, WorklistInv
<1>. QED
  BY <1>1, <1>2, <1>3, <1>4, <1>5, <1>6, <1>7, <1>8, <1>9, <1>10 DEF Next

\* The worklist invariant bounds the worklist by the number of blocks.
LEMMA WorklistInvBound == TypeInv /\ WorklistInv => WorklistBound
<1> SUFFICES ASSUME TypeInv, WorklistInv PROVE WorklistBound
  OBVIOUS
<1>0. WorkList \in Seq(Blocks \X Nat)
  <2>1. Cursors(body) \subseteq Blocks \X Nat
    BY DEF Cursors
  <2>. QED
    BY <2>1, SeqDef DEF TypeInv, TypeOK
<1>1. Cardinality(Blocks) \in Nat /\ Cardinality(Blocks) # 0
  BY FS_EmptySet, FS_CardinalityType
<1>2. CASE Len(WorkList) <= 1
  BY <1>1, <1>2 DEF WorklistBound
<1>3. CASE DistinctIn(WorkList, Visited)
  BY <1>0, <1>3, DistinctBound DEF DistinctIn, WorklistBound
<1>. QED
  BY <1>2, <1>3 DEF WorklistInv

\* The Visited set keeps the worklist of getPC within the number of blocks
\* of the function, whatever the graph and the use-list orders.
THEOREM WorklistBounded == Spec => []WorklistBound
<1>1. Init => TypeInv /\ WorklistInv
  BY InitTypeInv, InitWorklistInv
<1>2. TypeInv /\ WorklistInv /\ [Next]_vars => (TypeInv /\ WorklistInv)'
  BY NextTypeInv, NextWorklistInv
<1>3. TypeInv /\ WorklistInv => WorklistBound
  BY WorklistInvBound
<1>. QED
  BY <1>1, <1>2, <1>3, PTL DEF Spec

=============================================================================
