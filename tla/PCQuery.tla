------------------------------ MODULE PCQuery ------------------------------
(***************************************************************************)
(* What a call of getPC promises, as one atomic step: it returns the       *)
(* arguments of the newpc call that reaches the point when there is        *)
(* exactly one; {0, 0} when there is none; either {0, 0} or the arguments  *)
(* of one of them when there are several; and it may abort on an          *)
(* assertion only in a build with assertions, when the backward walk can   *)
(* enter the dispatcher or the call found has size 0.                      *)
(***************************************************************************)
EXTENDS BlockGraph

CONSTANTS AnyPoint, Pending, Aborted

VARIABLES body, succ, TheInstruction, answer

avars == <<body, succ, TheInstruction, answer>>

\* The walk reaches the dispatcher before any newpc call on some path.
DispatcherOnFreePath(b, s, pt) ==
    /\ LastNewPC(b, pt[1], pt[2]) = 0
    /\ Dispatcher \in FreeReach(b, s, pt[1])

Allowed(b, s, pt) ==
    LET R == Reaching(b, s, pt)
        Found == {Payload(b, m) : m \in R}
    IN  (IF Cardinality(R) = 1 THEN Found ELSE {Unknown} \cup Found)
        \cup
        (IF AssertsEnabled
            /\ (DispatcherOnFreePath(b, s, pt) \/ \E m \in R : Payload(b, m)[2] = 0)
         THEN {Aborted} ELSE {})

AInit ==
    /\ body \in [Blocks -> Bodies]
    /\ succ \in [Blocks -> SUBSET Blocks]
    /\ WellFormed(body, succ)
    /\ TheInstruction \in QueryPoints(body, AnyPoint)
    /\ answer = Pending

Answer ==
    /\ answer = Pending
    /\ answer' \in Allowed(body, succ, TheInstruction)
    /\ UNCHANGED <<body, succ, TheInstruction>>

ASpec == AInit /\ [][Answer]_avars /\ WF_avars(Answer)
=============================================================================
