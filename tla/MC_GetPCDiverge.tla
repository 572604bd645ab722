--------------------------- MODULE MC_GetPCDiverge ---------------------------
(***************************************************************************)
(* The function of spec.md 8 where two backward paths diverge and merge    *)
(* before the point: P (queried) has predecessors A, which starts with     *)
(* newpc(4096, 4), and B, which holds no call and has predecessor C,       *)
(* starting with newpc(4100, 2).  D is the dispatcher, branching to A and  *)
(* C.  Every query point and both use-list orders of P's predecessors.     *)
(***************************************************************************)
EXTENDS GetPC

CONSTANTS m1, m2, A, B, C, D, P

MCMarkerPC == [m \in {m1, m2} |-> IF m = m1 THEN 4096 ELSE 4100]
MCMarkerSize == [m \in {m1, m2} |-> IF m = m1 THEN 4 ELSE 2]

DivergeInit ==
    /\ body = [x \in Blocks |-> CASE x = A -> <<m1, Other>>
                                  [] x = C -> <<m2, Other>>
                                  [] OTHER -> <<Other, Other>>]
    /\ succ = [x \in Blocks |-> CASE x = D -> {A, C}
                                  [] x = A -> {P}
                                  [] x = B -> {P}
                                  [] x = C -> {B}
                                  [] OTHER -> {}]
    /\ Init

DivergeSpec == DivergeInit /\ [][Next]_vars /\ WF_vars(Next)
=============================================================================
