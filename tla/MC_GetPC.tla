------------------------------ MODULE MC_GetPC ------------------------------
(***************************************************************************)
(* GetPC on every function of three blocks (one of them the dispatcher)   *)
(* with at most two instructions per block and two distinct newpc calls,   *)
(* every predecessor order and every query point.                          *)
(***************************************************************************)
EXTENDS GetPC, TLC

CONSTANTS m1, m2

MCMarkerPC == [m \in {m1, m2} |-> IF m = m1 THEN 4096 ELSE 4100]
MCMarkerSize == [m \in {m1, m2} |-> IF m = m1 THEN 4 ELSE 2]

\* A newpc call of size 0, which getPC asserts against (line 140).
MCMarkerSizeZero == [m \in {m1, m2} |-> IF m = m1 THEN 4 ELSE 0]
\* The blocks other than the dispatcher are interchangeable: nothing in the
\* model names one of them or picks among them.
NonDispatcherSymmetry == Permutations(Blocks \ {Dispatcher})
=============================================================================
