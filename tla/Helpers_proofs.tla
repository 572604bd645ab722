--------------------------- MODULE Helpers_proofs ---------------------------
(***************************************************************************)
(* Proofs, for every set of characters and values and every bound, that   *)
(* startsWith of src/revamb.h decides the prefix relation and that a      *)
(* Range piped through a transformer by operator| (transformadapter.h)    *)
(* reads back as the map of the transformer over the underlying range.    *)
(* ContainsIsMembership rests on what the recursive function of std::find *)
(* computes, induction over data that the provers cannot do: it stays     *)
(* with TLC.                                                               *)
(***************************************************************************)
EXTENDS Helpers, SequenceTheorems, TLAPS

\* The bounded sequences are sequences.
LEMMA BoundedSeqsAreSeqs ==
    ASSUME NEW S
    PROVE  BoundedSeqs(S) \subseteq Seq(S)
<1> SUFFICES ASSUME NEW n \in 0..MaxLen, NEW f \in [1..n -> S]
             PROVE  f \in Seq(S)
    BY DEF BoundedSeqs
<1> QED BY HelpersAssumption, n \in Nat

\* startsWith(s, p) is the prefix relation, whichever string is longer.
LEMMA StartsWithPrefix ==
    ASSUME NEW S, NEW s \in Seq(S), NEW p \in Seq(S)
    PROVE  startsWith(s, p) = PrefixOf(p, s)
<1> DEFINE m == IF Len(p) < Len(s) - 0 THEN Len(p) ELSE Len(s) - 0
<1>1. startsWith(s, p) = (SubSeq(s, 1, m) = p)
    BY DEF startsWith, substr
<1>2. /\ m \in 0..Len(s)
      /\ SubSeq(s, 1, m) \in Seq(S)
      /\ Len(SubSeq(s, 1, m)) = m
      /\ \A k \in 1..m : SubSeq(s, 1, m)[k] = s[k]
    BY SubSeqProperties
<1>3. CASE Len(p) <= Len(s)
    <2>1. m = Len(p) BY <1>3
    <2>2. (SubSeq(s, 1, m) = p) <=> \A k \in 1..Len(p) : p[k] = s[k]
        BY <1>2, <2>1, SeqEqual
    <2> QED BY <1>1, <2>2, <1>3 DEF PrefixOf
<1>4. CASE Len(p) > Len(s)
    <2>1. m = Len(s) BY <1>4
    <2>2. SubSeq(s, 1, m) # p BY <1>2, <2>1, <1>4
    <2> QED BY <1>1, <2>2, <1>4 DEF PrefixOf
<1> QED BY <1>3, <1>4

-----------------------------------------------------------------------------
\* The inductive invariant: the call is one of the model's calls and the two
\* properties hold.  The call never changes, and a result is written only
\* by the action of the call's own operation.
HInv == call \in Calls /\ StartsWithIsPrefix /\ TransformIsMap

\* What the operation of a call tells of its arguments.
LEMMA CallArgs ==
    ASSUME call \in Calls
    PROVE  /\ call.op = "startsWith" => call.s \in Seq(Chars) /\ call.p \in Seq(Chars)
           /\ call.op \in {"pipeRange", "pipeContainer"} =>
                  /\ call.r \in Seq(Vals) /\ call.f \in [Vals -> Vals]
           /\ call.op = "pipeRange" =>
                  /\ call.b \in 1..Len(call.r) + 1 /\ call.e \in call.b..Len(call.r) + 1
<1>1. Strings \subseteq Seq(Chars) /\ ValSeqs \subseteq Seq(Vals)
    BY BoundedSeqsAreSeqs DEF Strings, ValSeqs
<1> QED BY <1>1 DEF Calls

LEMMA InitHInv == Init => HInv
BY DEF Init, HInv, StartsWithIsPrefix, TransformIsMap

LEMMA NextHInv == HInv /\ [HNext]_hvars => HInv'
<1> SUFFICES ASSUME HInv, [HNext]_hvars PROVE HInv'
    OBVIOUS
<1>0. call \in Calls BY DEF HInv
<1>1. CASE CallStartsWith
    <2>1. result' = PrefixOf(call.p, call.s)
        BY <1>0, <1>1, CallArgs, StartsWithPrefix DEF CallStartsWith
    <2> QED BY <1>0, <1>1, <2>1 DEF CallStartsWith, HInv, StartsWithIsPrefix, TransformIsMap
<1>2. CASE CallContains
    BY <1>0, <1>2 DEF CallContains, HInv, StartsWithIsPrefix, TransformIsMap
<1>3. CASE CallPipeRange
    <2>1. result' = <<ReadByDeref(pipeRange([begin |-> call.b, end |-> call.e], call.f), call.r),
                      ReadBySubscript(pipeRange([begin |-> call.b, end |-> call.e], call.f), call.r)>>
        BY <1>3 DEF CallPipeRange
    <2>2. /\ call.r \in Seq(Vals) /\ call.f \in [Vals -> Vals]
          /\ call.b \in Int /\ call.e \in Int
          /\ 1 <= call.b /\ call.b <= call.e /\ call.e <= Len(call.r) + 1
        BY <1>0, <1>3, CallArgs DEF CallPipeRange
    <2>3. call' = call BY <1>3 DEF CallPipeRange
    <2>4. result' = <<[j \in DOMAIN SubSeq(call.r, call.b, call.e - 1) |->
                          call.f[SubSeq(call.r, call.b, call.e - 1)[j]]],
                      [j \in DOMAIN SubSeq(call.r, call.b, call.e - 1) |->
                          call.f[SubSeq(call.r, call.b, call.e - 1)[j]]]>>
        <3>1. /\ ReadByDeref(pipeRange([begin |-> call.b, end |-> call.e], call.f), call.r)
                    = [j \in DOMAIN SubSeq(call.r, call.b, call.e - 1) |->
                          call.f[SubSeq(call.r, call.b, call.e - 1)[j]]]
              /\ ReadBySubscript(pipeRange([begin |-> call.b, end |-> call.e], call.f), call.r)
                    = [j \in DOMAIN SubSeq(call.r, call.b, call.e - 1) |->
                          call.f[SubSeq(call.r, call.b, call.e - 1)[j]]]
            <4>1. /\ DOMAIN SubSeq(call.r, call.b, call.e - 1) = 1..(call.e - call.b)
                  /\ \A j \in 1..(call.e - call.b) :
                        SubSeq(call.r, call.b, call.e - 1)[j] = call.r[call.b + j - 1]
                BY <2>2, SubSeqProperties
            <4> QED BY <4>1 DEF ReadByDeref, ReadBySubscript, pipeRange, transform,
                               TransformIterator, deref, subscript
        <3> QED BY <2>1, <3>1
    <2>5. StartsWithIsPrefix' BY <1>3, <2>3 DEF CallPipeRange, StartsWithIsPrefix
    <2>6. TransformIsMap' BY <1>3, <2>3, <2>4 DEF CallPipeRange, TransformIsMap
    <2> QED BY <1>0, <2>3, <2>5, <2>6 DEF HInv
<1>4. CASE CallPipeContainer
    \* Its reads are undefined, and neither property is about its call.
    BY <1>0, <1>4 DEF CallPipeContainer, HInv, StartsWithIsPrefix, TransformIsMap
<1>5. CASE Returned \/ UNCHANGED hvars
    BY <1>5 DEF Returned, hvars, HInv, StartsWithIsPrefix, TransformIsMap
<1> QED BY <1>1, <1>2, <1>3, <1>4, <1>5 DEF HNext

\* startsWith of revamb.h (lines 117-120) returns true exactly when the
\* prefix argument is a prefix of the string, for every alphabet and bound.
THEOREM StartsWithCorrect == HSpec => []StartsWithIsPrefix
<1>1. HInv => StartsWithIsPrefix BY DEF HInv
<1> QED BY InitHInv, NextHInv, <1>1, PTL DEF HSpec

\* Reading a range piped through a transformer by operator| on a Range
\* (transformadapter.h 81-84), by operator* and by operator[], gives the
\* transformer mapped over the underlying range, for every value set and
\* bound.
THEOREM TransformCorrect == HSpec => []TransformIsMap
<1>1. HInv => TransformIsMap BY DEF HInv
<1> QED BY InitHInv, NextHInv, <1>1, PTL DEF HSpec

=============================================================================
