------------------------------ MODULE Helpers -------------------------------
(***************************************************************************)
(* The stateless helpers of src/revamb.h (startsWith, contains, lines      *)
(* 117-132) and the transforming range adaptor of src/transformadapter.h   *)
(* (TransformIterator, adaptors::Transform and the two operator|).  Each   *)
(* is an operator here, translated from the code, and the model makes one  *)
(* call of one of them with arguments from small sets, so that TLC checks  *)
(* it against a reference definition for every such argument.             *)
(*                                                                         *)
(* A std::string or a range's underlying sequence is a sequence; a wrapped *)
(* iterator is its position in the sequence (IteratorWrapper, declared     *)
(* outside src/, moves it and compares it).                                *)
(***************************************************************************)
EXTENDS Naturals, Sequences

CONSTANTS
    Chars,     \* the characters of the strings
    Vals,      \* the elements of the ranges
    MaxLen,    \* bound on the length of a string or a sequence
    NoResult   \* the call has not returned yet

ASSUME HelpersAssumption == MaxLen \in Nat

\* The sequences over a set of length at most MaxLen.
BoundedSeqs(S) == UNION {[1..n -> S] : n \in 0..MaxLen}

Strings == BoundedSeqs(Chars)
ValSeqs == BoundedSeqs(Vals)

\* std::string::substr(pos, count): the characters from pos (0-based), at
\* most count of them, fewer when the string ends first.
substr(s, pos, count) ==
    SubSeq(s, pos + 1, pos + (IF count < Len(s) - pos THEN count ELSE Len(s) - pos))

\* Mutant: the arguments are swapped, so the prefix is cut to the string's
\* length and compared with the string.
startsWithSwapped(String, Prefix) == substr(Prefix, 0, Len(String)) = String

\* startsWith (lines 117-120).
startsWith(String, Prefix) == substr(String, 0, Len(Prefix)) = Prefix

\* Mutant: the scan stops one element before end.
findShort(r, v) ==
    LET f[j \in 1..Len(r) + 1] ==
            IF j >= Len(r) THEN Len(r) + 1 ELSE IF r[j] = v THEN j ELSE f[j + 1]
    IN  f[1]

\* std::find(begin, end, V): the position of the first element equal to V,
\* or end (Len + 1).
find(r, v) ==
    LET f[j \in 1..Len(r) + 1] ==
            IF j = Len(r) + 1 THEN j ELSE IF r[j] = v THEN j ELSE f[j + 1]
    IN  f[1]

\* contains(Range, V) (lines 129-132).
contains(R, V) == find(R, V) # Len(R) + 1

\* TransformIterator(Iterator, F) (lines 28-30): the wrapped position and
\* the transformer.
TransformIterator(pos, F) == [pos |-> pos, F |-> F]

\* operator* (lines 32-34): the transformer applied to the wrapped element.
deref(it, s) == it.F[s[it.pos]]

\* Mutant: operator[] transforms the current element and ignores n.
subscriptIgnoresN(it, s, n) == it.F[s[it.pos]]

\* operator[](n) (lines 38-40): the transformer applied to the element n
\* places after the wrapped one.
subscript(it, s, n) == it.F[s[it.pos + n]]

\* adaptors::Transform::transform (lines 52-60): the range from the two
\* transforming iterators over Input.begin() and Input.end().
transform(F, Input) ==
    [begin |-> TransformIterator(Input.begin, F), end |-> TransformIterator(Input.end, F)]

\* operator|(Range<I>, R) (lines 81-84).  The Range taken by value is a
\* pair of iterators: its copy still points into the caller's sequence.
pipeRange(Input, R) == transform(R, Input)

\* operator|(C, R) (lines 86-89): the container is taken by value, and the
\* range returned is over all the elements of that copy, a parameter that
\* is destroyed when operator| returns.
pipeContainer(Input, R) ==
    transform(R, [begin |-> 1, end |-> Len(Input) + 1])

\* What a caller reads from a transformed range: with operator* while it
\* advances the begin iterator to end, and with operator[] from begin.
ReadByDeref(view, s) ==
    [j \in 1..(view.end.pos - view.begin.pos) |->
        deref([view.begin EXCEPT !.pos = @ + j - 1], s)]
ReadBySubscript(view, s) ==
    [j \in 1..(view.end.pos - view.begin.pos) |-> subscript(view.begin, s, j - 1)]

VARIABLES call, result

hvars == <<call, result>>

\* The calls the model makes: every argument of the small sets.
Calls ==
    [op : {"startsWith"}, s : Strings, p : Strings]
    \cup [op : {"contains"}, r : ValSeqs, v : Vals]
    \cup {c \in [op : {"pipeRange"}, r : ValSeqs, f : [Vals -> Vals],
                 b : 1..MaxLen + 1, e : 1..MaxLen + 1] :
             c.b <= c.e /\ c.e <= Len(c.r) + 1}
    \cup [op : {"pipeContainer"}, r : ValSeqs, f : [Vals -> Vals]]

Init ==
    /\ call \in Calls
    /\ result = NoResult

CallStartsWith ==
    /\ result = NoResult /\ call.op = "startsWith"
    /\ result' = startsWith(call.s, call.p)
    /\ UNCHANGED call

CallContains ==
    /\ result = NoResult /\ call.op = "contains"
    /\ result' = contains(call.r, call.v)
    /\ UNCHANGED call

\* A caller iterates the transformed range both ways.
CallPipeRange ==
    /\ result = NoResult /\ call.op = "pipeRange"
    /\ LET view == pipeRange([begin |-> call.b, end |-> call.e], call.f)
       IN  result' = <<ReadByDeref(view, call.r), ReadBySubscript(view, call.r)>>
    /\ UNCHANGED call

\* The iterators of the view point into the destroyed copy of the container:
\* reading through them is undefined.  The build either faults on the freed
\* storage or reads whatever it now holds, the old elements if nothing has
\* reused it yet.
CallPipeContainer ==
    /\ result = NoResult /\ call.op = "pipeContainer"
    /\ LET view == pipeContainer(call.r, call.f)
       IN  \/ result' = "crash"
           \/ \E freed \in [1..Len(call.r) -> Vals] :
                 result' = <<ReadByDeref(view, freed), ReadBySubscript(view, freed)>>
    /\ UNCHANGED call

\* The call has returned.
Returned ==
    /\ result # NoResult
    /\ UNCHANGED hvars

HNext == CallStartsWith \/ CallContains \/ CallPipeRange \/ CallPipeContainer \/ Returned

HSpec == Init /\ [][HNext]_hvars

-----------------------------------------------------------------------------
\* The reference definitions the helpers are checked against: p is a
\* prefix of s, and the set of the elements of a sequence.
PrefixOf(p, s) == Len(p) <= Len(s) /\ \A k \in 1..Len(p) : p[k] = s[k]
ElementsOf(r) == {r[k] : k \in DOMAIN r}

\* startsWith(String, Prefix) holds exactly when Prefix is a prefix of
\* String, also when Prefix is the longer one (substr then clamps).
StartsWithIsPrefix ==
    result # NoResult /\ call.op = "startsWith" =>
        result = PrefixOf(call.p, call.s)

\* contains(Range, V) holds exactly when V is an element of the range:
\* the std::find scan compared with end (lines 130-131).
ContainsIsMembership ==
    result # NoResult /\ call.op = "contains" =>
        result = (call.v \in ElementsOf(call.r))

\* Reading a range piped through a transformer (operator| on a Range,
\* lines 81-84), by operator* and by operator[], gives the transformer
\* applied to each element of the underlying range in order: the iterators
\* of lines 56-59 carry the bounds of the input, and lines 32-40 apply F to
\* the right element.  The operator| on a container (lines 86-89) promises
\* nothing: its range is over a destroyed copy.
TransformIsMap ==
    result # NoResult /\ call.op = "pipeRange" =>
        LET sub == SubSeq(call.r, call.b, call.e - 1)
            mapped == [j \in DOMAIN sub |-> call.f[sub[j]]]
        IN  result = <<mapped, mapped>>
=============================================================================
