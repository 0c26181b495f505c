------------------------------ MODULE MaxLen ------------------------------
(***************************************************************************)
(* window.go: the longest match of a pattern, derived by a walk over its   *)
(* parse tree, and what it is derived for: a bound on the bytes a match can*)
(* take.                                                                   *)
(*                                                                         *)
(* The walk is the stack of the calls of maxLen.  The tree is whatever the *)
(* walk finds: a leaf, an operation around a tree, or one that joins trees *)
(* one after the other.  Beside what a call has worked out so far is what  *)
(* its node, as far as it was read, can match.                             *)
(***************************************************************************)
EXTENDS Integers, Sequences

CONSTANTS
  windowCap,    \* 8192
  MaxSize,      \* how many nodes, runes and ranges a tree has at most
  Runes,        \* of the literals of a pattern
  Ranges,       \* <<first, last>> of its classes
  Repeats,      \* <<min, max>> of its repetitions
  FoldOrbit(_)  \* the runes that differ from a rune in case only, itself included

Unlimited == -1
AllRunes == {r \in Nat : r < 1114112}

ASSUME MaxLenAssumption ==
  /\ windowCap \in Nat /\ windowCap >= 4 /\ MaxSize \in Nat
  /\ Runes \subseteq AllRunes
  /\ \A r \in Runes : r \in FoldOrbit(r) /\ FoldOrbit(r) \subseteq AllRunes
  /\ \A g \in Ranges : g[1] \in AllRunes /\ g[2] \in AllRunes /\ g[1] <= g[2]
  /\ \A b \in Repeats : b[1] \in Nat /\ b[2] \in Nat \cup {Unlimited} /\ (b[2] = Unlimited \/ b[1] <= b[2])

VARIABLES
  calls,  \* the calls of maxLen that are under way or have returned to one that is
  size
vars == <<calls, size>>
-----------------------------------------------------------------------------
(***************************************************************************)
(* What a tree can match, as the lengths in bytes its matches can have;    *)
(* TooLong stands for every length beyond the cap.                         *)
(***************************************************************************)
TooLong == windowCap + 1
Cut(n) == IF n > windowCap THEN TooLong ELSE n

\* UTF-8: the first rune that takes n bytes.
First == <<0, 128, 2048, 65536, 1114112>>
EncodedLens(lo, hi) == {n \in 1 .. 4 : lo < First[n + 1] /\ First[n] <= hi}
RuneLens(r, fold) == UNION {EncodedLens(x, x) : x \in IF fold THEN FoldOrbit(r) ELSE {r}}

Sums(A, B) == {Cut(x + y) : x \in A, y \in B}

\* The lengths of n to m matches in a row.
Row(L, m) ==
  LET times[k \in 0 .. m] == IF k = 0 THEN {0} ELSE Sums(times[k - 1], L)
  IN  times
InARow(L, n, m) == UNION {Row(L, m)[k] : k \in n .. m}
-----------------------------------------------------------------------------
runeLen(r) ==
  IF r < 128 THEN 1
  ELSE IF r < 2048 THEN 2
  ELSE IF r < 65536 THEN 3 ELSE 4

\* A class lists the first and the last rune of each of its ranges.
FirstLen(range) == runeLen(range[1])
LastLen(range) == runeLen(range[2])

BelowCap(total) == IF total < windowCap THEN total ELSE -1
UpToCap(total) == IF total <= windowCap THEN total ELSE -1

\* A call: the kind of its node or "returned", how many of the parts of the
\* node it has read, the result so far, the lengths, and whether no part is
\* open-ended or can never match.
Call(op, n, lens, finite) == [op |-> op, parts |-> 0, n |-> n, lens |-> lens, finite |-> finite]
Return(n, lens, finite) == Call("returned", n, lens, finite)

Init == calls = <<>> /\ size = 0

Top == calls[Len(calls)]
Below == calls[Len(calls) - 1]
Push(call) == calls' = Append(calls, call)
Pop(k, call) == calls' = Append(SubSeq(calls, 1, Len(calls) - k), call)

Grow == size < MaxSize /\ size' = size + 1
\* A tree is read where the stack is empty or a node still has parts.
Wanted == Grow /\ (calls # <<>> => Top.op \in {"OpConcat", "OpAlternate"})

VisitZeroWidth ==
  Wanted /\ (Push(Return(0, {0}, TRUE)) \/ Push(Return(0, {}, FALSE)))

VisitAnyChar == Wanted /\ Push(Return(4, 1 .. 4, TRUE))

Enter ==
  /\ Wanted
  /\ \/ Push(Call("OpLiteral", 0, {0}, TRUE)) \/ Push(Call("OpFoldedLiteral", 0, {0}, TRUE))
     \/ Push(Call("OpCharClass", 0, {}, TRUE))
     \/ Push(Call("OpConcat", 0, {0}, TRUE))
     \/ Push(Call("OpAlternate", 0, {}, TRUE))

Open(op) == Len(calls) > 0 /\ Top.op = op

Read(n, lens) ==
  Pop(1, [Top EXCEPT !.parts = @ + 1, !.n = n, !.lens = lens])

ReadRune ==
  /\ Grow /\ (Open("OpLiteral") \/ Open("OpFoldedLiteral"))
  /\ \E r \in Runes :
       Read(Top.n + runeLen(r), Sums(Top.lens, RuneLens(r, Top.op = "OpFoldedLiteral")))

Longer(m, n) == IF n > m THEN n ELSE m

ReadRange ==
  /\ Grow /\ Open("OpCharClass")
  /\ \E g \in Ranges : Read(Longer(Top.n, LastLen(g)), Top.lens \cup EncodedLens(g[1], g[2]))

\* What a subtree returned is worked into its node; an unbounded part is an
\* unbounded whole.
Joined(op) == Open("returned") /\ Len(calls) > 1 /\ Below.op = op
Unbounded == Below.n < 0 \/ Top.n < 0
Join(n, lens) ==
  /\ Pop(2, [Below EXCEPT !.parts = @ + 1, !.n = IF Unbounded THEN -1 ELSE n,
                          !.lens = lens, !.finite = @ /\ Top.finite])
  /\ UNCHANGED size

JoinConcat ==
  Joined("OpConcat") /\ Join(UpToCap(Below.n + Top.n), Sums(Below.lens, Top.lens))

JoinAlternate ==
  Joined("OpAlternate") /\ Join(Longer(Below.n, Top.n), Below.lens \cup Top.lens)

LeastParts ==
  [op \in {"OpLiteral", "OpFoldedLiteral", "OpCharClass", "OpConcat", "OpAlternate"} |->
     IF op \in {"OpConcat", "OpAlternate"} THEN 2 ELSE 1]

Leave ==
  /\ \E op \in DOMAIN LeastParts : Open(op) /\ Top.parts >= LeastParts[op]
  /\ Pop(1, Return(Top.n, Top.lens, Top.finite))
  /\ UNCHANGED size

\* An operation around the tree that was read last.
Enclose == Grow /\ Open("returned")

EncloseCapture == Enclose /\ Pop(1, Top)
EncloseQuest == Enclose /\ Pop(1, Return(Top.n, {0} \cup Top.lens, Top.finite))
EncloseStar ==
  Enclose /\ \E least \in {0, 1} : Pop(1, Return(-1, InARow(Top.lens, least, TooLong), FALSE))

EncloseRepeat ==
  /\ Enclose
  /\ \E b \in Repeats :
       Pop(1, Return(IF b[2] < 0 \/ Top.n < 0 THEN -1 ELSE UpToCap(Top.n * b[2]),
                     InARow(Top.lens, b[1], IF b[2] < 0 THEN b[1] + TooLong ELSE b[2]),
                     Top.finite /\ b[2] > 0))

Next ==
  \/ VisitZeroWidth \/ VisitAnyChar \/ Enter \/ ReadRune \/ ReadRange
  \/ JoinConcat \/ JoinAlternate \/ Leave
  \/ EncloseCapture \/ EncloseQuest \/ EncloseStar \/ EncloseRepeat

Spec == Init /\ [][Next]_vars

maxMatchLen(n) == IF n < 0 \/ n > windowCap THEN 0 ELSE n
-----------------------------------------------------------------------------
Returned == {c \in {calls[j] : j \in 1 .. Len(calls)} : c.op = "returned"}

\* "a wrong answer costs speed rather than a missed secret": a window is at
\* least as long as every match.
BoundHolds ==
  \A c \in Returned : maxMatchLen(c.n) > 0 => \A l \in c.lens : l <= maxMatchLen(c.n)

\* README.md: only an unbounded pattern, or one whose bound is larger than the
\* cap, gives the window up; and the window is no wider than it must be.
BoundIsTight ==
  \A c \in Returned : c.finite =>
    \A longest \in c.lens :
      longest <= windowCap /\ (\A l \in c.lens : l <= longest) => maxMatchLen(c.n) = longest
=============================================================================
