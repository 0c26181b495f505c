-------------------------- MODULE MaxLenProofs --------------------------
(***************************************************************************)
(* The derived window for every pattern: whatever tree the walk finds, what*)
(* a call of maxLen returns bounds the matches of its node, and is reached *)
(* by one of them unless the node is open-ended or can never match.  The   *)
(* one thing asked for is that no case partner of a rune is wider than the *)
(* rune a literal is written with.                                         *)
(***************************************************************************)
EXTENDS MaxLen, LeastElement, SequenceTheorems

NoWiderPartner == \A r \in Runes : \A x \in FoldOrbit(r) : runeLen(x) <= runeLen(r)

Kinds == DOMAIN LeastParts \cup {"returned"}
OfRunes == {"OpLiteral", "OpFoldedLiteral", "OpCharClass"}
Lengths == 0 .. TooLong

CallType == [op : Kinds, parts : Nat, n : Int, lens : SUBSET Lengths, finite : BOOLEAN]

\* A class or an alternation of which nothing is read yet matches nothing.
NothingRead(c) == c.op \in {"OpCharClass", "OpAlternate"} /\ c.parts = 0

\* No match is longer than the result.
Bounds(n, lens) == n < 0 \/ \A l \in lens : l <= n

\* Some match is as long as the result, or beyond the cap if there is none.
Reaches(n, lens) == IF n < 0 THEN TooLong \in lens ELSE Cut(n) \in lens

SoundCall ==
  {c \in CallType :
     /\ c.n >= -1
     /\ c.op \in OfRunes => c.n >= 0
     /\ Bounds(c.n, c.lens)
     /\ NothingRead(c) => c.n = 0 /\ c.lens = {}
     /\ c.finite /\ ~NothingRead(c) => Reaches(c.n, c.lens)}

IInv == calls \in Seq(SoundCall)
-----------------------------------------------------------------------------
LEMMA CapType == windowCap \in Nat /\ TooLong \in Nat /\ TooLong = windowCap + 1
BY MaxLenAssumption DEF TooLong

LEMMA CutFacts ==
  ASSUME NEW a \in Nat
  PROVE  Cut(a) \in Lengths /\ Cut(a) <= a /\ (a >= TooLong => Cut(a) = TooLong)
BY CapType DEF Cut, Lengths

LEMMA CutOfSum ==
  ASSUME NEW a \in Nat, NEW b \in Nat
  PROVE  Cut(Cut(a) + Cut(b)) = Cut(a + b)
BY CapType DEF Cut

LEMMA TooLongStays ==
  ASSUME NEW a \in Lengths
  PROVE  Cut(TooLong + a) = TooLong /\ Cut(a + TooLong) = TooLong /\ Cut(TooLong) = TooLong
BY CapType DEF Cut, Lengths

LEMMA SumsFacts ==
  ASSUME NEW A \in SUBSET Lengths, NEW B \in SUBSET Lengths
  PROVE  /\ Sums(A, B) \in SUBSET Lengths
         /\ \A a, b \in Nat : (\A l \in A : l <= a) /\ (\A l \in B : l <= b) =>
              \A l \in Sums(A, B) : l <= a + b
         /\ \A x \in A, y \in B : Cut(x + y) \in Sums(A, B)
<1>1. \A x \in A, y \in B : x \in Nat /\ y \in Nat /\ x + y \in Nat
  BY CapType DEF Lengths
<1>2. \A x \in A, y \in B : Cut(x + y) \in Lengths /\ Cut(x + y) <= x + y
  BY <1>1, CutFacts
<1>3. \A l \in Sums(A, B) : \E x \in A, y \in B : l = Cut(x + y)
  BY DEF Sums
<1>4. Sums(A, B) \in SUBSET Lengths
  BY <1>2, <1>3
<1>5. ASSUME NEW a \in Nat, NEW b \in Nat, \A l \in A : l <= a, \A l \in B : l <= b, NEW l \in Sums(A, B)
      PROVE  l <= a + b
  <2>1. PICK x \in A, y \in B : l = Cut(x + y)
    BY <1>3
  <2>2. x \in Nat /\ y \in Nat /\ x <= a /\ y <= b /\ l \in Lengths /\ l <= x + y
    BY <1>1, <1>2, <1>5, <2>1
  <2>3. l \in Nat
    BY <2>2, CapType DEF Lengths
  <2> QED BY <2>2, <2>3
<1>6. \A x \in A, y \in B : Cut(x + y) \in Sums(A, B)
  BY DEF Sums
<1> QED BY <1>4, <1>5, <1>6

LEMMA RuneLenFacts ==
  ASSUME NEW r \in AllRunes
  PROVE  runeLen(r) \in 1 .. 4
<1>1. r \in Nat
  BY SMT DEF AllRunes
<1> QED BY <1>1, SMT DEF runeLen

\* classLen looks at the last rune of a range only, and is right to.
LEMMA RangeFacts ==
  ASSUME NEW lo \in AllRunes, NEW hi \in AllRunes, lo <= hi
  PROVE  /\ EncodedLens(lo, hi) \in SUBSET (1 .. 4)
         /\ runeLen(hi) \in EncodedLens(lo, hi)
         /\ \A n \in EncodedLens(lo, hi) : n <= runeLen(hi)
<1>1. lo \in Nat /\ hi \in Nat /\ hi < 1114112
  BY SMT DEF AllRunes
<1>2. First[1] = 0 /\ First[2] = 128 /\ First[3] = 2048 /\ First[4] = 65536 /\ First[5] = 1114112
  BY SMT DEF First
<1>3. \A n \in 1 .. 4 : n \in {1, 2, 3, 4}
  OBVIOUS
<1>4. /\ 1 \in EncodedLens(lo, hi) <=> lo < 128
      /\ 2 \in EncodedLens(lo, hi) <=> lo < 2048 /\ 128 <= hi
      /\ 3 \in EncodedLens(lo, hi) <=> lo < 65536 /\ 2048 <= hi
      /\ 4 \in EncodedLens(lo, hi) <=> 65536 <= hi
  BY <1>1, <1>2, SMT DEF EncodedLens
<1>5. EncodedLens(lo, hi) \in SUBSET (1 .. 4)
  BY DEF EncodedLens
<1>6. \/ hi < 128 /\ runeLen(hi) = 1
      \/ 128 <= hi /\ hi < 2048 /\ runeLen(hi) = 2
      \/ 2048 <= hi /\ hi < 65536 /\ runeLen(hi) = 3
      \/ 65536 <= hi /\ runeLen(hi) = 4
  BY <1>1, SMT DEF runeLen
<1>7. runeLen(hi) \in EncodedLens(lo, hi)
  BY <1>1, <1>4, <1>6, SMT
<1>8. \A n \in EncodedLens(lo, hi) : n <= runeLen(hi)
  BY <1>1, <1>3, <1>4, <1>5, <1>6, SMT
<1> QED BY <1>5, <1>7, <1>8

LEMMA RuneLensFacts ==
  ASSUME NoWiderPartner, NEW r \in Runes, NEW fold \in BOOLEAN
  PROVE  /\ RuneLens(r, fold) \in SUBSET (1 .. 4)
         /\ runeLen(r) \in RuneLens(r, fold)
         /\ \A n \in RuneLens(r, fold) : n <= runeLen(r)
<1> DEFINE X == IF fold THEN FoldOrbit(r) ELSE {r}
<1>1. r \in AllRunes /\ r \in X /\ X \in SUBSET AllRunes
  BY MaxLenAssumption
<1>2. \A x \in X : runeLen(x) <= runeLen(r) /\ runeLen(x) \in 1 .. 4
  BY <1>1, RuneLenFacts DEF NoWiderPartner
<1>3. \A x \in X : x <= x
  BY <1>1, SMT DEF AllRunes
<1> HIDE DEF X
<1>4. \A x \in X : /\ EncodedLens(x, x) \in SUBSET (1 .. 4) /\ runeLen(x) \in EncodedLens(x, x)
                   /\ \A n \in EncodedLens(x, x) : n <= runeLen(x)
  BY <1>1, <1>3, RangeFacts
<1>5. RuneLens(r, fold) = UNION {EncodedLens(x, x) : x \in X}
  BY DEF RuneLens, X
<1>6. \A n \in RuneLens(r, fold) : \E x \in X : n \in EncodedLens(x, x)
  BY <1>5
<1>7. \A n \in RuneLens(r, fold) : n \in 1 .. 4 /\ n <= runeLen(r)
  <2> SUFFICES ASSUME NEW n \in RuneLens(r, fold) PROVE n \in 1 .. 4 /\ n <= runeLen(r)
    OBVIOUS
  <2>1. PICK x \in X : n \in EncodedLens(x, x)
    BY <1>6
  <2>2. n \in 1 .. 4 /\ n <= runeLen(x) /\ runeLen(x) <= runeLen(r) /\ runeLen(x) \in 1 .. 4 /\ runeLen(r) \in 1 .. 4
    BY <1>1, <1>2, <1>4, <2>1
  <2> QED BY <2>2
<1>8. runeLen(r) \in RuneLens(r, fold)
  BY <1>1, <1>4, <1>5
<1> QED BY <1>7, <1>8
-----------------------------------------------------------------------------
(***************************************************************************)
(* Matches in a row: Row is the function its equations describe, by the    *)
(* least number of matches for which there is none.                        *)
(***************************************************************************)
IsRow(f, L, m) == f = [k \in 0 .. m |-> IF k = 0 THEN {0} ELSE Sums(f[k - 1], L)]

LEMMA LongerRow ==
  ASSUME NEW L, NEW m \in Nat, NEW f, IsRow(f, L, m)
  PROVE  \E g : IsRow(g, L, m + 1)
<1> DEFINE g == [k \in 0 .. m + 1 |-> IF k = m + 1 THEN Sums(f[m], L) ELSE f[k]]
<1>1. \A k \in 0 .. m : f[k] = IF k = 0 THEN {0} ELSE Sums(f[k - 1], L)
  BY DEF IsRow
<1>2. \A k \in 0 .. m + 1 : k = m + 1 \/ k \in 0 .. m
  OBVIOUS
<1>3. \A k \in 0 .. m : g[k] = f[k]
  OBVIOUS
<1>4. g[m + 1] = Sums(g[m], L)
  OBVIOUS
<1>5. \A k \in 0 .. m + 1 : g[k] = IF k = 0 THEN {0} ELSE Sums(g[k - 1], L)
  <2> SUFFICES ASSUME NEW k \in 0 .. m + 1 PROVE g[k] = IF k = 0 THEN {0} ELSE Sums(g[k - 1], L)
    OBVIOUS
  <2> HIDE DEF g
  <2>1. CASE k = m + 1
    <3>1. k # 0 /\ k - 1 = m
      BY <2>1
    <3> QED BY <1>4, <2>1, <3>1
  <2>2. CASE k # m + 1
    <3>1. k \in 0 .. m /\ (k # 0 => k - 1 \in 0 .. m)
      BY <1>2, <2>2
    <3> QED BY <1>1, <1>3, <3>1
  <2> QED BY <2>1, <2>2
<1>6. g = [k \in 0 .. m + 1 |-> g[k]]
  OBVIOUS
<1> HIDE DEF g
<1>7. IsRow(g, L, m + 1)
  BY <1>5, <1>6 DEF IsRow
<1> QED BY <1>7

LEMMA RowIsRow ==
  ASSUME NEW L, NEW m \in Nat
  PROVE  IsRow(Row(L, m), L, m)
<1> DEFINE None == {n \in Nat : ~ \E f : IsRow(f, L, n)}
<1>1. ASSUME None # {} PROVE FALSE
  <2>1. None \in SUBSET Nat
    OBVIOUS
  <2>2. \E n \in None : \A l \in None : n <= l
    <3> HIDE DEF None
    <3> QED BY <1>1, <2>1, LeastOfNats
  <2>3. PICK n \in None : \A l \in None : n <= l
    BY <2>2
  <2>4. n \in Nat /\ ~ \E f : IsRow(f, L, n)
    BY <2>3
  <2>5. CASE n = 0
    <3> DEFINE f == [k \in 0 .. 0 |-> {0}]
    <3>1. \A k \in 0 .. 0 : f[k] = {0} /\ k = 0
      OBVIOUS
    <3>2. IsRow(f, L, 0)
      <4>1. f = [k \in 0 .. 0 |-> IF k = 0 THEN {0} ELSE Sums(f[k - 1], L)]
        BY <3>1
      <4> QED BY <4>1 DEF IsRow
    <3> QED BY <2>4, <2>5, <3>2
  <2>6. CASE n > 0
    <3>1. n - 1 \in Nat /\ n - 1 \notin None /\ (n - 1) + 1 = n
      BY <2>3, <2>4, <2>6
    <3>2. \E f : IsRow(f, L, n - 1)
      BY <3>1
    <3>3. \E g : IsRow(g, L, (n - 1) + 1)
      <4> HIDE DEF None
      <4> QED BY <3>1, <3>2, LongerRow
    <3> QED BY <2>4, <3>1, <3>3
  <2> QED BY <2>4, <2>5, <2>6
<1>2. \E f : IsRow(f, L, m)
  BY <1>1
<1>3. Row(L, m) = CHOOSE f : IsRow(f, L, m)
  BY Zenon DEF Row, IsRow
<1> QED BY <1>2, <1>3, Zenon

LEMMA RowEquations ==
  ASSUME NEW L \in SUBSET Lengths, NEW m \in Nat
  PROVE  /\ Row(L, m)[0] = {0}
         /\ \A k \in 1 .. m : k - 1 \in 0 .. m /\ Row(L, m)[k] = Sums(Row(L, m)[k - 1], L)
<1> DEFINE f == Row(L, m)
<1>1. f = [k \in 0 .. m |-> IF k = 0 THEN {0} ELSE Sums(f[k - 1], L)]
  BY RowIsRow, Zenon DEF IsRow
<1> HIDE DEF f
<1>2. \A k \in 0 .. m : f[k] = IF k = 0 THEN {0} ELSE Sums(f[k - 1], L)
  BY <1>1
<1>3. \A k \in 1 .. m : k - 1 \in 0 .. m /\ f[k] = Sums(f[k - 1], L)
  BY <1>2
<1>4. f[0] = {0}
  BY <1>2
<1> QED BY <1>3, <1>4 DEF f

LEMMA Times ==
  ASSUME NEW k \in Nat, NEW b \in Nat
  PROVE  /\ k * b \in Nat /\ 0 * b = 0
         /\ k >= 1 => (k - 1) * b \in Nat /\ k * b = (k - 1) * b + b /\ k * b >= b
         /\ \A m \in Nat : k <= m => k * b <= m * b
OBVIOUS

LEMMA RowFacts ==
  ASSUME NEW L \in SUBSET Lengths, NEW m \in Nat, NEW b \in Nat
  PROVE  \A k \in 0 .. m :
           /\ Row(L, m)[k] \in SUBSET Lengths
           /\ (\A l \in L : l <= b) => \A l \in Row(L, m)[k] : l <= k * b
           /\ Cut(b) \in L => Cut(k * b) \in Row(L, m)[k]
<1> DEFINE f == Row(L, m)
           P(k) == /\ f[k] \in SUBSET Lengths
                   /\ (\A l \in L : l <= b) => \A l \in f[k] : l <= k * b
                   /\ Cut(b) \in L => Cut(k * b) \in f[k]
           Bad == {k \in 0 .. m : ~P(k)}
<1>1. f[0] = {0} /\ \A k \in 1 .. m : k - 1 \in 0 .. m /\ f[k] = Sums(f[k - 1], L)
  BY RowEquations
<1> HIDE DEF f
<1>2. ASSUME Bad # {} PROVE FALSE
  <2>1. Bad \in SUBSET Nat
    OBVIOUS
  <2>2. \E k \in Bad : \A l \in Bad : k <= l
    <3> HIDE DEF Bad
    <3> QED BY <1>2, <2>1, LeastOfNats
  <2>3. PICK k \in Bad : \A l \in Bad : k <= l
    BY <2>2
  <2>4. k \in 0 .. m /\ ~P(k)
    BY <2>3
  <2>5. CASE k = 0
    <3>1. 0 * b = 0 /\ Cut(0) = 0 /\ 0 \in Lengths
      BY Times, CapType DEF Cut, Lengths
    <3>2. P(0)
      BY <1>1, <3>1
    <3> QED BY <2>4, <2>5, <3>2
  <2>6. CASE k # 0
    <3> DEFINE j == k - 1
    <3>1. j \in 0 .. m /\ j \notin Bad /\ k \in 1 .. m /\ k \in Nat /\ k >= 1
      BY <2>3, <2>4, <2>6
    <3>2. f[k] = Sums(f[j], L)
      BY <1>1, <3>1
    <3>3. j * b \in Nat /\ k * b = j * b + b
      BY <3>1, Times
    <3>4. P(j)
      BY <3>1
    <3> HIDE DEF j, Bad
    <3>5. f[j] \in SUBSET Lengths
      BY <3>4
    <3>6. f[k] \in SUBSET Lengths
      BY <3>2, <3>5, SumsFacts
    <3>7. ASSUME \A l \in L : l <= b PROVE \A l \in f[k] : l <= k * b
      <4>1. \A l \in f[j] : l <= j * b
        BY <3>4, <3>7
      <4>2. \A l \in f[k] : l <= j * b + b
        BY <3>2, <3>3, <3>5, <3>7, <4>1, SumsFacts
      <4> QED BY <3>3, <4>2
    <3>8. ASSUME Cut(b) \in L PROVE Cut(k * b) \in f[k]
      <4>1. Cut(j * b) \in f[j]
        BY <3>4, <3>8
      <4>2. Cut(Cut(j * b) + Cut(b)) \in f[k]
        <5>1. \A x \in f[j], y \in L : Cut(x + y) \in Sums(f[j], L)
          BY <3>5, SumsFacts
        <5> QED BY <3>2, <3>8, <4>1, <5>1, Zenon
      <4>3. Cut(Cut(j * b) + Cut(b)) = Cut(k * b)
        BY <3>3, CutOfSum
      <4> QED BY <4>2, <4>3
    <3> QED BY <2>4, <3>6, <3>7, <3>8
  <2> QED BY <2>5, <2>6
<1>3. \A k \in 0 .. m : P(k)
  BY <1>2
<1> QED BY <1>3 DEF f

LEMMA InARowFacts ==
  ASSUME NEW L \in SUBSET Lengths, NEW n \in Nat, NEW m \in Nat, n <= m
  PROVE  /\ InARow(L, n, m) \in SUBSET Lengths
         /\ \A b \in Nat : (\A l \in L : l <= b) => \A l \in InARow(L, n, m) : l <= m * b
         /\ \A b \in Nat : Cut(b) \in L => Cut(m * b) \in InARow(L, n, m)
<1> DEFINE f == Row(L, m)
<1>1. \A l : l \in InARow(L, n, m) <=> \E k \in n .. m : l \in f[k]
  BY DEF InARow
<1>2. \A k \in n .. m : k \in 0 .. m /\ k \in Nat /\ k <= m
  OBVIOUS
<1>3. \A b \in Nat : \A k \in 0 .. m :
        /\ f[k] \in SUBSET Lengths
        /\ (\A l \in L : l <= b) => \A l \in f[k] : l <= k * b
        /\ Cut(b) \in L => Cut(k * b) \in f[k]
  BY RowFacts
<1> HIDE DEF f
<1>4. InARow(L, n, m) \in SUBSET Lengths
  BY <1>1, <1>2, <1>3
<1>5. ASSUME NEW b \in Nat, \A l \in L : l <= b, NEW l \in InARow(L, n, m) PROVE l <= m * b
  <2>1. PICK k \in n .. m : l \in f[k]
    BY <1>1
  <2>2. l <= k * b /\ l \in Lengths
    BY <1>2, <1>3, <1>5, <2>1
  <2>3. k * b <= m * b /\ k * b \in Nat /\ m * b \in Nat
    BY <1>2, Times
  <2>4. l \in Nat
    BY <2>2, CapType DEF Lengths
  <2> QED BY <2>2, <2>3, <2>4
<1>6. ASSUME NEW b \in Nat, Cut(b) \in L PROVE Cut(m * b) \in InARow(L, n, m)
  <2>1. m \in n .. m /\ m \in 0 .. m
    OBVIOUS
  <2> QED BY <1>1, <1>3, <1>6, <2>1
<1> QED BY <1>4, <1>5, <1>6
-----------------------------------------------------------------------------
(***************************************************************************)
(* The stack.                                                              *)
(***************************************************************************)
LEMMA CallTypes ==
  ASSUME NEW c \in SoundCall
  PROVE  /\ c.op \in Kinds /\ c.parts \in Nat /\ c.n \in Int /\ c.n >= -1
         /\ c.lens \in SUBSET Lengths /\ c.finite \in BOOLEAN
         /\ c.op \in OfRunes => c.n >= 0
         /\ Bounds(c.n, c.lens)
         /\ NothingRead(c) => c.n = 0 /\ c.lens = {}
         /\ c.finite /\ ~NothingRead(c) => Reaches(c.n, c.lens)
BY DEF SoundCall, CallType

LEMMA OnTop ==
  ASSUME IInv, NEW k \in 0 .. Len(calls), NEW c \in SoundCall
  PROVE  Append(SubSeq(calls, 1, Len(calls) - k), c) \in Seq(SoundCall)
<1> DEFINE n == Len(calls) - k
<1>1. calls \in Seq(SoundCall) /\ Len(calls) \in Nat /\ n \in Nat /\ n <= Len(calls)
  BY LenProperties DEF IInv
<1>2. SubSeq(calls, 1, n) \in Seq(SoundCall)
  <2> HIDE DEF n
  <2>1. \A i \in 1 .. n : calls[i] \in SoundCall
    BY <1>1
  <2> QED BY <1>1, <2>1, SubSeqProperties
<1> HIDE DEF n
<1> QED BY <1>2 DEF n

LEMMA TopIsSound ==
  ASSUME IInv
  PROVE  /\ Len(calls) \in Nat
         /\ Len(calls) > 0 => Top \in SoundCall
         /\ Len(calls) > 1 => Below \in SoundCall
BY DEF IInv, Top, Below

LEMMA ReturnIsSound ==
  ASSUME NEW n \in Int, n >= -1, NEW lens \in SUBSET Lengths, NEW finite \in BOOLEAN,
         Bounds(n, lens), finite => Reaches(n, lens)
  PROVE  Return(n, lens, finite) \in SoundCall
<1> DEFINE c == Return(n, lens, finite)
<1>1. /\ c.op = "returned" /\ c.parts = 0 /\ c.n = n /\ c.lens = lens /\ c.finite = finite
      /\ c = [op |-> "returned", parts |-> 0, n |-> n, lens |-> lens, finite |-> finite]
  BY DEF Return, Call
<1>2. c \in CallType
  <2>1. "returned" \in Kinds
    BY DEF Kinds
  <2> QED BY <1>1, <2>1 DEF CallType
<1> HIDE DEF c
<1>3. c.n >= -1 /\ c.op \notin OfRunes /\ Bounds(c.n, c.lens) /\ ~NothingRead(c)
  BY <1>1, Zenon DEF OfRunes, NothingRead
<1>4. c.finite => Reaches(c.n, c.lens)
  BY <1>1, Zenon
<1>5. c \in SoundCall
  BY <1>2, <1>3, <1>4, Zenon DEF SoundCall
<1> QED BY <1>5 DEF c

LEMMA ReadIsSound ==
  ASSUME NEW c \in SoundCall, NEW n \in Int, n >= -1, c.op \in OfRunes => n >= 0,
         NEW lens \in SUBSET Lengths, NEW finite \in BOOLEAN,
         Bounds(n, lens), finite => Reaches(n, lens)
  PROVE  [c EXCEPT !.parts = @ + 1, !.n = n, !.lens = lens, !.finite = finite] \in SoundCall
<1> DEFINE d == [c EXCEPT !.parts = @ + 1, !.n = n, !.lens = lens, !.finite = finite]
<1>1. c \in CallType /\ c.parts + 1 \in Nat /\ c.parts + 1 # 0
  BY DEF SoundCall, CallType
<1>2. /\ d.op = c.op /\ d.parts = c.parts + 1 /\ d.n = n /\ d.lens = lens /\ d.finite = finite
      /\ d \in CallType
  BY <1>1, Zenon DEF CallType
<1> HIDE DEF d
<1>3. d.n >= -1 /\ (d.op \in OfRunes => d.n >= 0) /\ Bounds(d.n, d.lens) /\ ~NothingRead(d)
  BY <1>1, <1>2, Zenon DEF NothingRead
<1>4. d.finite => Reaches(d.n, d.lens)
  BY <1>2, Zenon
<1>5. d \in SoundCall
  BY <1>2, <1>3, <1>4, Zenon DEF SoundCall
<1> QED BY <1>5 DEF d

LEMMA SmallLens == 1 .. 4 \in SUBSET Lengths /\ \A n \in 0 .. 4 : Cut(n) = n
BY MaxLenAssumption DEF Lengths, TooLong, Cut

LEMMA PushIInv ==
  ASSUME IInv, NEW c \in SoundCall, Push(c)
  PROVE  IInv'
BY DEF IInv, Push

LEMMA PopIInv ==
  ASSUME IInv, NEW k \in 0 .. Len(calls), NEW c \in SoundCall, Pop(k, c)
  PROVE  IInv'
BY OnTop DEF IInv, Pop

LEMMA VisitIInv == IInv /\ (VisitZeroWidth \/ VisitAnyChar) => IInv'
<1>1. 0 \in Int /\ 0 >= -1 /\ 4 \in Int /\ 4 >= -1
  OBVIOUS
<1>2. {0} \in SUBSET Lengths /\ {} \in SUBSET Lengths /\ 1 .. 4 \in SUBSET Lengths
  BY CapType, SmallLens DEF Lengths
<1>3. Bounds(0, {0}) /\ Bounds(0, {}) /\ Bounds(4, 1 .. 4)
  BY DEF Bounds
<1>4. Reaches(0, {0}) /\ Reaches(4, 1 .. 4)
  BY SmallLens DEF Reaches
<1>5. Return(0, {0}, TRUE) \in SoundCall
  BY <1>1, <1>2, <1>3, <1>4, ReturnIsSound, Zenon
<1>6. Return(0, {}, FALSE) \in SoundCall
  BY <1>1, <1>2, <1>3, ReturnIsSound, Zenon
<1>7. Return(4, 1 .. 4, TRUE) \in SoundCall
  BY <1>1, <1>2, <1>3, <1>4, ReturnIsSound, Zenon
<1> QED BY <1>5, <1>6, <1>7, PushIInv DEF VisitZeroWidth, VisitAnyChar

LEMMA EnterIInv == IInv /\ Enter => IInv'
<1>1. ASSUME NEW op \in {"OpLiteral", "OpFoldedLiteral", "OpConcat"} PROVE Call(op, 0, {0}, TRUE) \in SoundCall
  <2> DEFINE c == Call(op, 0, {0}, TRUE)
  <2>1. {0} \in SUBSET Lengths /\ Cut(0) = 0
    BY CapType, SmallLens DEF Lengths
  <2>2. op \in Kinds /\ op \notin {"OpCharClass", "OpAlternate"}
    BY DEF Kinds, LeastParts
  <2>3. c \in CallType /\ c.op = op /\ c.n = 0 /\ c.lens = {0} /\ c.finite
    BY <2>1, <2>2 DEF CallType, Call
  <2> HIDE DEF c
  <2>4. c \in SoundCall
    BY <2>1, <2>2, <2>3 DEF SoundCall, NothingRead, Bounds, Reaches
  <2> QED BY <2>4 DEF c
<1>2. ASSUME NEW op \in {"OpCharClass", "OpAlternate"} PROVE Call(op, 0, {}, TRUE) \in SoundCall
  <2> DEFINE c == Call(op, 0, {}, TRUE)
  <2>1. op \in Kinds
    BY DEF Kinds, LeastParts
  <2>2. c \in CallType /\ c.op = op /\ c.n = 0 /\ c.lens = {} /\ c.parts = 0
    BY <2>1 DEF CallType, Call
  <2> HIDE DEF c
  <2>3. c \in SoundCall
    BY <2>2 DEF SoundCall, NothingRead, Bounds
  <2> QED BY <2>3 DEF c
<1> QED BY <1>1, <1>2, PushIInv DEF Enter

\* A rune or a range more.
LEMMA ReadStep ==
  ASSUME IInv, Len(calls) > 0, NEW n \in Int, n >= 0, NEW lens \in SUBSET Lengths,
         Bounds(n, lens), Top.finite => Reaches(n, lens), Read(n, lens)
  PROVE  IInv'
<1> DEFINE c == Top
           d == [c EXCEPT !.parts = @ + 1, !.n = n, !.lens = lens]
<1>1. c \in SoundCall /\ 1 \in 0 .. Len(calls)
  BY TopIsSound
<1>2. c.finite \in BOOLEAN
  BY <1>1, CallTypes
<1>3. n >= -1
  OBVIOUS
<1>4. Pop(1, d)
  BY DEF Read
<1>5. c.finite => Reaches(n, lens)
  OBVIOUS
<1> HIDE DEF c
<1>6. [c EXCEPT !.parts = @ + 1, !.n = n, !.lens = lens, !.finite = c.finite] \in SoundCall
  BY <1>1, <1>2, <1>3, <1>5, ReadIsSound, Zenon
<1>7. [c EXCEPT !.parts = @ + 1, !.n = n, !.lens = lens, !.finite = c.finite] = d
  BY <1>1 DEF SoundCall, CallType
<1> HIDE DEF d
<1> QED BY <1>1, <1>4, <1>6, <1>7, PopIInv, Zenon

LEMMA ReadRuneIInv == NoWiderPartner /\ IInv /\ ReadRune => IInv'
<1> SUFFICES ASSUME NoWiderPartner, IInv, ReadRune PROVE IInv'
  OBVIOUS
<1> DEFINE fold == Top.op = "OpFoldedLiteral"
<1>1. PICK r \in Runes : Read(Top.n + runeLen(r), Sums(Top.lens, RuneLens(r, fold)))
  BY DEF ReadRune
<1>2. Len(calls) > 0 /\ Len(calls) \in Nat /\ Top \in SoundCall /\ Top.op \in {"OpLiteral", "OpFoldedLiteral"}
  BY TopIsSound DEF ReadRune, Open
<1> DEFINE c == Top
           R == RuneLens(r, fold)
           n == c.n + runeLen(r)
           lens == Sums(c.lens, R)
<1>3. /\ c.n \in Nat /\ c.lens \in SUBSET Lengths /\ c.finite \in BOOLEAN
      /\ \A l \in c.lens : l <= c.n
      /\ c.finite => Cut(c.n) \in c.lens
  BY <1>2, CallTypes DEF OfRunes, NothingRead, Bounds, Reaches
<1>4. /\ R \in SUBSET (1 .. 4) /\ runeLen(r) \in R /\ \A l \in R : l <= runeLen(r)
      /\ runeLen(r) \in 1 .. 4
  BY RuneLensFacts
<1>5. R \in SUBSET Lengths
  BY <1>4, SmallLens
<1> HIDE DEF R, c
<1>6. n \in Nat /\ n \in Int /\ runeLen(r) \in Nat /\ Cut(runeLen(r)) = runeLen(r)
  BY <1>3, <1>4, SmallLens
<1>7. lens \in SUBSET Lengths /\ \A l \in lens : l <= n
  BY <1>3, <1>4, <1>5, <1>6, SumsFacts
<1>8. c.finite => Cut(n) \in lens
  <2> SUFFICES ASSUME c.finite PROVE Cut(n) \in lens
    OBVIOUS
  <2>1. Cut(Cut(c.n) + runeLen(r)) \in lens
    BY <1>3, <1>4, <1>5, SumsFacts
  <2>2. Cut(Cut(c.n) + runeLen(r)) = Cut(n)
    BY <1>3, <1>6, CutOfSum
  <2> QED BY <2>1, <2>2
<1> HIDE DEF lens, n
<1>9. n \in Int /\ n >= 0
  BY <1>6
<1>10. Bounds(n, lens) /\ (c.finite => Reaches(n, lens))
  BY <1>6, <1>7, <1>8 DEF Bounds, Reaches
<1>11. Read(n, lens)
  BY <1>1 DEF c, n, lens, R
<1> QED BY <1>2, <1>7, <1>9, <1>10, <1>11, ReadStep, Zenon DEF c

LEMMA ReadRangeIInv == IInv /\ ReadRange => IInv'
<1> SUFFICES ASSUME IInv, ReadRange PROVE IInv'
  OBVIOUS
<1>1. PICK g \in Ranges : Read(Longer(Top.n, LastLen(g)), Top.lens \cup EncodedLens(g[1], g[2]))
  BY DEF ReadRange
<1>2. Len(calls) > 0 /\ Len(calls) \in Nat /\ Top \in SoundCall /\ Top.op = "OpCharClass"
  BY TopIsSound DEF ReadRange, Open
<1> DEFINE c == Top
           R == EncodedLens(g[1], g[2])
           n == Longer(c.n, LastLen(g))
           lens == c.lens \cup R
<1>3. /\ c.n \in Nat /\ c.lens \in SUBSET Lengths /\ c.finite \in BOOLEAN
      /\ \A l \in c.lens : l <= c.n
      /\ c.finite => (c.n = 0 /\ c.lens = {}) \/ Cut(c.n) \in c.lens
  BY <1>2, CallTypes DEF OfRunes, NothingRead, Bounds, Reaches
<1>4. R \in SUBSET (1 .. 4) /\ LastLen(g) \in R /\ \A l \in R : l <= LastLen(g)
  BY MaxLenAssumption, RangeFacts DEF LastLen
<1>5. R \in SUBSET Lengths /\ LastLen(g) \in Nat /\ LastLen(g) > 0 /\ Cut(LastLen(g)) = LastLen(g)
  BY <1>4, SmallLens
<1> HIDE DEF R, c
<1>6. /\ n \in Nat /\ n >= c.n /\ n >= LastLen(g) /\ (n = c.n \/ n = LastLen(g))
      /\ (c.n = 0 => n = LastLen(g))
  BY <1>3, <1>5 DEF Longer
<1> HIDE DEF n
<1>7. \A l \in Lengths : l \in Nat
  BY CapType DEF Lengths
<1>8. \A l \in lens : l <= n
  <2> SUFFICES ASSUME NEW l \in lens PROVE l <= n
    OBVIOUS
  <2>1. l \in Nat
    BY <1>3, <1>5, <1>7
  <2> QED BY <1>3, <1>4, <1>5, <1>6, <2>1
<1>9. c.finite => Cut(n) \in lens
  BY <1>3, <1>4, <1>5, <1>6
<1>10. lens \in SUBSET Lengths
  BY <1>3, <1>5
<1>11. Read(n, lens)
  BY <1>1 DEF c, n, R
<1> HIDE DEF lens
<1>12. n \in Int /\ n >= 0
  BY <1>6
<1>13. Bounds(n, lens) /\ (c.finite => Reaches(n, lens))
  BY <1>6, <1>8, <1>9 DEF Bounds, Reaches
<1> QED BY <1>2, <1>10, <1>11, <1>12, <1>13, ReadStep, Zenon DEF c

\* What a subtree returned, worked into its node.
LEMMA JoinStep ==
  ASSUME IInv, Joined("OpConcat") \/ Joined("OpAlternate"),
         NEW n \in Int, NEW lens \in SUBSET Lengths,
         ~Unbounded => n >= -1 /\ Bounds(n, lens),
         Below.finite /\ Top.finite => IF Unbounded THEN TooLong \in lens ELSE Reaches(n, lens),
         Join(n, lens)
  PROVE  IInv'
<1> DEFINE b == Below
           v == IF Unbounded THEN -1 ELSE n
           fin == b.finite /\ Top.finite
           d == [b EXCEPT !.parts = @ + 1, !.n = v, !.lens = lens, !.finite = fin]
<1>1. b \in SoundCall /\ 2 \in 0 .. Len(calls) /\ b.op \notin OfRunes
  BY TopIsSound DEF Joined, Open, OfRunes
<1>2. v \in Int /\ v >= -1 /\ Bounds(v, lens)
  BY DEF Bounds
<1>3. fin \in BOOLEAN
  OBVIOUS
<1>4. fin => Reaches(v, lens)
  BY DEF Reaches
<1>5. Pop(2, d)
  BY Zenon DEF Join
<1> HIDE DEF b, v, fin
<1>6. d \in SoundCall
  BY <1>1, <1>2, <1>3, <1>4, ReadIsSound, Zenon
<1> HIDE DEF d
<1> QED BY <1>1, <1>5, <1>6, PopIInv, Zenon

LEMMA JoinFacts ==
  ASSUME IInv, Joined("OpConcat") \/ Joined("OpAlternate")
  PROVE  /\ Top \in SoundCall /\ Below \in SoundCall
         /\ Top.finite => Reaches(Top.n, Top.lens)
         /\ Below.finite /\ ~NothingRead(Below) => Reaches(Below.n, Below.lens)
         /\ NothingRead(Below) => Below.n = 0 /\ Below.lens = {}
         /\ Top.n \in Int /\ Top.n >= -1 /\ Bounds(Top.n, Top.lens) /\ Top.lens \in SUBSET Lengths
         /\ Below.n \in Int /\ Below.n >= -1 /\ Bounds(Below.n, Below.lens) /\ Below.lens \in SUBSET Lengths
<1>1. Top \in SoundCall /\ Below \in SoundCall /\ Top.op = "returned"
  BY TopIsSound DEF Joined, Open
<1> QED BY <1>1, CallTypes DEF NothingRead

LEMMA JoinConcatIInv == IInv /\ JoinConcat => IInv'
<1> SUFFICES ASSUME IInv, JoinConcat PROVE IInv'
  OBVIOUS
<1> DEFINE b == Below
           t == Top
           n == UpToCap(b.n + t.n)
           lens == Sums(b.lens, t.lens)
<1>1. Joined("OpConcat") /\ Join(n, lens)
  BY DEF JoinConcat
<1>2. /\ t.finite => Reaches(t.n, t.lens)
      /\ b.finite => Reaches(b.n, b.lens)
      /\ t.n \in Int /\ t.n >= -1 /\ Bounds(t.n, t.lens) /\ t.lens \in SUBSET Lengths
      /\ b.n \in Int /\ b.n >= -1 /\ Bounds(b.n, b.lens) /\ b.lens \in SUBSET Lengths
  <2>1. ~NothingRead(b)
    BY <1>1 DEF Joined, NothingRead
  <2> QED BY <1>1, <2>1, JoinFacts
<1>3. Unbounded <=> b.n < 0 \/ t.n < 0
  BY DEF Unbounded
<1>4. /\ \A x, y \in Nat : (\A l \in b.lens : l <= x) /\ (\A l \in t.lens : l <= y) =>
           \A l \in lens : l <= x + y
      /\ \A x \in b.lens, y \in t.lens : Cut(x + y) \in lens
      /\ lens \in SUBSET Lengths
  BY <1>2, SumsFacts
<1> HIDE DEF lens, b, t
<1>5. n \in Int
  BY <1>2 DEF UpToCap
<1>6. ASSUME ~Unbounded PROVE n >= -1 /\ Bounds(n, lens) /\ (b.finite /\ t.finite => Reaches(n, lens))
  <2> DEFINE total == b.n + t.n
  <2>1. b.n \in Nat /\ t.n \in Nat /\ total \in Nat
    BY <1>2, <1>3, <1>6
  <2>2. n = IF total <= windowCap THEN total ELSE -1
    BY DEF UpToCap
  <2>3. \A l \in lens : l <= total
    BY <1>2, <1>4, <2>1 DEF Bounds
  <2>4. ASSUME b.finite, t.finite PROVE Cut(total) \in lens
    <3>1. Cut(b.n) \in b.lens /\ Cut(t.n) \in t.lens
      BY <1>2, <2>1, <2>4 DEF Reaches
    <3>2. Cut(Cut(b.n) + Cut(t.n)) \in lens
      BY <1>4, <3>1
    <3> QED BY <2>1, <3>2, CutOfSum
  <2> HIDE DEF total, n
  <2>5. CASE total <= windowCap
    BY <2>1, <2>2, <2>3, <2>4, <2>5 DEF Bounds, Reaches
  <2>6. CASE ~(total <= windowCap)
    <3>1. n = -1 /\ Cut(total) = TooLong
      BY <2>2, <2>6, <2>1, CapType DEF Cut
    <3> QED BY <2>4, <3>1 DEF Bounds, Reaches
  <2> QED BY <2>5, <2>6
<1>7. ASSUME Unbounded, b.finite, t.finite PROVE TooLong \in lens
  <2>1. \A x \in Lengths : Cut(TooLong + x) = TooLong /\ Cut(x + TooLong) = TooLong
    BY TooLongStays
  <2>2. (b.n < 0 => TooLong \in b.lens) /\ (t.n < 0 => TooLong \in t.lens)
    BY <1>2, <1>7 DEF Reaches
  <2>3. (\E x \in b.lens : TRUE) /\ (\E x \in t.lens : TRUE)
    BY <1>2, <1>7 DEF Reaches
  <2>4. CASE b.n < 0
    BY <1>2, <1>4, <2>1, <2>2, <2>3, <2>4
  <2>5. CASE t.n < 0
    BY <1>2, <1>4, <2>1, <2>2, <2>3, <2>5
  <2> QED BY <1>3, <1>7, <2>4, <2>5
<1> HIDE DEF n
<1>8. b.finite /\ t.finite => IF Unbounded THEN TooLong \in lens ELSE Reaches(n, lens)
  BY <1>6, <1>7, Zenon
<1> QED BY <1>1, <1>4, <1>5, <1>6, <1>8, JoinStep, Zenon DEF b, t

LEMMA JoinAlternateIInv == IInv /\ JoinAlternate => IInv'
<1> SUFFICES ASSUME IInv, JoinAlternate PROVE IInv'
  OBVIOUS
<1> DEFINE b == Below
           t == Top
           n == Longer(b.n, t.n)
           lens == b.lens \cup t.lens
<1>1. Joined("OpAlternate") /\ Join(n, lens)
  BY DEF JoinAlternate
<1>2. /\ t.finite => Reaches(t.n, t.lens)
      /\ b.finite /\ ~NothingRead(b) => Reaches(b.n, b.lens)
      /\ NothingRead(b) => b.n = 0 /\ b.lens = {}
      /\ t.n \in Int /\ t.n >= -1 /\ Bounds(t.n, t.lens) /\ t.lens \in SUBSET Lengths
      /\ b.n \in Int /\ b.n >= -1 /\ Bounds(b.n, b.lens) /\ b.lens \in SUBSET Lengths
  BY <1>1, JoinFacts
<1>3. Unbounded <=> b.n < 0 \/ t.n < 0
  BY DEF Unbounded
<1>4. \A l \in Lengths : l \in Nat
  BY CapType DEF Lengths
<1> HIDE DEF b, t
<1>5. n \in Int /\ n >= b.n /\ n >= t.n /\ (n = b.n \/ n = t.n) /\ (b.n = 0 /\ t.n >= 0 => n = t.n)
  BY <1>2 DEF Longer
<1>6. lens \in SUBSET Lengths
  BY <1>2
<1> HIDE DEF n
<1>7. ASSUME ~Unbounded PROVE n >= -1 /\ Bounds(n, lens) /\ (b.finite /\ t.finite => Reaches(n, lens))
  <2>1. b.n >= 0 /\ t.n >= 0 /\ n >= 0
    BY <1>2, <1>3, <1>5, <1>7
  <2>2. \A l \in lens : l <= n
    <3> SUFFICES ASSUME NEW l \in lens PROVE l <= n
      OBVIOUS
    <3>1. l \in Nat /\ (l <= b.n \/ l <= t.n)
      BY <1>2, <1>4, <1>6, <2>1 DEF Bounds
    <3> QED BY <1>2, <1>5, <3>1
  <2>3. ASSUME b.finite, t.finite PROVE Cut(n) \in lens
    <3>1. Cut(t.n) \in t.lens /\ (~NothingRead(b) => Cut(b.n) \in b.lens)
      BY <1>2, <2>1, <2>3 DEF Reaches
    <3>2. CASE NothingRead(b)
      BY <1>2, <1>5, <2>1, <3>1, <3>2
    <3>3. CASE ~NothingRead(b)
      BY <1>5, <3>1, <3>3
    <3> QED BY <3>2, <3>3
  <2> QED BY <1>5, <2>1, <2>2, <2>3 DEF Bounds, Reaches
<1>8. ASSUME Unbounded, b.finite, t.finite PROVE TooLong \in lens
  <2>1. b.n < 0 => TooLong \in b.lens
    BY <1>2, <1>8 DEF Reaches
  <2>2. t.n < 0 => TooLong \in t.lens
    BY <1>2, <1>8 DEF Reaches
  <2> QED BY <1>3, <1>8, <2>1, <2>2
<1> HIDE DEF lens
<1>9. b.finite /\ t.finite => IF Unbounded THEN TooLong \in lens ELSE Reaches(n, lens)
  BY <1>7, <1>8, Zenon
<1>10. n \in Int
  BY <1>5
<1> QED BY <1>1, <1>6, <1>7, <1>9, <1>10, JoinStep, Zenon DEF b, t

LEMMA LeaveIInv == IInv /\ Leave => IInv'
<1> SUFFICES ASSUME IInv, Leave PROVE IInv'
  OBVIOUS
<1>1. PICK op \in DOMAIN LeastParts : Open(op) /\ Top.parts >= LeastParts[op]
  BY DEF Leave
<1>2. Top \in SoundCall /\ Top.op = op /\ 1 \in 0 .. Len(calls)
  BY <1>1, TopIsSound DEF Open
<1>3. LeastParts[op] \in {1, 2}
  BY <1>1 DEF LeastParts
<1>4. ~NothingRead(Top)
  BY <1>1, <1>2, <1>3 DEF NothingRead
<1>5. Return(Top.n, Top.lens, Top.finite) \in SoundCall
  BY <1>2, <1>4, CallTypes, ReturnIsSound, Zenon
<1>6. Pop(1, Return(Top.n, Top.lens, Top.finite))
  BY DEF Leave
<1> QED BY <1>2, <1>5, <1>6, PopIInv, Zenon

\* A tree that has been read and may get an operation around it.
LEMMA EnclosedFacts ==
  ASSUME IInv, Enclose
  PROVE  /\ Top \in SoundCall /\ 1 \in 0 .. Len(calls)
         /\ Top.n \in Int /\ Top.n >= -1 /\ Bounds(Top.n, Top.lens) /\ Top.lens \in SUBSET Lengths
         /\ Top.finite \in BOOLEAN
         /\ Top.finite => Reaches(Top.n, Top.lens)
<1>1. Top \in SoundCall /\ Top.op = "returned" /\ 1 \in 0 .. Len(calls)
  BY TopIsSound DEF Enclose, Open
<1> QED BY <1>1, CallTypes DEF NothingRead

LEMMA EncloseCaptureIInv == IInv /\ EncloseCapture => IInv'
BY EnclosedFacts, PopIInv, Zenon DEF EncloseCapture

LEMMA EncloseQuestIInv == IInv /\ EncloseQuest => IInv'
<1> SUFFICES ASSUME IInv, EncloseQuest PROVE IInv'
  OBVIOUS
<1> DEFINE lens == {0} \cup Top.lens
<1>1. Enclose /\ Pop(1, Return(Top.n, lens, Top.finite))
  BY DEF EncloseQuest
<1>2. /\ Top.n \in Int /\ Top.n >= -1 /\ Bounds(Top.n, Top.lens) /\ Top.lens \in SUBSET Lengths
      /\ Top.finite \in BOOLEAN /\ 1 \in 0 .. Len(calls)
      /\ Top.finite => Reaches(Top.n, Top.lens)
  BY <1>1, EnclosedFacts
<1>3. lens \in SUBSET Lengths
  BY <1>2, CapType DEF Lengths
<1>4. Bounds(Top.n, lens)
  BY <1>2 DEF Bounds
<1>5. Top.finite => Reaches(Top.n, lens)
  BY <1>2 DEF Reaches
<1> HIDE DEF lens
<1>6. Return(Top.n, lens, Top.finite) \in SoundCall
  BY <1>2, <1>3, <1>4, <1>5, ReturnIsSound, Zenon
<1> QED BY <1>1, <1>2, <1>6, PopIInv, Zenon

LEMMA EncloseStarIInv == IInv /\ EncloseStar => IInv'
<1> SUFFICES ASSUME IInv, EncloseStar PROVE IInv'
  OBVIOUS
<1>1. PICK least \in {0, 1} : Pop(1, Return(-1, InARow(Top.lens, least, TooLong), FALSE))
  BY DEF EncloseStar
<1>2. Top.lens \in SUBSET Lengths /\ 1 \in 0 .. Len(calls)
  BY EnclosedFacts DEF EncloseStar
<1> DEFINE lens == InARow(Top.lens, least, TooLong)
<1>3. least \in Nat /\ TooLong \in Nat /\ least <= TooLong
  BY CapType
<1>4. lens \in SUBSET Lengths
  BY <1>2, <1>3, InARowFacts
<1> HIDE DEF lens
<1>5. -1 \in Int /\ -1 >= -1 /\ Bounds(-1, lens)
  BY DEF Bounds
<1>6. Return(-1, lens, FALSE) \in SoundCall
  BY <1>4, <1>5, ReturnIsSound, Zenon
<1> QED BY <1>1, <1>2, <1>6, PopIInv, Zenon DEF lens

LEMMA EncloseRepeatIInv == IInv /\ EncloseRepeat => IInv'
<1> SUFFICES ASSUME IInv, EncloseRepeat PROVE IInv'
  OBVIOUS
<1> DEFINE t == Top
<1>1. PICK b \in Repeats :
        Pop(1, Return(IF b[2] < 0 \/ t.n < 0 THEN -1 ELSE UpToCap(t.n * b[2]),
                      InARow(t.lens, b[1], IF b[2] < 0 THEN b[1] + TooLong ELSE b[2]),
                      t.finite /\ b[2] > 0))
  BY DEF EncloseRepeat
<1>2. /\ t.n \in Int /\ t.n >= -1 /\ Bounds(t.n, t.lens) /\ t.lens \in SUBSET Lengths
      /\ t.finite \in BOOLEAN /\ 1 \in 0 .. Len(calls)
      /\ t.finite => Reaches(t.n, t.lens)
  BY EnclosedFacts DEF EncloseRepeat
<1> DEFINE least == b[1]
           max == b[2]
           most == IF max < 0 THEN least + TooLong ELSE max
           n == IF max < 0 \/ t.n < 0 THEN -1 ELSE UpToCap(t.n * max)
           lens == InARow(t.lens, least, most)
           fin == t.finite /\ max > 0
<1>3. least \in Nat /\ max \in Int /\ max >= -1 /\ (max >= 0 => least <= max)
  BY MaxLenAssumption DEF Unlimited
<1>4. Pop(1, Return(n, lens, fin))
  BY <1>1
<1> HIDE DEF least, max, t
<1>5. most \in Nat /\ least <= most /\ (max >= 0 => most = max)
  BY <1>3, CapType
<1> HIDE DEF most
<1>6. /\ lens \in SUBSET Lengths
      /\ \A x \in Nat : (\A l \in t.lens : l <= x) => \A l \in lens : l <= most * x
      /\ \A x \in Nat : Cut(x) \in t.lens => Cut(most * x) \in lens
  BY <1>2, <1>3, <1>5, InARowFacts
<1> HIDE DEF lens
<1>7. CASE max >= 0 /\ t.n >= 0
  <2> DEFINE total == t.n * max
  <2>1. t.n \in Nat /\ max \in Nat /\ most = max
    BY <1>2, <1>3, <1>5, <1>7
  <2>2. total \in Nat /\ total = max * t.n
    BY <2>1
  <2>3. n = IF total <= windowCap THEN total ELSE -1
    BY <1>7, <2>1 DEF UpToCap
  <2>4. \A l \in lens : l <= total
    BY <1>2, <1>6, <2>1, <2>2 DEF Bounds
  <2>5. t.finite => Cut(total) \in lens
    BY <1>2, <1>6, <2>1, <2>2 DEF Reaches
  <2> HIDE DEF total, n
  <2>6. n \in Int /\ n >= -1 /\ Bounds(n, lens)
    BY <2>2, <2>3, <2>4 DEF Bounds
  <2>7. t.finite => Reaches(n, lens)
    <3>1. CASE total <= windowCap
      BY <2>2, <2>3, <2>5, <3>1 DEF Reaches
    <3>2. CASE ~(total <= windowCap)
      <4>1. n = -1 /\ Cut(total) = TooLong
        BY <2>2, <2>3, <3>2, CapType DEF Cut
      <4> QED BY <2>5, <4>1 DEF Reaches
    <3> QED BY <3>1, <3>2
  <2>8. fin => Reaches(n, lens)
    BY <2>7
  <2>9. fin \in BOOLEAN
    OBVIOUS
  <2> HIDE DEF fin
  <2>10. Return(n, lens, fin) \in SoundCall
    BY <1>6, <2>6, <2>8, <2>9, ReturnIsSound, Zenon
  <2> QED BY <1>2, <1>4, <2>10, PopIInv, Zenon DEF n
<1>8. CASE ~(max >= 0 /\ t.n >= 0)
  <2>1. n = -1 /\ n \in Int /\ n >= -1 /\ Bounds(n, lens)
    BY <1>2, <1>3, <1>8 DEF Bounds
  <2>2. ASSUME fin PROVE TooLong \in lens
    <3>1. max > 0 /\ t.n < 0 /\ most = max /\ TooLong \in t.lens
      BY <1>2, <1>3, <1>5, <1>8, <2>2 DEF Reaches
    <3>2. TooLong \in Nat /\ Cut(TooLong) = TooLong
      BY CapType DEF Cut
    <3>3. Cut(most * TooLong) \in lens
      BY <1>6, <3>1, <3>2
    <3>4. most * TooLong \in Nat /\ most * TooLong >= TooLong
      BY <1>5, <3>1, <3>2, Times
    <3> QED BY <3>3, <3>4, CutFacts
  <2>3. fin => Reaches(n, lens)
    BY <2>1, <2>2 DEF Reaches
  <2>4. fin \in BOOLEAN
    OBVIOUS
  <2> HIDE DEF fin, n
  <2>5. Return(n, lens, fin) \in SoundCall
    BY <1>6, <2>1, <2>3, <2>4, ReturnIsSound, Zenon
  <2> QED BY <1>2, <1>4, <2>5, PopIInv, Zenon DEF n
<1> QED BY <1>7, <1>8

LEMMA NextIInv == NoWiderPartner /\ IInv /\ [Next]_vars => IInv'
<1>1. IInv /\ UNCHANGED vars => IInv'
  BY DEF IInv, vars
<1> QED BY <1>1, VisitIInv, EnterIInv, ReadRuneIInv, ReadRangeIInv, JoinConcatIInv, JoinAlternateIInv,
           LeaveIInv, EncloseCaptureIInv, EncloseQuestIInv, EncloseStarIInv, EncloseRepeatIInv
        DEF Next

\* NoWiderPartner says nothing of the state: it holds always or never.
WalkInv == NoWiderPartner => IInv

LEMMA Walking == Spec => []WalkInv
<1>1. Init => WalkInv
  <2>1. Init => IInv
    BY EmptySeq DEF Init, IInv
  <2> QED BY <2>1 DEF WalkInv
<1>2. WalkInv /\ [Next]_vars => WalkInv'
  BY NextIInv DEF WalkInv, NoWiderPartner
<1> QED BY <1>1, <1>2, PTL DEF Spec

\* What a call has returned is the least bound of its node's matches.
LEMMA ReturnedFacts ==
  ASSUME IInv, NEW c \in Returned
  PROVE  /\ c.n \in Int /\ c.lens \in SUBSET Lengths
         /\ Bounds(c.n, c.lens) /\ (c.finite => Reaches(c.n, c.lens))
<1>1. c \in SoundCall /\ c.op = "returned"
  BY DEF IInv, Returned
<1> QED BY <1>1, CallTypes DEF NothingRead
-----------------------------------------------------------------------------
\* "a wrong answer costs speed rather than a missed secret": unless a rune has
\* a wider case partner, a derived window is never shorter than a match, for
\* every pattern and every cap.
THEOREM WindowsAreWide == Spec => [](NoWiderPartner => BoundHolds)
<1>1. WalkInv => (NoWiderPartner => BoundHolds)
  <2> SUFFICES ASSUME IInv, NEW c \in Returned, maxMatchLen(c.n) > 0, NEW l \in c.lens
               PROVE  l <= maxMatchLen(c.n)
    BY DEF WalkInv, BoundHolds
  <2>1. c.n \in Int /\ Bounds(c.n, c.lens)
    BY ReturnedFacts
  <2> QED BY <2>1 DEF maxMatchLen, Bounds
<1> QED BY <1>1, Walking, PTL

\* README.md: the window is given up only for an open-ended pattern or one with
\* matches beyond the cap, and is no wider than the longest match.
THEOREM WindowsAreTight == Spec => [](NoWiderPartner => BoundIsTight)
<1>1. WalkInv => (NoWiderPartner => BoundIsTight)
  <2> SUFFICES ASSUME IInv, NEW c \in Returned, c.finite, NEW longest \in c.lens,
                      longest <= windowCap, \A l \in c.lens : l <= longest
               PROVE  maxMatchLen(c.n) = longest
    BY DEF WalkInv, BoundIsTight
  <2>1. c.n \in Int /\ Bounds(c.n, c.lens) /\ Reaches(c.n, c.lens) /\ longest \in Nat
    BY ReturnedFacts, CapType DEF Lengths
  <2>2. ~(TooLong <= longest) /\ TooLong \notin c.lens
    BY <2>1, CapType
  <2>3. c.n >= 0 /\ Cut(c.n) \in c.lens
    BY <2>1, <2>2 DEF Reaches
  <2>4. Cut(c.n) = c.n /\ c.n <= windowCap
    BY <2>1, <2>2, <2>3, CapType DEF Cut
  <2>5. c.n = longest
    BY <2>1, <2>3, <2>4 DEF Bounds
  <2> QED BY <2>1, <2>3, <2>4, CapType, <2>5 DEF maxMatchLen
<1> QED BY <1>1, Walking, PTL
=============================================================================
