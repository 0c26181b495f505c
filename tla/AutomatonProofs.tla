-------------------------- MODULE AutomatonProofs --------------------------
(***************************************************************************)
(* What Automaton guarantees for every list of anchors, with any bytes and *)
(* any number of state ids.                                                *)
(*                                                                         *)
(* The argument: the states are the prefixes of the anchors, one each      *)
(* (Trie).  link completes the rows of the states in the order of the      *)
(* lengths of their words (Levels), so when it reaches a state the row of  *)
(* its failure state is complete (ShorterAreDone), and a suffix of what    *)
(* was read that goes on with the next byte is a suffix of the failure     *)
(* state's word that does (LongestThroughFail).                            *)
(***************************************************************************)
EXTENDS Automaton, LeastElement, FunctionTheorems, SequenceTheorems

-----------------------------------------------------------------------------
(***************************************************************************)
(* Words and their suffixes.                                               *)
(***************************************************************************)
LEMMA Appended ==
  ASSUME NEW S, NEW u \in Seq(S), NEW c \in S
  PROVE  /\ Append(u, c) \in Seq(S) /\ Len(u) \in Nat
         /\ Len(Append(u, c)) = Len(u) + 1 /\ Append(u, c) # <<>>
         /\ Append(u, c)[Len(u) + 1] = c
         /\ \A j \in 1 .. Len(u) : Append(u, c)[j] = u[j]
BY AppendProperties, LenProperties

LEMMA AppendTwice ==
  ASSUME NEW S, NEW u \in Seq(S), NEW v \in Seq(S), NEW c \in S, NEW d \in S,
         Append(u, c) = Append(v, d)
  PROVE  u = v /\ c = d
BY AppendInjective

LEMMA SuffixRefl ==
  ASSUME NEW S, NEW u \in Seq(S)
  PROVE  IsSuffix(u, u)
<1>1. Len(u) \in Nat
  BY LenProperties
<1> QED BY <1>1 DEF IsSuffix

LEMMA SuffixEmpty ==
  ASSUME NEW S, NEW u \in Seq(S)
  PROVE  IsSuffix(<<>>, u)
<1>1. Len(u) \in Nat /\ Len(<<>>) = 0
  BY LenProperties, EmptySeq
<1> QED BY <1>1 DEF IsSuffix

LEMMA SuffixTrans ==
  ASSUME NEW S, NEW u \in Seq(S), NEW v \in Seq(S), NEW x \in Seq(S),
         IsSuffix(u, v), IsSuffix(v, x)
  PROVE  IsSuffix(u, x)
<1> DEFINE l == Len(u)
           m == Len(v)
           n == Len(x)
<1>1. l \in Nat /\ m \in Nat /\ n \in Nat
  BY LenProperties
<1>2. l <= m /\ m <= n
  BY DEF IsSuffix
<1>3. ASSUME NEW j \in 1 .. l PROVE u[j] = x[n - l + j]
  <2>1. u[j] = v[m - l + j]
    BY DEF IsSuffix
  <2> DEFINE p == m - l + j
  <2>2. p \in 1 .. m /\ n - m + p = n - l + j
    BY <1>1, <1>2
  <2>3. v[p] = x[n - m + p]
    BY <2>2 DEF IsSuffix
  <2> QED BY <2>1, <2>2, <2>3
<1>4. l <= n
  BY <1>1, <1>2
<1> QED BY <1>3, <1>4 DEF IsSuffix

\* Of two suffixes the shorter is a suffix of the longer.
LEMMA SuffixNested ==
  ASSUME NEW S, NEW u \in Seq(S), NEW v \in Seq(S), NEW x \in Seq(S),
         IsSuffix(u, x), IsSuffix(v, x), Len(u) <= Len(v)
  PROVE  IsSuffix(u, v)
<1> DEFINE l == Len(u)
           m == Len(v)
           n == Len(x)
<1>1. l \in Nat /\ m \in Nat /\ n \in Nat /\ l <= m
  BY LenProperties
<1>2. ASSUME NEW j \in 1 .. l PROVE u[j] = v[m - l + j]
  <2>1. u[j] = x[n - l + j]
    BY DEF IsSuffix
  <2> DEFINE p == m - l + j
  <2>2. p \in 1 .. m /\ n - m + p = n - l + j
    BY <1>1
  <2>3. v[p] = x[n - m + p]
    BY <2>2 DEF IsSuffix
  <2> QED BY <2>1, <2>2, <2>3
<1> QED BY <1>1, <1>2 DEF IsSuffix

LEMMA SuffixWhole ==
  ASSUME NEW S, NEW u \in Seq(S), NEW v \in Seq(S), IsSuffix(u, v), Len(u) = Len(v)
  PROVE  u = v
<1>1. Len(u) \in Nat
  BY LenProperties
<1>2. ASSUME NEW j \in 1 .. Len(u) PROVE u[j] = v[j]
  <2>1. u[j] = v[Len(v) - Len(u) + j]
    BY DEF IsSuffix
  <2>2. Len(v) - Len(u) + j = j
    BY <1>1
  <2> QED BY <2>1, <2>2
<1> QED BY <1>2, SeqEqual

\* A word with a byte behind it is a suffix of one that ends in that byte.
LEMMA SuffixAppend ==
  ASSUME NEW S, NEW u \in Seq(S), NEW v \in Seq(S), NEW c \in S, NEW d \in S
  PROVE  IsSuffix(Append(u, c), Append(v, d)) <=> c = d /\ IsSuffix(u, v)
<1> DEFINE uc == Append(u, c)
           vd == Append(v, d)
           l == Len(u)
           m == Len(v)
<1>1. /\ l \in Nat /\ m \in Nat /\ Len(uc) = l + 1 /\ Len(vd) = m + 1
      /\ uc[l + 1] = c /\ vd[m + 1] = d
      /\ \A j \in 1 .. l : uc[j] = u[j]
      /\ \A j \in 1 .. m : vd[j] = v[j]
  BY Appended
<1> HIDE DEF uc, vd
<1>2. ASSUME IsSuffix(uc, vd) PROVE c = d /\ IsSuffix(u, v)
  <2>1. l <= m /\ \A j \in 1 .. l + 1 : uc[j] = vd[(m + 1) - (l + 1) + j]
    BY <1>1, <1>2 DEF IsSuffix
  <2>2. uc[l + 1] = vd[(m + 1) - (l + 1) + (l + 1)] /\ (m + 1) - (l + 1) + (l + 1) = m + 1
    BY <1>1, <2>1
  <2>3. ASSUME NEW j \in 1 .. l PROVE u[j] = v[m - l + j]
    <3>1. j \in 1 .. l + 1 /\ (m + 1) - (l + 1) + j = m - l + j /\ m - l + j \in 1 .. m
      BY <1>1, <2>1
    <3> QED BY <1>1, <2>1, <3>1
  <2> QED BY <1>1, <2>1, <2>2, <2>3 DEF IsSuffix
<1>3. ASSUME c = d, IsSuffix(u, v) PROVE IsSuffix(uc, vd)
  <2>1. l <= m
    BY <1>3 DEF IsSuffix
  <2>2. ASSUME NEW j \in 1 .. l + 1 PROVE uc[j] = vd[(m + 1) - (l + 1) + j]
    <3>1. CASE j \in 1 .. l
      <4>1. u[j] = v[m - l + j]
        BY <1>3, <3>1 DEF IsSuffix
      <4>2. (m + 1) - (l + 1) + j = m - l + j /\ m - l + j \in 1 .. m
        BY <1>1, <2>1, <3>1
      <4> QED BY <1>1, <3>1, <4>1, <4>2
    <3>2. CASE j = l + 1
      <4>1. (m + 1) - (l + 1) + j = m + 1
        BY <1>1, <3>2
      <4> QED BY <1>1, <1>3, <3>2, <4>1
    <3> QED BY <1>1, <3>1, <3>2
  <2> QED BY <1>1, <2>1, <2>2 DEF IsSuffix
<1>4. IsSuffix(uc, vd) <=> c = d /\ IsSuffix(u, v)
  BY <1>2, <1>3
<1> QED BY <1>4 DEF uc, vd

LEMMA SuffixLength ==
  ASSUME NEW S, NEW u \in Seq(S), NEW v \in Seq(S), IsSuffix(u, v)
  PROVE  Len(u) \in Nat /\ Len(v) \in Nat /\ Len(u) <= Len(v)
BY LenProperties DEF IsSuffix
-----------------------------------------------------------------------------
(***************************************************************************)
(* Sequences that list each element of a set once, in any order: xs names  *)
(* the elements of T by what g makes of them.                              *)
(***************************************************************************)
Lists(xs, T, g) ==
  \E f \in Bijection(1 .. Len(xs), T) : \A n \in 1 .. Len(xs) : xs[n] = g[f[n]]

LEMMA ListsNothing ==
  ASSUME NEW g
  PROVE  Lists(<<>>, {}, g)
<1> DEFINE f == [n \in {} |-> n]
<1>1. 1 .. Len(<<>>) = {}
  BY EmptySeq
<1>2. f \in Bijection({}, {})
  BY Fun_IsBij
<1> QED BY <1>1, <1>2 DEF Lists

LEMMA ListsOneMore ==
  ASSUME NEW S, NEW xs \in Seq(S), NEW T, NEW g, Lists(xs, T, g),
         NEW t, t \notin T, NEW e \in S, e = g[t]
  PROVE  Lists(Append(xs, e), T \cup {t}, g)
<1> DEFINE n == Len(xs)
           ys == Append(xs, e)
           U == T \cup {t}
<1>1. /\ n \in Nat /\ Len(ys) = n + 1 /\ ys[n + 1] = e
      /\ \A j \in 1 .. n : ys[j] = xs[j]
  BY Appended
<1> HIDE DEF ys
<1>2. PICK f \in Bijection(1 .. n, T) : \A j \in 1 .. n : xs[j] = g[f[j]]
  BY DEF Lists
<1>3. /\ f \in [1 .. n -> T]
      /\ \A j, m \in 1 .. n : f[j] = f[m] => j = m
      /\ \A u \in T : \E j \in 1 .. n : f[j] = u
  BY Fun_BijectionProperties
<1> DEFINE h == [j \in 1 .. n + 1 |-> IF j = n + 1 THEN t ELSE f[j]]
<1>4. \A j \in 1 .. n + 1 : j # n + 1 => j \in 1 .. n
  BY <1>1
<1>5. h \in [1 .. n + 1 -> U]
  BY <1>3, <1>4
<1>6. ASSUME NEW j \in 1 .. n + 1, NEW m \in 1 .. n + 1, h[j] = h[m] PROVE j = m
  BY <1>3, <1>4, <1>6
<1>7. ASSUME NEW u \in U PROVE \E j \in 1 .. n + 1 : h[j] = u
  <2>1. CASE u = t
    <3>1. n + 1 \in 1 .. n + 1
      BY <1>1
    <3> QED BY <2>1, <3>1
  <2>2. CASE u \in T
    <3>1. PICK j \in 1 .. n : f[j] = u
      BY <1>3, <2>2
    <3>2. j \in 1 .. n + 1 /\ j # n + 1
      BY <1>1
    <3> QED BY <3>1, <3>2
  <2> QED BY <2>1, <2>2
<1>8. h \in Bijection(1 .. n + 1, U)
  <2> HIDE DEF h, U
  <2> QED BY <1>5, <1>6, <1>7, Fun_IsBij
<1>9. ASSUME NEW j \in 1 .. n + 1 PROVE ys[j] = g[h[j]]
  BY <1>1, <1>2, <1>4
<1>10. Lists(ys, U, g)
  <2> HIDE DEF h, U
  <2> QED BY <1>1, <1>8, <1>9 DEF Lists
<1> QED BY <1>10 DEF ys

LEMMA ListsBoth ==
  ASSUME NEW S, NEW xs \in Seq(S), NEW ys \in Seq(S), NEW T, NEW U, NEW g,
         Lists(xs, T, g), Lists(ys, U, g), T \cap U = {}
  PROVE  Lists(xs \o ys, T \cup U, g)
<1> DEFINE m == Len(xs)
           n == Len(ys)
           zs == xs \o ys
           V == T \cup U
<1>1. /\ m \in Nat /\ n \in Nat /\ Len(zs) = m + n
      /\ \A j \in 1 .. m + n : zs[j] = IF j <= m THEN xs[j] ELSE ys[j - m]
  BY ConcatProperties, LenProperties
<1> HIDE DEF zs
<1>2. PICK f \in Bijection(1 .. m, T) : \A j \in 1 .. m : xs[j] = g[f[j]]
  BY DEF Lists
<1>3. PICK e \in Bijection(1 .. n, U) : \A j \in 1 .. n : ys[j] = g[e[j]]
  BY DEF Lists
<1>4. /\ f \in [1 .. m -> T]
      /\ \A j, p \in 1 .. m : f[j] = f[p] => j = p
      /\ \A u \in T : \E j \in 1 .. m : f[j] = u
  BY Fun_BijectionProperties
<1>5. /\ e \in [1 .. n -> U]
      /\ \A j, p \in 1 .. n : e[j] = e[p] => j = p
      /\ \A u \in U : \E j \in 1 .. n : e[j] = u
  BY Fun_BijectionProperties
<1> DEFINE h == [j \in 1 .. m + n |-> IF j <= m THEN f[j] ELSE e[j - m]]
<1>6. ASSUME NEW j \in 1 .. m + n
      PROVE  \/ j <= m /\ j \in 1 .. m /\ h[j] = f[j] /\ h[j] \in T
             \/ ~(j <= m) /\ j - m \in 1 .. n /\ h[j] = e[j - m] /\ h[j] \in U
  <2>1. CASE j <= m
    <3>1. j \in 1 .. m
      BY <1>1, <2>1
    <3>2. h[j] = f[j]
      BY <2>1
    <3> QED BY <1>4, <2>1, <3>1, <3>2
  <2>2. CASE ~(j <= m)
    <3>1. j - m \in 1 .. n
      BY <1>1, <2>2
    <3>2. h[j] = e[j - m]
      BY <2>2
    <3> QED BY <1>5, <2>2, <3>1, <3>2
  <2> QED BY <2>1, <2>2
<1>7. h \in [1 .. m + n -> V]
  BY <1>6
<1>8. ASSUME NEW j \in 1 .. m + n, NEW p \in 1 .. m + n, h[j] = h[p] PROVE j = p
  <2>1. CASE j <= m
    <3>1. p <= m
      BY <1>6, <1>8, <2>1
    <3> QED BY <1>4, <1>6, <1>8, <2>1, <3>1
  <2>2. CASE ~(j <= m)
    <3>1. ~(p <= m)
      BY <1>6, <1>8, <2>2
    <3>2. e[j - m] = e[p - m] /\ j - m \in 1 .. n /\ p - m \in 1 .. n
      BY <1>6, <1>8, <2>2, <3>1
    <3>3. j - m = p - m
      BY <1>5, <3>2
    <3> QED BY <1>1, <3>3
  <2> QED BY <2>1, <2>2
<1>9. ASSUME NEW u \in V PROVE \E j \in 1 .. m + n : h[j] = u
  <2>1. CASE u \in T
    <3>1. PICK j \in 1 .. m : f[j] = u
      BY <1>4, <2>1
    <3>2. j \in 1 .. m + n /\ j <= m
      BY <1>1
    <3> QED BY <3>1, <3>2
  <2>2. CASE u \in U
    <3>1. PICK j \in 1 .. n : e[j] = u
      BY <1>5, <2>2
    <3>2. j + m \in 1 .. m + n /\ ~(j + m <= m) /\ (j + m) - m = j
      BY <1>1
    <3> QED BY <3>1, <3>2
  <2> QED BY <2>1, <2>2
<1>10. h \in Bijection(1 .. m + n, V)
  <2> HIDE DEF h, V
  <2> QED BY <1>7, <1>8, <1>9, Fun_IsBij
<1>11. ASSUME NEW j \in 1 .. m + n PROVE zs[j] = g[h[j]]
  BY <1>1, <1>2, <1>3, <1>6
<1>12. Lists(zs, V, g)
  <2> HIDE DEF h, V
  <2> QED BY <1>1, <1>10, <1>11 DEF Lists
<1> QED BY <1>12 DEF zs

Shown(xs, e) == {n \in 1 .. Len(xs) : xs[n] = e}
Named(T, g, e) == {t \in T : g[t] = e}

\* Such a sequence is as long as the set is large, and shows an element as
\* often as the set has it.
LEMMA ListsCount ==
  ASSUME NEW xs, Len(xs) \in Nat, NEW T, NEW g, Lists(xs, T, g)
  PROVE  /\ IsFiniteSet(T) /\ Len(xs) = Cardinality(T)
         /\ \A e : Cardinality(Shown(xs, e)) = Cardinality(Named(T, g, e))
<1> DEFINE n == Len(xs)
<1>1. PICK f \in Bijection(1 .. n, T) : \A j \in 1 .. n : xs[j] = g[f[j]]
  BY DEF Lists
<1>2. /\ f \in [1 .. n -> T]
      /\ \A j, m \in 1 .. n : f[j] = f[m] => j = m
      /\ \A u \in T : \E j \in 1 .. n : f[j] = u
  BY Fun_BijectionProperties
<1>3. IsFiniteSet(1 .. n) /\ Cardinality(1 .. n) = n
  BY FS_Interval
<1>4. IsFiniteSet(T) /\ Cardinality(T) = n
  <2>1. ExistsBijection(1 .. n, T)
    BY DEF ExistsBijection
  <2> QED BY <1>3, <2>1, FS_Bijection
<1>5. ASSUME NEW e
      PROVE  Cardinality(Shown(xs, e)) = Cardinality(Named(T, g, e))
  <2> DEFINE A == {j \in 1 .. n : xs[j] = e}
             B == {t \in T : g[t] = e}
             h == [j \in A |-> f[j]]
  <2>1. h \in [A -> B] /\ \A j, m \in A : h[j] = h[m] => j = m
    BY <1>1, <1>2
  <2>2. \A t \in B : \E j \in A : h[j] = t
    BY <1>1, <1>2
  <2>3. IsFiniteSet(A)
    BY <1>3, FS_Subset
  <2>4. h \in Bijection(A, B)
    <3> HIDE DEF A, B, h
    <3> QED BY <2>1, <2>2, Fun_IsBij
  <2>5. ExistsBijection(A, B)
    BY <2>4 DEF ExistsBijection
  <2> HIDE DEF A, B
  <2>6. Cardinality(A) = Cardinality(B)
    BY <2>3, <2>5, FS_Bijection
  <2>7. A = Shown(xs, e) /\ B = Named(T, g, e)
    BY DEF A, B, Shown, Named
  <2> QED BY <2>6, <2>7
<1> QED BY <1>4, <1>5
-----------------------------------------------------------------------------
(***************************************************************************)
(* The letters of a folded byte, and the anchors as insert spells them.    *)
(***************************************************************************)
LEMMA FoldedByte ==
  ASSUME fold \in BOOLEAN, NEW c \in Bytes
  PROVE  Folded(c) \in Bytes /\ Folded(Folded(c)) = Folded(c)
<1>1. c \in 0 .. 255 /\ asciiLower(c) \in Bytes
  BY BytesAssumption
<1> QED BY <1>1 DEF Folded, asciiLower

LEMMA LettersOfByte ==
  ASSUME fold \in BOOLEAN, NEW c \in Bytes, Folded(c) = c, NEW d \in Bytes
  PROVE  d \in Letters(c) <=> Folded(d) = c
<1>1. c \in 0 .. 255 /\ d \in 0 .. 255
  BY BytesAssumption
<1> QED BY <1>1 DEF Folded, Letters, asciiLower, asciiUpper

LEMMA AnchorTypes ==
  ASSUME anchors \in AnchorLists, NEW j \in 1 .. Len(anchors)
  PROVE  /\ anchors \in Seq(Anchor) /\ Len(anchors) \in Nat
         /\ anchors[j].text \in Seq(Bytes) /\ anchors[j].text # <<>> /\ anchors[j].rule \in Nat
<1>1. anchors \in Seq(Anchor) /\ anchors[j].text # <<>>
  BY AnchorsAssumption
<1>2. anchors[j] \in Anchor
  BY <1>1, ElementOfSeq
<1> QED BY <1>1, <1>2, LenProperties DEF Anchor

LEMMA InsertedBytes ==
  ASSUME anchors \in AnchorLists, fold \in BOOLEAN, NEW j \in 1 .. Len(anchors)
  PROVE  /\ Inserted(j) \in Seq(Bytes) /\ Len(Inserted(j)) = Len(anchors[j].text)
         /\ Len(Inserted(j)) \in Nat \ {0}
         /\ \A n \in 1 .. Len(Inserted(j)) : Inserted(j)[n] \in Bytes /\ Folded(Inserted(j)[n]) = Inserted(j)[n]
<1> DEFINE x == anchors[j].text
<1>1. x \in Seq(Bytes) /\ x # <<>>
  BY AnchorTypes
<1>2. Len(x) \in Nat \ {0} /\ \A n \in 1 .. Len(x) : x[n] \in Bytes
  BY <1>1, EmptySeq, ElementOfSeq
<1> HIDE DEF x
<1>3. CASE fold
  <2> DEFINE low == [n \in 1 .. Len(x) |-> asciiLower(x[n])]
  <2>1. \A n \in 1 .. Len(x) : low[n] \in Bytes /\ Folded(low[n]) = low[n] /\ low[n] = Folded(x[n])
    BY <1>2, <1>3, FoldedByte DEF Folded
  <2>2. low \in Seq(Bytes) /\ Len(low) = Len(x)
    <3>1. low \in [1 .. Len(x) -> Bytes]
      BY <2>1
    <3> HIDE DEF low
    <3> QED BY <1>2, <3>1, SeqDef
  <2>3. Inserted(j) = low
    BY <1>3 DEF Inserted, lowerASCII, x
  <2> HIDE DEF low
  <2> QED BY <1>2, <2>1, <2>2, <2>3 DEF x
<1>4. CASE ~fold
  <2>1. Inserted(j) = x
    BY <1>4 DEF Inserted, x
  <2> QED BY <1>1, <1>2, <1>4, <2>1 DEF Folded, x
<1> QED BY <1>3, <1>4

\* A prefix of an anchor, and the same with one more byte.
LEMMA PrefixFacts ==
  ASSUME anchors \in AnchorLists, fold \in BOOLEAN, NEW j \in 1 .. Len(anchors),
         NEW n \in 0 .. Len(Inserted(j))
  PROVE  /\ Prefix(j, n) \in Seq(Bytes) /\ Len(Prefix(j, n)) = n
         /\ n = 0 => Prefix(j, n) = <<>>
         /\ n = Len(Inserted(j)) => Prefix(j, n) = Inserted(j)
         /\ n < Len(Inserted(j)) => Prefix(j, n + 1) = Append(Prefix(j, n), Inserted(j)[n + 1])
<1> DEFINE x == Inserted(j)
           y == Prefix(j, n)
<1>1. /\ x \in Seq(Bytes) /\ Len(x) \in Nat /\ n \in Nat /\ n <= Len(x)
      /\ \A m \in 1 .. Len(x) : x[m] \in Bytes
  BY InsertedBytes
<1>2. \A m \in 0 .. Len(x) : /\ Prefix(j, m) \in Seq(Bytes) /\ Len(Prefix(j, m)) = m
                             /\ \A p \in 1 .. m : Prefix(j, m)[p] = x[p]
  <2> SUFFICES ASSUME NEW m \in 0 .. Len(x)
               PROVE  /\ Prefix(j, m) \in Seq(Bytes) /\ Len(Prefix(j, m)) = m
                      /\ \A p \in 1 .. m : Prefix(j, m)[p] = x[p]
    OBVIOUS
  <2> DEFINE f == Prefix(j, m)
  <2>1. \A p \in 1 .. m : f[p] = x[p]
    BY DEF Prefix
  <2>2. m \in Nat /\ \A p \in 1 .. m : p \in 1 .. Len(x)
    BY <1>1
  <2>3. f \in [1 .. m -> Bytes]
    BY <1>1, <2>2 DEF Prefix
  <2> HIDE DEF f
  <2>4. f \in Seq(Bytes) /\ Len(f) = m
    BY <2>2, <2>3, SeqDef
  <2> QED BY <2>1, <2>4 DEF f
<1> HIDE DEF x
<1>3. n = 0 => y = <<>>
  BY <1>1, <1>2, EmptySeq
<1>4. n = Len(x) => y = x
  <2> SUFFICES ASSUME n = Len(x) PROVE y = x
    OBVIOUS
  <2>1. Len(y) = Len(x) /\ y \in Seq(Bytes) /\ \A p \in 1 .. Len(y) : y[p] = x[p]
    BY <1>1, <1>2
  <2> HIDE DEF y
  <2> QED BY <1>1, <2>1, SeqEqual
<1>5. ASSUME n < Len(x) PROVE Prefix(j, n + 1) = Append(y, x[n + 1])
  <2> DEFINE z == Prefix(j, n + 1)
             e == x[n + 1]
  <2>1. n + 1 \in 0 .. Len(x) /\ n + 1 \in 1 .. Len(x) /\ n \in 0 .. Len(x)
    BY <1>1, <1>5
  <2>2. /\ z \in Seq(Bytes) /\ Len(z) = n + 1 /\ \A p \in 1 .. n + 1 : z[p] = x[p]
        /\ y \in Seq(Bytes) /\ Len(y) = n /\ \A p \in 1 .. n : y[p] = x[p]
        /\ e \in Bytes
    BY <1>1, <1>2, <2>1
  <2> HIDE DEF y, z
  <2>3. /\ Append(y, e) \in Seq(Bytes) /\ Len(Append(y, e)) = n + 1 /\ Append(y, e)[n + 1] = e
        /\ \A p \in 1 .. n : Append(y, e)[p] = y[p]
    BY <2>2, Appended
  <2>4. \A p \in 1 .. n + 1 : z[p] = Append(y, e)[p]
    <3>1. \A p \in 1 .. n + 1 : p # n + 1 => p \in 1 .. n
      BY <1>1
    <3> HIDE DEF e
    <3>2. z[n + 1] = e
      BY <2>1, <2>2, <1>1 DEF e
    <3> QED BY <2>2, <2>3, <3>1, <3>2
  <2>5. z = Append(y, e)
    BY <2>2, <2>3, <2>4, SeqEqual
  <2> QED BY <2>5 DEF z
<1>6. y \in Seq(Bytes) /\ Len(y) = n
  BY <1>1, <1>2
<1> QED BY <1>3, <1>4, <1>5, <1>6 DEF x
-----------------------------------------------------------------------------
(***************************************************************************)
(* InOrderOf lists the elements of a set, each once: the place of one is   *)
(* the number of those with smaller keys.  A child is known by its first   *)
(* byte.                                                                   *)
(***************************************************************************)
LEMMA BytesAreNats == \A c \in Bytes : c \in Nat
<1> SUFFICES ASSUME NEW c \in Bytes PROVE c \in Nat
  OBVIOUS
<1>1. c \in 0 .. 255
  BY BytesAssumption
<1> QED BY <1>1

LEMMA FirstByteFacts ==
  ASSUME NEW s, NEW t \in Children(s)
  PROVE  FirstByte(s, t) \in Bytes /\ FirstByte(s, t) \in Nat /\ next[s][FirstByte(s, t)] = t
<1> DEFINE T == {c \in Bytes : next[s][c] = t}
<1>1. T \in SUBSET Nat /\ T # {}
  BY BytesAreNats DEF Children
<1>2. \E c \in T : \A d \in T : c <= d
  <2> HIDE DEF T
  <2> QED BY <1>1, LeastOfNats
<1>3. \E c \in Bytes : next[s][c] = t /\ \A d \in Bytes : next[s][d] = t => c <= d
  BY <1>2
<1>4. FirstByte(s, t) \in Bytes /\ next[s][FirstByte(s, t)] = t
  BY <1>3, Zenon DEF FirstByte
<1> QED BY <1>4, BytesAreNats

LEMMA InOrderLists ==
  ASSUME NEW T, IsFiniteSet(T), NEW key,
         \A t \in T : key[t] \in Nat,
         \A t, u \in T : key[t] = key[u] => t = u
  PROVE  /\ InOrderOf(T, key) \in Seq(T)
         /\ Len(InOrderOf(T, key)) \in Nat
         /\ \A m, n \in 1 .. Len(InOrderOf(T, key)) :
              InOrderOf(T, key)[m] = InOrderOf(T, key)[n] => m = n
         /\ \A t \in T : \E n \in 1 .. Len(InOrderOf(T, key)) : InOrderOf(T, key)[n] = t
<1> DEFINE N == Cardinality(T)
           Before(t) == {u \in T : key[u] < key[t]}
           rank == [t \in T |-> Cardinality(Before(t))]
           at(n) == CHOOSE t \in T : Cardinality(Before(t)) = n - 1
           B == InOrderOf(T, key)
<1>1. N \in Nat
  BY FS_CardinalityType
<1>2. \A t \in T : key[t] \in Nat /\ \A u \in T : key[t] = key[u] => t = u
  OBVIOUS
<1>3. \A t \in T : IsFiniteSet(Before(t)) /\ Cardinality(Before(t)) \in Nat
  <2> SUFFICES ASSUME NEW t \in T PROVE IsFiniteSet(Before(t)) /\ Cardinality(Before(t)) \in Nat
    OBVIOUS
  <2>1. Before(t) \in SUBSET T
    OBVIOUS
  <2> HIDE DEF Before
  <2> QED BY <2>1, FS_Subset, FS_CardinalityType
<1>4. \A t \in T : Cardinality(Before(t)) < N
  <2> SUFFICES ASSUME NEW t \in T PROVE Cardinality(Before(t)) < N
    OBVIOUS
  <2>1. Before(t) \in SUBSET T /\ t \notin Before(t)
    BY <1>2
  <2> HIDE DEF Before
  <2>2. Cardinality(Before(t)) <= N /\ Cardinality(Before(t)) # N
    <3>1. Cardinality(Before(t)) <= N /\ (N = Cardinality(Before(t)) => T = Before(t))
      BY <2>1, FS_Subset
    <3> QED BY <2>1, <3>1
  <2>3. Cardinality(Before(t)) \in Nat
    BY <1>3
  <2> QED BY <1>1, <2>2, <2>3
<1>5. \A t, u \in T : Cardinality(Before(t)) = Cardinality(Before(u)) => t = u
  <2>1. ASSUME NEW t \in T, NEW u \in T, key[t] < key[u]
        PROVE  Cardinality(Before(t)) # Cardinality(Before(u))
    <3>1. Before(t) \in SUBSET Before(u) /\ t \in Before(u) /\ t \notin Before(t)
      BY <1>2, <2>1
    <3>2. IsFiniteSet(Before(u))
      BY <1>3
    <3> HIDE DEF Before
    <3> QED BY <3>1, <3>2, FS_Subset
  <2>2. ASSUME NEW t \in T, NEW u \in T, Cardinality(Before(t)) = Cardinality(Before(u))
        PROVE  t = u
    <3>1. ~(key[t] < key[u]) /\ ~(key[u] < key[t])
      BY <2>1, <2>2
    <3>2. key[t] = key[u]
      BY <1>2, <3>1
    <3> QED BY <1>2, <3>2
  <2> QED BY <2>2
<1>6. rank \in Surjection(T, 0 .. N - 1)
  <2>1. rank \in [T -> 0 .. N - 1]
    <3>1. \A t \in T : Cardinality(Before(t)) \in 0 .. N - 1
      <4> HIDE DEF N, Before
      <4> QED BY <1>1, <1>3, <1>4
    <3> HIDE DEF N, Before
    <3> QED BY <3>1
  <2>2. \A t, u \in T : rank[t] = rank[u] => t = u
    BY <1>5
  <2>3. rank \in Injection(T, 0 .. N - 1)
    <3> HIDE DEF rank
    <3> QED BY <2>1, <2>2, Fun_IsInj
  <2>4. IsFiniteSet(0 .. N - 1) /\ Cardinality(0 .. N - 1) = N
    <3> DEFINE z == N - 1
    <3>1. 0 \in Int /\ z \in Int
      BY <1>1
    <3>2. IsFiniteSet(0 .. z) /\ Cardinality(0 .. z) = IF 0 > z THEN 0 ELSE z - 0 + 1
      <4> HIDE DEF z
      <4> QED BY <3>1, FS_Interval
    <3> HIDE DEF N
    <3> QED BY <1>1, <3>2
  <2> HIDE DEF rank
  <2>5. Cardinality(T) = Cardinality(0 .. N - 1)
    BY <2>4
  <2> QED BY <2>3, <2>4, <2>5, FS_Injection
<1>7. \A n \in 1 .. N : \E t \in T : Cardinality(Before(t)) = n - 1
  <2> SUFFICES ASSUME NEW n \in 1 .. N PROVE \E t \in T : Cardinality(Before(t)) = n - 1
    OBVIOUS
  <2>1. n - 1 \in 0 .. N - 1
    BY <1>1
  <2>2. \E t \in T : rank[t] = n - 1
    <3> DEFINE M == 0 .. N - 1
    <3> HIDE DEF rank, M
    <3>1. rank \in Surjection(T, M) /\ n - 1 \in M
      BY <1>6, <2>1 DEF M
    <3>2. \A z \in M : \E t \in T : rank[t] = z
      BY <3>1, Fun_SurjectionProperties
    <3> QED BY <3>1, <3>2
  <2> QED BY <2>2
<1>8. \A n \in 1 .. N : at(n) \in T /\ Cardinality(Before(at(n))) = n - 1
  <2> HIDE DEF Before, N
  <2> QED BY <1>7
<1>9. B = [n \in 1 .. N |-> at(n)]
  BY DEF InOrderOf
<1>10. B \in [1 .. N -> T] /\ \A n \in 1 .. N : B[n] = at(n)
  <2> HIDE DEF at, B, N
  <2> QED BY <1>8, <1>9
<1>11. B \in Seq(T) /\ Len(B) = N
  <2> HIDE DEF B, N
  <2> QED BY <1>1, <1>10, SeqDef
<1>12. ASSUME NEW m \in 1 .. N, NEW n \in 1 .. N, B[m] = B[n] PROVE m = n
  <2> HIDE DEF B, Before, at
  <2>1. Cardinality(Before(at(m))) = m - 1 /\ Cardinality(Before(at(n))) = n - 1 /\ at(m) = at(n)
    BY <1>8, <1>10, <1>12
  <2>2. m - 1 = n - 1
    BY <2>1
  <2> HIDE DEF N
  <2> QED BY <1>1, <2>2
<1>13. ASSUME NEW t \in T PROVE \E n \in 1 .. N : B[n] = t
  <2> HIDE DEF B, Before, at, N
  <2> DEFINE n == Cardinality(Before(t)) + 1
  <2>1. n \in 1 .. N /\ n - 1 = Cardinality(Before(t))
    BY <1>1, <1>3, <1>4
  <2>2. Cardinality(Before(at(n))) = Cardinality(Before(t)) /\ at(n) \in T
    BY <1>8, <2>1
  <2>3. at(n) = t
    BY <1>5, <2>2
  <2> QED BY <1>10, <2>1, <2>3
<1> HIDE DEF B, N
<1> QED BY <1>1, <1>11, <1>12, <1>13 DEF B

LEMMA ByFirstByteLists ==
  ASSUME NEW s, NEW T \in SUBSET Children(s), IsFiniteSet(T)
  PROVE  /\ ByFirstByte(s, T) \in Seq(T)
         /\ Len(ByFirstByte(s, T)) \in Nat
         /\ \A m, n \in 1 .. Len(ByFirstByte(s, T)) :
              ByFirstByte(s, T)[m] = ByFirstByte(s, T)[n] => m = n
         /\ \A t \in T : \E n \in 1 .. Len(ByFirstByte(s, T)) : ByFirstByte(s, T)[n] = t
<1> DEFINE key == [t \in T |-> FirstByte(s, t)]
<1>1. \A t \in T : key[t] \in Nat /\ next[s][key[t]] = t
  BY FirstByteFacts
<1>2. \A t, u \in T : key[t] = key[u] => t = u
  BY <1>1
<1>3. ByFirstByte(s, T) = InOrderOf(T, key)
  BY DEF ByFirstByte
<1> HIDE DEF key
<1> QED BY <1>1, <1>2, <1>3, InOrderLists
-----------------------------------------------------------------------------
(***************************************************************************)
(* The inductive invariant.                                                *)
(***************************************************************************)
Building == pc \in {"insert", "failed"}

\* The states whose rows link has completed.
Done == {queue[j] : j \in 1 .. i}
Linked == Done \cup {0}

ExactRow(s) ==
  \A c \in Bytes :
    IF next[s][c] # 0
    THEN word[next[s][c]] = Append(word[s], Folded(c))
    ELSE \A t \in States : word[t] # Append(word[s], Folded(c))

FullRow(s) == \A c \in Bytes : LongestSuffix(next[s][c], Append(word[s], Folded(c)))

Rows == \A s \in States : IF s \in Done THEN FullRow(s) ELSE ExactRow(s)

\* The states are the prefixes of what has been inserted, one each.
Trie ==
  /\ word[0] = <<>>
  /\ \A s, t \in States : word[s] = word[t] => s = t
  /\ \A s \in States : Len(word[s]) <= s
  /\ \A t \in States \ {0} : \E p \in States, c \in Bytes :
       Folded(c) = c /\ word[t] = Append(word[p], c)
  /\ \A t \in States \ {0} : \E j \in 1 .. Len(anchors) : \E n \in 1 .. Len(Inserted(j)) :
       (j < a \/ (j = a /\ n <= k)) /\ word[t] = Prefix(j, n)

Place ==
  /\ Inserting => word[state] = Prefix(a, k)
  /\ \A j \in 1 .. a - 1 : \E s \in States : word[s] = Inserted(j)
  /\ IF Building THEN queue = <<>> /\ i = 0 ELSE a = Len(anchors) + 1 /\ DOMAIN fail = States

\* A state lists the anchors that end there, and from link on those of its
\* suffixes as well.
OutputOf == [j \in 1 .. Len(anchors) |-> Output(j)]
Own(s) == {j \in 1 .. a - 1 : Inserted(j) = word[s]}
Outputs == \A s \in States : Lists(out[s], IF s \in Done THEN Ending(s) ELSE Own(s), OutputOf)

\* f is the state of the longest proper suffix of t.
IsFail(f, t) ==
  /\ f \in States /\ f # t /\ IsSuffix(word[f], word[t])
  /\ \A u \in States : u # t /\ IsSuffix(word[u], word[t]) => Len(word[u]) <= Len(word[f])

\* The queue has the children of the states that are done, shorter words first.
QueueSteps ==
  /\ \A m, n \in 1 .. Len(queue) : m <= n => Len(word[queue[m]]) <= Len(word[queue[n]])
  /\ i < Len(queue) => \A n \in 1 .. Len(queue) : Len(word[queue[n]]) <= Len(word[queue[i + 1]]) + 1

Levels ==
  ~Building =>
    /\ \A m \in 1 .. Len(queue) : queue[m] # 0 /\ IsFail(fail[queue[m]], queue[m])
    /\ \A m, n \in 1 .. Len(queue) : queue[m] = queue[n] => m = n
    /\ QueueSteps
    /\ \A t, p \in States : \A c \in Bytes :
         word[t] = Append(word[p], c) => (t \in Queued <=> p \in Linked)
    /\ pc # "link" => i = Len(queue)

IInv == TypeOK /\ Trie /\ Place /\ Rows /\ Outputs /\ Levels
-----------------------------------------------------------------------------
LEMMA StateTypes ==
  ASSUME TypeOK
  PROVE  /\ anchors \in AnchorLists /\ fold \in BOOLEAN
         /\ Len(anchors) \in Nat /\ MaxStates \in Nat \ {0}
         /\ states \in Nat \ {0} /\ 0 \in States /\ state \in States
         /\ \A s \in States : /\ s \in Nat /\ word[s] \in Seq(Bytes) /\ Len(word[s]) \in Nat
                              /\ \A c \in Bytes : next[s][c] \in States
                              /\ out[s] \in Seq([rule : Nat, length : Nat]) /\ Len(out[s]) \in Nat
         /\ queue \in Seq(States) /\ Len(queue) \in Nat /\ i \in Nat /\ i <= Len(queue)
         /\ \A m \in 1 .. Len(queue) : queue[m] \in States
<1>1. anchors \in AnchorLists /\ fold \in BOOLEAN /\ queue \in Seq(States) /\ state \in States
  BY DEF TypeOK
<1>2. Len(anchors) \in Nat /\ MaxStates \in Nat \ {0}
  <2>1. anchors \in Seq(Anchor)
    BY <1>1, AnchorsAssumption
  <2> QED BY <2>1, LenProperties, AnchorsAssumption
<1>3. states \in Nat \ {0}
  BY <1>2 DEF TypeOK
<1>4. 0 \in States /\ \A s \in States : s \in Nat
  BY <1>3 DEF States
<1>5. ASSUME NEW s \in States
      PROVE  /\ word[s] \in Seq(Bytes) /\ Len(word[s]) \in Nat
             /\ \A c \in Bytes : next[s][c] \in States
             /\ out[s] \in Seq([rule : Nat, length : Nat]) /\ Len(out[s]) \in Nat
  <2>1. word[s] \in Seq(Bytes) /\ out[s] \in Seq([rule : Nat, length : Nat])
    BY DEF TypeOK
  <2>2. \A c \in Bytes : next[s][c] \in States
    BY DEF TypeOK
  <2> QED BY <2>1, <2>2, LenProperties
<1>6. Len(queue) \in Nat /\ \A m \in 1 .. Len(queue) : queue[m] \in States
  BY <1>1, LenProperties, ElementOfSeq
<1>7. i \in Nat /\ i <= Len(queue)
  BY <1>6 DEF TypeOK
<1> QED BY <1>1, <1>2, <1>3, <1>4, <1>5, <1>6, <1>7

\* Before a byte of an anchor is inserted.
LEMMA NextByteFacts ==
  ASSUME TypeOK, Place, Inserting, k < Len(Inserted(a))
  PROVE  /\ a \in 1 .. Len(anchors) /\ k \in Nat /\ k + 1 \in 1 .. Len(Inserted(a))
         /\ NextByte \in Bytes /\ Folded(NextByte) = NextByte
         /\ Append(word[state], NextByte) = Prefix(a, k + 1)
<1>1. a \in 1 .. Len(anchors) /\ k \in Nat
  BY StateTypes DEF TypeOK, Inserting
<1>2. Len(Inserted(a)) \in Nat
  BY <1>1, StateTypes, InsertedBytes
<1>3. k + 1 \in 1 .. Len(Inserted(a)) /\ k \in 0 .. Len(Inserted(a))
  BY <1>1, <1>2
<1>4. NextByte \in Bytes /\ Folded(NextByte) = NextByte
  BY <1>1, <1>3, StateTypes, InsertedBytes DEF NextByte
<1>5. Append(word[state], NextByte) = Prefix(a, k + 1)
  BY <1>1, <1>3, StateTypes, PrefixFacts DEF NextByte, Place
<1> QED BY <1>1, <1>3, <1>4, <1>5

LEMMA AddStateFacts ==
  ASSUME TypeOK, Place, AddState
  PROVE  /\ states < MaxStates /\ state' = states
         /\ States' = States \cup {states} /\ states \notin States
         /\ word' \in [States' -> Seq(Bytes)] /\ word'[states] = Append(word[state], NextByte)
         /\ \A s \in States : word'[s] = word[s]
         /\ out' \in [States' -> Seq([rule : Nat, length : Nat])] /\ out'[states] = <<>>
         /\ \A s \in States : out'[s] = out[s]
         /\ next' \in [States' -> [Bytes -> States']]
         /\ \A c \in Bytes : next'[states][c] = 0
         /\ \A s \in States, c \in Bytes :
              next'[s][c] = IF s = state /\ c \in Letters(NextByte) THEN states ELSE next[s][c]
<1> DEFINE row == [c \in Bytes |-> IF c \in Letters(NextByte) THEN states ELSE next[state][c]]
           w0 == Append(word[state], NextByte)
<1>1. /\ states < MaxStates /\ states \in Nat \ {0} /\ MaxStates \in Nat \ {0} /\ state \in States
  BY StateTypes DEF AddState, HasRoom
<1>2. Uint16(states) = states
  BY <1>1 DEF Uint16
<1>3. /\ States' = 0 .. states /\ 0 .. states = States \cup {states} /\ states \notin States
  <2>1. states' = states + 1
    BY DEF AddState
  <2> QED BY <1>1, <2>1 DEF States
<1>4. \A s \in 0 .. states : s < states <=> s \in States
  BY <1>1 DEF States
<1>5. NextByte \in Bytes
  BY NextByteFacts DEF AddState
<1>6. w0 \in Seq(Bytes)
  BY <1>1, <1>5, StateTypes, Appended
<1>7. word' = [s \in 0 .. states |-> IF s < states THEN word[s] ELSE w0]
  BY DEF AddState, Grown
<1>8. out' = [s \in 0 .. states |-> IF s < states THEN out[s] ELSE <<>>]
  BY DEF AddState, Grown
<1>9. next' = [s \in 0 .. states |->
                 IF s = state THEN row ELSE IF s < states THEN next[s] ELSE NoEdges]
  <2>1. state < states /\ state \in 0 .. states
    BY <1>1 DEF States
  <2> QED BY <1>2, <2>1 DEF AddState, Grown
<1>10. state \in States /\ state # states
  BY <1>1, <1>3
<1> HIDE DEF w0
<1>11. /\ word' \in [States' -> Seq(Bytes)] /\ word'[states] = w0
       /\ \A s \in States : word'[s] = word[s]
  <2>1. \A s \in States : word[s] \in Seq(Bytes)
    BY StateTypes
  <2> QED BY <1>3, <1>4, <1>6, <1>7, <2>1
<1>12. /\ out' \in [States' -> Seq([rule : Nat, length : Nat])] /\ out'[states] = <<>>
       /\ \A s \in States : out'[s] = out[s]
  <2>1. \A s \in States : out[s] \in Seq([rule : Nat, length : Nat])
    BY StateTypes
  <2>2. <<>> \in Seq([rule : Nat, length : Nat])
    BY EmptySeq
  <2> HIDE DEF States
  <2> QED BY <1>3, <1>4, <1>8, <2>1, <2>2
<1>13. NoEdges \in [Bytes -> States'] /\ row \in [Bytes -> States']
       /\ \A s \in States : next[s] \in [Bytes -> States']
  <2>1. 0 \in States' /\ states \in States'
    BY <1>1, <1>3
  <2>2. \A s \in States : next[s] \in [Bytes -> States]
    BY DEF TypeOK
  <2>3. \A s \in States : next[s] \in [Bytes -> States']
    BY <1>3, <2>2
  <2>4. row \in [Bytes -> States']
    BY <1>10, <2>1, <2>3
  <2> QED BY <2>1, <2>3, <2>4 DEF NoEdges
<1>14. next' \in [States' -> [Bytes -> States']]
  <2> HIDE DEF row
  <2> QED BY <1>3, <1>4, <1>9, <1>13
<1>15. \A c \in Bytes : next'[states][c] = 0
  BY <1>3, <1>4, <1>9, <1>10 DEF NoEdges
<1>16. \A s \in States, c \in Bytes :
         next'[s][c] = IF s = state /\ c \in Letters(NextByte) THEN states ELSE next[s][c]
  BY <1>3, <1>4, <1>9
<1>17. state' = states
  BY <1>2 DEF AddState
<1> QED BY <1>1, <1>3, <1>11, <1>12, <1>14, <1>15, <1>16, <1>17 DEF w0

\* Every state of the table but the one insert adds is in the States of before.
LEMMA ChildrenFinite ==
  ASSUME TypeOK, NEW s \in States
  PROVE  /\ Children(s) \in SUBSET (States \ {0})
         /\ \A T \in SUBSET Children(s) : IsFiniteSet(T)
<1>1. Children(s) \in SUBSET (States \ {0})
  BY StateTypes DEF Children
<1>2. IsFiniteSet(States)
  <2> DEFINE z == states - 1
  <2>1. 0 \in Int /\ z \in Int
    BY StateTypes
  <2>2. IsFiniteSet(0 .. z)
    <3> HIDE DEF z
    <3> QED BY <2>1, FS_Interval
  <2> QED BY <2>2 DEF States
<1>3. \A T \in SUBSET Children(s) : T \in SUBSET States
  BY <1>1
<1> QED BY <1>1, <1>2, <1>3, FS_Subset

\* The children of a state, queued.
LEMMA QueuedChildren ==
  ASSUME TypeOK, NEW s \in States, NEW T \in SUBSET Children(s)
  PROVE  /\ ByFirstByte(s, T) \in Seq(States) /\ Len(ByFirstByte(s, T)) \in Nat
         /\ \A m \in 1 .. Len(ByFirstByte(s, T)) : ByFirstByte(s, T)[m] \in T
         /\ \A m, n \in 1 .. Len(ByFirstByte(s, T)) :
              ByFirstByte(s, T)[m] = ByFirstByte(s, T)[n] => m = n
         /\ \A t \in T : \E n \in 1 .. Len(ByFirstByte(s, T)) : ByFirstByte(s, T)[n] = t
<1> DEFINE B == ByFirstByte(s, T)
<1>1. IsFiniteSet(T) /\ T \subseteq States
  BY ChildrenFinite
<1>2. /\ B \in Seq(T) /\ Len(B) \in Nat
      /\ \A m, n \in 1 .. Len(B) : B[m] = B[n] => m = n
      /\ \A t \in T : \E n \in 1 .. Len(B) : B[n] = t
  BY <1>1, ByFirstByteLists
<1> HIDE DEF B
<1>3. B \in Seq(States) /\ \A m \in 1 .. Len(B) : B[m] \in T
  BY <1>1, <1>2, SeqMonotonic, ElementOfSeq
<1> QED BY <1>2, <1>3 DEF B

LEMMA OutputType ==
  ASSUME TypeOK, NEW j \in 1 .. Len(anchors)
  PROVE  Output(j) \in [rule : Nat, length : Nat]
<1>1. anchors[j].rule \in Nat /\ anchors[j].text \in Seq(Bytes)
  BY StateTypes, AnchorTypes
<1>2. Len(anchors[j].text) \in Nat /\ MaxStates \in Nat \ {0}
  BY <1>1, StateTypes, LenProperties
<1>3. Uint16(Len(anchors[j].text)) \in Nat
  <2> DEFINE n == Len(anchors[j].text)
  <2>1. n \in Nat /\ MaxStates \in Nat /\ MaxStates > 0
    BY <1>2
  <2> HIDE DEF n
  <2>2. n % MaxStates \in 0 .. MaxStates - 1
    BY <2>1
  <2>3. n % MaxStates \in Nat
    BY <2>1, <2>2
  <2> QED BY <2>3 DEF n, Uint16
<1> QED BY <1>1, <1>3 DEF Output

\* The effect of link on a state.
Current == queue[i + 1]
Fresh == Children(Current) \ Queued

LEMMA LinkFacts ==
  ASSUME TypeOK, Place, LinkState
  PROVE  /\ i + 1 \in 1 .. Len(queue) /\ Current \in States /\ fail[Current] \in States
         /\ a = Len(anchors) + 1 /\ ~Building /\ pc = "link" /\ pc' = "link"
         /\ \A t \in States : fail'[t] = IF t \in Fresh THEN next[fail[Current]][FirstByte(Current, t)] ELSE fail[t]
         /\ out' = [out EXCEPT ![Current] = out[Current] \o out[fail[Current]]]
         /\ next' \in [States -> [Bytes -> States]]
         /\ \A c \in Bytes : next'[Current][c] = IF next[Current][c] = 0 THEN next[fail[Current]][c] ELSE next[Current][c]
         /\ \A t \in States \ {Current} : next'[t] = next[t]
         /\ queue' = queue \o ByFirstByte(Current, Fresh) /\ i' = i + 1
         /\ DOMAIN fail = States /\ DOMAIN fail' = States
<1>1. i + 1 \in 1 .. Len(queue)
  BY StateTypes DEF LinkState
<1>2. Current \in States
  BY <1>1, StateTypes DEF Current
<1>3. pc = "link" /\ pc' = "link" /\ ~Building
  BY DEF LinkState, Building
<1>4. a = Len(anchors) + 1 /\ DOMAIN fail = States
  BY <1>3 DEF Place
<1>5. fail[Current] \in States
  BY <1>2, <1>4 DEF TypeOK
<1>6. fail' = [t \in States |-> IF t \in Fresh THEN next[fail[Current]][FirstByte(Current, t)] ELSE fail[t]]
  BY DEF LinkState, NewFail, FailRow, Current, Fresh
<1>7. out' = [out EXCEPT ![Current] = out[Current] \o out[fail[Current]]]
  BY DEF LinkState, AllOutputs, Current
<1> DEFINE row == [c \in Bytes |-> IF next[Current][c] = 0 THEN next[fail[Current]][c] ELSE next[Current][c]]
<1>8. next' = [next EXCEPT ![Current] = row]
  <2>1. next \in [States -> [Bytes -> States]]
    BY DEF TypeOK
  <2> QED BY <1>2, <2>1 DEF LinkState, FailRow, Current
<1>9. row \in [Bytes -> States]
  BY <1>2, <1>5, StateTypes
<1>10. /\ next' \in [States -> [Bytes -> States]]
       /\ next'[Current] = row /\ \A t \in States \ {Current} : next'[t] = next[t]
  <2>1. next \in [States -> [Bytes -> States]]
    BY DEF TypeOK
  <2> HIDE DEF row, States
  <2> QED BY <1>2, <1>8, <1>9, <2>1
<1>11. queue' = queue \o ByFirstByte(Current, Fresh) /\ i' = i + 1
  BY DEF LinkState, Current, Fresh
<1> QED BY <1>1, <1>2, <1>3, <1>4, <1>5, <1>6, <1>7, <1>10, <1>11

LEMMA EndFacts ==
  ASSUME TypeOK, EndAnchor
  PROVE  /\ a \in 1 .. Len(anchors) /\ pc' = pc /\ pc = "insert" /\ k = Len(Inserted(a))
         /\ out'[state] = Append(out[state], Output(a))
         /\ out' \in [States -> Seq([rule : Nat, length : Nat])]
         /\ \A s \in States \ {state} : out'[s] = out[s]
<1>1. a \in 1 .. Len(anchors)
  BY StateTypes DEF EndAnchor, Inserting, TypeOK
<1>2. out' = [out EXCEPT ![state] = Append(out[state], Output(a))]
  BY DEF EndAnchor
<1>3. Append(out[state], Output(a)) \in Seq([rule : Nat, length : Nat])
  BY <1>1, StateTypes, OutputType, AppendProperties
<1>4. out \in [States -> Seq([rule : Nat, length : Nat])] /\ state \in States
  BY DEF TypeOK
<1>5. /\ out'[state] = Append(out[state], Output(a))
      /\ out' \in [States -> Seq([rule : Nat, length : Nat])]
      /\ \A s \in States \ {state} : out'[s] = out[s]
  BY <1>2, <1>3, <1>4
<1> QED BY <1>1, <1>5 DEF EndAnchor, Inserting

LEMMA TypeKept == TypeOK /\ Place /\ [Next]_vars => TypeOK'
<1> SUFFICES ASSUME TypeOK, Place, [Next]_vars PROVE TypeOK'
  OBVIOUS
<1>1. anchors' = anchors /\ fold' = fold
  BY DEF Next, Build, vars, FollowEdge, AddState, TooManyStates, EndAnchor, StartLink, LinkState,
         Freeze, Terminated
<1>2. \A j : Inserted(j)' = Inserted(j)
  BY <1>1 DEF Inserted
<1>3. CASE FollowEdge
  <2>1. k' = k + 1 /\ state' = next[state][NextByte] /\ Inserting /\ k < Len(Inserted(a))
        /\ UNCHANGED <<pc, a, tableVars, linkVars>>
    BY <1>3 DEF FollowEdge
  <2>2. k + 1 \in Nat /\ k + 1 <= Len(Inserted(a)) /\ next[state][NextByte] \in States
    BY <2>1, NextByteFacts, StateTypes
  <2>3. States' = States /\ Inserting' = Inserting
    BY <1>1, <2>1 DEF States, tableVars, Inserting
  <2> HIDE DEF States
  <2> QED BY <1>1, <1>2, <2>1, <2>2, <2>3 DEF TypeOK, tableVars, linkVars
<1>4. CASE AddState
  <2>1. k' = k + 1 /\ states' = states + 1 /\ Inserting /\ k < Len(Inserted(a))
        /\ UNCHANGED <<pc, a, linkVars>>
    BY <1>4 DEF AddState
  <2>2. k + 1 \in Nat /\ k + 1 <= Len(Inserted(a)) /\ states + 1 \in 1 .. MaxStates
    <3>1. k \in Nat /\ k + 1 \in 1 .. Len(Inserted(a)) /\ states < MaxStates
      BY <1>4, <2>1, NextByteFacts, AddStateFacts
    <3>2. states \in Nat \ {0} /\ MaxStates \in Nat \ {0}
      BY StateTypes
    <3> QED BY <3>1, <3>2
  <2>3. States \subseteq States' /\ state' \in States'
    BY <1>4, AddStateFacts
  <2>4. queue \in Seq(States')
    BY <2>3, StateTypes, SeqMonotonic
  <2>5. Inserting' = Inserting
    BY <1>1, <2>1 DEF Inserting
  <2>6. next' \in [States' -> [Bytes -> States']] /\ word' \in [States' -> Seq(Bytes)]
        /\ out' \in [States' -> Seq([rule : Nat, length : Nat])]
    BY <1>4, AddStateFacts
  <2>7. fail' = fail /\ queue' = queue /\ i' = i
    BY <2>1 DEF linkVars
  <2>8. DOMAIN fail' \subseteq States' /\ \A s \in DOMAIN fail' : fail'[s] \in States'
    BY <2>3, <2>7 DEF TypeOK
  <2>9. i' \in 0 .. Len(queue') /\ pc' \in {"insert", "link", "ready", "failed", "scan", "scanned"}
        /\ a' \in 1 .. Len(anchors') + 1
    BY <1>1, <2>1, <2>7 DEF TypeOK
  <2>10. anchors' \in AnchorLists /\ fold' \in BOOLEAN
    BY <1>1 DEF TypeOK
  <2> HIDE DEF States
  <2> QED BY <1>2, <2>1, <2>2, <2>3, <2>4, <2>5, <2>6, <2>7, <2>8, <2>9, <2>10 DEF TypeOK
<1>5. CASE EndAnchor
  <2>1. a' = a + 1 /\ k' = 0 /\ state' = 0 /\ UNCHANGED <<pc, states, next, word, linkVars>>
    BY <1>5 DEF EndAnchor
  <2>2. a + 1 \in 1 .. Len(anchors) + 1 /\ 0 \in States
    <3>1. a \in 1 .. Len(anchors) /\ Len(anchors) \in Nat /\ 0 \in States
      BY <1>5, EndFacts, StateTypes
    <3> QED BY <3>1
  <2>3. States' = States
    BY <2>1 DEF States
  <2>4. out' \in [States -> Seq([rule : Nat, length : Nat])]
    BY <1>5, EndFacts
  <2>5. Inserting' => 0 <= Len(Inserted(a)')
    <3> SUFFICES ASSUME Inserting' PROVE 0 <= Len(Inserted(a'))
      BY <1>2 DEF Inserted
    <3>1. a' \in 1 .. Len(anchors)
      BY <1>1, <2>1, <2>2, StateTypes DEF Inserting
    <3> QED BY <3>1, StateTypes, InsertedBytes
  <2> HIDE DEF States
  <2> QED BY <1>1, <2>1, <2>2, <2>3, <2>4, <2>5 DEF TypeOK, linkVars
<1>6. CASE StartLink
  <2>1. /\ pc' = "link" /\ fail' = [s \in States |-> 0] /\ queue' = ByFirstByte(0, Children(0)) /\ i' = 0
        /\ UNCHANGED <<insertVars, tableVars>>
    BY <1>6 DEF StartLink
  <2>2. States' = States /\ ~Inserting'
    BY <2>1 DEF States, tableVars, Inserting
  <2>3. queue' \in Seq(States) /\ Len(queue') \in Nat
    BY <2>1, StateTypes, QueuedChildren
  <2>4. DOMAIN fail' \subseteq States /\ \A s \in DOMAIN fail' : fail'[s] \in States
    BY <2>1, StateTypes
  <2>5. i' \in 0 .. Len(queue')
    BY <2>1, <2>3
  <2> HIDE DEF States
  <2> QED BY <1>1, <2>1, <2>2, <2>3, <2>4, <2>5 DEF TypeOK, tableVars, insertVars
<1>7. CASE LinkState
  <2>1. UNCHANGED <<insertVars, states, word>> /\ States' = States
    BY <1>7 DEF LinkState, States
  <2>2. /\ i + 1 \in 1 .. Len(queue) /\ Current \in States /\ fail[Current] \in States /\ pc' = "link" /\ i' = i + 1
        /\ next' \in [States -> [Bytes -> States]] /\ queue' = queue \o ByFirstByte(Current, Fresh)
        /\ out' = [out EXCEPT ![Current] = out[Current] \o out[fail[Current]]]
        /\ DOMAIN fail = States /\ DOMAIN fail' = States
        /\ \A t \in States : fail'[t] = IF t \in Fresh THEN next[fail[Current]][FirstByte(Current, t)] ELSE fail[t]
    BY <1>7, LinkFacts
  <2>3. \A t \in States : fail'[t] \in States
    <3> SUFFICES ASSUME NEW t \in States PROVE fail'[t] \in States
      OBVIOUS
    <3>1. fail'[t] = IF t \in Fresh THEN next[fail[Current]][FirstByte(Current, t)] ELSE fail[t]
      BY <2>2
    <3>2. t \in Fresh => FirstByte(Current, t) \in Bytes
      BY FirstByteFacts DEF Fresh
    <3>3. fail[t] \in States
      BY <2>2 DEF TypeOK
    <3> QED BY <2>2, <3>1, <3>2, <3>3, StateTypes
  <2>4. out' \in [States -> Seq([rule : Nat, length : Nat])]
    <3>1. out[Current] \o out[fail[Current]] \in Seq([rule : Nat, length : Nat])
      BY <2>2, StateTypes, ConcatProperties
    <3>2. out \in [States -> Seq([rule : Nat, length : Nat])]
      BY DEF TypeOK
    <3> QED BY <2>2, <3>1, <3>2
  <2>5. queue' \in Seq(States) /\ i' \in 0 .. Len(queue')
    <3>1. ByFirstByte(Current, Fresh) \in Seq(States) /\ Len(ByFirstByte(Current, Fresh)) \in Nat
      BY <2>2, QueuedChildren DEF Fresh
    <3>2. queue' \in Seq(States) /\ Len(queue') = Len(queue) + Len(ByFirstByte(Current, Fresh))
      BY <2>2, <3>1, StateTypes, ConcatProperties
    <3> QED BY <2>2, <3>1, <3>2, StateTypes
  <2>6. ~Inserting'
    BY <2>2 DEF Inserting
  <2> HIDE DEF States
  <2> QED BY <1>1, <2>1, <2>2, <2>3, <2>4, <2>5, <2>6 DEF TypeOK, insertVars
<1>8. CASE UNCHANGED <<insertVars, tableVars, linkVars>>
           /\ pc' \in {"failed", "ready"} \cup {pc}
  <2>1. States' = States
    BY <1>8 DEF States, tableVars
  <2>2. Inserting' => Inserting
    BY <1>1, <1>8 DEF Inserting, insertVars
  <2> HIDE DEF States
  <2> QED BY <1>1, <1>2, <1>8, <2>1, <2>2 DEF TypeOK, insertVars, tableVars, linkVars
<1> QED
  BY <1>3, <1>4, <1>5, <1>6, <1>7, <1>8
     DEF Next, Build, vars, TooManyStates, Freeze, Terminated

-----------------------------------------------------------------------------
LEMMA InitIInv == Init => IInv
<1> SUFFICES ASSUME Init PROVE IInv
  OBVIOUS
<1>1. /\ anchors \in AnchorLists /\ fold \in BOOLEAN /\ pc = "insert" /\ a = 1 /\ k = 0 /\ state = 0
      /\ states = 1 /\ next = [s \in {0} |-> NoEdges] /\ out = [s \in {0} |-> <<>>]
      /\ word = [s \in {0} |-> <<>>] /\ fail = [s \in {0} |-> 0] /\ queue = <<>> /\ i = 0
  BY DEF Init
<1>2. States = {0} /\ MaxStates \in Nat \ {0}
  BY <1>1, AnchorsAssumption DEF States
<1>3. anchors \in Seq(Anchor) /\ Len(anchors) \in Nat
  <2>1. anchors \in Seq(Anchor)
    BY <1>1, AnchorsAssumption
  <2> QED BY <2>1, LenProperties
<1>4. word[0] = <<>> /\ out[0] = <<>> /\ \A c \in Bytes : next[0][c] = 0
  BY <1>1 DEF NoEdges
<1>5. <<>> \in Seq(Bytes) /\ Len(<<>>) = 0 /\ <<>> \in Seq([rule : Nat, length : Nat]) /\ <<>> \in Seq({0})
  BY EmptySeq
<1>6. TypeOK
  <2>1. word \in [States -> Seq(Bytes)] /\ out \in [States -> Seq([rule : Nat, length : Nat])]
    BY <1>1, <1>2, <1>5
  <2>2. next \in [States -> [Bytes -> States]]
    BY <1>1, <1>2 DEF NoEdges
  <2>3. Inserting => k <= Len(Inserted(a))
    <3> SUFFICES ASSUME Inserting PROVE 0 <= Len(Inserted(a))
      BY <1>1
    <3>1. a \in 1 .. Len(anchors)
      BY <1>1, <1>3 DEF Inserting
    <3> QED BY <1>1, <3>1, InsertedBytes
  <2>4. a \in 1 .. Len(anchors) + 1 /\ states \in 1 .. MaxStates /\ k \in Nat
    BY <1>1, <1>2, <1>3
  <2>5. DOMAIN fail \subseteq States /\ \A s \in DOMAIN fail : fail[s] \in States
    BY <1>1, <1>2
  <2>6. state \in States /\ queue \in Seq(States) /\ i \in 0 .. Len(queue)
    BY <1>1, <1>2, <1>5
  <2> QED BY <1>1, <2>1, <2>2, <2>3, <2>4, <2>5, <2>6 DEF TypeOK
<1>7. Trie
  BY <1>2, <1>4, <1>5 DEF Trie
<1>8. Place
  <2>1. Inserting => Prefix(1, 0) = <<>>
    <3> SUFFICES ASSUME Inserting PROVE Prefix(1, 0) = <<>>
      OBVIOUS
    <3>1. 1 \in 1 .. Len(anchors)
      BY <1>1, <1>3 DEF Inserting
    <3>2. 0 \in 0 .. Len(Inserted(1))
      BY <1>1, <3>1, InsertedBytes
    <3> QED BY <1>1, <3>1, <3>2, PrefixFacts
  <2>2. 1 .. a - 1 = {}
    BY <1>1
  <2> QED BY <1>1, <1>4, <2>1, <2>2 DEF Place, Building
<1>9. Done = {} /\ Own(0) = {}
  BY <1>1 DEF Done, Own
<1>10. Rows
  <2>1. ASSUME NEW c \in Bytes PROVE <<>> # Append(<<>>, Folded(c))
    BY <1>1, <1>5, FoldedByte, Appended
  <2> QED BY <1>2, <1>4, <1>9, <2>1 DEF Rows, ExactRow
<1>11. Outputs
  BY <1>2, <1>4, <1>9, ListsNothing DEF Outputs
<1>12. Levels
  BY <1>1 DEF Levels, Building
<1> QED BY <1>6, <1>7, <1>8, <1>10, <1>11, <1>12 DEF IInv

\* While anchors are inserted no row is linked.
LEMMA NoneDone ==
  ASSUME Place, Building
  PROVE  Done = {}
BY DEF Place, Done

LEMMA NewWord ==
  ASSUME TypeOK, Place, Rows, AddState
  PROVE  \A t \in States : word[t] # Append(word[state], NextByte)
<1>1. Building /\ state \in States
  BY StateTypes DEF AddState, Inserting, Building
<1>2. ExactRow(state)
  BY <1>1, NoneDone DEF Rows
<1>3. next[state][NextByte] = 0 /\ NextByte \in Bytes /\ Folded(NextByte) = NextByte
  BY NextByteFacts DEF AddState
<1> QED BY <1>2, <1>3 DEF ExactRow

LEMMA TrieKept == TypeOK /\ Trie /\ Place /\ Rows /\ [Next]_vars => Trie'
<1> SUFFICES ASSUME TypeOK, Trie, Place, Rows, [Next]_vars PROVE Trie'
  OBVIOUS
<1>1. anchors' = anchors /\ fold' = fold
  BY DEF Next, Build, vars, FollowEdge, AddState, TooManyStates, EndAnchor, StartLink, LinkState,
         Freeze, Terminated
<1>2. /\ \A j : Inserted(j)' = Inserted(j)
      /\ \A j, n : Prefix(j, n)' = Prefix(j, n)
      /\ \A c : Folded(c)' = Folded(c)
  BY <1>1 DEF Inserted, Prefix, Folded
<1>3. CASE AddState
  <2> DEFINE b == NextByte
  <2>1. /\ States' = States \cup {states} /\ states \notin States
        /\ word'[states] = Append(word[state], b) /\ \A s \in States : word'[s] = word[s]
    BY <1>3, AddStateFacts
  <2>2. /\ a \in 1 .. Len(anchors) /\ k \in Nat /\ k + 1 \in 1 .. Len(Inserted(a)) /\ b \in Bytes
        /\ Folded(b) = b /\ Append(word[state], b) = Prefix(a, k + 1)
        /\ a' = a /\ k' = k + 1
    BY <1>3, NextByteFacts DEF AddState
  <2>3. \A t \in States : word[t] # Append(word[state], b)
    BY <1>3, NewWord
  <2>4. /\ 0 \in States /\ state \in States /\ states \in Nat /\ state < states
        /\ Len(Append(word[state], b)) = Len(word[state]) + 1 /\ Len(word[state]) \in Nat
    <3>1. 0 \in States /\ state \in States /\ states \in Nat /\ word[state] \in Seq(Bytes)
      BY StateTypes
    <3>2. state < states
      BY <3>1 DEF States
    <3> QED BY <2>2, <3>1, <3>2, Appended
  <2> HIDE DEF b, States
  <2>5. word'[0] = <<>>
    BY <2>1, <2>4 DEF Trie
  <2>6. \A s, t \in States' : word'[s] = word'[t] => s = t
    BY <2>1, <2>3 DEF Trie
  <2>7. \A s \in States' : Len(word'[s]) <= s
    <3>1. Len(word[state]) <= state /\ state \in Nat
      BY <2>4, StateTypes DEF Trie
    <3>2. Len(word[state]) + 1 <= states
      BY <2>4, <3>1
    <3> QED BY <2>1, <2>4, <3>2 DEF Trie
  <2>8. \A t \in States' \ {0} : \E p \in States', c \in Bytes :
          Folded(c) = c /\ word'[t] = Append(word'[p], c)
    <3> SUFFICES ASSUME NEW t \in States' \ {0}
                 PROVE  \E p \in States', c \in Bytes : Folded(c) = c /\ word'[t] = Append(word'[p], c)
      OBVIOUS
    <3>1. CASE t = states
      BY <2>1, <2>2, <2>4, <3>1
    <3>2. CASE t \in States
      <4>1. PICK p \in States, c \in Bytes : Folded(c) = c /\ word[t] = Append(word[p], c)
        BY <3>2 DEF Trie
      <4> QED BY <2>1, <3>2, <4>1
    <3> QED BY <2>1, <3>1, <3>2
  <2>9. \A t \in States' \ {0} : \E j \in 1 .. Len(anchors) : \E n \in 1 .. Len(Inserted(j)) :
          (j < a \/ (j = a /\ n <= k + 1)) /\ word'[t] = Prefix(j, n)
    <3> SUFFICES ASSUME NEW t \in States' \ {0}
                 PROVE  \E j \in 1 .. Len(anchors) : \E n \in 1 .. Len(Inserted(j)) :
                          (j < a \/ (j = a /\ n <= k + 1)) /\ word'[t] = Prefix(j, n)
      OBVIOUS
    <3>1. CASE t = states
      BY <2>1, <2>2, <3>1
    <3>2. CASE t \in States
      <4>1. PICK j \in 1 .. Len(anchors) : \E n \in 1 .. Len(Inserted(j)) :
              (j < a \/ (j = a /\ n <= k)) /\ word[t] = Prefix(j, n)
        BY <3>2 DEF Trie
      <4>2. PICK n \in 1 .. Len(Inserted(j)) : (j < a \/ (j = a /\ n <= k)) /\ word[t] = Prefix(j, n)
        BY <4>1
      <4>3. n <= k => n <= k + 1
        BY <2>2
      <4> QED BY <2>1, <3>2, <4>2, <4>3
    <3> QED BY <2>1, <3>1, <3>2
  <2> QED BY <1>1, <1>2, <2>2, <2>5, <2>6, <2>7, <2>8, <2>9 DEF Trie
<1>4. CASE /\ UNCHANGED <<states, word>>
           /\ \A j \in 1 .. Len(anchors) : \A n \in 1 .. Len(Inserted(j)) :
                (j < a \/ (j = a /\ n <= k)) => (j < a' \/ (j = a' /\ n <= k'))
  <2>1. States' = States
    BY <1>4 DEF States
  <2> HIDE DEF States
  <2>2. \A t \in States \ {0} : \E j \in 1 .. Len(anchors) : \E n \in 1 .. Len(Inserted(j)) :
          (j < a' \/ (j = a' /\ n <= k')) /\ word[t] = Prefix(j, n)
    <3> SUFFICES ASSUME NEW t \in States \ {0}
                 PROVE  \E j \in 1 .. Len(anchors) : \E n \in 1 .. Len(Inserted(j)) :
                          (j < a' \/ (j = a' /\ n <= k')) /\ word[t] = Prefix(j, n)
      OBVIOUS
    <3>1. PICK j \in 1 .. Len(anchors) : \E n \in 1 .. Len(Inserted(j)) :
            (j < a \/ (j = a /\ n <= k)) /\ word[t] = Prefix(j, n)
      BY DEF Trie
    <3> QED BY <1>4, <3>1
  <2> QED BY <1>1, <1>2, <1>4, <2>1, <2>2 DEF Trie
<1>5. CASE FollowEdge
  <2>1. k' = k + 1 /\ a' = a /\ UNCHANGED <<states, word>> /\ k \in Nat
    BY <1>5, NextByteFacts DEF FollowEdge, tableVars
  <2> QED BY <1>4, <2>1
<1>6. CASE EndAnchor
  <2>1. a' = a + 1 /\ a \in Nat /\ UNCHANGED <<states, word>> /\ Len(anchors) \in Nat
    BY <1>6, EndFacts, StateTypes DEF EndAnchor
  <2>2. \A j \in 1 .. Len(anchors) : (j < a \/ j = a) => j < a'
    BY <2>1
  <2> QED BY <1>4, <2>1, <2>2
<1>7. CASE UNCHANGED <<states, word, a, k>>
  BY <1>4, <1>7
<1> QED
  BY <1>3, <1>5, <1>6, <1>7
     DEF Next, Build, vars, TooManyStates, StartLink, LinkState, Freeze, Terminated, insertVars, tableVars

LEMMA SameAnchors ==
  ASSUME [Next]_vars
  PROVE  /\ anchors' = anchors /\ fold' = fold
         /\ \A j : Inserted(j)' = Inserted(j)
         /\ \A j, n : Prefix(j, n)' = Prefix(j, n)
         /\ \A c : Folded(c)' = Folded(c)
         /\ \A j : Output(j)' = Output(j)
<1>1. anchors' = anchors /\ fold' = fold
  BY DEF Next, Build, vars, FollowEdge, AddState, TooManyStates, EndAnchor, StartLink, LinkState,
         Freeze, Terminated
<1> QED BY <1>1 DEF Inserted, Prefix, Folded, Output

\* Place of the next state, with the anchors of this one.
LEMMA NextPlace ==
  ASSUME [Next]_vars,
         Inserting' => word'[state'] = Prefix(a', k'),
         \A j \in 1 .. a' - 1 : \E s \in States' : word'[s] = Inserted(j),
         IF Building' THEN queue' = <<>> /\ i' = 0 ELSE a' = Len(anchors) + 1 /\ DOMAIN fail' = States'
  PROVE  Place'
<1>1. anchors' = anchors /\ fold' = fold
  BY SameAnchors
<1>2. Prefix(a, k)' = Prefix(a', k')
  BY <1>1 DEF Prefix, Inserted
<1>3. \A j \in 1 .. a' - 1 : \E s \in States' : word'[s] = Inserted(j)'
  BY <1>1, SameAnchors
<1> QED BY <1>1, <1>2, <1>3 DEF Place

LEMMA PlaceKept == TypeOK /\ Trie /\ Place /\ Rows /\ [Next]_vars => Place'
<1> SUFFICES ASSUME TypeOK, Trie, Place, Rows, [Next]_vars PROVE Place'
  OBVIOUS
<1>1. CASE FollowEdge
  <2>1. /\ Inserting /\ k < Len(Inserted(a)) /\ next[state][NextByte] # 0
        /\ state' = next[state][NextByte] /\ k' = k + 1 /\ pc' = pc /\ a' = a
        /\ UNCHANGED <<tableVars, linkVars>>
    BY <1>1 DEF FollowEdge
  <2>2. state \in States /\ Building /\ Building'
    BY <2>1, StateTypes DEF Inserting, Building
  <2>3. ExactRow(state)
    BY <2>2, NoneDone DEF Rows
  <2>4. word[state'] = Append(word[state], NextByte)
    BY <2>1, <2>3, NextByteFacts DEF ExactRow
  <2>5. word'[state'] = Prefix(a', k')
    <3>1. word[state'] = Prefix(a, k + 1)
      BY <2>1, <2>4, NextByteFacts
    <3> QED BY <2>1, <3>1 DEF tableVars
  <2>6. States' = States
    BY <2>1 DEF States, tableVars
  <2>7. \A j \in 1 .. a' - 1 : \E s \in States' : word'[s] = Inserted(j)
    <3> HIDE DEF States
    <3> QED BY <2>1, <2>6 DEF Place, tableVars
  <2>8. queue' = <<>> /\ i' = 0
    BY <2>1, <2>2 DEF Place, linkVars
  <2> QED BY <2>2, <2>5, <2>7, <2>8, NextPlace
<1>2. CASE AddState
  <2>1. k' = k + 1 /\ a' = a /\ UNCHANGED linkVars /\ Building /\ Building'
    BY <1>2 DEF AddState, Inserting, Building
  <2>2. word'[state'] = Append(word[state], NextByte)
    BY <1>2, AddStateFacts
  <2>3. word'[state'] = Prefix(a', k')
    <3>1. word'[state'] = Prefix(a, k + 1)
      BY <1>2, <2>2, NextByteFacts DEF AddState
    <3> QED BY <2>1, <3>1
  <2>4. \A j \in 1 .. a' - 1 : \E s \in States' : word'[s] = Inserted(j)
    <3>1. States' = States \cup {states} /\ \A s \in States : word'[s] = word[s]
      BY <1>2, AddStateFacts
    <3> HIDE DEF States
    <3> QED BY <2>1, <3>1 DEF Place
  <2>5. queue' = <<>> /\ i' = 0
    BY <2>1 DEF Place, linkVars
  <2> QED BY <2>1, <2>3, <2>4, <2>5, NextPlace
<1>3. CASE EndAnchor
  <2>1. a \in 1 .. Len(anchors) /\ pc' = pc /\ pc = "insert" /\ k = Len(Inserted(a))
    BY <1>3, EndFacts
  <2>2. a' = a + 1 /\ k' = 0 /\ state' = 0 /\ UNCHANGED <<states, word, linkVars>>
    BY <1>3 DEF EndAnchor
  <2>3. Inserting' => word'[state'] = Prefix(a', k')
    <3> SUFFICES ASSUME Inserting' PROVE word[0] = Prefix(a + 1, 0)
      BY <2>2
    <3>1. a + 1 \in 1 .. Len(anchors)
      <4>1. a + 1 <= Len(anchors) /\ Len(anchors) \in Nat
        BY <2>2, StateTypes, SameAnchors DEF Inserting
      <4> QED BY <2>1, <4>1
    <3>2. 0 \in 0 .. Len(Inserted(a + 1))
      BY <3>1, StateTypes, InsertedBytes
    <3> QED BY <3>1, <3>2, StateTypes, PrefixFacts DEF Trie
  <2>4. word[state] = Inserted(a)
    <3>1. word[state] = Prefix(a, k)
      BY <1>3 DEF EndAnchor, Place
    <3>2. k \in 0 .. Len(Inserted(a))
      BY <2>1, StateTypes, InsertedBytes
    <3> QED BY <2>1, <3>1, <3>2, StateTypes, PrefixFacts
  <2>5. States' = States
    BY <2>2 DEF States
  <2>6. \A j \in 1 .. a' - 1 : \E s \in States' : word'[s] = Inserted(j)
    <3>1. 1 .. a' - 1 = (1 .. a - 1) \cup {a}
      BY <2>1, <2>2
    <3>2. state \in States
      BY StateTypes
    <3> HIDE DEF States
    <3> QED BY <2>2, <2>4, <2>5, <3>1, <3>2 DEF Place
  <2>7. Building' /\ queue' = <<>> /\ i' = 0
    BY <2>1, <2>2 DEF Place, linkVars, Building
  <2> QED BY <2>3, <2>6, <2>7, NextPlace
<1>4. CASE StartLink
  <2>1. /\ pc = "insert" /\ a > Len(anchors) /\ pc' = "link" /\ fail' = [s \in States |-> 0]
        /\ UNCHANGED <<insertVars, tableVars>>
    BY <1>4 DEF StartLink
  <2>2. a' = Len(anchors) + 1
    BY <2>1, StateTypes DEF TypeOK, insertVars
  <2>3. States' = States /\ ~Inserting' /\ ~Building' /\ DOMAIN fail' = States
    BY <2>1 DEF States, tableVars, Inserting, Building
  <2>4. \A j \in 1 .. a' - 1 : \E s \in States' : word'[s] = Inserted(j)
    <3> HIDE DEF States
    <3> QED BY <2>1, <2>3 DEF Place, insertVars, tableVars
  <2> QED BY <2>2, <2>3, <2>4, NextPlace
<1>5. CASE LinkState
  <2>1. /\ a = Len(anchors) + 1 /\ pc' = "link" /\ DOMAIN fail' = States
    BY <1>5, LinkFacts
  <2>2. a' = a /\ states' = states /\ word' = word
    BY <1>5 DEF LinkState, insertVars
  <2>3. States' = States /\ ~Inserting' /\ ~Building'
    BY <2>1, <2>2 DEF States, Inserting, Building
  <2>4. \A j \in 1 .. a' - 1 : \E s \in States' : word'[s] = Inserted(j)
    <3> HIDE DEF States
    <3> QED BY <2>2, <2>3 DEF Place
  <2> QED BY <2>1, <2>2, <2>3, <2>4, NextPlace
<1>6. CASE TooManyStates \/ Freeze \/ UNCHANGED vars
  <2>1. UNCHANGED <<insertVars, tableVars, linkVars>>
    BY <1>6 DEF TooManyStates, Freeze, vars
  <2>2. Building' = Building
    BY <1>6 DEF TooManyStates, Freeze, vars, Building, Inserting
  <2>3. Inserting' => Inserting
    BY <1>6, SameAnchors DEF TooManyStates, Freeze, vars, Inserting, insertVars
  <2>4. States' = States
    BY <2>1 DEF States, tableVars
  <2>5. Inserting' => word'[state'] = Prefix(a', k')
    BY <2>1, <2>3 DEF Place, insertVars, tableVars
  <2>6. \A j \in 1 .. a' - 1 : \E s \in States' : word'[s] = Inserted(j)
    <3> HIDE DEF States
    <3> QED BY <2>1, <2>4 DEF Place, insertVars, tableVars
  <2>7. IF Building' THEN queue' = <<>> /\ i' = 0 ELSE a' = Len(anchors) + 1 /\ DOMAIN fail' = States'
    <3> HIDE DEF States
    <3> QED BY <2>1, <2>2, <2>4 DEF Place, insertVars, linkVars
  <2> QED BY <2>5, <2>6, <2>7, NextPlace
<1> QED BY <1>1, <1>2, <1>3, <1>4, <1>5, <1>6 DEF Next, Build, Terminated
-----------------------------------------------------------------------------
(***************************************************************************)
(* Where a byte leads from a state.                                        *)
(***************************************************************************)
\* A child of a state is the longest suffix of what leads to it.
LEMMA ChildIsLongest ==
  ASSUME TypeOK, NEW s \in States, ExactRow(s), NEW c \in Bytes, next[s][c] # 0
  PROVE  LongestSuffix(next[s][c], Append(word[s], Folded(c)))
<1> DEFINE b == Folded(c)
           v == Append(word[s], b)
           x == next[s][c]
<1>1. x \in States /\ word[x] = v /\ v \in Seq(Bytes)
  BY StateTypes, FoldedByte, Appended DEF ExactRow
<1> HIDE DEF v, x
<1>2. IsSuffix(word[x], v)
  BY <1>1, SuffixRefl
<1>3. \A u \in States : IsSuffix(word[u], v) => Len(word[u]) <= Len(word[x])
  BY <1>1, StateTypes, SuffixLength
<1> QED BY <1>1, <1>2, <1>3 DEF LongestSuffix, v, x

LEMMA RootIsFull ==
  ASSUME TypeOK, Trie, ExactRow(0)
  PROVE  FullRow(0)
<1> SUFFICES ASSUME NEW c \in Bytes PROVE LongestSuffix(next[0][c], Append(word[0], Folded(c)))
  BY DEF FullRow
<1>1. CASE next[0][c] # 0
  BY <1>1, StateTypes, ChildIsLongest
<1>2. CASE next[0][c] = 0
  <2> DEFINE b == Folded(c)
             v == Append(word[0], b)
  <2>1. b \in Bytes /\ 0 \in States /\ word[0] = <<>> /\ word[0] \in Seq(Bytes) /\ Len(word[0]) = 0
    BY StateTypes, FoldedByte, EmptySeq DEF Trie
  <2>2. \A u \in States : word[u] # v
    BY <1>2 DEF ExactRow
  <2>3. v \in Seq(Bytes) /\ Len(v) = 1
    <3> HIDE DEF b
    <3> QED BY <2>1, Appended
  <2> HIDE DEF v
  <2>4. IsSuffix(word[0], v)
    BY <2>1, <2>3, SuffixEmpty
  <2>5. ASSUME NEW u \in States, IsSuffix(word[u], v) PROVE Len(word[u]) <= Len(word[0])
    <3>1. word[u] \in Seq(Bytes) /\ Len(word[u]) \in Nat /\ Len(word[u]) <= Len(v)
      BY <2>3, <2>5, StateTypes, SuffixLength
    <3>2. Len(word[u]) # Len(v)
      BY <2>2, <2>3, <2>5, <3>1, SuffixWhole
    <3> QED BY <2>1, <2>3, <3>1, <3>2
  <2> QED BY <1>2, <2>1, <2>4, <2>5 DEF LongestSuffix, v
<1> QED BY <1>1, <1>2

\* The failure state is shorter than the state.
LEMMA FailIsShorter ==
  ASSUME TypeOK, Trie, NEW s \in States, NEW f \in States, IsFail(f, s)
  PROVE  Len(word[f]) < Len(word[s])
<1>1. word[f] \in Seq(Bytes) /\ word[s] \in Seq(Bytes) /\ IsSuffix(word[f], word[s]) /\ f # s
  BY StateTypes DEF IsFail
<1>2. Len(word[f]) \in Nat /\ Len(word[s]) \in Nat /\ Len(word[f]) <= Len(word[s])
  BY <1>1, SuffixLength
<1>3. Len(word[f]) # Len(word[s])
  BY <1>1, SuffixWhole DEF Trie
<1> QED BY <1>2, <1>3

\* A suffix of what leads to s and on under c is that, or a suffix of the word
\* the failure state goes on to.
LEMMA LongestThroughFail ==
  ASSUME TypeOK, Trie, NEW s \in States, NEW f \in States, IsFail(f, s), FullRow(f), NEW c \in Bytes
  PROVE  /\ next[f][c] \in States
         /\ IsSuffix(word[next[f][c]], Append(word[s], Folded(c)))
         /\ Len(word[next[f][c]]) <= Len(word[s])
         /\ \A u \in States : IsSuffix(word[u], Append(word[s], Folded(c))) /\ word[u] # Append(word[s], Folded(c))
              => Len(word[u]) <= Len(word[next[f][c]])
<1> DEFINE b == Folded(c)
           v == Append(word[s], b)
           w == Append(word[f], b)
           x == next[f][c]
<1>1. /\ b \in Bytes /\ x \in States
      /\ word[s] \in Seq(Bytes) /\ word[f] \in Seq(Bytes) /\ word[x] \in Seq(Bytes)
  BY StateTypes, FoldedByte
<1>2. LongestSuffix(x, w)
  BY DEF FullRow
<1> HIDE DEF b, x
<1>3. v \in Seq(Bytes) /\ w \in Seq(Bytes) /\ Len(w) = Len(word[f]) + 1 /\ Len(word[f]) \in Nat
  BY <1>1, Appended
<1>4. IsSuffix(word[f], word[s])
  BY DEF IsFail
<1>5. IsSuffix(w, v)
  BY <1>1, <1>4, SuffixAppend
<1>6. IsSuffix(word[x], w) /\ \A u \in States : IsSuffix(word[u], w) => Len(word[u]) <= Len(word[x])
  BY <1>2 DEF LongestSuffix
<1>7. IsSuffix(word[x], v)
  <2> HIDE DEF v, w
  <2> QED BY <1>1, <1>3, <1>5, <1>6, SuffixTrans
<1>8. Len(word[x]) <= Len(word[s])
  <2>1. Len(word[x]) \in Nat /\ Len(word[s]) \in Nat /\ Len(word[x]) <= Len(w)
    <3> HIDE DEF w
    <3> QED BY <1>1, <1>3, <1>6, SuffixLength, LenProperties
  <2>2. Len(word[f]) < Len(word[s])
    BY FailIsShorter
  <2> QED BY <1>3, <2>1, <2>2
<1>9. ASSUME NEW u \in States, IsSuffix(word[u], v), word[u] # v
      PROVE  Len(word[u]) <= Len(word[x])
  <2>1. CASE u = 0
    <3>1. Len(word[u]) = 0 /\ Len(word[x]) \in Nat
      BY <1>1, <2>1, EmptySeq, LenProperties DEF Trie
    <3> QED BY <3>1
  <2>2. CASE u # 0
    <3>1. PICK p \in States, d \in Bytes : Folded(d) = d /\ word[u] = Append(word[p], d)
      BY <2>2 DEF Trie
    <3>2. word[p] \in Seq(Bytes)
      BY StateTypes
    <3>3. d = b /\ IsSuffix(word[p], word[s])
      BY <1>1, <1>9, <3>1, <3>2, SuffixAppend
    <3>4. p # s
      BY <1>9, <3>1, <3>3
    <3>5. Len(word[p]) <= Len(word[f])
      BY <3>3, <3>4 DEF IsFail
    <3>6. IsSuffix(word[p], word[f])
      BY <1>1, <1>4, <3>2, <3>3, <3>5, SuffixNested
    <3>7. IsSuffix(word[u], w)
      BY <1>1, <3>1, <3>2, <3>3, <3>6, SuffixAppend
    <3> QED BY <1>6, <3>7
  <2> QED BY <2>1, <2>2
<1> QED BY <1>1, <1>7, <1>8, <1>9 DEF b, x

\* When link comes to a state the rows of all with shorter words are complete.
LEMMA ShorterAreDone ==
  ASSUME TypeOK, Trie, Levels, ~Building, i < Len(queue),
         NEW u \in States, Len(word[u]) < Len(word[Current])
  PROVE  u \in Linked
<1> DEFINE Late(n) == \E t \in States : t \notin Linked /\ Len(word[t]) = n /\ n < Len(word[Current])
           U == {n \in Nat : Late(n)}
<1> SUFFICES ASSUME u \notin Linked PROVE FALSE
  OBVIOUS
<1>1. U # {} /\ U \in SUBSET Nat
  <2>1. Len(word[u]) \in Nat
    BY StateTypes
  <2>2. Late(Len(word[u]))
    OBVIOUS
  <2> QED BY <2>1, <2>2
<1>2. PICK n \in U : \A m \in U : n <= m
  <2> HIDE DEF U
  <2> QED BY <1>1, LeastOfNats
<1>3. PICK t \in States : t \notin Linked /\ Len(word[t]) = n /\ n < Len(word[Current])
  BY <1>2
<1>4. t # 0
  BY <1>3 DEF Linked
<1>5. PICK p \in States, c \in Bytes : Folded(c) = c /\ word[t] = Append(word[p], c)
  BY <1>4 DEF Trie
<1>6. Len(word[p]) \in Nat /\ n = Len(word[p]) + 1
  BY <1>3, <1>5, StateTypes, Appended
<1>7. Len(word[Current]) \in Nat
  BY StateTypes DEF Current
<1>8. p \in Linked
  <2> SUFFICES ASSUME p \notin Linked PROVE FALSE
    OBVIOUS
  <2>1. Late(Len(word[p]))
    BY <1>3, <1>6, <1>7
  <2>2. Len(word[p]) \in U
    BY <1>6, <2>1
  <2> HIDE DEF U
  <2> QED BY <1>2, <1>6, <2>2
<1>9. t \in Queued
  BY <1>5, <1>8 DEF Levels
<1>10. PICK m \in 1 .. Len(queue) : queue[m] = t
  BY <1>9 DEF Queued
<1>11. i + 1 \in 1 .. Len(queue) /\ i + 1 <= m
  <2>1. i \in Nat /\ Len(queue) \in Nat
    BY StateTypes
  <2>2. m \notin 1 .. i
    BY <1>3, <1>10 DEF Linked, Done
  <2> QED BY <2>1, <2>2
<1>12. Len(word[Current]) <= Len(word[t])
  BY <1>10, <1>11 DEF Levels, QueueSteps, Current
<1> QED BY <1>3, <1>6, <1>7, <1>12

LEMMA CurrentFacts ==
  ASSUME IInv, LinkState
  PROVE  /\ Current \in States \ {0} /\ Current \notin Done /\ ExactRow(Current)
         /\ fail[Current] \in States /\ fail[Current] \in Linked
         /\ IsFail(fail[Current], Current) /\ FullRow(fail[Current])
<1> DEFINE f == fail[Current]
<1> USE DEF IInv
<1>1. i + 1 \in 1 .. Len(queue) /\ Current \in States /\ f \in States /\ ~Building
  BY LinkFacts
<1>2. Current # 0 /\ IsFail(f, Current)
  BY <1>1 DEF Levels, Current
<1>3. Current \notin Done /\ 0 \notin Done
  <2>1. i \in Nat /\ Len(queue) \in Nat
    BY StateTypes
  <2>2. \A m \in 1 .. i : m \in 1 .. Len(queue) /\ m # i + 1
    BY <1>1, <2>1
  <2> QED BY <1>1, <2>2 DEF Levels, Done, Current
<1>4. ExactRow(Current) /\ FullRow(0)
  <2>1. 0 \in States
    BY StateTypes
  <2> QED BY <1>1, <1>3, <2>1, RootIsFull DEF Rows
<1>5. f \in Linked
  <2>1. Len(word[f]) < Len(word[Current])
    BY <1>1, <1>2, FailIsShorter
  <2>2. i < Len(queue)
    BY DEF LinkState
  <2> QED BY <1>1, <2>1, <2>2, ShorterAreDone
<1>6. FullRow(f)
  BY <1>1, <1>4, <1>5 DEF Linked, Rows
<1> QED BY <1>1, <1>2, <1>3, <1>4, <1>5, <1>6
-----------------------------------------------------------------------------
LEMMA RowsAfterAdd ==
  ASSUME TypeOK, Trie, Place, Rows, AddState, fold' = fold, NEW s \in States'
  PROVE  ExactRow(s)'
<1> DEFINE b == NextByte
           new == Append(word[state], b)
<1>1. /\ States' = States \cup {states} /\ states \notin States /\ states \in Nat \ {0}
      /\ word'[states] = new /\ \A t \in States : word'[t] = word[t] /\ word[t] \in Seq(Bytes)
      /\ \A c \in Bytes : next'[states][c] = 0
      /\ \A t \in States, c \in Bytes :
           next'[t][c] = IF t = state /\ c \in Letters(b) THEN states ELSE next[t][c]
      /\ state \in States /\ 0 \in States
  BY AddStateFacts, StateTypes
<1>2. b \in Bytes /\ Folded(b) = b /\ next[state][b] = 0
  BY NextByteFacts DEF AddState
<1>3. \A t \in States : word[t] # new
  BY NewWord
<1>4. fold \in BOOLEAN /\ \A c \in Bytes : Folded(c) \in Bytes
  BY StateTypes, FoldedByte
<1>5. \A t \in States : ExactRow(t)
  <2>1. Done = {}
    BY NoneDone DEF AddState, Inserting, Building
  <2> QED BY <2>1 DEF Rows
<1>6. new \in Seq(Bytes)
  BY <1>1, <1>2, Appended
<1> HIDE DEF b, new, States
<1> SUFFICES ASSUME NEW c \in Bytes
             PROVE  IF next'[s][c] # 0
                    THEN word'[next'[s][c]] = Append(word'[s], Folded(c))
                    ELSE \A t \in States' : word'[t] # Append(word'[s], Folded(c))
  BY DEF ExactRow, Folded
<1>7. CASE s = states
  <2>1. next'[s][c] = 0 /\ word'[s] = new
    BY <1>1, <1>7
  <2>2. ASSUME NEW t \in States', word'[t] = Append(new, Folded(c)) PROVE FALSE
    <3>1. Len(word'[t]) = Len(new) + 1 /\ Len(new) \in Nat
      BY <1>4, <1>6, <2>2, Appended
    <3>2. t \in States
      BY <1>1, <2>2, <3>1
    <3>3. Append(new, Folded(c)) # <<>>
      BY <1>4, <1>6, Appended
    <3>4. t # 0
      BY <1>1, <2>2, <3>2, <3>3 DEF Trie
    <3>5. PICK p \in States, d \in Bytes : word[t] = Append(word[p], d)
      BY <3>2, <3>4 DEF Trie
    <3>6. word[p] = new
      <4> DEFINE e == Folded(c)
      <4>1. word[p] \in Seq(Bytes) /\ e \in Bytes /\ Append(word[p], d) = Append(new, e)
        BY <1>1, <1>4, <2>2, <3>2, <3>5
      <4> HIDE DEF e
      <4> QED BY <1>6, <4>1, AppendTwice
    <3> QED BY <1>3, <3>6
  <2> QED BY <2>1, <2>2
<1>8. CASE s \in States /\ s = state /\ c \in Letters(b)
  <2>1. next'[s][c] = states /\ word'[states] = new /\ word'[s] = word[state]
    BY <1>1, <1>8
  <2>2. Folded(c) = b
    BY <1>2, <1>4, <1>8, LettersOfByte
  <2> QED BY <1>1, <2>1, <2>2 DEF new
<1>9. CASE s \in States /\ ~(s = state /\ c \in Letters(b))
  <2>1. next'[s][c] = next[s][c] /\ word'[s] = word[s] /\ next[s][c] \in States
    BY <1>1, <1>9, StateTypes
  <2>2. CASE next[s][c] # 0
    BY <1>1, <1>5, <1>9, <2>1, <2>2 DEF ExactRow
  <2>3. CASE next[s][c] = 0
    <3>1. \A t \in States : word'[t] # Append(word[s], Folded(c))
      BY <1>1, <1>5, <1>9, <2>3 DEF ExactRow
    <3>2. new # Append(word[s], Folded(c))
      <4> SUFFICES ASSUME new = Append(word[s], Folded(c)) PROVE FALSE
        OBVIOUS
      <4>1. word[s] = word[state] /\ Folded(c) = b
        BY <1>1, <1>2, <1>4, <1>9, AppendTwice DEF new
      <4>2. s = state
        BY <1>1, <1>9, <4>1 DEF Trie
      <4>3. c \in Letters(b)
        BY <1>2, <1>4, <4>1, LettersOfByte
      <4> QED BY <1>9, <4>2, <4>3
    <3> QED BY <1>1, <2>1, <2>3, <3>1, <3>2
  <2> QED BY <2>2, <2>3
<1> QED BY <1>1, <1>7, <1>8, <1>9

LEMMA RowsAfterLink ==
  ASSUME IInv, LinkState
  PROVE  \A c \in Bytes : LongestSuffix(next'[Current][c], Append(word[Current], Folded(c)))
<1> SUFFICES ASSUME NEW c \in Bytes
             PROVE  LongestSuffix(next'[Current][c], Append(word[Current], Folded(c)))
  OBVIOUS
<1> DEFINE s == Current
           f == fail[Current]
           v == Append(word[s], Folded(c))
<1>1. /\ s \in States /\ f \in States /\ ExactRow(s) /\ IsFail(f, s) /\ FullRow(f)
      /\ next'[s][c] = IF next[s][c] = 0 THEN next[f][c] ELSE next[s][c]
      /\ TypeOK /\ Trie
  BY LinkFacts, CurrentFacts DEF IInv
<1> HIDE DEF s, f
<1>2. CASE next[s][c] # 0
  <2>1. LongestSuffix(next[s][c], v)
    BY <1>1, <1>2, ChildIsLongest
  <2> QED BY <1>1, <1>2, <2>1 DEF s
<1>3. CASE next[s][c] = 0
  <2>1. \A u \in States : word[u] # v
    BY <1>1, <1>3 DEF ExactRow
  <2>2. /\ next[f][c] \in States /\ IsSuffix(word[next[f][c]], v)
        /\ \A u \in States : IsSuffix(word[u], v) /\ word[u] # v => Len(word[u]) <= Len(word[next[f][c]])
    BY <1>1, LongestThroughFail
  <2>3. LongestSuffix(next[f][c], v)
    BY <2>1, <2>2 DEF LongestSuffix
  <2> QED BY <1>1, <1>3, <2>3 DEF s
<1> QED BY <1>2, <1>3

\* What link has done is the state it came to and what it had done before.
LEMMA DoneGrows ==
  ASSUME IInv, LinkState
  PROVE  Done' = Done \cup {Current}
<1> USE DEF IInv
<1>1. /\ i \in Nat /\ Len(queue) \in Nat /\ i + 1 \in 1 .. Len(queue) /\ i' = i + 1
      /\ queue' = queue \o ByFirstByte(Current, Fresh) /\ Current \in States
  BY LinkFacts, StateTypes
<1>2. ByFirstByte(Current, Fresh) \in Seq(States) /\ queue \in Seq(States)
  BY <1>1, QueuedChildren, StateTypes DEF Fresh
<1>3. \A m \in 1 .. i + 1 : queue'[m] = queue[m]
  <2> DEFINE B == ByFirstByte(Current, Fresh)
  <2>1. \A m \in 1 .. i + 1 : m \in 1 .. Len(queue) + Len(B) /\ m <= Len(queue)
    <3>1. Len(B) \in Nat
      BY <1>2, LenProperties
    <3> HIDE DEF B
    <3> QED BY <1>1, <3>1
  <2> HIDE DEF B
  <2> QED BY <1>1, <1>2, <2>1, ConcatProperties DEF B
<1>4. 1 .. i + 1 = (1 .. i) \cup {i + 1}
  BY <1>1
<1>5. Done' = {queue'[m] : m \in 1 .. i + 1}
  BY <1>1 DEF Done
<1>6. {queue'[m] : m \in 1 .. i + 1} = {queue[m] : m \in 1 .. i} \cup {queue[i + 1]}
  BY <1>3, <1>4
<1> QED BY <1>5, <1>6 DEF Done, Current

LEMMA RowsKept == IInv /\ [Next]_vars => Rows'
<1> SUFFICES ASSUME IInv, [Next]_vars PROVE Rows'
  OBVIOUS
<1>1. fold' = fold
  BY SameAnchors
<1>2. TypeOK /\ Trie /\ Place /\ Rows
  BY DEF IInv
<1>3. CASE AddState
  <2>1. Done' = {}
    <3>1. i' = 0
      BY <1>2, <1>3 DEF AddState, linkVars, Place, Inserting, Building
    <3> QED BY <3>1 DEF Done
  <2> QED BY <1>1, <1>2, <1>3, <2>1, RowsAfterAdd DEF Rows
<1>4. CASE UNCHANGED <<states, next, word>> /\ Done' = Done
  <2>1. States' = States
    BY <1>4 DEF States
  <2>2. \A s \in States : ExactRow(s)' = ExactRow(s)
    BY <1>1, <1>4, <2>1 DEF ExactRow, Folded
  <2>3. \A s \in States : FullRow(s)' = FullRow(s)
    BY <1>1, <1>4, <2>1 DEF FullRow, LongestSuffix, Folded
  <2> HIDE DEF States
  <2> QED BY <1>2, <1>4, <2>1, <2>2, <2>3 DEF Rows
<1>5. CASE FollowEdge \/ EndAnchor \/ TooManyStates \/ Freeze \/ UNCHANGED vars
  <2>1. UNCHANGED <<states, next, word>> /\ UNCHANGED linkVars
    BY <1>5 DEF FollowEdge, EndAnchor, TooManyStates, Freeze, vars, tableVars
  <2>2. Done' = Done
    BY <2>1 DEF Done, linkVars
  <2> QED BY <1>4, <2>1, <2>2
<1>6. CASE StartLink
  <2>1. UNCHANGED <<states, next, word>> /\ i' = 0
    BY <1>6 DEF StartLink, tableVars
  <2>2. Done' = {}
    BY <2>1 DEF Done
  <2>3. Done = {}
    BY <1>2, <1>6, NoneDone DEF StartLink, Building
  <2> QED BY <1>4, <2>1, <2>2, <2>3
<1>7. CASE LinkState
  <2>1. UNCHANGED <<states, word>> /\ States' = States
    BY <1>7 DEF LinkState, States
  <2>2. Done' = Done \cup {Current}
    BY <1>7, DoneGrows
  <2>3. \A s \in States \ {Current} : next'[s] = next[s]
    BY <1>2, <1>7, LinkFacts
  <2>4. \A s \in States \ {Current} : ExactRow(s)' = ExactRow(s)
    BY <1>1, <2>1, <2>3 DEF ExactRow, Folded
  <2>5. \A s \in States \ {Current} : FullRow(s)' = FullRow(s)
    BY <1>1, <2>1, <2>3 DEF FullRow, LongestSuffix, Folded
  <2>6. \A c \in Bytes : LongestSuffix(next'[Current][c], Append(word[Current], Folded(c)))
    BY <1>7, RowsAfterLink
  <2> DEFINE s == Current
  <2>7. s \in States
    BY <1>7, CurrentFacts
  <2>8. \A c \in Bytes : LongestSuffix(next'[s][c], Append(word[s], Folded(c)))
    BY <2>6
  <2> HIDE DEF s
  <2>9. \A q \in States : q = s => FullRow(q)'
    <3> HIDE DEF States
    <3> QED BY <1>1, <2>1, <2>8 DEF FullRow, LongestSuffix, Folded
  <2>10. \A q \in States : q # s => ExactRow(q)' = ExactRow(q) /\ FullRow(q)' = FullRow(q)
    BY <2>4, <2>5 DEF s
  <2>11. Done' = Done \cup {s}
    BY <2>2 DEF s
  <2> HIDE DEF States
  <2> QED BY <1>2, <2>1, <2>9, <2>10, <2>11 DEF Rows
<1> QED BY <1>3, <1>5, <1>6, <1>7 DEF Next, Build, Terminated
-----------------------------------------------------------------------------
\* The state where insert has arrived is that of the whole anchor.
LEMMA EndWord ==
  ASSUME TypeOK, Place, EndAnchor
  PROVE  word[state] = Inserted(a)
<1>1. a \in 1 .. Len(anchors) /\ k = Len(Inserted(a))
  BY EndFacts
<1>2. word[state] = Prefix(a, k)
  BY DEF EndAnchor, Place
<1>3. k \in 0 .. Len(Inserted(a))
  BY <1>1, StateTypes, InsertedBytes
<1> QED BY <1>1, <1>2, <1>3, StateTypes, PrefixFacts

\* What ends at a state ends there as a whole or ends at its failure state.
LEMMA EndingThroughFail ==
  ASSUME TypeOK, Trie, Place, a = Len(anchors) + 1,
         NEW s \in States, NEW f \in States, IsFail(f, s)
  PROVE  Ending(s) = Own(s) \cup Ending(f) /\ Own(s) \cap Ending(f) = {}
<1>1. /\ word[s] \in Seq(Bytes) /\ word[f] \in Seq(Bytes) /\ IsSuffix(word[f], word[s])
      /\ Len(anchors) \in Nat /\ Len(word[f]) < Len(word[s]) /\ Len(word[s]) \in Nat /\ Len(word[f]) \in Nat
  BY StateTypes, FailIsShorter DEF IsFail
<1>2. 1 .. a - 1 = 1 .. Len(anchors)
  BY <1>1
<1>3. ASSUME NEW m \in 1 .. Len(anchors) PROVE Inserted(m) \in Seq(Bytes)
  BY StateTypes, InsertedBytes
<1>4. ASSUME NEW m \in Ending(s), m \notin Own(s) PROVE m \in Ending(f)
  <2>1. m \in 1 .. Len(anchors) /\ IsSuffix(Inserted(m), word[s]) /\ Inserted(m) # word[s]
    BY <1>2, <1>4 DEF Ending, Own
  <2>2. PICK u \in States : word[u] = Inserted(m)
    BY <1>2, <2>1 DEF Place
  <2>3. Len(word[u]) <= Len(word[f])
    BY <2>1, <2>2 DEF IsFail
  <2>4. IsSuffix(Inserted(m), word[f])
    BY <1>1, <1>3, <2>1, <2>2, <2>3, SuffixNested
  <2> QED BY <2>1, <2>4 DEF Ending
<1>5. ASSUME NEW m \in Own(s) PROVE m \in Ending(s) /\ m \notin Ending(f)
  <2>1. m \in 1 .. Len(anchors) /\ Inserted(m) = word[s]
    BY <1>2 DEF Own
  <2>2. IsSuffix(Inserted(m), word[s])
    BY <1>1, <2>1, SuffixRefl
  <2>3. ~IsSuffix(Inserted(m), word[f])
    BY <1>1, <2>1, SuffixLength
  <2> QED BY <2>1, <2>2, <2>3 DEF Ending
<1>6. ASSUME NEW m \in Ending(f) PROVE m \in Ending(s)
  <2>1. m \in 1 .. Len(anchors) /\ IsSuffix(Inserted(m), word[f])
    BY DEF Ending
  <2>2. IsSuffix(Inserted(m), word[s])
    BY <1>1, <1>3, <2>1, SuffixTrans
  <2> QED BY <2>1, <2>2 DEF Ending
<1> QED BY <1>4, <1>5, <1>6

\* No anchor is empty, so none ends at the root.
LEMMA RootEnding ==
  ASSUME TypeOK, Trie, a \in Nat, a <= Len(anchors) + 1
  PROVE  Own(0) = {} /\ Ending(0) = {}
<1>1. ASSUME NEW m \in 1 .. Len(anchors)
      PROVE  ~IsSuffix(Inserted(m), word[0]) /\ Inserted(m) # word[0]
  <2>1. Inserted(m) \in Seq(Bytes) /\ Len(Inserted(m)) \in Nat \ {0}
    BY StateTypes, InsertedBytes
  <2>2. word[0] = <<>> /\ Len(<<>>) = 0
    BY EmptySeq DEF Trie
  <2> QED BY <2>1, <2>2 DEF IsSuffix
<1>2. \A m \in 1 .. a - 1 : m \in 1 .. Len(anchors)
  BY StateTypes
<1> QED BY <1>1, <1>2 DEF Own, Ending

LEMMA OutputsKept == IInv /\ [Next]_vars => Outputs'
<1> SUFFICES ASSUME IInv, [Next]_vars PROVE Outputs'
  OBVIOUS
<1>1. /\ TypeOK /\ Trie /\ Place /\ Rows /\ Outputs
      /\ anchors' = anchors /\ \A j : Inserted(j)' = Inserted(j)
  BY SameAnchors DEF IInv
<1>2. OutputOf' = OutputOf
  BY <1>1, SameAnchors DEF OutputOf
<1> DEFINE Listed(s) == IF s \in Done THEN Ending(s) ELSE Own(s)
<1>3. \A s \in States : Lists(out[s], Listed(s), OutputOf)
  BY <1>1 DEF Outputs
<1> SUFFICES \A s \in States' : Lists(out'[s], Listed(s)', OutputOf)
  BY <1>2 DEF Outputs
<1> HIDE DEF Listed
<1>4. CASE UNCHANGED <<states, word, out, a>> /\ Done' = Done
  <2>1. States' = States
    BY <1>4 DEF States
  <2>2. \A s \in States : Listed(s)' = Listed(s)
    BY <1>1, <1>4 DEF Listed, Own, Ending
  <2> HIDE DEF States
  <2> QED BY <1>3, <1>4, <2>1, <2>2
<1>5. CASE FollowEdge \/ TooManyStates \/ Freeze \/ UNCHANGED vars
  <2>1. UNCHANGED <<states, word, out, a>> /\ UNCHANGED linkVars
    BY <1>5 DEF FollowEdge, TooManyStates, Freeze, vars, tableVars, insertVars
  <2>2. Done' = Done
    BY <2>1 DEF Done, linkVars
  <2> QED BY <1>4, <2>1, <2>2
<1>6. CASE StartLink
  <2>1. UNCHANGED <<states, word, out, a>> /\ i' = 0
    BY <1>6 DEF StartLink, tableVars, insertVars
  <2>2. Done' = {}
    BY <2>1 DEF Done
  <2>3. Done = {}
    BY <1>1, <1>6, NoneDone DEF StartLink, Building
  <2> QED BY <1>4, <2>1, <2>2, <2>3
<1>7. CASE AddState
  <2>1. Done = {} /\ Done' = {}
    BY <1>1, <1>7, NoneDone DEF AddState, Inserting, Building, Place, linkVars, Done
  <2>2. /\ States' = States \cup {states} /\ states \notin States /\ word'[states] = Append(word[state], NextByte)
        /\ out'[states] = <<>>
        /\ \A s \in States : word'[s] = word[s] /\ out'[s] = out[s]
        /\ a' = a
    BY <1>1, <1>7, AddStateFacts DEF AddState
  <2>3. \A s \in States : Listed(s)' = Listed(s)
    BY <1>1, <2>1, <2>2 DEF Listed, Own
  <2>4. ASSUME NEW s, s = states PROVE Listed(s)' = {}
    <3>1. \A j \in 1 .. a - 1 : Inserted(j) # word'[s]
      BY <1>1, <1>7, <2>2, <2>4, NewWord DEF Place
    <3> QED BY <1>1, <2>1, <2>2, <3>1 DEF Listed, Own
  <2> HIDE DEF States
  <2> QED BY <1>3, <2>2, <2>3, <2>4, ListsNothing
<1>8. CASE EndAnchor
  <2>1. Done = {} /\ Done' = {}
    BY <1>1, <1>8, NoneDone DEF EndAnchor, Inserting, Building, Place, linkVars, Done
  <2>2. /\ a \in 1 .. Len(anchors) /\ out'[state] = Append(out[state], Output(a))
        /\ \A s \in States \ {state} : out'[s] = out[s]
        /\ a' = a + 1 /\ word' = word /\ States' = States
        /\ word[state] = Inserted(a) /\ state \in States
    BY <1>1, <1>8, EndFacts, EndWord, StateTypes DEF EndAnchor, States
  <2>3. 1 .. a' - 1 = (1 .. a - 1) \cup {a} /\ a \notin 1 .. a - 1
    BY <2>2
  <2>4. \A s \in States : Own(s)' = IF s = state THEN Own(s) \cup {a} ELSE Own(s)
    <3>1. \A s \in States : Own(s)' = {j \in 1 .. a' - 1 : Inserted(j) = word[s]}
      BY <1>1, <2>2 DEF Own
    <3>2. \A s \in States : Inserted(a) = word[s] <=> s = state
      BY <1>1, <2>2 DEF Trie
    <3> QED BY <2>3, <3>1, <3>2 DEF Own
  <2>5. Lists(Append(out[state], Output(a)), Own(state) \cup {a}, OutputOf)
    <3>1. /\ out[state] \in Seq([rule : Nat, length : Nat]) /\ Output(a) \in [rule : Nat, length : Nat]
          /\ Output(a) = OutputOf[a] /\ a \notin Own(state)
      BY <1>1, <2>2, <2>3, StateTypes, OutputType DEF OutputOf, Own
    <3>2. Lists(out[state], Own(state), OutputOf)
      BY <1>3, <2>1, <2>2 DEF Listed
    <3> QED BY <3>1, <3>2, ListsOneMore
  <2> HIDE DEF States
  <2> QED BY <1>3, <2>1, <2>2, <2>4, <2>5 DEF Listed
<1>9. CASE LinkState
  <2> DEFINE s == Current
             f == fail[Current]
  <2>1. /\ s \in States \ {0} /\ s \notin Done /\ f \in States /\ f \in Linked /\ IsFail(f, s)
        /\ a = Len(anchors) + 1 /\ Len(anchors) \in Nat
    BY <1>1, <1>9, CurrentFacts, LinkFacts, StateTypes
  <2>2. UNCHANGED <<states, word, a>> /\ States' = States
    BY <1>9 DEF LinkState, insertVars, States
  <2>3. Done' = Done \cup {s}
    BY <1>9, DoneGrows
  <2>4. out' = [out EXCEPT ![s] = out[s] \o out[f]] /\ out \in [States -> Seq([rule : Nat, length : Nat])]
    BY <1>1, <1>9, LinkFacts DEF TypeOK
  <2> HIDE DEF s, f
  <2>5. Lists(out[s], Own(s), OutputOf)
    BY <1>3, <2>1 DEF Listed
  <2>6. Lists(out[f], Ending(f), OutputOf)
    <3>1. f \notin Done => Own(f) = Ending(f)
      <4>1. a \in Nat /\ a <= Len(anchors) + 1
        BY <2>1
      <4>2. Own(0) = {} /\ Ending(0) = {}
        BY <1>1, <4>1, RootEnding
      <4>3. f \notin Done => f = 0
        BY <2>1 DEF Linked
      <4> QED BY <4>2, <4>3
    <3> QED BY <1>3, <2>1, <3>1 DEF Listed
  <2>7. Ending(s) = Own(s) \cup Ending(f) /\ Own(s) \cap Ending(f) = {}
    BY <1>1, <2>1, EndingThroughFail
  <2>8. Lists(out[s] \o out[f], Ending(s), OutputOf)
    <3>1. out[s] \in Seq([rule : Nat, length : Nat]) /\ out[f] \in Seq([rule : Nat, length : Nat])
      BY <2>1, <2>4
    <3> QED BY <2>5, <2>6, <2>7, <3>1, ListsBoth
  <2>9. \A t \in States : Own(t)' = Own(t) /\ Ending(t)' = Ending(t)
    BY <1>1, <2>2 DEF Own, Ending
  <2>10. \A t \in States : Listed(t)' = IF t = s THEN Ending(t) ELSE Listed(t)
    BY <2>3, <2>9 DEF Listed
  <2>11. \A t \in States : out'[t] = IF t = s THEN out[s] \o out[f] ELSE out[t]
    BY <2>4
  <2> HIDE DEF States
  <2> QED BY <1>3, <2>2, <2>8, <2>10, <2>11
<1> QED BY <1>5, <1>6, <1>7, <1>8, <1>9 DEF Next, Build, Terminated
-----------------------------------------------------------------------------
(***************************************************************************)
(* The queue goes down the trie level by level.                            *)
(***************************************************************************)
LEMMA ChildWord ==
  ASSUME TypeOK, NEW s \in States, ExactRow(s), NEW t \in Children(s)
  PROVE  /\ t \in States \ {0} /\ FirstByte(s, t) \in Bytes /\ next[s][FirstByte(s, t)] = t
         /\ word[t] = Append(word[s], Folded(FirstByte(s, t)))
         /\ Len(word[s]) \in Nat /\ Len(word[t]) = Len(word[s]) + 1
<1> DEFINE c == FirstByte(s, t)
<1>1. t \in States \ {0} /\ c \in Bytes /\ next[s][c] = t
  BY ChildrenFinite, FirstByteFacts
<1> HIDE DEF c
<1>2. word[t] = Append(word[s], Folded(c))
  BY <1>1 DEF ExactRow
<1>3. Len(word[s]) \in Nat /\ Len(word[t]) = Len(word[s]) + 1
  BY <1>1, <1>2, StateTypes, FoldedByte, Appended
<1> QED BY <1>1, <1>2, <1>3 DEF c

\* A state is a child of the one whose word it extends, and of no other.
LEMMA ChildIff ==
  ASSUME TypeOK, Trie, NEW s \in States, ExactRow(s),
         NEW t \in States, NEW p \in States, NEW c \in Bytes, word[t] = Append(word[p], c)
  PROVE  t \in Children(s) <=> p = s
<1>1. word[p] \in Seq(Bytes) /\ word[s] \in Seq(Bytes)
  BY StateTypes
<1>2. ASSUME t \in Children(s) PROVE p = s
  <2> DEFINE d == Folded(FirstByte(s, t))
  <2>1. word[t] = Append(word[s], d) /\ d \in Bytes
    BY <1>2, ChildWord, StateTypes, FoldedByte
  <2> HIDE DEF d
  <2>2. Append(word[p], c) = Append(word[s], d)
    BY <2>1
  <2>3. word[p] = word[s]
    BY <1>1, <2>1, <2>2, AppendTwice
  <2> QED BY <2>3 DEF Trie
<1>3. ASSUME p = s PROVE t \in Children(s)
  <2>1. t # 0
    BY <1>1, Appended DEF Trie
  <2>2. PICK q \in States, e \in Bytes : Folded(e) = e /\ word[t] = Append(word[q], e)
    BY <2>1 DEF Trie
  <2>3. Folded(c) = c
    <3>1. word[q] \in Seq(Bytes)
      BY StateTypes
    <3>2. Append(word[p], c) = Append(word[q], e)
      BY <2>2
    <3>3. c = e
      BY <1>1, <3>1, <3>2, AppendTwice
    <3> QED BY <2>2, <3>3
  <2>4. next[s][c] # 0 /\ word[next[s][c]] = word[t]
    BY <1>3, <2>3 DEF ExactRow
  <2>5. next[s][c] = t
    BY <2>4, StateTypes DEF Trie
  <2> QED BY <2>1, <2>5 DEF Children
<1> QED BY <1>2, <1>3

\* The children of the root have one byte, and no suffix but the empty word.
LEMMA RootChildren ==
  ASSUME TypeOK, Trie, ExactRow(0), NEW t \in Children(0)
  PROVE  t \in States \ {0} /\ Len(word[t]) = 1 /\ IsFail(0, t)
<1>1. 0 \in States /\ word[0] = <<>> /\ Len(word[0]) = 0
  BY StateTypes, EmptySeq DEF Trie
<1>2. t \in States \ {0} /\ Len(word[t]) = 1 /\ word[t] \in Seq(Bytes)
  <2>1. t \in States \ {0} /\ Len(word[t]) = Len(word[0]) + 1
    BY <1>1, ChildWord
  <2> QED BY <1>1, <2>1, StateTypes
<1>3. ASSUME NEW u \in States, u # t, IsSuffix(word[u], word[t]) PROVE Len(word[u]) <= Len(word[0])
  <2>1. word[u] \in Seq(Bytes) /\ Len(word[u]) \in Nat /\ Len(word[u]) <= 1
    BY <1>2, <1>3, StateTypes, SuffixLength
  <2>2. Len(word[u]) # 1
    BY <1>2, <1>3, <2>1, SuffixWhole DEF Trie
  <2> DEFINE n == Len(word[u])
  <2>3. n <= 0
    <3>1. n \in Nat /\ n <= 1 /\ n # 1
      BY <2>1, <2>2
    <3> HIDE DEF n
    <3> QED BY <3>1
  <2>4. Len(word[0]) = 0
    BY <1>1
  <2> QED BY <2>3, <2>4
<1>4. IsSuffix(word[0], word[t])
  BY <1>1, <1>2, SuffixEmpty
<1> QED BY <1>1, <1>2, <1>3, <1>4 DEF IsFail

\* The new children of the state link comes to.
LEMMA FreshFacts ==
  ASSUME IInv, LinkState
  PROVE  /\ Fresh = Children(Current)
         /\ \A t \in Fresh : /\ t \in States \ {0} /\ t \notin Queued
                             /\ Len(word[t]) = Len(word[Current]) + 1
                             /\ IsFail(fail'[t], t)
<1> USE DEF IInv
<1> DEFINE s == Current
           f == fail[Current]
<1>1. /\ s \in States \ {0} /\ s \notin Linked /\ ExactRow(s) /\ ~Building
      /\ f \in States /\ IsFail(f, s) /\ FullRow(f)
  BY CurrentFacts, LinkFacts DEF Linked
<1>2. \A t \in States : fail'[t] = IF t \in Fresh THEN next[f][FirstByte(s, t)] ELSE fail[t]
  BY LinkFacts
<1> HIDE DEF s, f
<1>3. ASSUME NEW t \in Children(s) PROVE t \notin Queued
  <2>1. t \in States /\ FirstByte(s, t) \in Bytes /\ word[t] = Append(word[s], Folded(FirstByte(s, t)))
    BY <1>1, ChildWord
  <2>2. Folded(FirstByte(s, t)) \in Bytes
    BY <2>1, StateTypes, FoldedByte
  <2> QED BY <1>1, <2>1, <2>2 DEF Levels
<1>4. Fresh = Children(s)
  BY <1>3 DEF Fresh, s
<1>5. ASSUME NEW t \in Children(s)
      PROVE  t \in States \ {0} /\ Len(word[t]) = Len(word[s]) + 1 /\ IsFail(fail'[t], t)
  <2> DEFINE c == FirstByte(s, t)
             x == next[f][c]
  <2>1. /\ t \in States \ {0} /\ c \in Bytes /\ word[t] = Append(word[s], Folded(c))
        /\ Len(word[s]) \in Nat /\ Len(word[t]) = Len(word[s]) + 1
    BY <1>1, ChildWord
  <2>2. fail'[t] = x
    BY <1>2, <1>4, <2>1
  <2> HIDE DEF c
  <2>3. /\ x \in States /\ IsSuffix(word[x], word[t]) /\ Len(word[x]) <= Len(word[s])
        /\ \A u \in States : IsSuffix(word[u], word[t]) /\ word[u] # word[t] => Len(word[u]) <= Len(word[x])
    BY <1>1, <2>1, LongestThroughFail
  <2> HIDE DEF x
  <2>4. x # t
    BY <2>1, <2>3
  <2>5. IsFail(x, t)
    BY <2>3, <2>4, <2>1 DEF IsFail, Trie
  <2> QED BY <2>1, <2>2, <2>5
<1> QED BY <1>3, <1>4, <1>5 DEF s

\* The longer queue.
LEMMA QueueGrows ==
  ASSUME IInv, LinkState
  PROVE  /\ i + 1 \in 1 .. Len(queue) /\ Len(queue) \in Nat /\ Len(queue') \in Nat /\ Len(queue) <= Len(queue')
         /\ \A m \in 1 .. Len(queue) : queue'[m] = queue[m] /\ queue[m] \in Queued /\ queue[m] \in States
         /\ \A m \in 1 .. Len(queue') : m \notin 1 .. Len(queue) => queue'[m] \in Fresh
         /\ \A m, n \in 1 .. Len(queue') : queue'[m] = queue'[n] => m = n
         /\ Queued' = Queued \cup Fresh
<1> USE DEF IInv
<1> DEFINE B == ByFirstByte(Current, Fresh)
           N == Len(queue)
           M == Len(B)
<1>1. /\ i + 1 \in 1 .. N /\ N \in Nat /\ queue' = queue \o B /\ queue \in Seq(States)
      /\ Current \in States /\ ~Building
  BY LinkFacts, StateTypes
<1>2. /\ B \in Seq(States) /\ M \in Nat
      /\ \A m \in 1 .. M : B[m] \in Fresh
      /\ \A m, n \in 1 .. M : B[m] = B[n] => m = n
      /\ \A t \in Fresh : \E n \in 1 .. M : B[n] = t
  BY <1>1, QueuedChildren DEF Fresh
<1>3. \A t \in Fresh : t \notin Queued
  BY DEF Fresh
<1>4. \A m \in 1 .. N : queue[m] \in Queued /\ queue[m] \in States
  BY StateTypes DEF Queued
<1>5. \A m, n \in 1 .. N : queue[m] = queue[n] => m = n
  BY <1>1 DEF Levels
<1> HIDE DEF B
<1>6. Len(queue') = N + M /\ \A m \in 1 .. N + M : queue'[m] = IF m <= N THEN queue[m] ELSE B[m - N]
  BY <1>1, <1>2, ConcatProperties
<1>7. Queued' = {queue'[m] : m \in 1 .. N + M}
  BY <1>6 DEF Queued
<1>8. Queued = {queue[m] : m \in 1 .. N}
  BY DEF Queued
<1> HIDE DEF N, M
<1>9. \A m \in 1 .. N : m \in 1 .. N + M /\ m <= N
  BY <1>1, <1>2
<1>10. \A m \in 1 .. N + M : m \notin 1 .. N => ~(m <= N) /\ m - N \in 1 .. M
  BY <1>1, <1>2
<1>11. \A m \in 1 .. M : m + N \in 1 .. N + M /\ ~(m + N <= N) /\ (m + N) - N = m
  BY <1>1, <1>2
<1>12. \A m \in 1 .. N : queue'[m] = queue[m]
  BY <1>6, <1>9
<1>13. \A m \in 1 .. N + M : m \notin 1 .. N => queue'[m] = B[m - N] /\ queue'[m] \in Fresh
  BY <1>2, <1>6, <1>10
<1>14. ASSUME NEW m \in 1 .. N + M, NEW n \in 1 .. N + M, queue'[m] = queue'[n] PROVE m = n
  <2>1. CASE m \in 1 .. N /\ n \in 1 .. N
    BY <1>5, <1>12, <1>14, <2>1
  <2>2. CASE m \notin 1 .. N /\ n \notin 1 .. N
    <3>1. B[m - N] = B[n - N] /\ m - N \in 1 .. M /\ n - N \in 1 .. M
      BY <1>10, <1>13, <1>14, <2>2
    <3>2. m - N = n - N
      BY <1>2, <3>1
    <3> QED BY <1>1, <1>2, <3>2
  <2>3. CASE m \in 1 .. N /\ n \notin 1 .. N
    BY <1>3, <1>4, <1>12, <1>13, <1>14, <2>3
  <2>4. CASE m \notin 1 .. N /\ n \in 1 .. N
    BY <1>3, <1>4, <1>12, <1>13, <1>14, <2>4
  <2> QED BY <2>1, <2>2, <2>3, <2>4
<1>15. Queued' = Queued \cup Fresh
  <2>1. ASSUME NEW t \in Fresh PROVE t \in Queued'
    <3>1. PICK n \in 1 .. M : B[n] = t
      BY <1>2
    <3>2. queue'[n + N] = t
      BY <1>6, <1>11, <3>1
    <3> QED BY <1>7, <1>11, <3>2
  <2>2. ASSUME NEW t \in Queued PROVE t \in Queued'
    BY <1>7, <1>8, <1>9, <1>12
  <2>3. ASSUME NEW t \in Queued' PROVE t \in Queued \cup Fresh
    BY <1>4, <1>7, <1>12, <1>13
  <2> QED BY <2>1, <2>2, <2>3
<1>16. N + M \in Nat /\ N <= N + M
  BY <1>1, <1>2
<1> QED BY <1>1, <1>4, <1>6, <1>12, <1>13, <1>14, <1>15, <1>16 DEF N, M

LEMMA LevelsStart ==
  ASSUME IInv, StartLink, [Next]_vars
  PROVE  Levels'
<1> USE DEF IInv
<1>1. /\ pc' = "link" /\ fail' = [s \in States |-> 0] /\ queue' = ByFirstByte(0, Children(0)) /\ i' = 0
      /\ UNCHANGED <<states, next, word>> /\ States' = States /\ Building
  BY DEF StartLink, tableVars, States, Building
<1>2. ExactRow(0) /\ 0 \in States
  BY <1>1, StateTypes, NoneDone DEF Rows
<1>3. /\ Len(queue') \in Nat
      /\ \A m \in 1 .. Len(queue') : queue'[m] \in Children(0)
      /\ \A m, n \in 1 .. Len(queue') : queue'[m] = queue'[n] => m = n
      /\ \A t \in Children(0) : \E n \in 1 .. Len(queue') : queue'[n] = t
  BY <1>1, <1>2, QueuedChildren
<1>4. \A t \in Children(0) : t \in States \ {0} /\ Len(word[t]) = 1 /\ IsFail(0, t)
  BY <1>2, RootChildren
<1>5. Queued' = Children(0)
  BY <1>3 DEF Queued
<1>6. Linked' = {0}
  BY <1>1 DEF Linked, Done
<1> HIDE DEF States
<1>7. \A m \in 1 .. Len(queue') : queue'[m] # 0 /\ IsFail(fail'[queue'[m]], queue'[m])
  BY <1>1, <1>3, <1>4
<1>8. \A m \in 1 .. Len(queue') : Len(word[queue'[m]]) = 1
  BY <1>3, <1>4
<1>9. /\ \A m, n \in 1 .. Len(queue') : m <= n => Len(word[queue'[m]]) <= Len(word[queue'[n]])
      /\ i' < Len(queue') => \A n \in 1 .. Len(queue') : Len(word[queue'[n]]) <= Len(word[queue'[i' + 1]]) + 1
  <2>1. i' < Len(queue') => i' + 1 \in 1 .. Len(queue')
    BY <1>1, <1>3
  <2> QED BY <1>8, <2>1
<1>10. \A t, p \in States : \A c \in Bytes :
         word[t] = Append(word[p], c) => (t \in Queued' <=> p \in Linked')
  BY <1>2, <1>5, <1>6, ChildIff
<1>11. \A f, t : IsFail(f, t)' = IsFail(f, t)
  BY <1>1 DEF IsFail
<1>12. \A m \in 1 .. Len(queue') : IsFail(fail[queue[m]], queue[m])'
  <2>1. \A f, t : IsFail(f, t) => f \in States' /\ f # t /\ IsSuffix(word'[f], word'[t])
          /\ \A u \in States' : u # t /\ IsSuffix(word'[u], word'[t]) => Len(word'[u]) <= Len(word'[f])
    BY <1>1 DEF IsFail
  <2> QED BY <1>7, <2>1 DEF IsFail
<1> QED BY <1>1, <1>3, <1>7, <1>9, <1>10, <1>12 DEF Levels, QueueSteps

LEMMA LevelsLink ==
  ASSUME IInv, LinkState, [Next]_vars
  PROVE  Levels'
<1> USE DEF IInv
<1> DEFINE s == Current
           N == Len(queue)
           M == Len(queue')
           L == Len(word[s])
<1>1. /\ pc' = "link" /\ i' = i + 1 /\ i \in Nat /\ i < N /\ ~Building
      /\ UNCHANGED <<states, word>> /\ States' = States
  BY LinkFacts, StateTypes DEF LinkState, States
<1>2. /\ i + 1 \in 1 .. N /\ N \in Nat /\ M \in Nat /\ N <= M
      /\ \A m \in 1 .. N : queue'[m] = queue[m] /\ queue[m] \in Queued /\ queue[m] \in States
      /\ \A m \in 1 .. M : m \notin 1 .. N => queue'[m] \in Fresh
      /\ \A m, n \in 1 .. M : queue'[m] = queue'[n] => m = n
      /\ Queued' = Queued \cup Fresh
  BY QueueGrows
<1>3. /\ Fresh = Children(s)
      /\ \A t \in Fresh : t \in States \ {0} /\ t \notin Queued /\ Len(word[t]) = L + 1 /\ IsFail(fail'[t], t)
  BY FreshFacts
<1>4. s \in States /\ ExactRow(s) /\ s = queue[i + 1] /\ L \in Nat
  BY CurrentFacts, StateTypes DEF Current
<1>5. Done' = Done \cup {s}
  BY DoneGrows
<1>6. \A t \in States : t \notin Fresh => fail'[t] = fail[t]
  BY LinkFacts
<1>7. /\ \A m \in 1 .. N : queue[m] # 0 /\ IsFail(fail[queue[m]], queue[m])
      /\ \A m, n \in 1 .. N : m <= n => Len(word[queue[m]]) <= Len(word[queue[n]])
      /\ \A n \in 1 .. N : Len(word[queue[n]]) <= L + 1
      /\ \A t, p \in States : \A c \in Bytes : word[t] = Append(word[p], c) => (t \in Queued <=> p \in Linked)
  BY <1>1 DEF Levels, QueueSteps, Current
<1> HIDE DEF s, N, M, L, States
<1>8. \A m \in 1 .. M : queue'[m] # 0 /\ IsFail(fail'[queue'[m]], queue'[m])
  <2> SUFFICES ASSUME NEW m \in 1 .. M PROVE queue'[m] # 0 /\ IsFail(fail'[queue'[m]], queue'[m])
    OBVIOUS
  <2>1. CASE m \in 1 .. N
    <3>1. queue'[m] = queue[m] /\ fail'[queue[m]] = fail[queue[m]]
      BY <1>2, <1>3, <1>6, <2>1
    <3> QED BY <1>7, <2>1, <3>1
  <2>2. CASE m \notin 1 .. N
    BY <1>2, <1>3, <2>2
  <2> QED BY <2>1, <2>2
<1>9. \A m \in 1 .. M : /\ Len(word[queue'[m]]) \in Nat /\ Len(word[queue'[m]]) <= L + 1
                        /\ m \notin 1 .. N => Len(word[queue'[m]]) = L + 1
  <2>1. \A t \in States : Len(word[t]) \in Nat
    BY StateTypes
  <2> QED BY <1>2, <1>3, <1>4, <1>7, <2>1
<1>10. ASSUME NEW m \in 1 .. M, NEW n \in 1 .. M, m <= n
       PROVE  Len(word[queue'[m]]) <= Len(word[queue'[n]])
  <2>1. CASE n \in 1 .. N
    <3>1. m \in 1 .. N
      BY <1>2, <1>10, <2>1
    <3> QED BY <1>2, <1>7, <1>10, <2>1, <3>1
  <2>2. CASE n \notin 1 .. N
    BY <1>9, <2>2
  <2> QED BY <2>1, <2>2
<1>11. ASSUME i + 1 < M, NEW n \in 1 .. M
       PROVE  Len(word[queue'[n]]) <= Len(word[queue'[(i + 1) + 1]]) + 1
  <2> DEFINE l == (i + 1) + 1
  <2>1. l \in 1 .. M /\ i + 1 \in 1 .. M /\ i + 1 <= l
    BY <1>1, <1>2, <1>11
  <2>2. Len(word[queue'[i + 1]]) = L
    BY <1>2, <1>4 DEF L
  <2> HIDE DEF l
  <2>3. L <= Len(word[queue'[l]])
    BY <1>10, <2>1, <2>2
  <2>4. Len(word[queue'[l]]) \in Nat /\ Len(word[queue'[n]]) \in Nat /\ Len(word[queue'[n]]) <= L + 1
    BY <1>9, <2>1
  <2>5. Len(word[queue'[n]]) <= Len(word[queue'[l]]) + 1
    BY <1>4, <2>3, <2>4
  <2> QED BY <2>5 DEF l
<1>12. \A t, p \in States : \A c \in Bytes :
         word[t] = Append(word[p], c) => (t \in Queued' <=> p \in Linked')
  <2>1. Linked' = Linked \cup {s}
    BY <1>5 DEF Linked
  <2> SUFFICES ASSUME NEW t \in States, NEW p \in States, NEW c \in Bytes, word[t] = Append(word[p], c)
               PROVE  t \in Queued' <=> p \in Linked'
    OBVIOUS
  <2>2. t \in Fresh <=> p = s
    BY <1>3, <1>4, ChildIff
  <2>3. t \in Queued <=> p \in Linked
    BY <1>7
  <2> QED BY <1>2, <2>1, <2>2, <2>3
<1>13. \A m \in 1 .. M : IsFail(fail[queue[m]], queue[m])'
  <2>1. \A f, t : IsFail(f, t) => f \in States' /\ f # t /\ IsSuffix(word'[f], word'[t])
          /\ \A u \in States' : u # t /\ IsSuffix(word'[u], word'[t]) => Len(word'[u]) <= Len(word'[f])
    BY <1>1 DEF IsFail
  <2> QED BY <1>8, <2>1 DEF IsFail
<1>14. M = Len(queue') /\ States' = States /\ word' = word
  BY <1>1 DEF M
<1> QED BY <1>1, <1>2, <1>8, <1>10, <1>11, <1>12, <1>13, <1>14 DEF Levels, QueueSteps

LEMMA LevelsKept == IInv /\ [Next]_vars => Levels'
<1> SUFFICES ASSUME IInv, [Next]_vars PROVE Levels'
  OBVIOUS
<1>1. CASE FollowEdge \/ AddState \/ EndAnchor \/ TooManyStates
  <2>1. Building'
    BY <1>1 DEF FollowEdge, AddState, EndAnchor, TooManyStates, Inserting, Building
  <2> QED BY <2>1 DEF Levels
<1>2. CASE UNCHANGED vars
  <2>1. UNCHANGED <<pc, states, word, fail, queue, i>>
    BY <1>2 DEF vars, tableVars, linkVars
  <2>2. Levels
    BY DEF IInv
  <2> QED BY <2>1, <2>2 DEF Levels, QueueSteps, IsFail, States, Queued, Linked, Done, Building
<1>3. CASE Freeze
  <2>1. UNCHANGED <<states, word, fail, queue, i>> /\ i = Len(queue) /\ ~Building
    BY <1>3 DEF Freeze, tableVars, linkVars, Building
  <2>2. Levels
    BY DEF IInv
  <2> QED BY <2>1, <2>2 DEF Levels, QueueSteps, IsFail, States, Queued, Linked, Done
<1> QED BY <1>1, <1>2, <1>3, LevelsStart, LevelsLink DEF Next, Build, Terminated

LEMMA NextIInv == IInv /\ [Next]_vars => IInv'
<1> SUFFICES ASSUME IInv, [Next]_vars PROVE IInv'
  OBVIOUS
<1>1. TypeOK /\ Trie /\ Place /\ Rows
  BY DEF IInv
<1>2. TypeOK' /\ Trie' /\ Place'
  BY <1>1, TypeKept, TrieKept, PlaceKept
<1>3. Rows' /\ Outputs' /\ Levels'
  BY RowsKept, OutputsKept, LevelsKept
<1> QED BY <1>2, <1>3 DEF IInv

THEOREM Invariance == Spec => []IInv
<1> QED BY InitIInv, NextIInv, PTL DEF Spec

-----------------------------------------------------------------------------
(***************************************************************************)
(* What the invariant says of the properties.                              *)
(***************************************************************************)
\* Once the queue is worked off, link has been at every state: one it had missed,
\* with the shortest word, would have been queued with its parent.
LEMMA AllAreLinked ==
  ASSUME TypeOK, Trie, Levels, ~Building, i = Len(queue)
  PROVE  Done = Queued /\ \A s \in States : s \in Linked
<1>1. Done = Queued
  BY DEF Done, Queued
<1> DEFINE Late(n) == \E t \in States : t \notin Linked /\ Len(word[t]) = n
           U == {n \in Nat : Late(n)}
<1>2. ASSUME NEW s \in States, s \notin Linked PROVE FALSE
  <2>1. U # {} /\ U \in SUBSET Nat
    <3>1. Len(word[s]) \in Nat /\ Late(Len(word[s]))
      BY <1>2, StateTypes
    <3> QED BY <3>1
  <2>2. PICK n \in U : \A m \in U : n <= m
    <3> HIDE DEF U
    <3> QED BY <2>1, LeastOfNats
  <2>3. PICK t \in States : t \notin Linked /\ Len(word[t]) = n
    BY <2>2
  <2>4. t # 0
    BY <2>3 DEF Linked
  <2>5. PICK p \in States, c \in Bytes : Folded(c) = c /\ word[t] = Append(word[p], c)
    BY <2>4 DEF Trie
  <2>6. Len(word[p]) \in Nat /\ n = Len(word[p]) + 1
    BY <2>3, <2>5, StateTypes, Appended
  <2>7. p \in Linked
    <3> SUFFICES ASSUME p \notin Linked PROVE FALSE
      OBVIOUS
    <3>1. Len(word[p]) \in U
      BY <2>6
    <3> HIDE DEF U
    <3> QED BY <2>2, <2>6, <3>1
  <2>8. t \in Queued
    BY <2>5, <2>7 DEF Levels
  <2> QED BY <1>1, <2>3, <2>8 DEF Linked
<1> QED BY <1>1, <1>2

LEMMA ExactTrie == IInv => TrieIsExact
<1> SUFFICES ASSUME IInv, pc = "insert" PROVE TrieIsExact
  BY DEF TrieIsExact
<1> USE DEF IInv
<1>1. \A s \in States : word[s] \in Seq(Bytes) /\ ExactRow(s)
  BY StateTypes, NoneDone DEF Building, Rows
<1>2. \A s, t \in States : s # t => ~SameWord(word[s], word[t])
  <2> SUFFICES ASSUME NEW s \in States, NEW t \in States, SameWord(word[s], word[t]) PROVE s = t
    OBVIOUS
  <2>1. word[s] = word[t]
    BY <1>1, SuffixWhole DEF SameWord
  <2> QED BY <2>1 DEF Trie
<1>3. ASSUME NEW s \in States, NEW c \in Bytes
      PROVE  IF next[s][c] # 0
             THEN word[next[s][c]] = Append(word[s], Folded(c))
             ELSE \A t \in States : ~SameWord(word[t], Append(word[s], Folded(c)))
  <2> DEFINE v == Append(word[s], Folded(c))
  <2>1. v \in Seq(Bytes)
    BY <1>1, StateTypes, FoldedByte, Appended
  <2>2. IF next[s][c] # 0 THEN word[next[s][c]] = v ELSE \A t \in States : word[t] # v
    BY <1>1 DEF ExactRow
  <2> HIDE DEF v
  <2>3. \A t \in States : SameWord(word[t], v) => word[t] = v
    BY <1>1, <2>1, SuffixWhole DEF SameWord
  <2> QED BY <2>2, <2>3 DEF v
<1>4. ASSUME NEW j \in 1 .. a - 1
      PROVE  \E s \in States : word[s] = Inserted(j) /\ \E n \in 1 .. Len(out[s]) : out[s][n] = Output(j)
  <2>1. PICK s \in States : word[s] = Inserted(j)
    BY DEF Place
  <2>2. j \in Own(s) /\ s \notin Done
    BY <2>1, NoneDone DEF Own, Building
  <2>3. PICK f \in Bijection(1 .. Len(out[s]), Own(s)) :
          \A n \in 1 .. Len(out[s]) : out[s][n] = OutputOf[f[n]]
    BY <2>2 DEF Outputs, Lists
  <2>4. PICK n \in 1 .. Len(out[s]) : f[n] = j
    BY <2>2, Fun_BijectionProperties
  <2>5. j \in 1 .. Len(anchors)
    BY StateTypes DEF TypeOK
  <2>6. out[s][n] = Output(j)
    BY <2>3, <2>4, <2>5 DEF OutputOf
  <2> QED BY <2>1, <2>6
<1>5. \A s \in States : s # 0 =>
        \E j \in 1 .. Len(anchors) : \E n \in 1 .. Len(Inserted(j)) :
          (j < a \/ (j = a /\ n <= k)) /\ word[s] = Prefix(j, n)
  BY DEF Trie
<1> QED BY <1>2, <1>3, <1>4, <1>5 DEF TrieIsExact

LEMMA LongestMoves == IInv => MovesToLongestSuffix
<1> SUFFICES ASSUME IInv, pc \in {"link", "ready"}, NEW s \in {0} \cup Done PROVE FullRow(s)
  BY DEF MovesToLongestSuffix, FullRow, Done
<1> USE DEF IInv
<1>1. ~Building /\ i \in Nat /\ Len(queue) \in Nat /\ i <= Len(queue)
  BY StateTypes DEF Building
<1>2. 0 \notin Done
  BY <1>1 DEF Levels, Done
<1>3. FullRow(0)
  BY <1>2, StateTypes, RootIsFull DEF Rows
<1>4. Done \in SUBSET States
  BY <1>1, StateTypes DEF Done
<1> QED BY <1>3, <1>4 DEF Rows

\* No anchor is too long for an output, as it took a state for each byte.
LEMMA LengthFits ==
  ASSUME TypeOK, Trie, Place, a = Len(anchors) + 1, NEW j \in 1 .. Len(anchors)
  PROVE  Output(j) = [rule |-> anchors[j].rule, length |-> Len(Inserted(j))]
<1> DEFINE n == Len(Inserted(j))
<1>1. n \in Nat /\ n = Len(anchors[j].text) /\ Len(anchors) \in Nat
  BY StateTypes, InsertedBytes
<1>2. PICK s \in States : word[s] = Inserted(j)
  BY <1>1 DEF Place
<1>3. n < MaxStates /\ MaxStates \in Nat
  <2>1. n <= s
    BY <1>2 DEF Trie
  <2>2. s < states /\ s \in Nat
    BY StateTypes DEF States
  <2>3. states \in Nat /\ states <= MaxStates /\ MaxStates \in Nat
    BY StateTypes DEF TypeOK
  <2> HIDE DEF n, States
  <2> QED BY <1>1, <2>1, <2>2, <2>3
<1>4. n % MaxStates = n
  <2>1. n \in Nat
    BY <1>1
  <2> HIDE DEF n
  <2> QED BY <1>3, <2>1
<1> HIDE DEF n
<1> QED BY <1>1, <1>4 DEF Output, Uint16, n

\* The machine as link leaves it.
LEMMA MachineIsBuilt ==
  ASSUME IInv, pc \notin {"insert", "failed", "link"}
  PROVE  /\ a = Len(anchors) + 1
         /\ \A s \in States : FullRow(s) /\ Lists(out[s], Ending(s), OutputOf)
         /\ \A j \in 1 .. Len(anchors) :
              OutputOf[j] = [rule |-> anchors[j].rule, length |-> Len(Inserted(j))]
<1> USE DEF IInv
<1>1. ~Building /\ i = Len(queue) /\ a = Len(anchors) + 1 /\ Len(anchors) \in Nat
  BY StateTypes DEF Building, Levels, Place
<1>2. Done = Queued /\ \A s \in States : s \in Linked
  BY <1>1, AllAreLinked
<1>3. 0 \notin Done
  BY <1>1 DEF Levels, Done
<1>4. FullRow(0)
  BY <1>3, StateTypes, RootIsFull DEF Rows
<1>5. Own(0) = Ending(0)
  <2>1. a \in Nat /\ a <= Len(anchors) + 1
    BY <1>1
  <2> QED BY <2>1, RootEnding
<1>6. ASSUME NEW s \in States PROVE FullRow(s) /\ Lists(out[s], Ending(s), OutputOf)
  <2>1. CASE s \in Done
    BY <2>1 DEF Rows, Outputs
  <2>2. CASE s = 0
    BY <1>3, <1>4, <1>5, <2>2 DEF Outputs
  <2> QED BY <1>2, <2>1, <2>2 DEF Linked
<1>7. ASSUME NEW j \in 1 .. Len(anchors)
      PROVE  OutputOf[j] = [rule |-> anchors[j].rule, length |-> Len(Inserted(j))]
  BY <1>1, LengthFits DEF OutputOf
<1> QED BY <1>1, <1>6, <1>7

LEMMA BuiltOutputs ==
  ASSUME IInv, pc \notin {"insert", "failed", "link"}, NEW s \in States
  PROVE  OutputsEnding(s)
<1> USE DEF IInv
<1>1. /\ Lists(out[s], Ending(s), OutputOf)
      /\ \A j \in 1 .. Len(anchors) :
           OutputOf[j] = [rule |-> anchors[j].rule, length |-> Len(Inserted(j))]
  BY MachineIsBuilt
<1>2. Len(out[s]) \in Nat
  BY StateTypes
<1>3. ASSUME NEW j \in Ending(s)
      PROVE  Cardinality({n \in 1 .. Len(out[s]) :
                            out[s][n] = [rule |-> anchors[j].rule, length |-> Len(Inserted(j))]})
               = Cardinality({m \in Ending(s) :
                            /\ anchors[m].rule = anchors[j].rule
                            /\ Len(Inserted(m)) = Len(Inserted(j))})
  <2> DEFINE e == [rule |-> anchors[j].rule, length |-> Len(Inserted(j))]
  <2>1. \A m \in Ending(s) : m \in 1 .. Len(anchors)
    BY DEF Ending
  <2>2. \A m \in Ending(s) :
          OutputOf[m] = e <=> anchors[m].rule = anchors[j].rule /\ Len(Inserted(m)) = Len(Inserted(j))
    <3> SUFFICES ASSUME NEW m \in Ending(s)
                 PROVE  OutputOf[m] = e
                          <=> anchors[m].rule = anchors[j].rule /\ Len(Inserted(m)) = Len(Inserted(j))
      OBVIOUS
    <3>1. OutputOf[m] = [rule |-> anchors[m].rule, length |-> Len(Inserted(m))]
      BY <1>1, <2>1
    <3> DEFINE r == anchors[m].rule
               l == Len(Inserted(m))
               q == anchors[j].rule
               o == Len(Inserted(j))
    <3>2. OutputOf[m] = [rule |-> r, length |-> l] /\ e = [rule |-> q, length |-> o]
      BY <3>1
    <3> HIDE DEF r, l, q, o, e
    <3>3. OutputOf[m] = e <=> r = q /\ l = o
      BY <3>2
    <3> QED BY <3>3 DEF r, l, q, o
  <2>3. {m \in Ending(s) : OutputOf[m] = e}
          = {m \in Ending(s) : anchors[m].rule = anchors[j].rule /\ Len(Inserted(m)) = Len(Inserted(j))}
    <3> HIDE DEF e
    <3> QED BY <2>2
  <2>4. Cardinality({n \in 1 .. Len(out[s]) : out[s][n] = e}) = Cardinality({m \in Ending(s) : OutputOf[m] = e})
    <3> DEFINE xs == out[s]
               T == Ending(s)
    <3>1. Lists(xs, T, OutputOf) /\ Len(xs) \in Nat
      BY <1>1, <1>2
    <3> HIDE DEF e, xs, T
    <3>2. Cardinality(Shown(xs, e)) = Cardinality(Named(T, OutputOf, e))
      BY <3>1, ListsCount
    <3>3. Shown(xs, e) = {n \in 1 .. Len(xs) : xs[n] = e} /\ Named(T, OutputOf, e) = {m \in T : OutputOf[m] = e}
      BY DEF Shown, Named
    <3> QED BY <3>2, <3>3 DEF xs, T
  <2> QED BY <2>3, <2>4
<1> QED BY <1>1, <1>2, <1>3, ListsCount DEF OutputsEnding

LEMMA SuffixOutputs == IInv => OutputsAreSuffixes
BY BuiltOutputs DEF OutputsAreSuffixes

LEMMA OnceEach == IInv => EachStateOnce
<1> SUFFICES ASSUME IInv PROVE EachStateOnce
  OBVIOUS
<1> USE DEF IInv
<1>1. ASSUME pc \in {"link", "ready"}
      PROVE  ~Building /\ \A m, n \in 1 .. Len(queue) : queue[m] = queue[n] => m = n
  BY <1>1 DEF Building, Levels
<1>2. ASSUME pc = "ready" PROVE Queued = States \ {0}
  <2>1. i = Len(queue) /\ ~Building
    BY <1>1, <1>2 DEF Levels
  <2>2. Done = Queued /\ \A s \in States : s \in Linked
    BY <2>1, AllAreLinked
  <2>3. \A m \in 1 .. Len(queue) : queue[m] # 0 /\ queue[m] \in States
    BY <2>1, StateTypes DEF Levels
  <2> QED BY <2>2, <2>3 DEF Linked, Queued
<1> QED BY <1>1, <1>2 DEF EachStateOnce
-----------------------------------------------------------------------------
\* buildAutomaton never writes outside the table it has, for any anchors.
THEOREM TypesKept == Spec => []TypeOK
<1> QED BY Invariance, PTL DEF IInv

\* insert: the states are the prefixes of the anchors, one each, every casing of
\* a byte leads on to the same state, and no anchor loses its output.
THEOREM TrieOfPrefixes == Spec => []TrieIsExact
<1> QED BY Invariance, ExactTrie, PTL

\* link: a completed row leads, under every byte, to the state of the longest
\* suffix of what was read.
THEOREM RowsLeadToLongest == Spec => []MovesToLongestSuffix
<1> QED BY Invariance, LongestMoves, PTL

\* freeze: a state has the outputs of the anchors that end there, each as often
\* as the rules list it.
THEOREM OutputsOfSuffixes == Spec => []OutputsAreSuffixes
<1> QED BY Invariance, SuffixOutputs, PTL

\* link queues no state twice and, when it ends, has missed none.
THEOREM EveryStateOnce == Spec => []EachStateOnce
<1> QED BY Invariance, OnceEach, PTL
=============================================================================
