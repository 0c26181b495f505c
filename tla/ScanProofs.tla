---------------------------- MODULE ScanProofs ----------------------------
(***************************************************************************)
(* What active and scan guarantee for every text, with any anchors, bytes  *)
(* and number of state ids.                                                *)
(*                                                                         *)
(* The argument: the scan is always in the state of the longest suffix of  *)
(* the bytes read that an anchor starts with (AtLongest), so the anchors   *)
(* that state outputs are those that end there (EndingOccurs).  Skipping a *)
(* byte at the root is a step of the machine that outputs nothing.         *)
(***************************************************************************)
EXTENDS Scan, AutomatonProofs

-----------------------------------------------------------------------------
Scanning == pc \in {"scan", "scanned"}

\* The first n bytes of the text, folded.
ReadUpTo(n) == [j \in 1 .. n |-> Folded(text[j])]

ScanTypes ==
  /\ windowed \subseteq anchored
  /\ text \in Seq(Bytes) /\ pos \in 0 .. Len(text) /\ cur \in States
  /\ ~Scanning => pos = 0 /\ cur = 0 /\ rules = {} /\ hits = <<>>

AtLongest == LongestSuffix(cur, ReadUpTo(pos))

FoundRules(n) ==
  {r \in all : \E j \in 1 .. Len(anchors), e \in 1 .. n : anchors[j].rule = r /\ OccursAt(j, e)}
RulesSoFar == Scanning => rules = always \cup FoundRules(pos)

\* The occurrences of windowed anchors in the first n bytes, and their hits.
FoundAt(n) ==
  {x \in (1 .. Len(anchors)) \X (1 .. n) : anchors[x[1]].rule \in windowed /\ OccursAt(x[1], x[2])}
HitAt ==
  [x \in (1 .. Len(anchors)) \X (1 .. Len(text)) |->
     [rule |-> anchors[x[1]].rule, start |-> x[2] - Len(Inserted(x[1])), end |-> x[2]]]
Hit == [rule : Nat, start : Int, end : Nat]

HitsSoFar == hits \in Seq(Hit) /\ Lists(hits, FoundAt(pos), HitAt)
Ordered == \A n, m \in 1 .. Len(hits) : n <= m => hits[n].end <= hits[m].end

\* A scan that ends before the end of the text has nothing left to find.
StopsRight == pc = "scanned" => pos = Len(text) \/ (rules = all /\ windowed = {})

SInv == IInv /\ ScanTypes /\ AtLongest /\ RulesSoFar /\ HitsSoFar /\ Ordered /\ StopsRight
-----------------------------------------------------------------------------
\* The scan leaves the machine alone.
LEMMA SameMachine ==
  ASSUME UNCHANGED <<anchors, fold, insertVars, tableVars, linkVars>>
  PROVE  /\ States' = States /\ Done' = Done /\ Queued' = Queued
         /\ \A j : Inserted(j)' = Inserted(j)
         /\ \A j, n : Prefix(j, n)' = Prefix(j, n)
         /\ \A c : Folded(c)' = Folded(c)
         /\ OutputOf' = OutputOf
BY DEF States, Done, Queued, Inserted, Prefix, Folded, OutputOf, Output, insertVars, tableVars, linkVars

LEMMA MachineKept ==
  ASSUME IInv, UNCHANGED <<anchors, fold, insertVars, tableVars, linkVars>>,
         pc \in {"ready", "scan"}, pc' \in {"scan", "scanned"}
  PROVE  IInv'
<1> USE DEF IInv
<1>1. /\ anchors' = anchors /\ fold' = fold /\ a' = a /\ k' = k /\ state' = state /\ states' = states
      /\ next' = next /\ out' = out /\ word' = word /\ fail' = fail /\ queue' = queue /\ i' = i
  BY DEF insertVars, tableVars, linkVars
<1>2. ~Inserting' /\ ~Inserting /\ ~Building' /\ ~Building
  BY DEF Inserting, Building
<1>3. /\ States' = States /\ Done' = Done /\ Queued' = Queued
      /\ \A j : Inserted(j)' = Inserted(j)
      /\ \A j, n : Prefix(j, n)' = Prefix(j, n)
      /\ \A c : Folded(c)' = Folded(c)
      /\ OutputOf' = OutputOf
  BY SameMachine
<1>4. TypeOK'
  <2> HIDE DEF States
  <2> QED BY <1>1, <1>2, <1>3 DEF TypeOK
<1>5. Trie'
  <2> HIDE DEF States
  <2> QED BY <1>1, <1>3 DEF Trie
<1>6. Place'
  <2> HIDE DEF States
  <2> QED BY <1>1, <1>2, <1>3 DEF Place
<1>7. Rows'
  <2>1. \A s : ExactRow(s)' = ExactRow(s)
    BY <1>1, <1>3 DEF ExactRow
  <2>2. \A s : FullRow(s)' = FullRow(s)
    BY <1>1, <1>3 DEF FullRow, LongestSuffix
  <2> QED BY <1>1, <1>3, <2>1, <2>2 DEF Rows
<1>8. Outputs'
  <2>1. \A s : Own(s)' = Own(s) /\ Ending(s)' = Ending(s)
    BY <1>1, <1>3 DEF Own, Ending
  <2> QED BY <1>1, <1>3, <2>1 DEF Outputs
<1>9. Levels'
  <2>1. i = Len(queue)
    BY <1>2 DEF Levels
  <2> QED BY <1>1, <1>2, <1>3, <2>1 DEF Levels, QueueSteps, IsFail, Linked
<1> QED BY <1>4, <1>5, <1>6, <1>7, <1>8, <1>9

-----------------------------------------------------------------------------
(***************************************************************************)
(* One byte of the text.                                                   *)
(***************************************************************************)
LEMMA ReadFacts ==
  ASSUME fold \in BOOLEAN, text \in Seq(Bytes), NEW n \in 0 .. Len(text)
  PROVE  /\ ReadUpTo(n) \in Seq(Bytes) /\ Len(ReadUpTo(n)) = n
         /\ n = 0 => ReadUpTo(n) = <<>>
         /\ n < Len(text) => /\ text[n + 1] \in Bytes
                             /\ ReadUpTo(n + 1) = Append(ReadUpTo(n), Folded(text[n + 1]))
<1>1. Len(text) \in Nat /\ n \in Nat /\ n <= Len(text) /\ \A j \in 1 .. Len(text) : text[j] \in Bytes
  BY LenProperties, ElementOfSeq
<1>2. \A m \in 0 .. Len(text) : /\ ReadUpTo(m) \in Seq(Bytes) /\ Len(ReadUpTo(m)) = m
                                /\ \A p \in 1 .. m : ReadUpTo(m)[p] = Folded(text[p])
  <2> SUFFICES ASSUME NEW m \in 0 .. Len(text)
               PROVE  /\ ReadUpTo(m) \in Seq(Bytes) /\ Len(ReadUpTo(m)) = m
                      /\ \A p \in 1 .. m : ReadUpTo(m)[p] = Folded(text[p])
    OBVIOUS
  <2> DEFINE f == ReadUpTo(m)
  <2>1. \A p \in 1 .. m : f[p] = Folded(text[p])
    BY DEF ReadUpTo
  <2>2. m \in Nat /\ \A p \in 1 .. m : p \in 1 .. Len(text)
    BY <1>1
  <2>3. f \in [1 .. m -> Bytes]
    BY <1>1, <2>2, FoldedByte DEF ReadUpTo
  <2> HIDE DEF f
  <2>4. f \in Seq(Bytes) /\ Len(f) = m
    BY <2>2, <2>3, SeqDef
  <2> QED BY <2>1, <2>4 DEF f
<1>3. ASSUME n = 0 PROVE ReadUpTo(n) = <<>>
  <2> DEFINE f == ReadUpTo(n)
  <2>1. f \in Seq(Bytes) /\ Len(f) = 0
    BY <1>2, <1>3
  <2> HIDE DEF f
  <2>2. f = <<>>
    BY <2>1, EmptySeq
  <2> QED BY <2>2 DEF f
<1>4. ASSUME n < Len(text)
      PROVE  text[n + 1] \in Bytes /\ ReadUpTo(n + 1) = Append(ReadUpTo(n), Folded(text[n + 1]))
  <2> DEFINE y == ReadUpTo(n)
             z == ReadUpTo(n + 1)
             e == Folded(text[n + 1])
  <2>1. n + 1 \in 0 .. Len(text) /\ n + 1 \in 1 .. Len(text)
    BY <1>1, <1>4
  <2>2. text[n + 1] \in Bytes /\ e \in Bytes
    BY <1>1, <2>1, FoldedByte
  <2>3. /\ z \in Seq(Bytes) /\ Len(z) = n + 1 /\ \A p \in 1 .. n + 1 : z[p] = Folded(text[p])
        /\ y \in Seq(Bytes) /\ Len(y) = n /\ \A p \in 1 .. n : y[p] = Folded(text[p])
    BY <1>1, <1>2, <2>1
  <2>4. z[n + 1] = e
    <3>1. n + 1 \in 1 .. n + 1
      BY <1>1
    <3> QED BY <2>3, <3>1
  <2> HIDE DEF y, z, e
  <2>5. /\ Append(y, e) \in Seq(Bytes) /\ Len(Append(y, e)) = n + 1 /\ Append(y, e)[n + 1] = e
        /\ \A p \in 1 .. n : Append(y, e)[p] = y[p]
    BY <2>2, <2>3, Appended
  <2>6. \A p \in 1 .. n + 1 : z[p] = Append(y, e)[p]
    <3>1. \A p \in 1 .. n + 1 : p # n + 1 => p \in 1 .. n
      BY <1>1
    <3> QED BY <2>3, <2>4, <2>5, <3>1
  <2>7. z = Append(y, e)
    BY <2>3, <2>5, <2>6, SeqEqual
  <2> QED BY <2>2, <2>7 DEF y, z, e
<1> QED BY <1>2, <1>3, <1>4

LEMMA OccursIff ==
  ASSUME fold \in BOOLEAN, text \in Seq(Bytes), anchors \in AnchorLists,
         NEW e \in 1 .. Len(text), NEW j \in 1 .. Len(anchors)
  PROVE  OccursAt(j, e) <=> IsSuffix(Inserted(j), ReadUpTo(e))
<1> DEFINE u == Inserted(j)
           v == ReadUpTo(e)
           l == Len(u)
<1>1. Len(text) \in Nat /\ e \in Nat /\ e <= Len(text) /\ e \in 0 .. Len(text) /\ l \in Nat
  BY LenProperties, InsertedBytes
<1>2. Len(v) = e
  BY <1>1, ReadFacts
<1>3. ASSUME l <= e, NEW n \in 1 .. l PROVE FoldedText[e - l + n] = v[e - l + n]
  <2> DEFINE p == e - l + n
  <2>1. p \in 1 .. e /\ p \in 1 .. Len(text)
    <3> HIDE DEF l
    <3> QED BY <1>1, <1>3
  <2> HIDE DEF p
  <2>2. FoldedText[p] = v[p]
    BY <2>1 DEF FoldedText, ReadUpTo
  <2> QED BY <2>2 DEF p
<1>4. OccursAt(j, e) <=> l <= e /\ \A n \in 1 .. l : FoldedText[e - l + n] = u[n]
  BY DEF OccursAt
<1>5. IsSuffix(u, v) <=> l <= e /\ \A n \in 1 .. l : u[n] = v[e - l + n]
  BY <1>2 DEF IsSuffix
<1> HIDE DEF u, v, l
<1>6. OccursAt(j, e) <=> IsSuffix(u, v)
  BY <1>3, <1>4, <1>5
<1> QED BY <1>6 DEF u, v

\* The machine's step keeps the scan at the longest suffix.
LEMMA LongestStep ==
  ASSUME TypeOK, Trie, NEW s \in States, FullRow(s), NEW v \in Seq(Bytes), NEW c \in Bytes,
         LongestSuffix(s, v)
  PROVE  next[s][c] \in States /\ LongestSuffix(next[s][c], Append(v, Folded(c)))
<1> DEFINE b == Folded(c)
           vb == Append(v, b)
           w == Append(word[s], b)
           x == next[s][c]
<1>1. b \in Bytes /\ x \in States /\ word[s] \in Seq(Bytes) /\ word[x] \in Seq(Bytes)
  BY StateTypes, FoldedByte
<1>2. LongestSuffix(x, w)
  BY DEF FullRow
<1> HIDE DEF b, x
<1>3. vb \in Seq(Bytes) /\ w \in Seq(Bytes)
  BY <1>1, Appended
<1>4. /\ IsSuffix(word[s], v) /\ IsSuffix(word[x], w)
      /\ \A u \in States : IsSuffix(word[u], v) => Len(word[u]) <= Len(word[s])
      /\ \A u \in States : IsSuffix(word[u], w) => Len(word[u]) <= Len(word[x])
  BY <1>2 DEF LongestSuffix
<1>5. IsSuffix(w, vb)
  BY <1>1, <1>4, SuffixAppend
<1>6. IsSuffix(word[x], vb)
  <2> HIDE DEF w, vb
  <2> QED BY <1>1, <1>3, <1>4, <1>5, SuffixTrans
<1>7. ASSUME NEW u \in States, IsSuffix(word[u], vb) PROVE Len(word[u]) <= Len(word[x])
  <2>1. CASE u = 0
    <3>1. Len(word[u]) = 0 /\ Len(word[x]) \in Nat
      BY <1>1, <2>1, EmptySeq, LenProperties DEF Trie
    <3> QED BY <3>1
  <2>2. CASE u # 0
    <3>1. PICK p \in States, d \in Bytes : Folded(d) = d /\ word[u] = Append(word[p], d)
      BY <2>2 DEF Trie
    <3>2. word[p] \in Seq(Bytes)
      BY StateTypes
    <3>3. d = b /\ IsSuffix(word[p], v)
      BY <1>1, <1>7, <3>1, <3>2, SuffixAppend
    <3>4. IsSuffix(word[p], word[s])
      BY <1>1, <1>4, <3>2, <3>3, SuffixNested
    <3>5. IsSuffix(word[u], w)
      BY <1>1, <3>1, <3>2, <3>3, <3>4, SuffixAppend
    <3> QED BY <1>4, <3>5
  <2> QED BY <2>1, <2>2
<1> QED BY <1>1, <1>6, <1>7 DEF LongestSuffix, b, x

\* The state of the longest suffix outputs the anchors that end where it does.
LEMMA EndingOccurs ==
  ASSUME IInv, a = Len(anchors) + 1, text \in Seq(Bytes), NEW e \in 1 .. Len(text),
         NEW s \in States, LongestSuffix(s, ReadUpTo(e))
  PROVE  Ending(s) = {j \in 1 .. Len(anchors) : OccursAt(j, e)}
<1> USE DEF IInv
<1> DEFINE v == ReadUpTo(e)
<1>1. /\ v \in Seq(Bytes) /\ word[s] \in Seq(Bytes) /\ anchors \in AnchorLists /\ fold \in BOOLEAN
      /\ Len(anchors) \in Nat
  <2>1. e \in 0 .. Len(text)
    OBVIOUS
  <2> QED BY <2>1, StateTypes, ReadFacts
<1>2. /\ IsSuffix(word[s], v)
      /\ \A u \in States : IsSuffix(word[u], v) => Len(word[u]) <= Len(word[s])
  BY DEF LongestSuffix
<1>3. ASSUME NEW j \in 1 .. Len(anchors) PROVE OccursAt(j, e) <=> IsSuffix(Inserted(j), v)
  BY <1>1, OccursIff
<1> HIDE DEF v
<1>4. ASSUME NEW j \in 1 .. Len(anchors)
      PROVE  IsSuffix(Inserted(j), word[s]) <=> IsSuffix(Inserted(j), v)
  <2>1. Inserted(j) \in Seq(Bytes)
    BY <1>1, InsertedBytes
  <2>2. j \in 1 .. a - 1
    BY <1>1
  <2>3. PICK u \in States : word[u] = Inserted(j)
    BY <2>2 DEF Place
  <2>4. IsSuffix(Inserted(j), v) => Len(Inserted(j)) <= Len(word[s])
    BY <1>2, <2>3
  <2>5. IsSuffix(Inserted(j), v) => IsSuffix(Inserted(j), word[s])
    BY <1>1, <1>2, <2>1, <2>4, SuffixNested
  <2>6. IsSuffix(Inserted(j), word[s]) => IsSuffix(Inserted(j), v)
    BY <1>1, <1>2, <2>1, SuffixTrans
  <2> QED BY <2>5, <2>6
<1> QED BY <1>3, <1>4 DEF Ending
-----------------------------------------------------------------------------
(***************************************************************************)
(* The hits of one byte, and of one byte more.                             *)
(***************************************************************************)
EndingAt(s, e) == {x \in (1 .. Len(anchors)) \X {e} : anchors[x[1]].rule \in windowed /\ x[1] \in Ending(s)}

WindowedList(s) == InOrderOf(WindowedOutputs(s), [n \in 1 .. Len(out[s]) |-> n])

LEMMA WindowedListed ==
  ASSUME NEW s, Len(out[s]) \in Nat
  PROVE  /\ WindowedList(s) \in Seq(WindowedOutputs(s)) /\ Len(WindowedList(s)) \in Nat
         /\ \A m, n \in 1 .. Len(WindowedList(s)) : WindowedList(s)[m] = WindowedList(s)[n] => m = n
         /\ \A t \in WindowedOutputs(s) : \E n \in 1 .. Len(WindowedList(s)) : WindowedList(s)[n] = t
<1> DEFINE N == Len(out[s])
           W == WindowedOutputs(s)
           id == [n \in 1 .. N |-> n]
<1>1. W \in SUBSET (1 .. N)
  BY DEF WindowedOutputs
<1>2. \A t \in W : id[t] \in Nat
  BY <1>1
<1>3. \A t, u \in W : id[t] = id[u] => t = u
  BY <1>1
<1>4. WindowedList(s) = InOrderOf(W, id)
  BY DEF WindowedList
<1> HIDE DEF N, W, id
<1>5. IsFiniteSet(W)
  <2>1. IsFiniteSet(1 .. N)
    BY FS_Interval DEF N
  <2> QED BY <1>1, <2>1, FS_Subset
<1> QED BY <1>2, <1>3, <1>4, <1>5, InOrderLists DEF W

LEMMA HitsOfLists ==
  ASSUME IInv, a = Len(anchors) + 1, text \in Seq(Bytes), NEW e \in 1 .. Len(text), NEW s \in States,
         Lists(out[s], Ending(s), OutputOf),
         \A j \in 1 .. Len(anchors) :
           OutputOf[j] = [rule |-> anchors[j].rule, length |-> Len(Inserted(j))]
  PROVE  /\ HitsOf(s, e) \in Seq(Hit) /\ Len(HitsOf(s, e)) \in Nat
         /\ \A m \in 1 .. Len(HitsOf(s, e)) : HitsOf(s, e)[m].end = e
         /\ Lists(HitsOf(s, e), EndingAt(s, e), HitAt)
<1> USE DEF IInv
<1> DEFINE N == Len(out[s])
           W == WindowedOutputs(s)
           R == WindowedList(s)
           H == HitsOf(s, e)
           T == EndingAt(s, e)
<1>1. N \in Nat /\ Len(text) \in Nat /\ Len(anchors) \in Nat /\ anchors \in AnchorLists /\ fold \in BOOLEAN
  BY StateTypes, LenProperties
<1>2. W \in SUBSET (1 .. N)
  BY DEF WindowedOutputs
<1>3. /\ R \in Seq(W) /\ Len(R) \in Nat
      /\ \A m, n \in 1 .. Len(R) : R[m] = R[n] => m = n
      /\ \A t \in W : \E n \in 1 .. Len(R) : R[n] = t
  BY <1>1, WindowedListed
<1>4. \A m \in 1 .. Len(R) : R[m] \in W
  <2> HIDE DEF R, W
  <2> QED BY <1>3, ElementOfSeq
<1>5. PICK f \in Bijection(1 .. N, Ending(s)) : \A n \in 1 .. N : out[s][n] = OutputOf[f[n]]
  BY DEF Lists
<1>6. /\ f \in [1 .. N -> Ending(s)]
      /\ \A j, m \in 1 .. N : f[j] = f[m] => j = m
      /\ \A u \in Ending(s) : \E j \in 1 .. N : f[j] = u
  BY Fun_BijectionProperties
<1>7. \A j \in Ending(s) : j \in 1 .. Len(anchors)
  BY DEF Ending
<1>8. \A n \in 1 .. N : n \in W <=> anchors[f[n]].rule \in windowed
  <2> SUFFICES ASSUME NEW n \in 1 .. N PROVE n \in W <=> anchors[f[n]].rule \in windowed
    OBVIOUS
  <2>1. out[s][n].rule = anchors[f[n]].rule
    <3>1. f[n] \in 1 .. Len(anchors)
      BY <1>6, <1>7
    <3>2. out[s][n] = [rule |-> anchors[f[n]].rule, length |-> Len(Inserted(f[n]))]
      BY <1>5, <3>1
    <3> QED BY <3>2
  <2> QED BY <2>1 DEF WindowedOutputs
<1>9. H = [m \in 1 .. Len(R) |-> HitOf(out[s][R[m]], e)]
  BY DEF HitsOf, WindowedList
<1> DEFINE h == [m \in 1 .. Len(R) |-> <<f[R[m]], e>>]
<1> HIDE DEF R, W
<1>10. \A m \in 1 .. Len(R) : f[R[m]] \in Ending(s) /\ R[m] \in 1 .. N
  BY <1>2, <1>4, <1>6
<1>11. h \in [1 .. Len(R) -> T]
  <2>1. \A m \in 1 .. Len(R) : <<f[R[m]], e>> \in T
    BY <1>4, <1>7, <1>8, <1>10 DEF EndingAt
  <2> HIDE DEF T
  <2> QED BY <2>1
<1>12. \A m, n \in 1 .. Len(R) : h[m] = h[n] => m = n
  BY <1>3, <1>6, <1>10
<1>13. \A x \in T : \E m \in 1 .. Len(R) : h[m] = x
  <2> SUFFICES ASSUME NEW x \in T PROVE \E m \in 1 .. Len(R) : h[m] = x
    OBVIOUS
  <2>1. x = <<x[1], e>> /\ x[1] \in Ending(s) /\ anchors[x[1]].rule \in windowed
    BY DEF EndingAt
  <2>2. PICK n \in 1 .. N : f[n] = x[1]
    BY <1>6, <2>1
  <2>3. PICK m \in 1 .. Len(R) : R[m] = n
    BY <1>3, <1>8, <2>1, <2>2
  <2> QED BY <2>1, <2>2, <2>3
<1>14. h \in Bijection(1 .. Len(R), T)
  <2> HIDE DEF h, T
  <2> QED BY <1>11, <1>12, <1>13, Fun_IsBij
<1>15. ASSUME NEW m \in 1 .. Len(R)
       PROVE  H[m] = HitAt[h[m]] /\ H[m] \in Hit /\ H[m].end = e
  <2> DEFINE j == f[R[m]]
             r == anchors[j].rule
             l == Len(Inserted(j))
  <2>1. j \in 1 .. Len(anchors)
    BY <1>7, <1>10
  <2>2. out[s][R[m]] = [rule |-> r, length |-> l]
    BY <1>5, <1>10, <2>1
  <2>3. H[m] = [rule |-> r, start |-> e - l, end |-> e]
    <3> HIDE DEF r, l, j
    <3> QED BY <1>9, <2>2 DEF HitOf
  <2>4. h[m] = <<j, e>> /\ <<j, e>> \in (1 .. Len(anchors)) \X (1 .. Len(text))
    BY <2>1
  <2> HIDE DEF h, j
  <2>5. HitAt[<<j, e>>] = [rule |-> r, start |-> e - l, end |-> e]
    BY <2>4 DEF HitAt
  <2>6. r \in Nat /\ l \in Nat
    BY <1>1, <2>1, AnchorTypes, InsertedBytes
  <2>7. [rule |-> r, start |-> e - l, end |-> e] \in Hit
    <3> HIDE DEF r, l
    <3>1. e - l \in Int /\ e \in Nat
      BY <1>1, <2>6
    <3> QED BY <2>6, <3>1 DEF Hit
  <2> QED BY <2>3, <2>4, <2>5, <2>7
<1>16. H \in Seq(Hit) /\ Len(H) = Len(R)
  <2>1. H \in [1 .. Len(R) -> Hit]
    <3>1. \A m \in 1 .. Len(R) : H[m] \in Hit
      BY <1>15
    <3>2. H = [m \in 1 .. Len(R) |-> H[m]]
      BY <1>9
    <3> HIDE DEF H
    <3> QED BY <3>1, <3>2
  <2> DEFINE L == Len(R)
  <2>2. L \in Nat /\ H \in [1 .. L -> Hit]
    BY <1>3, <2>1
  <2> HIDE DEF H, L
  <2>3. H \in Seq(Hit) /\ Len(H) = L
    BY <2>2, SeqDef
  <2> QED BY <2>3 DEF L
<1> HIDE DEF H, h, T
<1>17. Lists(H, T, HitAt)
  BY <1>14, <1>15, <1>16 DEF Lists
<1>18. \A m \in 1 .. Len(H) : H[m].end = e
  BY <1>15, <1>16
<1> QED BY <1>3, <1>16, <1>17, <1>18 DEF H, T

\* Before a byte is read, and while none has been.
Idle == pos = 0 /\ cur = 0 /\ hits = <<>> /\ text \in Seq(Bytes)

LEMMA IdleScan == IInv /\ Idle => AtLongest /\ HitsSoFar /\ Ordered
<1> SUFFICES ASSUME IInv, Idle PROVE AtLongest /\ HitsSoFar /\ Ordered
  OBVIOUS
<1> USE DEF IInv
<1>1. /\ 0 \in States /\ word[0] = <<>> /\ Len(<<>>) = 0 /\ fold \in BOOLEAN
      /\ \A t \in States : word[t] \in Seq(Bytes)
  BY StateTypes, EmptySeq DEF Trie
<1>2. ReadUpTo(0) = <<>>
  <2>1. 0 \in 0 .. Len(text)
    BY LenProperties DEF Idle
  <2> QED BY <1>1, <2>1, ReadFacts DEF Idle
<1>3. AtLongest
  <2>1. IsSuffix(word[0], <<>>)
    BY <1>1, SuffixRefl
  <2>2. \A t \in States : IsSuffix(word[t], <<>>) => Len(word[t]) <= Len(word[0])
    BY <1>1 DEF IsSuffix
  <2> QED BY <1>1, <1>2, <2>1, <2>2 DEF AtLongest, LongestSuffix, Idle
<1>4. HitsSoFar
  <2>1. 1 .. 0 = {}
    OBVIOUS
  <2>2. FoundAt(0) = {}
    BY <2>1 DEF FoundAt
  <2>3. <<>> \in Seq(Hit)
    BY EmptySeq
  <2> QED BY <2>2, <2>3, ListsNothing DEF HitsSoFar, Idle
<1>5. Ordered
  <2>1. 1 .. Len(hits) = {}
    BY <1>1 DEF Idle
  <2> QED BY <2>1 DEF Ordered
<1> QED BY <1>3, <1>4, <1>5

LEMMA AllRules ==
  ASSUME IInv, ScanTypes
  PROVE  /\ anchored \subseteq all /\ always \subseteq all
         /\ \A j \in 1 .. Len(anchors) : anchors[j].rule \in all
         /\ always = all => windowed = {}
<1> USE DEF IInv
<1>1. \A j \in 1 .. Len(anchors) : anchors[j].rule \in Nat /\ anchors[j].rule < RuleCount
  BY StateTypes, AnchorTypes, TextsAssumption
<1>2. \A j \in 1 .. Len(anchors) : anchors[j].rule \in all
  BY <1>1, TextsAssumption DEF all
<1>3. anchored \subseteq all
  BY <1>2 DEF anchored
<1>4. always = all => anchored = {}
  BY <1>3 DEF always
<1> QED BY <1>2, <1>3, <1>4 DEF always, ScanTypes

\* Where the next byte leads.
Arrived == next[cur][Byte]
RulesEnding(s) == {anchors[j].rule : j \in Ending(s)}

LEMMA RulesAreEnding ==
  ASSUME IInv, NEW s \in States, Lists(out[s], Ending(s), OutputOf),
         \A j \in 1 .. Len(anchors) :
           OutputOf[j] = [rule |-> anchors[j].rule, length |-> Len(Inserted(j))]
  PROVE  RulesOf(s) = RulesEnding(s)
<1> DEFINE N == Len(out[s])
<1>1. PICK f \in Bijection(1 .. N, Ending(s)) : \A n \in 1 .. N : out[s][n] = OutputOf[f[n]]
  BY DEF Lists
<1>2. f \in [1 .. N -> Ending(s)] /\ \A u \in Ending(s) : \E j \in 1 .. N : f[j] = u
  BY Fun_BijectionProperties
<1>3. \A j \in Ending(s) : j \in 1 .. Len(anchors)
  BY DEF Ending
<1>4. \A n \in 1 .. N : f[n] \in Ending(s) /\ out[s][n].rule = anchors[f[n]].rule
  <2> SUFFICES ASSUME NEW n \in 1 .. N
               PROVE  f[n] \in Ending(s) /\ out[s][n].rule = anchors[f[n]].rule
    OBVIOUS
  <2>1. f[n] \in Ending(s) /\ f[n] \in 1 .. Len(anchors)
    BY <1>2, <1>3
  <2>2. out[s][n] = [rule |-> anchors[f[n]].rule, length |-> Len(Inserted(f[n]))]
    BY <1>1, <2>1
  <2> QED BY <2>1, <2>2
<1>5. RulesOf(s) = {out[s][n].rule : n \in 1 .. N}
  BY DEF RulesOf
<1> HIDE DEF N
<1> QED BY <1>2, <1>4, <1>5 DEF RulesEnding

LEMMA ReadStep ==
  ASSUME SInv, Reading
  PROVE  /\ Arrived \in States /\ pos + 1 \in 1 .. Len(text) /\ pos \in Nat
         /\ LongestSuffix(Arrived, ReadUpTo(pos + 1))
         /\ Ending(Arrived) = {j \in 1 .. Len(anchors) : OccursAt(j, pos + 1)}
         /\ RulesOf(Arrived) = RulesEnding(Arrived)
         /\ HitsOf(Arrived, pos + 1) \in Seq(Hit) /\ Len(HitsOf(Arrived, pos + 1)) \in Nat
         /\ \A m \in 1 .. Len(HitsOf(Arrived, pos + 1)) : HitsOf(Arrived, pos + 1)[m].end = pos + 1
         /\ Lists(HitsOf(Arrived, pos + 1), EndingAt(Arrived, pos + 1), HitAt)
<1>1. IInv /\ TypeOK /\ Trie /\ text \in Seq(Bytes) /\ pos \in 0 .. Len(text) /\ cur \in States
      /\ LongestSuffix(cur, ReadUpTo(pos)) /\ fold \in BOOLEAN
  BY StateTypes DEF SInv, IInv, ScanTypes, AtLongest
<1>2. /\ a = Len(anchors) + 1
      /\ \A s \in States : FullRow(s) /\ Lists(out[s], Ending(s), OutputOf)
      /\ \A j \in 1 .. Len(anchors) :
           OutputOf[j] = [rule |-> anchors[j].rule, length |-> Len(Inserted(j))]
  BY <1>1, MachineIsBuilt DEF Reading
<1> DEFINE e == pos + 1
<1>3. pos \in Nat /\ Len(text) \in Nat /\ pos < Len(text) /\ e \in 1 .. Len(text)
  BY <1>1, LenProperties DEF Reading
<1>4. /\ Byte \in Bytes /\ ReadUpTo(pos) \in Seq(Bytes)
      /\ ReadUpTo(e) = Append(ReadUpTo(pos), Folded(Byte))
  BY <1>1, <1>3, ReadFacts DEF Byte
<1>5. Arrived \in States /\ LongestSuffix(Arrived, ReadUpTo(e))
  BY <1>1, <1>2, <1>4, LongestStep DEF Arrived
<1> HIDE DEF e
<1>6. Ending(Arrived) = {j \in 1 .. Len(anchors) : OccursAt(j, e)}
  BY <1>1, <1>2, <1>3, <1>5, EndingOccurs
<1>7. Lists(out[Arrived], Ending(Arrived), OutputOf)
  BY <1>2, <1>5
<1>8. RulesOf(Arrived) = RulesEnding(Arrived)
  BY <1>1, <1>2, <1>5, <1>7, RulesAreEnding
<1>9. /\ HitsOf(Arrived, e) \in Seq(Hit) /\ Len(HitsOf(Arrived, e)) \in Nat
      /\ \A m \in 1 .. Len(HitsOf(Arrived, e)) : HitsOf(Arrived, e)[m].end = e
      /\ Lists(HitsOf(Arrived, e), EndingAt(Arrived, e), HitAt)
  BY <1>1, <1>2, <1>3, <1>5, <1>7, HitsOfLists
<1> QED BY <1>3, <1>5, <1>6, <1>8, <1>9 DEF e

LEMMA OneMoreByte ==
  ASSUME SInv, Reading
  PROVE  /\ FoundRules(pos + 1) = FoundRules(pos) \cup RulesEnding(Arrived)
         /\ FoundAt(pos + 1) = FoundAt(pos) \cup EndingAt(Arrived, pos + 1)
         /\ FoundAt(pos) \cap EndingAt(Arrived, pos + 1) = {}
<1> DEFINE e == pos + 1
<1>1. e \in 1 .. Len(text) /\ pos \in Nat /\ Ending(Arrived) = {j \in 1 .. Len(anchors) : OccursAt(j, e)}
  BY ReadStep
<1>2. 1 .. e = (1 .. pos) \cup {e} /\ e \notin 1 .. pos
  BY <1>1
<1>3. \A j \in 1 .. Len(anchors) : anchors[j].rule \in all
  BY AllRules DEF SInv
<1> HIDE DEF e
<1>4. FoundRules(e) = FoundRules(pos) \cup RulesEnding(Arrived)
  BY <1>1, <1>2, <1>3 DEF FoundRules, RulesEnding
<1> DEFINE J == 1 .. Len(anchors)
           P(x) == anchors[x[1]].rule \in windowed /\ OccursAt(x[1], x[2])
<1>5. FoundAt(e) = {x \in J \X (1 .. e) : P(x)} /\ FoundAt(pos) = {x \in J \X (1 .. pos) : P(x)}
  BY DEF FoundAt
<1>6. EndingAt(Arrived, e) = {x \in J \X {e} : P(x)}
  <2>1. \A x \in J \X {e} : x[1] \in J /\ x[2] = e
    OBVIOUS
  <2>2. \A x \in J \X {e} : x[1] \in Ending(Arrived) <=> OccursAt(x[1], x[2])
    BY <1>1, <2>1
  <2>3. EndingAt(Arrived, e) = {x \in J \X {e} : anchors[x[1]].rule \in windowed /\ x[1] \in Ending(Arrived)}
    BY DEF EndingAt
  <2> HIDE DEF J
  <2> QED BY <2>2, <2>3
<1> HIDE DEF J, P
<1>7. J \X (1 .. e) = (J \X (1 .. pos)) \cup (J \X {e})
  BY <1>2
<1>8. (J \X (1 .. pos)) \cap (J \X {e}) = {}
  BY <1>2
<1>9. FoundAt(e) = FoundAt(pos) \cup EndingAt(Arrived, e)
  BY <1>5, <1>6, <1>7
<1>10. FoundAt(pos) \cap EndingAt(Arrived, e) = {}
  BY <1>5, <1>6, <1>8
<1> QED BY <1>4, <1>9, <1>10 DEF e

\* The same text in the next state.
LEMMA NextRead ==
  ASSUME UNCHANGED <<anchors, fold, text, windowed>>
  PROVE  /\ ReadUpTo(pos)' = ReadUpTo(pos') /\ FoundRules(pos)' = FoundRules(pos')
         /\ FoundAt(pos)' = FoundAt(pos') /\ HitAt' = HitAt
         /\ always' = always /\ anchored' = anchored
<1>1. \A c : Folded(c)' = Folded(c)
  BY DEF Folded
<1>2. \A j : Inserted(j)' = Inserted(j)
  BY DEF Inserted
<1>3. FoldedText' = FoldedText
  BY <1>1 DEF FoldedText
<1>4. \A j, e : OccursAt(j, e)' = OccursAt(j, e)
  BY <1>2, <1>3 DEF OccursAt
<1>5. ReadUpTo(pos)' = ReadUpTo(pos')
  BY <1>1 DEF ReadUpTo
<1>6. always' = always /\ anchored' = anchored
  BY DEF always, anchored, all
<1>7. FoundRules(pos)' = FoundRules(pos')
  BY <1>4 DEF FoundRules, all
<1>8. FoundAt(pos)' = FoundAt(pos')
  <2>1. FoundAt(pos)' = {x \in (1 .. Len(anchors)) \X (1 .. pos') :
                           anchors[x[1]].rule \in windowed /\ OccursAt(x[1], x[2])'}
    BY DEF FoundAt
  <2> QED BY <1>4, <2>1 DEF FoundAt
<1>9. HitAt' = HitAt
  BY <1>2 DEF HitAt
<1> QED BY <1>5, <1>6, <1>7, <1>8, <1>9
-----------------------------------------------------------------------------
(***************************************************************************)
(* The steps of the scan.                                                  *)
(***************************************************************************)
LEMMA ByteKept ==
  ASSUME SInv, Reading, UNCHANGED <<anchors, fold, insertVars, tableVars, linkVars>>,
         UNCHANGED <<text, windowed>>,
         pos' = pos + 1, cur' = Arrived, rules' = rules \cup RulesEnding(Arrived),
         pc' \in {"scan", "scanned"},
         pc' = "scanned" => rules' = all /\ windowed = {},
         hits' \in Seq(Hit), Lists(hits', FoundAt(pos + 1), HitAt), Ordered'
  PROVE  SInv'
<1>1. IInv'
  BY MachineKept DEF SInv, Reading
<1>2. /\ ReadUpTo(pos)' = ReadUpTo(pos') /\ FoundRules(pos)' = FoundRules(pos')
      /\ FoundAt(pos)' = FoundAt(pos') /\ HitAt' = HitAt
      /\ always' = always /\ anchored' = anchored
  BY NextRead
<1>3. States' = States /\ word' = word
  BY SameMachine DEF tableVars
<1>4. /\ Arrived \in States /\ pos + 1 \in 1 .. Len(text) /\ pos \in Nat
      /\ LongestSuffix(Arrived, ReadUpTo(pos + 1))
  BY ReadStep
<1>5. Scanning /\ Scanning'
  BY DEF Scanning, Reading
<1>6. ScanTypes'
  <2>1. pos + 1 \in 0 .. Len(text)
    BY <1>4
  <2>2. windowed \subseteq anchored /\ text \in Seq(Bytes)
    BY DEF SInv, ScanTypes
  <2> HIDE DEF States
  <2> QED BY <1>2, <1>3, <1>4, <1>5, <2>1, <2>2 DEF ScanTypes
<1>7. AtLongest'
  <2>1. LongestSuffix(Arrived, ReadUpTo(pos'))
    BY <1>4
  <2> QED BY <1>2, <1>3, <2>1 DEF AtLongest, LongestSuffix
<1>8. RulesSoFar'
  <2>1. rules = always \cup FoundRules(pos)
    BY <1>5 DEF SInv, RulesSoFar
  <2>2. FoundRules(pos') = FoundRules(pos) \cup RulesEnding(Arrived)
    BY OneMoreByte
  <2>3. rules' = always \cup FoundRules(pos')
    BY <2>1, <2>2
  <2> QED BY <1>2, <2>3 DEF RulesSoFar
<1>9. HitsSoFar'
  <2>1. Lists(hits', FoundAt(pos'), HitAt)
    OBVIOUS
  <2> QED BY <1>2, <2>1 DEF HitsSoFar
<1>10. StopsRight'
  BY DEF StopsRight, all
<1> QED BY <1>1, <1>6, <1>7, <1>8, <1>9, <1>10 DEF SInv

LEMMA SkipKept ==
  ASSUME SInv, SkipByte
  PROVE  SInv'
<1>1. /\ Reading /\ cur = 0 /\ next[0][Byte] = 0 /\ pos' = pos + 1 /\ pc' = pc
      /\ UNCHANGED <<anchors, fold, insertVars, tableVars, linkVars>>
      /\ UNCHANGED <<text, windowed, cur, rules, hits>>
  BY DEF SkipByte, starts, vars
<1>2. cur' = Arrived /\ Arrived = 0
  BY <1>1 DEF Arrived
<1>3. Ending(Arrived) = {}
  <2>1. IInv /\ TypeOK /\ Trie
    BY DEF SInv, IInv
  <2>2. a = Len(anchors) + 1 /\ Len(anchors) \in Nat
    BY <1>1, <2>1, MachineIsBuilt, StateTypes DEF Reading
  <2>3. a \in Nat /\ a <= Len(anchors) + 1
    BY <2>2
  <2>4. Ending(0) = {}
    BY <2>1, <2>3, RootEnding
  <2> QED BY <1>2, <2>4
<1>4. RulesEnding(Arrived) = {} /\ EndingAt(Arrived, pos + 1) = {}
  BY <1>3 DEF RulesEnding, EndingAt
<1>5. FoundAt(pos + 1) = FoundAt(pos)
  BY <1>1, <1>4, OneMoreByte
<1>6. hits' \in Seq(Hit) /\ Lists(hits', FoundAt(pos + 1), HitAt) /\ Ordered'
  BY <1>1, <1>5 DEF SInv, HitsSoFar, Ordered
<1>7. rules' = rules \cup RulesEnding(Arrived)
  BY <1>1, <1>4
<1>8. pc' = "scan"
  BY <1>1 DEF Reading
<1> QED BY <1>1, <1>2, <1>6, <1>7, <1>8, ByteKept

LEMMA ReadKept ==
  ASSUME SInv, ReadByte
  PROVE  SInv'
<1> DEFINE H == HitsOf(Arrived, pos + 1)
           N == Len(hits)
           M == Len(H)
<1>1. /\ Reading /\ pos' = pos + 1 /\ cur' = Arrived
      /\ rules' = rules \cup RulesOf(Arrived) /\ hits' = hits \o H
      /\ pc' = IF out[Arrived] # <<>> /\ CanStop(rules') THEN "scanned" ELSE pc
      /\ UNCHANGED <<anchors, fold, insertVars, tableVars, linkVars>>
      /\ UNCHANGED <<text, windowed>>
  BY DEF ReadByte, Arrived
<1>2. /\ RulesOf(Arrived) = RulesEnding(Arrived) /\ pos \in Nat
      /\ H \in Seq(Hit) /\ M \in Nat /\ \A m \in 1 .. M : H[m].end = pos + 1
      /\ Lists(H, EndingAt(Arrived, pos + 1), HitAt)
  BY <1>1, ReadStep
<1>3. /\ FoundAt(pos + 1) = FoundAt(pos) \cup EndingAt(Arrived, pos + 1)
      /\ FoundAt(pos) \cap EndingAt(Arrived, pos + 1) = {}
  BY <1>1, OneMoreByte
<1>4. hits \in Seq(Hit) /\ Lists(hits, FoundAt(pos), HitAt) /\ N \in Nat /\ Ordered
  BY LenProperties DEF SInv, HitsSoFar
<1> HIDE DEF H
<1>5. Lists(hits \o H, FoundAt(pos + 1), HitAt)
  BY <1>2, <1>3, <1>4, ListsBoth
<1>6. /\ hits' \in Seq(Hit) /\ Len(hits') = N + M
      /\ \A m \in 1 .. N + M : hits'[m] = IF m <= N THEN hits[m] ELSE H[m - N]
  BY <1>1, <1>2, <1>4, ConcatProperties
<1>7. \A m \in 1 .. N : hits[m].end <= pos /\ hits[m].end \in Nat
  <2> SUFFICES ASSUME NEW m \in 1 .. N PROVE hits[m].end <= pos /\ hits[m].end \in Nat
    OBVIOUS
  <2>1. PICK f \in Bijection(1 .. N, FoundAt(pos)) : \A n \in 1 .. N : hits[n] = HitAt[f[n]]
    BY <1>4 DEF Lists
  <2>2. f[m] \in FoundAt(pos)
    BY Fun_BijectionProperties
  <2>3. f[m][1] \in 1 .. Len(anchors) /\ f[m][2] \in 1 .. pos /\ f[m] = <<f[m][1], f[m][2]>>
    BY <2>2 DEF FoundAt
  <2>4. pos \in 0 .. Len(text) /\ Len(text) \in Nat
    BY LenProperties DEF SInv, ScanTypes
  <2>5. f[m][2] \in 1 .. Len(text) /\ f[m][2] <= pos /\ f[m][2] \in Nat
    BY <2>3, <2>4
  <2>6. f[m] \in (1 .. Len(anchors)) \X (1 .. Len(text))
    BY <2>3, <2>5
  <2>7. HitAt[f[m]].end = f[m][2]
    <3> DEFINE x == f[m]
               r == anchors[x[1]].rule
               b == x[2] - Len(Inserted(x[1]))
    <3>1. HitAt[x] = [rule |-> r, start |-> b, end |-> x[2]]
      <4>1. x \in (1 .. Len(anchors)) \X (1 .. Len(text))
        BY <2>6
      <4> HIDE DEF x
      <4> QED BY <4>1 DEF HitAt
    <3> HIDE DEF x, r, b
    <3>2. HitAt[x].end = x[2]
      BY <3>1
    <3> QED BY <3>2 DEF x
  <2>8. hits[m] = HitAt[f[m]]
    BY <2>1
  <2> QED BY <2>5, <2>7, <2>8
<1>8. ASSUME NEW n \in 1 .. N + M, NEW m \in 1 .. N + M, n <= m PROVE hits'[n].end <= hits'[m].end
  <2>1. CASE m <= N
    <3>1. n \in 1 .. N /\ m \in 1 .. N /\ n <= N
      BY <1>2, <1>4, <1>8, <2>1
    <3>2. hits'[n] = hits[n] /\ hits'[m] = hits[m]
      BY <1>6, <2>1, <3>1
    <3> QED BY <1>4, <1>8, <3>1, <3>2 DEF Ordered
  <2>2. CASE ~(m <= N)
    <3>1. m - N \in 1 .. M
      BY <1>2, <1>4, <2>2
    <3>2. hits'[m].end = pos + 1
      BY <1>2, <1>6, <2>2, <3>1
    <3>3. CASE n <= N
      <4>1. n \in 1 .. N /\ hits'[n] = hits[n]
        BY <1>2, <1>4, <1>6, <3>3
      <4> QED BY <1>2, <1>7, <3>2, <4>1
    <3>4. CASE ~(n <= N)
      <4>1. n - N \in 1 .. M
        BY <1>2, <1>4, <3>4
      <4>2. hits'[n].end = pos + 1
        BY <1>2, <1>6, <3>4, <4>1
      <4> QED BY <1>2, <3>2, <4>2
    <3> QED BY <3>3, <3>4
  <2> QED BY <2>1, <2>2
<1>9. Ordered'
  BY <1>6, <1>8 DEF Ordered
<1>10. pc' \in {"scan", "scanned"} /\ (pc' = "scanned" => rules' = all /\ windowed = {})
  BY <1>1 DEF Reading, CanStop
<1>11. rules' = rules \cup RulesEnding(Arrived) /\ Lists(hits', FoundAt(pos + 1), HitAt)
  BY <1>1, <1>2, <1>5
<1> QED BY <1>1, <1>6, <1>9, <1>10, <1>11, ByteKept

LEMMA CallKept ==
  ASSUME SInv, Call
  PROVE  SInv'
<1>1. /\ pc = "ready" /\ text' \in Texts /\ rules' = always
      /\ pc' = IF always = all THEN "scanned" ELSE "scan"
      /\ UNCHANGED <<anchors, fold, insertVars, tableVars, linkVars>>
      /\ UNCHANGED <<windowed, pos, cur, hits>>
  BY DEF Call
<1>2. IInv'
  BY <1>1, MachineKept DEF SInv
<1>3. pos = 0 /\ cur = 0 /\ hits = <<>>
  BY <1>1 DEF SInv, ScanTypes, Scanning
<1>4. text' \in Seq(Bytes) /\ Len(text') \in Nat
  BY <1>1, TextsAssumption, LenProperties
<1>5. Scanning'
  BY <1>1 DEF Scanning
<1>6. States' = States /\ always' = always /\ anchored' = anchored
  BY <1>1, SameMachine DEF always, anchored, all
<1>7. ScanTypes'
  <2>1. pos' \in 0 .. Len(text')
    BY <1>1, <1>3, <1>4
  <2>2. windowed \subseteq anchored /\ cur \in States
    BY DEF SInv, ScanTypes
  <2> HIDE DEF States
  <2> QED BY <1>1, <1>4, <1>5, <1>6, <2>1, <2>2 DEF ScanTypes
<1>8. Idle'
  BY <1>1, <1>3, <1>4 DEF Idle
<1>9. AtLongest' /\ HitsSoFar' /\ Ordered'
  BY <1>2, <1>8, IdleScan, PTL
<1>10. RulesSoFar'
  <2>1. 1 .. pos' = {}
    BY <1>1, <1>3
  <2>2. FoundRules(pos)' = {}
    BY <2>1 DEF FoundRules
  <2> QED BY <1>1, <1>6, <2>2 DEF RulesSoFar
<1>11. StopsRight'
  <2>1. always = all => windowed = {}
    BY AllRules DEF SInv
  <2> QED BY <1>1, <2>1 DEF StopsRight, all
<1> QED BY <1>2, <1>7, <1>9, <1>10, <1>11 DEF SInv

LEMMA EndKept ==
  ASSUME SInv, EndOfInput
  PROVE  SInv'
<1>1. /\ pc = "scan" /\ pos = Len(text) /\ pc' = "scanned"
      /\ UNCHANGED <<anchors, fold, insertVars, tableVars, linkVars>>
      /\ UNCHANGED <<windowed, text, pos, cur, rules, hits>>
  BY DEF EndOfInput, scanVars
<1>2. IInv'
  BY <1>1, MachineKept DEF SInv
<1>3. /\ ReadUpTo(pos)' = ReadUpTo(pos) /\ FoundRules(pos)' = FoundRules(pos)
      /\ FoundAt(pos)' = FoundAt(pos) /\ HitAt' = HitAt
      /\ always' = always /\ anchored' = anchored
  BY <1>1, NextRead
<1>4. States' = States /\ word' = word /\ Scanning /\ Scanning'
  BY <1>1, SameMachine DEF tableVars, Scanning
<1>5. ScanTypes' /\ RulesSoFar' /\ HitsSoFar' /\ Ordered'
  BY <1>1, <1>3, <1>4 DEF SInv, ScanTypes, RulesSoFar, HitsSoFar, Ordered
<1>6. AtLongest'
  BY <1>1, <1>3, <1>4 DEF SInv, AtLongest, LongestSuffix
<1>7. StopsRight'
  BY <1>1 DEF StopsRight
<1> QED BY <1>2, <1>5, <1>6, <1>7 DEF SInv

LEMMA BuildKept ==
  ASSUME SInv, Build, UNCHANGED scanVars
  PROVE  SInv'
<1>1. IInv' /\ anchors' = anchors
  BY NextIInv, SameAnchors DEF SInv, Next
<1>2. ~Scanning /\ ~Scanning'
  BY DEF Build, FollowEdge, AddState, TooManyStates, EndAnchor, StartLink, LinkState, Freeze,
         Inserting, Scanning
<1>3. /\ windowed' = windowed /\ text' = text /\ pos' = pos /\ cur' = cur /\ rules' = rules /\ hits' = hits
      /\ pos = 0 /\ cur = 0 /\ rules = {} /\ hits = <<>>
      /\ text \in Seq(Bytes) /\ pos \in 0 .. Len(text) /\ windowed \subseteq anchored
  BY <1>2 DEF scanVars, SInv, ScanTypes
<1>4. 0 \in States'
  <2>1. states' \in 1 .. MaxStates
    BY <1>1 DEF IInv, TypeOK
  <2>2. \A n \in 1 .. MaxStates : 0 \in 0 .. n - 1
    BY AnchorsAssumption
  <2> QED BY <2>1, <2>2 DEF States
<1>5. ScanTypes'
  BY <1>1, <1>2, <1>3, <1>4 DEF ScanTypes, anchored
<1>6. Idle'
  BY <1>3 DEF Idle
<1>7. AtLongest' /\ HitsSoFar' /\ Ordered'
  BY <1>1, <1>6, IdleScan, PTL
<1>8. RulesSoFar' /\ StopsRight'
  BY <1>2 DEF RulesSoFar, StopsRight, Scanning
<1> QED BY <1>1, <1>5, <1>7, <1>8 DEF SInv
-----------------------------------------------------------------------------
(***************************************************************************)
(* Every state of a scan.                                                  *)
(***************************************************************************)
LEMMA StutterKept ==
  ASSUME SInv, UNCHANGED allVars
  PROVE  SInv'
<1>1. /\ UNCHANGED <<anchors, fold, insertVars, tableVars, linkVars>> /\ pc' = pc
      /\ UNCHANGED <<windowed, text, pos, cur, rules, hits>>
      /\ IInv' 
  <2>1. [Next]_vars
    BY DEF allVars
  <2>2. IInv'
    BY <2>1, NextIInv DEF SInv
  <2> QED BY <2>2 DEF allVars, vars, scanVars
<1>2. /\ ReadUpTo(pos)' = ReadUpTo(pos) /\ FoundRules(pos)' = FoundRules(pos)
      /\ FoundAt(pos)' = FoundAt(pos) /\ HitAt' = HitAt
      /\ always' = always /\ anchored' = anchored
  BY <1>1, NextRead
<1>3. States' = States /\ word' = word /\ Scanning' = Scanning
  BY <1>1, SameMachine DEF tableVars, Scanning
<1>4. ScanTypes' /\ RulesSoFar' /\ HitsSoFar' /\ Ordered' /\ StopsRight'
  BY <1>1, <1>2, <1>3 DEF SInv, ScanTypes, RulesSoFar, HitsSoFar, Ordered, StopsRight, all
<1>5. AtLongest'
  BY <1>1, <1>2, <1>3 DEF SInv, AtLongest, LongestSuffix
<1> QED BY <1>1, <1>4, <1>5 DEF SInv

LEMMA InitSInv == ScanInit => SInv
<1> SUFFICES ASSUME ScanInit PROVE SInv
  OBVIOUS
<1>1. IInv /\ ~Scanning
  BY InitIInv DEF ScanInit, Init, Scanning
<1>2. /\ windowed \subseteq anchored
      /\ text = <<>> /\ pos = 0 /\ cur = 0 /\ rules = {} /\ hits = <<>>
  BY DEF ScanInit
<1>3. text \in Seq(Bytes) /\ Len(text) = 0
  BY <1>2, EmptySeq
<1>4. 0 \in States
  BY <1>1, StateTypes DEF IInv
<1>5. ScanTypes
  <2>1. 0 \in 0 .. Len(text)
    BY <1>3
  <2> QED BY <1>1, <1>2, <1>3, <1>4, <2>1 DEF ScanTypes
<1>6. AtLongest /\ HitsSoFar /\ Ordered
  BY <1>1, <1>2, <1>3, IdleScan DEF Idle
<1>7. RulesSoFar /\ StopsRight
  BY <1>1 DEF RulesSoFar, StopsRight, Scanning
<1> QED BY <1>1, <1>5, <1>6, <1>7 DEF SInv

LEMMA NextSInv == SInv /\ [ScanNext]_allVars => SInv'
<1> SUFFICES ASSUME SInv, [ScanNext]_allVars PROVE SInv'
  OBVIOUS
<1>1. CASE Build /\ UNCHANGED scanVars
  BY <1>1, BuildKept
<1>2. CASE Call
  BY <1>2, CallKept
<1>3. CASE SkipByte
  BY <1>3, SkipKept
<1>4. CASE ReadByte
  BY <1>4, ReadKept
<1>5. CASE EndOfInput
  BY <1>5, EndKept
<1>6. CASE UNCHANGED allVars
  BY <1>6, StutterKept
<1> QED BY <1>1, <1>2, <1>3, <1>4, <1>5, <1>6 DEF ScanNext, ScanDone

THEOREM ScanInvariance == ScanSpec => []SInv
<1> QED BY InitSInv, NextSInv, PTL DEF ScanSpec
-----------------------------------------------------------------------------
(***************************************************************************)
(* What the invariant says of the rules and the hits.                      *)
(***************************************************************************)
LEMMA ExactRules == SInv => RulesAreExact
<1> SUFFICES ASSUME SInv, pc = "scanned"
             PROVE  rules = always \cup FoundRules(Len(text))
  BY DEF RulesAreExact, FoundRules
<1>1. rules = always \cup FoundRules(pos)
  BY DEF SInv, RulesSoFar, Scanning
<1>2. CASE pos = Len(text)
  BY <1>1, <1>2
<1>3. CASE rules = all
  <2>1. pos \in 0 .. Len(text) /\ Len(text) \in Nat
    BY LenProperties DEF SInv, ScanTypes
  <2>2. 1 .. pos \subseteq 1 .. Len(text)
    BY <2>1
  <2>3. FoundRules(pos) \subseteq FoundRules(Len(text)) /\ FoundRules(Len(text)) \subseteq all
    BY <2>2 DEF FoundRules
  <2>4. always \subseteq all
    BY DEF always
  <2> QED BY <1>1, <1>3, <2>3, <2>4
<1> QED BY <1>2, <1>3 DEF SInv, StopsRight

\* The hit an anchor leaves where it ends.
LEMMA HitAtIs ==
  ASSUME SInv, NEW j \in 1 .. Len(anchors), NEW e \in 1 .. Len(text)
  PROVE  /\ HitAt[<<j, e>>] = [rule |-> anchors[j].rule, start |-> e - Len(Inserted(j)), end |-> e]
         /\ Len(Inserted(j)) \in Nat \ {0} /\ e \in Nat
<1> DEFINE x == <<j, e>>
<1>1. x \in (1 .. Len(anchors)) \X (1 .. Len(text)) /\ x[1] = j /\ x[2] = e
  OBVIOUS
<1> HIDE DEF x
<1>2. HitAt[x] = [rule |-> anchors[x[1]].rule, start |-> x[2] - Len(Inserted(x[1])), end |-> x[2]]
  BY <1>1 DEF HitAt
<1>3. Len(Inserted(j)) \in Nat \ {0}
  BY StateTypes, InsertedBytes DEF SInv, IInv
<1>4. Len(text) \in Nat
  BY LenProperties DEF SInv, ScanTypes
<1> QED BY <1>1, <1>2, <1>3, <1>4 DEF x

LEMMA OrderedHits == SInv => HitsInOrder
<1> SUFFICES ASSUME SInv, Scanning PROVE HitsInOrder
  BY DEF HitsInOrder, Scanning
<1>1. ASSUME NEW n \in 1 .. Len(hits)
      PROVE  hits[n].start >= 0 /\ hits[n].start < hits[n].end /\ hits[n].end <= pos
  <2>1. PICK f \in Bijection(1 .. Len(hits), FoundAt(pos)) : \A m \in 1 .. Len(hits) : hits[m] = HitAt[f[m]]
    BY DEF SInv, HitsSoFar, Lists
  <2>2. f[n] \in FoundAt(pos)
    BY Fun_BijectionProperties
  <2>3. PICK j \in 1 .. Len(anchors), e \in 1 .. pos : f[n] = <<j, e>> /\ OccursAt(j, e)
    BY <2>2 DEF FoundAt
  <2>4. e \in 1 .. Len(text) /\ e <= pos /\ pos \in Nat /\ e \in Nat
    <3>1. pos \in 0 .. Len(text) /\ Len(text) \in Nat
      BY LenProperties DEF SInv, ScanTypes
    <3> QED BY <3>1
  <2> DEFINE l == Len(Inserted(j))
             r == anchors[j].rule
  <2>5. hits[n] = HitAt[<<j, e>>]
    BY <2>1, <2>3
  <2>6. HitAt[<<j, e>>] = [rule |-> r, start |-> e - l, end |-> e] /\ l \in Nat \ {0}
    BY <2>4, HitAtIs
  <2>7. l <= e
    BY <2>3 DEF OccursAt
  <2> HIDE DEF l, r
  <2>8. hits[n].start = e - l /\ hits[n].end = e
    BY <2>5, <2>6
  <2> QED BY <2>4, <2>6, <2>7, <2>8
<1>2. pc = "scanned" /\ windowed # {} => pos = Len(text)
  BY DEF SInv, StopsRight
<1> QED BY <1>1, <1>2 DEF SInv, Ordered, HitsInOrder

LEMMA CountedHits == SInv => HitsAreOccurrences
<1> SUFFICES ASSUME SInv, Scanning, NEW r \in all, NEW e \in 1 .. Len(text), NEW b \in 0 .. e - 1
             PROVE  LET hit == [rule |-> r, start |-> b, end |-> e]
                    IN  Cardinality({n \in 1 .. Len(hits) : hits[n] = hit}) =
                          IF r \in windowed /\ e <= pos THEN Cardinality(Occurrences(hit)) ELSE 0
  BY DEF HitsAreOccurrences, Scanning
<1> DEFINE hit == [rule |-> r, start |-> b, end |-> e]
           F == Named(FoundAt(pos), HitAt, hit)
           O == Occurrences(hit)
<1>1. pos \in Nat /\ Len(text) \in Nat /\ pos <= Len(text) /\ e \in Nat /\ b \in Nat /\ Len(anchors) \in Nat
  BY LenProperties, StateTypes DEF SInv, IInv, ScanTypes
<1>2. Cardinality({n \in 1 .. Len(hits) : hits[n] = hit}) = Cardinality(F)
  <2>1. Len(hits) \in Nat /\ Lists(hits, FoundAt(pos), HitAt)
    BY LenProperties DEF SInv, HitsSoFar
  <2> DEFINE T == FoundAt(pos)
  <2> HIDE DEF T, hit
  <2>2. Cardinality(Shown(hits, hit)) = Cardinality(Named(T, HitAt, hit))
    BY <2>1, ListsCount DEF T
  <2> QED BY <2>2 DEF Shown, T
<1>3. ASSUME NEW j \in 1 .. Len(anchors), NEW d \in 1 .. Len(text)
      PROVE  HitAt[<<j, d>>] = hit <=> anchors[j].rule = r /\ Len(Inserted(j)) = d - b /\ d = e
  <2> DEFINE l == Len(Inserted(j))
             q == anchors[j].rule
  <2>1. HitAt[<<j, d>>] = [rule |-> q, start |-> d - l, end |-> d] /\ l \in Nat /\ d \in Nat
    BY HitAtIs
  <2> HIDE DEF l, q
  <2>2. HitAt[<<j, d>>] = hit <=> q = r /\ d - l = b /\ d = e
    BY <2>1
  <2>3. d - l = b <=> l = d - b
    BY <1>1, <2>1
  <2> QED BY <2>2, <2>3 DEF l, q
<1>4. O = {j \in 1 .. Len(anchors) : anchors[j].rule = r /\ Len(Inserted(j)) = e - b /\ OccursAt(j, e)}
  BY DEF Occurrences
<1>5. \A x \in F : /\ x = <<x[1], e>> /\ x[1] \in O /\ r \in windowed /\ e <= pos
  <2> SUFFICES ASSUME NEW x \in F
               PROVE  x = <<x[1], e>> /\ x[1] \in O /\ r \in windowed /\ e <= pos
    OBVIOUS
  <2>1. x \in FoundAt(pos) /\ HitAt[x] = hit
    BY DEF Named
  <2>2. PICK j \in 1 .. Len(anchors), d \in 1 .. pos :
          x = <<j, d>> /\ anchors[j].rule \in windowed /\ OccursAt(j, d)
    BY <2>1 DEF FoundAt
  <2>3. d \in 1 .. Len(text) /\ d <= pos
    BY <1>1, <2>2
  <2>4. anchors[j].rule = r /\ Len(Inserted(j)) = d - b /\ d = e
    <3> HIDE DEF hit
    <3> QED BY <1>3, <2>1, <2>2, <2>3
  <2> HIDE DEF O, hit
  <2> QED BY <1>4, <2>2, <2>3, <2>4
<1>6. ASSUME r \in windowed, e <= pos, NEW j \in O PROVE <<j, e>> \in F
  <2> HIDE DEF hit
  <2>1. j \in 1 .. Len(anchors) /\ anchors[j].rule = r /\ Len(Inserted(j)) = e - b /\ OccursAt(j, e)
    BY <1>4
  <2>2. e \in 1 .. pos
    BY <1>1, <1>6
  <2>3. HitAt[<<j, e>>] = hit
    BY <1>3, <2>1
  <2>4. <<j, e>> \in FoundAt(pos)
    BY <1>6, <2>1, <2>2 DEF FoundAt
  <2> QED BY <2>3, <2>4 DEF Named
<1>7. IsFiniteSet(O)
  <2> DEFINE N == Len(anchors)
  <2>1. O \subseteq 1 .. N /\ N \in Nat
    BY <1>1, <1>4
  <2> HIDE DEF O, N
  <2>2. IsFiniteSet(1 .. N)
    BY <2>1, FS_Interval
  <2> QED BY <2>1, <2>2, FS_Subset
<1> HIDE DEF hit, F, O
<1>8. ASSUME r \in windowed, e <= pos PROVE Cardinality(F) = Cardinality(O)
  <2> DEFINE f == [j \in O |-> <<j, e>>]
  <2>1. f \in [O -> F] /\ (\A j, m \in O : f[j] = f[m] => j = m) /\ \A x \in F : \E j \in O : f[j] = x
    BY <1>5, <1>6, <1>8
  <2> HIDE DEF f
  <2>2. f \in Bijection(O, F)
    BY <2>1, Fun_IsBij
  <2>3. ExistsBijection(O, F)
    BY <2>2 DEF ExistsBijection
  <2> QED BY <1>7, <2>3, FS_Bijection
<1>9. ASSUME ~(r \in windowed /\ e <= pos) PROVE Cardinality(F) = 0
  <2>1. F = {}
    BY <1>5, <1>9
  <2> QED BY <2>1, FS_EmptySet
<1> QED BY <1>2, <1>8, <1>9 DEF hit, O
-----------------------------------------------------------------------------
\* active returns the rules that may match: those without an anchor and those
\* with an anchor in the text, no other, for every text.
THEOREM RulesFound == ScanSpec => []RulesAreExact
<1> QED BY ScanInvariance, ExactRules, PTL

\* scan records the occurrences of the anchors of windowed rules, each where it
\* is and as often as it is listed.
THEOREM HitsFound == ScanSpec => []HitsAreOccurrences
<1> QED BY ScanInvariance, CountedHits, PTL

\* scan leaves the hits in the order windowedMatches merges them in, within the
\* text, and stops early only when nothing is recorded.
THEOREM HitsOrdered == ScanSpec => []HitsInOrder
<1> QED BY ScanInvariance, OrderedHits, PTL

\* What a scan needs of the machine: a state for every prefix of an anchor and no
\* other, one each; rows that lead to the longest suffix under every byte; and the
\* outputs of the anchors that end in a state.
MachineIsRight ==
  /\ \A s, t \in States : s # t => ~SameWord(word[s], word[t])
  /\ \A s \in States \ {0} :
       \E j \in 1 .. Len(anchors) : \E n \in 1 .. Len(Inserted(j)) : word[s] = Prefix(j, n)
  /\ \A j \in 1 .. Len(anchors) : \E s \in States : word[s] = Inserted(j)
  /\ \A s \in States : \A c \in Bytes : LongestSuffix(next[s][c], Append(word[s], Folded(c)))
  /\ \A s \in States : OutputsEnding(s)

LEMMA RightInScan == SInv /\ Scanning => MachineIsRight
<1> SUFFICES ASSUME SInv, Scanning PROVE MachineIsRight
  OBVIOUS
<1>1. IInv /\ pc \notin {"insert", "failed", "link"}
  BY DEF SInv, Scanning
<1>2. a = Len(anchors) + 1 /\ \A s \in States : FullRow(s)
  BY <1>1, MachineIsBuilt
<1>3. \A s \in States : word[s] \in Seq(Bytes)
  BY <1>1, StateTypes DEF IInv
<1>4. \A s, t \in States : s # t => ~SameWord(word[s], word[t])
  <2> SUFFICES ASSUME NEW s \in States, NEW t \in States, SameWord(word[s], word[t]) PROVE s = t
    OBVIOUS
  <2>1. word[s] = word[t]
    BY <1>3, SuffixWhole DEF SameWord
  <2> QED BY <1>1, <2>1 DEF IInv, Trie
<1>5. \A s \in States \ {0} :
        \E j \in 1 .. Len(anchors) : \E n \in 1 .. Len(Inserted(j)) : word[s] = Prefix(j, n)
  BY <1>1 DEF IInv, Trie
<1>6. \A j \in 1 .. Len(anchors) : \E s \in States : word[s] = Inserted(j)
  <2>1. Len(anchors) \in Nat
    BY <1>1, StateTypes DEF IInv
  <2>2. 1 .. a - 1 = 1 .. Len(anchors)
    BY <1>2, <2>1
  <2> QED BY <1>1, <2>2 DEF IInv, Place
<1>7. \A s \in States : OutputsEnding(s)
  BY <1>1, BuiltOutputs
<1> QED BY <1>2, <1>4, <1>5, <1>6, <1>7 DEF FullRow, MachineIsRight

\* The machine is complete whenever a text is scanned, at its start, half-way and
\* after an early stop, and one scan leaves the table as the next one needs it.
THEOREM MachineStays == ScanSpec => [](Scanning => MachineIsRight)
<1> QED BY RightInScan, ScanInvariance, PTL
=============================================================================
