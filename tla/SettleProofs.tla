--------------------------- MODULE SettleProofs ---------------------------
(***************************************************************************)
(* Redacting again and again, for any rules and texts: every pass takes    *)
(* from the bytes of the input that are still there those that the         *)
(* leftmost-longest matches cover, and no other.                           *)
(*                                                                         *)
(* The argument: what a pass has heard of are secrets of its text          *)
(* (SearchInv); the bytes of the input that are left are in their order    *)
(* (SettleInv); and what is written from a place to the end of the text    *)
(* leaves out what the winners from there on cover (WrittenFrom), by the   *)
(* places from right to left.  The checksum of packs.go comes last.        *)
(***************************************************************************)
EXTENDS Packs, LeastElement, SequenceTheorems

\* Whatever a pass has heard of is a secret of its text.
SearchInv ==
  /\ pending \subseteq Relevant(text)
  /\ found \subseteq UNION {Reports(r, Secrets(r, text)) : r \in Relevant(text)}
-----------------------------------------------------------------------------
LEMMA NothingReported ==
  ASSUME pending = Relevant(text), found = {}
  PROVE  SearchInv
BY DEF SearchInv

LEMMA ReportSearchInv == \A r \in pending : SearchInv /\ Report(r) => SearchInv'
<1> SUFFICES ASSUME NEW r \in pending, SearchInv, Report(r) PROVE SearchInv'
  OBVIOUS
<1>1. PICK ss \in SUBSET Secrets(r, text) : found' = found \cup Reports(r, ss)
  BY DEF Report, Answers
<1>2. pending' = pending \ {r} /\ text' = text
  BY DEF Report
<1>3. r \in Relevant(text) /\ Reports(r, ss) \subseteq Reports(r, Secrets(r, text))
  BY DEF SearchInv, Reports
<1>4. found' \subseteq UNION {Reports(q, Secrets(q, text)) : q \in Relevant(text)}
  BY <1>1, <1>3 DEF SearchInv
<1> QED BY <1>2, <1>4 DEF SearchInv

LEMMA NextSearchInv == SearchInv /\ [Next]_vars => SearchInv'
<1> SUFFICES ASSUME SearchInv, [Next]_vars PROVE SearchInv'
  OBVIOUS
<1>1. CASE Finish
  BY <1>1 DEF Finish, SearchInv
<1>2. CASE UNCHANGED vars
  BY <1>2 DEF vars, SearchInv
<1> QED BY <1>1, <1>2, ReportSearchInv DEF Next

LEMMA SameText == [Next]_vars => text' = text
BY DEF Next, Report, Finish, vars
-----------------------------------------------------------------------------
(***************************************************************************)
(* The winners of a pass.                                                  *)
(***************************************************************************)
SpansFound ==
  /\ Len(text) \in Nat
  /\ \A m \in found : /\ m \in [rule : Nat, start : Nat, end : Nat]
                      /\ m.start < m.end /\ m.end <= Len(text)

LEMMA LongestStarting ==
  ASSUME SpansFound, NEW p \in Nat, StartingAt(p) # {}
  PROVE  \E w \in StartingAt(p) : \A k \in StartingAt(p) : k.end <= w.end
<1> DEFINE Left == {Len(text) - m.end : m \in StartingAt(p)}
<1>1. \A m \in StartingAt(p) : m.end \in Nat /\ m.end <= Len(text) /\ Len(text) - m.end \in Nat
  BY DEF SpansFound, StartingAt
<1>2. Left \in SUBSET Nat /\ Left # {}
  BY <1>1
<1>3. \E x \in Left : \A y \in Left : x <= y
  <2> HIDE DEF Left
  <2> QED BY <1>2, LeastOfNats
<1>4. PICK w \in StartingAt(p) : \A y \in Left : Len(text) - w.end <= y
  BY <1>3
<1>5. ASSUME NEW k \in StartingAt(p) PROVE k.end <= w.end
  <2>1. Len(text) - w.end <= Len(text) - k.end
    BY <1>4
  <2> QED BY <1>1, <2>1 DEF SpansFound
<1> QED BY <1>5

LEMMA FirstOfLongest ==
  ASSUME SpansFound, NEW p \in Nat, NEW l \in StartingAt(p)
  PROVE  \E w \in StartingAt(p) : w.end = l.end /\ \A k \in StartingAt(p) : k.end = l.end => w.rule <= k.rule
<1> DEFINE Tied == {m.rule : m \in {m \in StartingAt(p) : m.end = l.end}}
<1>1. Tied \in SUBSET Nat /\ Tied # {}
  BY DEF SpansFound, StartingAt
<1>2. \E x \in Tied : \A y \in Tied : x <= y
  <2> HIDE DEF Tied
  <2> QED BY <1>1, LeastOfNats
<1>3. PICK w \in StartingAt(p) : w.end = l.end /\ \A y \in Tied : w.rule <= y
  BY <1>2
<1> QED BY <1>3

\* The winner at a place beats everything else that starts there.
LEMMA WinnerFacts ==
  ASSUME SpansFound, NEW p \in Nat, StartingAt(p) # {}
  PROVE  /\ Winner(p) \in found /\ Winner(p).start = p
         /\ Winner(p).end \in Nat /\ p < Winner(p).end /\ Winner(p).end <= Len(text)
         /\ \A k \in StartingAt(p) : k # Winner(p) => Beats(Winner(p), k)
<1>1. PICK l \in StartingAt(p) : \A k \in StartingAt(p) : k.end <= l.end
  BY LongestStarting
<1>2. PICK w \in StartingAt(p) : w.end = l.end /\ \A k \in StartingAt(p) : k.end = l.end => w.rule <= k.rule
  BY FirstOfLongest
<1>3. \A m \in StartingAt(p) : /\ m \in [rule : Nat, start : Nat, end : Nat] /\ m \in found
                              /\ m.start = p /\ p < m.end /\ m.end <= Len(text)
  BY DEF SpansFound, StartingAt
<1>4. \A k \in StartingAt(p) : w.end > k.end \/ (w.end = k.end /\ w.rule <= k.rule)
  BY <1>1, <1>2, <1>3
<1>5. /\ Winner(p) \in StartingAt(p)
      /\ \A k \in StartingAt(p) :
           Winner(p).end > k.end \/ (Winner(p).end = k.end /\ Winner(p).rule <= k.rule)
  BY <1>4, Zenon DEF Winner
<1>6. ASSUME NEW k \in StartingAt(p), k # Winner(p) PROVE Beats(Winner(p), k)
  <2>1. k.rule = Winner(p).rule /\ k.start = Winner(p).start /\ k.end = Winner(p).end => k = Winner(p)
    BY <1>3, <1>5
  <2> QED BY <1>3, <1>5, <1>6, <2>1 DEF Beats
<1> QED BY <1>3, <1>5, <1>6
-----------------------------------------------------------------------------
(***************************************************************************)
(* Written is well defined: there is a function that satisfies its         *)
(* equation, since every place refers to places behind it.                 *)
(***************************************************************************)
From(f, p, s, put) ==
  IF p = Len(s) THEN <<>>
  ELSE IF StartingAt(p) = {} THEN <<s[p + 1]>> \o f[p + 1]
  ELSE put[Winner(p)] \o f[Behind(Winner(p))]

LEMMA SameFrom ==
  ASSUME SpansFound, NEW s, Len(s) = Len(text), NEW put, NEW f, NEW g, NEW p \in 0 .. Len(text),
         \A q \in p + 1 .. Len(text) : f[q] = g[q]
  PROVE  From(f, p, s, put) = From(g, p, s, put)
<1>1. CASE p = Len(text)
  BY <1>1 DEF From
<1>2. CASE p # Len(text) /\ StartingAt(p) = {}
  <2>1. p + 1 \in p + 1 .. Len(text)
    BY <1>2 DEF SpansFound
  <2> QED BY <1>2, <2>1 DEF From
<1>3. CASE p # Len(text) /\ StartingAt(p) # {}
  <2>1. Behind(Winner(p)) \in p + 1 .. Len(text)
    BY <1>3, WinnerFacts DEF Behind
  <2> QED BY <1>3, <2>1 DEF From
<1> QED BY <1>1, <1>2, <1>3

LEMMA FromPlace ==
  ASSUME SpansFound, NEW s, Len(s) = Len(text), NEW put, NEW k \in 0 .. Len(text)
  PROVE  \E f : \A p \in Len(text) - k .. Len(text) : f[p] = From(f, p, s, put)
<1> DEFINE n == Len(text)
           Reached(j) == \E f : \A p \in n - j .. n : f[p] = From(f, p, s, put)
           Bad == {j \in 0 .. n : ~Reached(j)}
<1>0. n \in Nat
  BY DEF SpansFound
<1> HIDE DEF n
<1>1. ASSUME Bad # {} PROVE FALSE
  <2>1. Bad \in SUBSET Nat
    BY <1>0
  <2>2. \E j \in Bad : \A i \in Bad : j <= i
    <3> HIDE DEF Bad
    <3> QED BY <1>1, <2>1, LeastOfNats
  <2>3. PICK j \in Bad : \A i \in Bad : j <= i
    BY <2>2
  <2>4. j \in 0 .. n /\ ~Reached(j)
    BY <2>3
  <2>5. \E f : \A p \in n - j + 1 .. n : f[p] = From(f, p, s, put)
    <3>1. CASE j = 0
      BY <1>0, <3>1
    <3>2. CASE j # 0
      <4>1. j - 1 \in 0 .. n /\ j - 1 \notin Bad
        BY <1>0, <2>3, <2>4, <3>2
      <4>2. Reached(j - 1) /\ n - (j - 1) = n - j + 1
        BY <1>0, <2>4, <4>1
      <4> QED BY <4>2
    <3> QED BY <3>1, <3>2
  <2>6. PICK f : \A p \in n - j + 1 .. n : f[p] = From(f, p, s, put)
    BY <2>5
  <2> DEFINE g == [p \in n - j .. n |-> IF p = n - j THEN From(f, p, s, put) ELSE f[p]]
  <2>7. \A p \in n - j + 1 .. n : p \in n - j .. n /\ g[p] = f[p]
    BY <1>0, <2>4
  <2>8. ASSUME NEW p \in n - j .. n PROVE g[p] = From(f, p, s, put)
    BY <1>0, <2>4, <2>6
  <2> HIDE DEF g
  <2>9. ASSUME NEW p \in n - j .. n PROVE g[p] = From(g, p, s, put)
    <3>1. p \in 0 .. n /\ \A q \in p + 1 .. n : f[q] = g[q]
      BY <1>0, <2>4, <2>7
    <3>2. p \in 0 .. Len(text) /\ \A q \in p + 1 .. Len(text) : f[q] = g[q]
      BY <3>1 DEF n
    <3>3. From(f, p, s, put) = From(g, p, s, put)
      BY <3>2, SameFrom
    <3> QED BY <2>8, <3>3
  <2>10. Reached(j)
    BY <2>9
  <2> QED BY <2>4, <2>10
<1>2. Reached(k)
  BY <1>1 DEF n
<1> QED BY <1>2 DEF n

LEMMA WrittenEquations ==
  ASSUME SpansFound, NEW s, Len(s) = Len(text), NEW put
  PROVE  \E f : Written(s, put) = f[0] /\ \A p \in 0 .. Len(text) : f[p] = From(f, p, s, put)
<1> DEFINE n == Len(text)
           IsFrom(f) == f = [p \in 0 .. Len(s) |->
                               IF p = Len(s) THEN <<>>
                               ELSE IF StartingAt(p) = {} THEN <<s[p + 1]>> \o f[p + 1]
                               ELSE put[Winner(p)] \o f[Behind(Winner(p))]]
<1>0. n \in Nat /\ n - n = 0 /\ n \in 0 .. n
  BY DEF SpansFound
<1>a. \E f : \A p \in n - n .. n : f[p] = From(f, p, s, put)
  <2> HIDE DEF IsFrom
  <2> QED BY <1>0, FromPlace
<1>1. PICK f : \A p \in 0 .. n : f[p] = From(f, p, s, put)
  <2> HIDE DEF IsFrom
  <2> QED BY <1>0, <1>a
<1> DEFINE g == [p \in 0 .. n |-> f[p]]
<1>2. ASSUME NEW p \in 0 .. n PROVE g[p] = From(g, p, s, put)
  <2>1. \A q \in p + 1 .. n : f[q] = g[q]
    BY <1>0
  <2>2. g[p] = f[p]
    OBVIOUS
  <2> HIDE DEF g
  <2>3. From(f, p, s, put) = From(g, p, s, put)
    BY <2>1, SameFrom DEF n
  <2> QED BY <1>1, <2>2, <2>3
<1>3. g = [p \in 0 .. n |-> g[p]]
  OBVIOUS
<1> HIDE DEF g
<1>4. g = [p \in 0 .. Len(s) |-> From(g, p, s, put)]
  BY <1>2, <1>3 DEF n
<1>5. IsFrom(g)
  BY <1>4, Zenon DEF From
<1> DEFINE h == CHOOSE h : IsFrom(h)
<1>6. IsFrom(h)
  BY <1>5, Zenon
<1>7. Written(s, put) = h[0]
  BY Zenon DEF Written
<1> HIDE DEF h
<1>8. h = [p \in 0 .. Len(s) |-> From(h, p, s, put)]
  BY <1>6, Zenon DEF From
<1>9. \A p \in 0 .. Len(text) : h[p] = From(h, p, s, put)
  BY <1>8
<1> QED BY <1>7, <1>9
-----------------------------------------------------------------------------
(***************************************************************************)
(* What is written from a place to the end of the text.                    *)
(***************************************************************************)
LEMMA Prepended ==
  ASSUME NEW x \in Nat, NEW b \in Seq(Nat), InOrder(b), \A v \in Visible(b) : x < v
  PROVE  /\ <<x>> \o b \in Seq(Nat) /\ Len(<<x>> \o b) = Len(b) + 1
         /\ Visible(<<x>> \o b) = Visible(b) \cup ({x} \ {0}) /\ InOrder(<<x>> \o b)
<1> DEFINE c == <<x>> \o b
           n == Len(b)
<1>1. <<x>> \in Seq(Nat) /\ Len(<<x>>) = 1 /\ <<x>>[1] = x
  OBVIOUS
<1>2. /\ n \in Nat /\ c \in Seq(Nat) /\ Len(c) = n + 1 /\ c[1] = x
      /\ \A j \in 1 .. n : c[j + 1] = b[j]
  BY <1>1, ConcatProperties, LenProperties
<1> HIDE DEF c, n
<1>3. \A j \in 1 .. n + 1 : j = 1 \/ (j - 1 \in 1 .. n /\ (j - 1) + 1 = j)
  BY <1>2
<1>4. \A j \in 2 .. n + 1 : j - 1 \in 1 .. n /\ c[j] = b[j - 1]
  <2>1. ASSUME NEW j \in 2 .. n + 1 PROVE j - 1 \in 1 .. n /\ (j - 1) + 1 = j
    BY <1>2
  <2> QED BY <1>2, <2>1
<1>5. Visible(c) = Visible(b) \cup ({x} \ {0})
  <2>1. ASSUME NEW v PROVE v \in Visible(c) <=> v \in Visible(b) \/ (v = x /\ x # 0)
    <3>1. ASSUME NEW j \in 1 .. n + 1, c[j] = v PROVE v = x \/ \E k \in 1 .. n : b[k] = v
      BY <1>2, <1>3, <1>4, <3>1
    <3>2. ASSUME NEW k \in 1 .. n, b[k] = v PROVE \E j \in 1 .. n + 1 : c[j] = v
      <4>1. k + 1 \in 1 .. n + 1
        BY <1>2
      <4> QED BY <1>2, <3>2, <4>1
    <3>3. 1 \in 1 .. n + 1
      BY <1>2
    <3> QED BY <1>2, <3>1, <3>2, <3>3 DEF Visible, n
  <2> QED BY <2>1
<1>6. InOrder(c)
  <2> SUFFICES ASSUME NEW j \in 1 .. n + 1, NEW k \in 1 .. n + 1, j < k, c[j] # 0, c[k] # 0
               PROVE  c[j] < c[k]
    BY <1>2 DEF InOrder
  <2>1. k \in 2 .. n + 1
    BY <1>2
  <2>2. k - 1 \in 1 .. n /\ c[k] = b[k - 1]
    BY <1>4, <2>1
  <2>3. CASE j = 1
    BY <1>2, <2>2, <2>3 DEF Visible, n
  <2>4. CASE j # 1
    <3>1. j \in 2 .. n + 1
      BY <1>2, <2>4
    <3>2. j - 1 \in 1 .. n /\ c[j] = b[j - 1]
      BY <1>4, <3>1
    <3>3. j - 1 < k - 1
      BY <1>2
    <3> QED BY <2>2, <3>2, <3>3 DEF InOrder, n
  <2> QED BY <2>3, <2>4
<1> QED BY <1>2, <1>5, <1>6 DEF c, n

\* Bytes a replacement produced leave the bytes of the input as they were.
LEMMA PrependedBytes ==
  ASSUME NEW z \in Seq(Nat), \A j \in 1 .. Len(z) : z[j] = 0, NEW b \in Seq(Nat), InOrder(b)
  PROVE  /\ z \o b \in Seq(Nat) /\ Len(z \o b) = Len(z) + Len(b)
         /\ Visible(z \o b) = Visible(b) /\ InOrder(z \o b)
<1> DEFINE c == z \o b
           m == Len(z)
           n == Len(b)
<1>1. /\ m \in Nat /\ n \in Nat /\ c \in Seq(Nat) /\ Len(c) = m + n
      /\ \A j \in 1 .. m + n : c[j] = IF j <= m THEN z[j] ELSE b[j - m]
  BY ConcatProperties, LenProperties
<1>2. \A j \in 1 .. m : z[j] = 0
  OBVIOUS
<1> HIDE DEF c, m, n
<1>3. ASSUME NEW j \in 1 .. m + n, c[j] # 0 PROVE j - m \in 1 .. n /\ c[j] = b[j - m]
  <2>1. j \in Int /\ 1 <= j /\ j <= m + n /\ c[j] = IF j <= m THEN z[j] ELSE b[j - m]
    BY <1>1
  <2>2. CASE j <= m
    <3>1. j \in 1 .. m
      BY <1>1, <2>1, <2>2
    <3> QED BY <1>2, <1>3, <2>1, <2>2, <3>1
  <2>3. CASE ~(j <= m)
    <3>1. j - m \in 1 .. n
      BY <1>1, <2>1, <2>3
    <3> QED BY <2>1, <2>3, <3>1
  <2> QED BY <2>2, <2>3
<1>4. ASSUME NEW k \in 1 .. n PROVE k + m \in 1 .. m + n /\ c[k + m] = b[k]
  <2>1. k + m \in 1 .. m + n /\ ~(k + m <= m) /\ (k + m) - m = k
    BY <1>1
  <2> QED BY <1>1, <2>1
<1>5. Visible(c) = Visible(b)
  <2>1. ASSUME NEW v \in Visible(c) PROVE v \in Visible(b)
    <3>1. PICK j \in 1 .. m + n : c[j] = v /\ v # 0
      BY <1>1 DEF Visible
    <3> QED BY <1>3, <3>1 DEF Visible, n
  <2>2. ASSUME NEW v \in Visible(b) PROVE v \in Visible(c)
    <3>1. PICK k \in 1 .. n : b[k] = v /\ v # 0
      BY DEF Visible, n
    <3> QED BY <1>1, <1>4, <3>1 DEF Visible
  <2> QED BY <2>1, <2>2
<1>6. InOrder(c)
  <2> SUFFICES ASSUME NEW j \in 1 .. m + n, NEW k \in 1 .. m + n, j < k, c[j] # 0, c[k] # 0
               PROVE  c[j] < c[k]
    BY <1>1 DEF InOrder
  <2>1. j - m \in 1 .. n /\ c[j] = b[j - m] /\ k - m \in 1 .. n /\ c[k] = b[k - m] /\ j - m < k - m
    BY <1>1, <1>3
  <2> QED BY <2>1 DEF InOrder, n
<1> QED BY <1>1, <1>5, <1>6 DEF c, m, n

\* K is the choice among the matches that start at p or behind it.
ChoiceFrom(K, p) ==
  /\ K \subseteq {m \in found : p <= m.start}
  /\ \A m \in found : p <= m.start => (m \in K <=> \A k \in K : Beats(k, m) => k.end <= m.start)

\* The places behind p with a byte of the input that no match of K covers.
LeftFrom(K, p) ==
  {i \in p + 1 .. Len(text) : origin[i] # 0 /\ \A m \in K : ~(m.start < i /\ i <= m.end)}

WrittenFrom(p, a, b) ==
  /\ a \in Seq(Int) /\ b \in Seq(Nat) /\ Len(a) = Len(b) /\ InOrder(b)
  /\ \E K : ChoiceFrom(K, p) /\ Visible(b) = {origin[i] : i \in LeftFrom(K, p)}

\* What holds of the text and the origin of its bytes when a pass is written.
Pass ==
  /\ SpansFound
  /\ text \in Seq(Int) /\ origin \in Seq(Nat) /\ Len(origin) = Len(text) /\ InOrder(origin)
  /\ \A m \in found : Produced(m) \in Seq(Int)

LEMMA NothingBehind ==
  ASSUME Pass
  PROVE  WrittenFrom(Len(text), <<>>, <<>>)
<1>1. Len(text) \in Nat /\ \A m \in found : ~(Len(text) <= m.start)
  BY DEF Pass, SpansFound
<1>2. ChoiceFrom({}, Len(text)) /\ LeftFrom({}, Len(text)) = {}
  BY <1>1 DEF ChoiceFrom, LeftFrom
<1>3. Visible(<<>>) = {} /\ InOrder(<<>>)
  BY DEF Visible, InOrder
<1>4. <<>> \in Seq(Int) /\ <<>> \in Seq(Nat)
  BY EmptySeq
<1>5. Visible(<<>>) = {origin[i] : i \in LeftFrom({}, Len(text))}
  BY <1>2, <1>3
<1> QED BY <1>2, <1>3, <1>4, <1>5 DEF WrittenFrom

LEMMA PlaceFacts ==
  ASSUME Pass, NEW p \in 0 .. Len(text), p # Len(text)
  PROVE  /\ p \in Nat /\ Len(text) \in Nat /\ p + 1 \in 1 .. Len(text)
         /\ text[p + 1] \in Int /\ origin[p + 1] \in Nat
         /\ \A i \in 1 .. Len(text) : origin[i] \in Nat
         /\ \A i, j \in 1 .. Len(text) : i < j /\ origin[i] # 0 /\ origin[j] # 0 => origin[i] < origin[j]
<1>1. p \in Nat /\ Len(text) \in Nat /\ p + 1 \in 1 .. Len(text)
  BY DEF Pass, SpansFound
<1>2. text[p + 1] \in Int /\ \A i \in 1 .. Len(text) : origin[i] \in Nat
  BY <1>1 DEF Pass
<1> QED BY <1>1, <1>2 DEF Pass, InOrder

LEMMA CopiedFrom ==
  ASSUME Pass, NEW p \in 0 .. Len(text), p # Len(text), StartingAt(p) = {},
         NEW a, NEW b, WrittenFrom(p + 1, a, b)
  PROVE  WrittenFrom(p, <<text[p + 1]>> \o a, <<origin[p + 1]>> \o b)
<1> DEFINE x == origin[p + 1]
           n == Len(text)
<1>1. PICK K : ChoiceFrom(K, p + 1) /\ Visible(b) = {origin[i] : i \in LeftFrom(K, p + 1)}
  BY DEF WrittenFrom
<1>2. /\ p \in Nat /\ n \in Nat /\ p + 1 \in 1 .. n /\ text[p + 1] \in Int /\ x \in Nat
      /\ \A i, j \in 1 .. n : i < j /\ origin[i] # 0 /\ origin[j] # 0 => origin[i] < origin[j]
  BY PlaceFacts
<1>3. \A m \in found : m.start \in Nat /\ (p <= m.start <=> p + 1 <= m.start)
  BY <1>2 DEF Pass, SpansFound, StartingAt
<1>4. ChoiceFrom(K, p)
  BY <1>1, <1>3 DEF ChoiceFrom
<1>5. \A i : i \in LeftFrom(K, p) <=> i \in LeftFrom(K, p + 1) \/ (i = p + 1 /\ x # 0)
  <2>1. \A i : i \in p + 1 .. n <=> i = p + 1 \/ i \in (p + 1) + 1 .. n
    BY <1>2
  <2>2. \A m \in K : m.start \in Nat /\ ~(m.start < p + 1)
    BY <1>1, <1>2, <1>3 DEF ChoiceFrom
  <2>3. p + 1 \notin (p + 1) + 1 .. n
    BY <1>2
  <2> QED BY <2>1, <2>2, <2>3 DEF LeftFrom, n, x
<1>6. x # 0 => \A v \in Visible(b) : x < v
  <2> SUFFICES ASSUME x # 0, NEW i \in LeftFrom(K, p + 1) PROVE x < origin[i]
    BY <1>1
  <2>1. i \in 1 .. n /\ p + 1 < i /\ origin[i] # 0
    BY <1>2 DEF LeftFrom
  <2> QED BY <1>2, <2>1
<1>7. \A v \in Visible(b) : v \in Nat /\ 0 < v
  BY DEF WrittenFrom, Visible
<1>8. <<text[p + 1]>> \o a \in Seq(Int) /\ Len(<<text[p + 1]>> \o a) = Len(a) + 1
  <2>1. <<text[p + 1]>> \in Seq(Int) /\ Len(<<text[p + 1]>>) = 1 /\ a \in Seq(Int)
    BY <1>2 DEF WrittenFrom
  <2> QED BY <2>1, ConcatProperties
<1>9. b \in Seq(Nat) /\ InOrder(b) /\ Len(a) = Len(b) /\ \A v \in Visible(b) : x < v
  BY <1>2, <1>6, <1>7 DEF WrittenFrom
<1> HIDE DEF x
<1>10. /\ <<x>> \o b \in Seq(Nat) /\ Len(<<x>> \o b) = Len(b) + 1
       /\ Visible(<<x>> \o b) = Visible(b) \cup ({x} \ {0}) /\ InOrder(<<x>> \o b)
  BY <1>2, <1>9, Prepended
<1>11. Visible(<<x>> \o b) = {origin[i] : i \in LeftFrom(K, p)}
  BY <1>1, <1>5, <1>10 DEF x
<1> QED BY <1>4, <1>8, <1>9, <1>10, <1>11 DEF WrittenFrom, x

LEMMA ReplacedFrom ==
  ASSUME Pass, NEW p \in 0 .. Len(text), p # Len(text), StartingAt(p) # {},
         NEW a, NEW b, WrittenFrom(Winner(p).end, a, b),
         NEW z \in Seq(Nat), Len(z) = Len(Produced(Winner(p))), \A j \in 1 .. Len(z) : z[j] = 0
  PROVE  WrittenFrom(p, Produced(Winner(p)) \o a, z \o b)
<1> DEFINE w == Winner(p)
           n == Len(text)
<1>1. PICK K : ChoiceFrom(K, w.end) /\ Visible(b) = {origin[i] : i \in LeftFrom(K, w.end)}
  BY DEF WrittenFrom
<1>2. p \in Nat /\ n \in Nat
  BY PlaceFacts
<1>3. /\ w \in found /\ w.start = p /\ w.end \in Nat /\ p < w.end /\ w.end <= n
      /\ \A k \in StartingAt(p) : k # w => Beats(w, k)
  BY <1>2, WinnerFacts DEF Pass
<1>4. \A m \in found : m.rule \in Nat /\ m.start \in Nat /\ m.end \in Nat /\ m.start < m.end
  BY DEF Pass, SpansFound
<1> DEFINE L == K \cup {w}
<1> HIDE DEF w, n
<1>5. ChoiceFrom(L, p)
  <2>1. L \subseteq {m \in found : p <= m.start}
    BY <1>1, <1>2, <1>3, <1>4 DEF ChoiceFrom
  <2>2. ASSUME NEW m \in found, p <= m.start
        PROVE  m \in L <=> \A k \in L : Beats(k, m) => k.end <= m.start
    <3>1. CASE m = w
      <4>1. \A k \in L : ~Beats(k, w)
        BY <1>1, <1>2, <1>3, <1>4 DEF ChoiceFrom, Beats
      <4> QED BY <3>1, <4>1
    <3>2. CASE m # w /\ m.start < w.end
      <4>1. Beats(w, m)
        <5>1. CASE m.start = p
          BY <1>3, <3>2, <5>1 DEF StartingAt
        <5>2. CASE m.start # p
          BY <1>2, <1>3, <1>4, <2>2, <5>2 DEF Beats
        <5> QED BY <5>1, <5>2
      <4>2. ~(w.end <= m.start) /\ m \notin L
        BY <1>1, <1>3, <1>4, <3>2 DEF ChoiceFrom
      <4> QED BY <4>1, <4>2
    <3>3. CASE m # w /\ ~(m.start < w.end)
      <4>1. w.end <= m.start
        BY <1>3, <1>4, <3>3
      <4>2. m \in K <=> \A k \in K : Beats(k, m) => k.end <= m.start
        BY <1>1, <4>1 DEF ChoiceFrom
      <4> QED BY <3>3, <4>1, <4>2
    <3> QED BY <3>1, <3>2, <3>3
  <2> QED BY <2>1, <2>2 DEF ChoiceFrom
<1>6. LeftFrom(L, p) = LeftFrom(K, w.end)
  <2>1. ASSUME NEW i PROVE i \in LeftFrom(L, p) <=> i \in LeftFrom(K, w.end)
    <3>1. i \in p + 1 .. n /\ ~(w.start < i /\ i <= w.end) <=> i \in w.end + 1 .. n
      BY <1>2, <1>3
    <3> QED BY <3>1 DEF LeftFrom, n
  <2> QED BY <2>1
<1>7. Produced(w) \in Seq(Int) /\ a \in Seq(Int) /\ b \in Seq(Nat) /\ InOrder(b) /\ Len(a) = Len(b)
  BY <1>3 DEF Pass, WrittenFrom, w
<1>8. Produced(w) \o a \in Seq(Int) /\ Len(Produced(w) \o a) = Len(Produced(w)) + Len(a)
  BY <1>7, ConcatProperties
<1>9. /\ z \o b \in Seq(Nat) /\ Len(z \o b) = Len(z) + Len(b)
      /\ Visible(z \o b) = Visible(b) /\ InOrder(z \o b)
  BY <1>7, PrependedBytes
<1>10. Visible(z \o b) = {origin[i] : i \in LeftFrom(L, p)}
  BY <1>1, <1>6, <1>9
<1>11. Len(Produced(w) \o a) = Len(z \o b)
  BY <1>7, <1>8, <1>9 DEF w
<1> HIDE DEF L
<1> QED BY <1>5, <1>8, <1>9, <1>10, <1>11 DEF WrittenFrom, w
-----------------------------------------------------------------------------
(***************************************************************************)
(* What a pass writes, from every place on: Texts and Origins are what the *)
(* two uses of Written in Rewrite put for a match.                         *)
(***************************************************************************)
Texts == [m \in found |-> Produced(m)]
Origins == [m \in found |-> [i \in 1 .. Len(Produced(m)) |-> 0]]

LEMMA ZerosFacts ==
  ASSUME Pass, NEW m \in found
  PROVE  /\ Texts[m] = Produced(m)
         /\ Origins[m] \in Seq(Nat) /\ Len(Origins[m]) = Len(Produced(m))
         /\ \A j \in 1 .. Len(Origins[m]) : Origins[m][j] = 0
<1> DEFINE n == Len(Produced(m))
           z == [i \in 1 .. n |-> 0]
<1>1. n \in Nat
  BY LenProperties DEF Pass
<1> HIDE DEF n
<1>2. z \in Seq(Nat) /\ Len(z) = n /\ \A j \in 1 .. n : z[j] = 0
  <2>1. z \in [1 .. n -> Nat]
    OBVIOUS
  <2>2. z \in Seq(Nat)
    BY <1>1, <2>1, SeqDef
  <2> QED BY <1>1, <2>1, <2>2, LenProperties
<1>3. Origins[m] = z
  BY DEF Origins, n
<1> HIDE DEF z
<1> QED BY <1>2, <1>3 DEF Texts, n

LEMMA WrittenFromEachPlace ==
  ASSUME Pass, NEW f, NEW g,
         \A p \in 0 .. Len(text) : f[p] = From(f, p, text, Texts),
         \A p \in 0 .. Len(text) : g[p] = From(g, p, origin, Origins)
  PROVE  \A p \in 0 .. Len(text) : WrittenFrom(p, f[p], g[p])
<1> DEFINE n == Len(text)
           Bad == {j \in 0 .. n : ~WrittenFrom(n - j, f[n - j], g[n - j])}
<1>0. n \in Nat /\ Len(origin) = n
  BY DEF Pass, SpansFound
<1>a. \A p \in 0 .. n : f[p] = From(f, p, text, Texts) /\ g[p] = From(g, p, origin, Origins)
  OBVIOUS
<1> HIDE DEF n
<1>1. ASSUME Bad # {} PROVE FALSE
  <2>1. Bad \in SUBSET Nat
    BY <1>0
  <2>2. \E j \in Bad : \A i \in Bad : j <= i
    <3> HIDE DEF Bad
    <3> QED BY <1>1, <2>1, LeastOfNats
  <2>3. PICK j \in Bad : \A i \in Bad : j <= i
    BY <2>2
  <2> DEFINE p == n - j
  <2>4. j \in 0 .. n /\ ~WrittenFrom(p, f[p], g[p]) /\ p \in 0 .. n
    BY <1>0, <2>3
  <2>5. ASSUME NEW q \in p + 1 .. n PROVE WrittenFrom(q, f[q], g[q])
    <3>1. n - q \in 0 .. n /\ n - q < j /\ n - (n - q) = q
      BY <1>0, <2>4
    <3>2. n - q \notin Bad
      BY <2>3, <2>4, <3>1
    <3> QED BY <3>1, <3>2
  <2> HIDE DEF p, Bad
  <2>6. f[p] = From(f, p, text, Texts) /\ g[p] = From(g, p, origin, Origins)
    BY <1>a, <2>4
  <2>7. CASE p = n
    <3>1. f[p] = <<>> /\ g[p] = <<>>
      BY <1>0, <2>6, <2>7 DEF From, n
    <3> QED BY <2>4, <2>7, <3>1, NothingBehind DEF n
  <2>8. CASE p # n /\ StartingAt(p) = {}
    <3>1. f[p] = <<text[p + 1]>> \o f[p + 1] /\ g[p] = <<origin[p + 1]>> \o g[p + 1]
      BY <1>0, <2>6, <2>8 DEF From, n
    <3>2. p + 1 \in p + 1 .. n
      BY <1>0, <2>4, <2>8
    <3>3. WrittenFrom(p + 1, f[p + 1], g[p + 1])
      BY <2>5, <3>2
    <3>4. p \in 0 .. Len(text) /\ p # Len(text) /\ StartingAt(p) = {}
      BY <2>4, <2>8 DEF n
    <3>5. WrittenFrom(p, <<text[p + 1]>> \o f[p + 1], <<origin[p + 1]>> \o g[p + 1])
      BY <3>3, <3>4, CopiedFrom
    <3> QED BY <2>4, <3>1, <3>5
  <2>9. CASE p # n /\ StartingAt(p) # {}
    <3> DEFINE w == Winner(p)
    <3>1. p \in 0 .. Len(text) /\ p # Len(text) /\ StartingAt(p) # {} /\ p \in Nat
      BY <1>0, <2>4, <2>9 DEF n
    <3>2. w \in found /\ w.end \in Nat /\ p < w.end /\ w.end <= n
      BY <3>1, WinnerFacts DEF Pass, n
    <3> HIDE DEF w
    <3>3. w.end \in p + 1 .. n
      BY <1>0, <2>4, <3>2
    <3>4. f[p] = Texts[w] \o f[w.end] /\ g[p] = Origins[w] \o g[w.end]
      BY <1>0, <2>6, <2>9 DEF From, Behind, n, w
    <3>5. WrittenFrom(w.end, f[w.end], g[w.end])
      BY <2>5, <3>3
    <3>6. /\ Texts[w] = Produced(w)
          /\ Origins[w] \in Seq(Nat) /\ Len(Origins[w]) = Len(Produced(w))
          /\ \A i \in 1 .. Len(Origins[w]) : Origins[w][i] = 0
      BY <3>2, ZerosFacts
    <3>7. WrittenFrom(p, Produced(w) \o f[w.end], Origins[w] \o g[w.end])
      BY <3>1, <3>5, <3>6, ReplacedFrom DEF w
    <3> QED BY <2>4, <3>4, <3>6, <3>7
  <2> QED BY <2>7, <2>8, <2>9
<1>2. ASSUME NEW p \in 0 .. n PROVE WrittenFrom(p, f[p], g[p])
  <2>1. n - p \in 0 .. n /\ n - (n - p) = p
    BY <1>0
  <2>2. n - p \notin Bad
    BY <1>1
  <2> QED BY <2>1, <2>2
<1> QED BY <1>2 DEF n

\* A pass takes what the winners cover, and nothing else.
LEMMA WhatAPassWrites ==
  ASSUME Pass
  PROVE  /\ Written(text, Texts) \in Seq(Int)
         /\ Written(origin, Origins) \in Seq(Nat)
         /\ Len(Written(text, Texts)) = Len(Written(origin, Origins))
         /\ InOrder(Written(origin, Origins))
         /\ \E K \in SUBSET found :
              IsChoice(K) /\ Visible(Written(origin, Origins)) = Visible(origin) \ Covered(K)
<1>1. SpansFound /\ Len(text) = Len(text) /\ Len(origin) = Len(text) /\ Len(text) \in Nat
  BY DEF Pass, SpansFound
<1>2. \E f : Written(text, Texts) = f[0] /\ \A p \in 0 .. Len(text) : f[p] = From(f, p, text, Texts)
  BY <1>1, WrittenEquations
<1>3. \E g : Written(origin, Origins) = g[0] /\ \A p \in 0 .. Len(text) : g[p] = From(g, p, origin, Origins)
  BY <1>1, WrittenEquations
<1>4. PICK f : Written(text, Texts) = f[0] /\ \A p \in 0 .. Len(text) : f[p] = From(f, p, text, Texts)
  BY <1>2
<1>5. PICK g : Written(origin, Origins) = g[0] /\ \A p \in 0 .. Len(text) : g[p] = From(g, p, origin, Origins)
  BY <1>3
<1> DEFINE a == Written(text, Texts)
           b == Written(origin, Origins)
<1>6. \A p \in 0 .. Len(text) : WrittenFrom(p, f[p], g[p])
  BY <1>4, <1>5, WrittenFromEachPlace
<1>7. a = f[0] /\ b = g[0]
  BY <1>4, <1>5
<1> HIDE DEF a, b
<1>8. WrittenFrom(0, a, b)
  <2>1. 0 \in 0 .. Len(text)
    BY <1>1
  <2> QED BY <1>6, <1>7, <2>1
<1>9. PICK K : ChoiceFrom(K, 0) /\ Visible(b) = {origin[i] : i \in LeftFrom(K, 0)}
  BY <1>8 DEF WrittenFrom
<1>10. \A m \in found : m.start \in Nat /\ 0 <= m.start /\ m.end \in Nat /\ m.end <= Len(text)
  BY DEF Pass, SpansFound
<1>11. K \in SUBSET found /\ IsChoice(K)
  BY <1>9, <1>10 DEF ChoiceFrom, IsChoice
<1>12. \A i, j \in 1 .. Len(text) : origin[i] = origin[j] /\ origin[i] # 0 => i = j
  <2> SUFFICES ASSUME NEW i \in 1 .. Len(text), NEW j \in 1 .. Len(text), origin[i] = origin[j], origin[i] # 0
               PROVE  i = j
    OBVIOUS
  <2>1. origin[i] \in Nat /\ ~(origin[i] < origin[j]) /\ ~(origin[j] < origin[i])
    BY DEF Pass
  <2>2. ~(i < j) /\ ~(j < i)
    BY <2>1 DEF Pass, InOrder
  <2> QED BY <1>1, <2>2
<1>13. \A i : i \in LeftFrom(K, 0) <=>
         i \in 1 .. Len(text) /\ origin[i] # 0 /\ \A m \in K : i \notin m.start + 1 .. m.end
  <2>1. \A m \in K : \A i \in 1 .. Len(text) : i \in m.start + 1 .. m.end <=> m.start < i /\ i <= m.end
    BY <1>10, <1>11
  <2>2. 0 + 1 = 1
    OBVIOUS
  <2> QED BY <2>1, <2>2 DEF LeftFrom
<1>14. \A m \in K : \A j \in m.start + 1 .. m.end : j \in 1 .. Len(text)
  BY <1>1, <1>10, <1>11
<1>15. Visible(b) = Visible(origin) \ Covered(K)
  <2>1. ASSUME NEW v \in Visible(b) PROVE v \in Visible(origin) \ Covered(K)
    <3>1. PICK i \in LeftFrom(K, 0) : v = origin[i]
      BY <1>9, <2>1
    <3>2. i \in 1 .. Len(text) /\ origin[i] # 0 /\ \A m \in K : i \notin m.start + 1 .. m.end
      BY <1>13
    <3>3. v \in Visible(origin)
      BY <1>1, <3>1, <3>2 DEF Visible
    <3>4. ASSUME NEW m \in K, NEW j \in m.start + 1 .. m.end, v = origin[j] PROVE FALSE
      BY <1>12, <1>14, <3>1, <3>2, <3>4
    <3> QED BY <3>3, <3>4 DEF Covered
  <2>2. ASSUME NEW v \in Visible(origin) \ Covered(K) PROVE v \in Visible(b)
    <3>1. PICK i \in 1 .. Len(text) : v = origin[i] /\ v # 0
      BY <1>1 DEF Visible
    <3>2. \A m \in K : i \notin m.start + 1 .. m.end
      BY <3>1 DEF Covered
    <3> QED BY <1>9, <1>13, <3>1, <3>2
  <2> QED BY <2>1, <2>2
<1> QED BY <1>8, <1>11, <1>15 DEF WrittenFrom, a, b
-----------------------------------------------------------------------------
(***************************************************************************)
(* The passes.                                                             *)
(***************************************************************************)
\* Every text the passes come to keeps what they rely on.
KeepsContract == Contract(text)

SettleInv ==
  /\ SearchInv
  /\ text \in Seq(Int) /\ origin \in Seq(Nat) /\ Len(origin) = Len(text)
  /\ InOrder(origin)
  /\ passes \in Nat

LEMMA FoundSecrets ==
  ASSUME SearchInv, KeepsContract, NEW m \in found
  PROVE  \E r \in Rules : \E s \in Secrets(r, text) :
           /\ m = [rule |-> r, start |-> s[1], end |-> s[2]]
           /\ s \in Spans(text)
<1>1. PICK r \in Relevant(text) : m \in Reports(r, Secrets(r, text))
  BY DEF SearchInv
<1>2. PICK s \in Secrets(r, text) : m = [rule |-> r, start |-> s[1], end |-> s[2]]
  BY <1>1 DEF Reports
<1>3. r \in Rules /\ s \in Spans(text)
  BY <1>1, <1>2 DEF KeepsContract, Contract
<1> QED BY <1>2, <1>3

LEMMA EveryPass ==
  ASSUME SettleInv, KeepsContract
  PROVE  Pass
<1>1. Len(text) \in Nat
  BY LenProperties DEF SettleInv
<1>2. ASSUME NEW m \in found
      PROVE  /\ m \in [rule : Nat, start : Nat, end : Nat] /\ m.start < m.end /\ m.end <= Len(text)
             /\ Produced(m) \in Seq(Int)
  <2>1. SearchInv
    BY DEF SettleInv
  <2>2. PICK r \in Rules : \E s \in Secrets(r, text) :
          m = [rule |-> r, start |-> s[1], end |-> s[2]] /\ s \in Spans(text)
    BY <2>1, FoundSecrets
  <2>3. PICK s \in Secrets(r, text) : m = [rule |-> r, start |-> s[1], end |-> s[2]] /\ s \in Spans(text)
    BY <2>2
  <2>4. s[1] \in Nat /\ s[2] \in Nat /\ s[1] < s[2] /\ s[2] <= Len(text)
    BY <1>1, <2>3 DEF Spans
  <2>5. r \in Nat
    BY FullSearchAssumption
  <2>6. Replacement(r, SubSeq(text, s[1] + 1, s[2])) \in Seq(Int)
    BY <2>3 DEF KeepsContract, Contract
  <2>7. m.rule = r /\ m.start = s[1] /\ m.end = s[2]
    BY <2>3
  <2>8. m \in [rule : Nat, start : Nat, end : Nat]
    BY <2>3, <2>4, <2>5
  <2> QED BY <2>4, <2>6, <2>7, <2>8 DEF Produced, BytesOf
<1> QED BY <1>1, <1>2 DEF Pass, SpansFound, SettleInv

LEMMA RewriteFacts ==
  ASSUME SettleInv, KeepsContract, Rewrite
  PROVE  /\ text' \in Seq(Int) /\ origin' \in Seq(Nat) /\ Len(text') = Len(origin')
         /\ InOrder(origin')
         /\ \E K \in SUBSET found :
              IsChoice(K) /\ Visible(origin') = Visible(origin) \ Covered(K)
<1>1. text' = Written(text, Texts) /\ origin' = Written(origin, Origins)
  BY DEF Rewrite, Texts, Origins
<1> QED BY <1>1, EveryPass, WhatAPassWrites

LEMMA StepSettleInv == SettleInv /\ KeepsContract /\ [SettleNext]_settleVars => SettleInv'
<1> SUFFICES ASSUME SettleInv, KeepsContract, [SettleNext]_settleVars PROVE SettleInv'
  OBVIOUS
<1>1. CASE Searching
  <2>1. [Next]_vars /\ origin' = origin /\ passes' = passes
    BY <1>1 DEF Searching
  <2>2. SearchInv' /\ text' = text
    BY <2>1, NextSearchInv, SameText DEF SettleInv
  <2>3. InOrder(origin)'
    BY <2>1 DEF SettleInv, InOrder
  <2> QED BY <2>1, <2>2, <2>3 DEF SettleInv
<1>2. CASE Rewrite
  <2>1. pending' = Relevant(text)' /\ found' = {} /\ done' = FALSE /\ passes' \in Nat
    BY <1>2 DEF Rewrite, SettleInv
  <2>2. SearchInv'
    BY <2>1 DEF SearchInv
  <2>3. /\ text' \in Seq(Int) /\ origin' \in Seq(Nat) /\ Len(text') = Len(origin')
        /\ InOrder(origin')
    BY <1>2, RewriteFacts
  <2>4. InOrder(origin)'
    BY <2>3 DEF InOrder
  <2> QED BY <2>1, <2>2, <2>3, <2>4 DEF SettleInv
<1>3. CASE UNCHANGED settleVars
  <2>1. [Next]_vars /\ origin' = origin /\ passes' = passes
    BY <1>3 DEF settleVars
  <2>2. SearchInv' /\ text' = text
    BY <2>1, NextSearchInv, <1>3 DEF SettleInv, settleVars, vars
  <2>3. InOrder(origin)'
    BY <2>1 DEF SettleInv, InOrder
  <2> QED BY <2>1, <2>2, <2>3 DEF SettleInv
<1> QED BY <1>1, <1>2, <1>3 DEF SettleNext, Rested

LEMMA FirstSettleInv == SettleInit => SettleInv
<1> SUFFICES ASSUME SettleInit PROVE SettleInv
  OBVIOUS
<1>1. SearchInv
  BY NothingReported DEF SettleInit, Init
<1>2. text \in Seq(Int)
  BY SettleAssumption DEF SettleInit, Init
<1>3. Len(text) \in Nat
  BY <1>2, LenProperties
<1>4. origin \in Seq(Nat) /\ Len(origin) = Len(text) /\ \A i \in 1 .. Len(text) : origin[i] = i
  <2> DEFINE n == Len(text)
  <2> HIDE DEF n
  <2>1. n \in Nat /\ origin = [i \in 1 .. n |-> i]
    BY <1>3 DEF SettleInit, n
  <2>2. origin \in [1 .. n -> Nat]
    BY <2>1
  <2>3. origin \in Seq(Nat)
    BY <2>1, <2>2, SeqDef
  <2>4. Len(origin) = n
    BY <2>1, <2>2, <2>3, LenProperties
  <2> QED BY <2>1, <2>3, <2>4 DEF n
<1>5. InOrder(origin)
  BY <1>3, <1>4 DEF InOrder
<1> QED BY <1>1, <1>2, <1>4, <1>5 DEF SettleInit, SettleInv

\* A pass takes from the bytes of the input that are left what the
\* leftmost-longest matches of its text cover, and nothing else, and leaves the
\* rest in order.
THEOREM RemovesExactly == SettleSpec /\ []KeepsContract => RemovesWhatIsFound
<1> DEFINE Removes == passes' = passes + 1 =>
                        /\ InOrder(origin')
                        /\ \E K \in SUBSET found :
                             IsChoice(K) /\ Visible(origin') = Visible(origin) \ Covered(K)
<1>1. SettleInv /\ KeepsContract /\ [SettleNext]_settleVars => [Removes]_settleVars
  <2> SUFFICES ASSUME SettleInv, KeepsContract, [SettleNext]_settleVars, passes' = passes + 1
               PROVE  Removes
    BY DEF Removes
  <2>1. passes' # passes
    BY DEF SettleInv
  <2>2. Rewrite
    BY <2>1 DEF SettleNext, Searching, Rested, settleVars
  <2> QED BY <2>2, RewriteFacts
<1>2. SettleSpec /\ []KeepsContract => [][Removes]_settleVars
  <2> HIDE DEF Removes
  <2> QED BY <1>1, FirstSettleInv, StepSettleInv, PTL DEF SettleSpec
<1> QED BY <1>2 DEF RemovesWhatIsFound
-----------------------------------------------------------------------------
(***************************************************************************)
(* What Luhn reads: one byte taken by a walk, and a walk over a text.      *)
(***************************************************************************)
Walks == [sum : Nat, digits : Nat, odd : BOOLEAN, ok : BOOLEAN]

LEMMA Weights ==
  ASSUME NEW d \in 0 .. 9
  PROVE  /\ Doubled(d) \in 0 .. 9 /\ Doubled(d) = CrossSum(2 * d)
         /\ \A e \in 0 .. 9 : Doubled(d) = Doubled(e) => d = e
<1>1. d = 0 \/ d = 1 \/ d = 2 \/ d = 3 \/ d = 4 \/ d = 5 \/ d = 6 \/ d = 7 \/ d = 8 \/ d = 9
  OBVIOUS
<1> QED BY <1>1 DEF Doubled, CrossSum

LEMMA DigitRange == ASSUME NEW c \in Digits PROVE c - 48 \in 0 .. 9
BY DEF Digits

LEMMA TakenSeparator == ASSUME NEW w, NEW c \in Separators PROVE Taken(w, c) = w
BY DEF Taken, Separators, Digits

LEMMA TakenOther ==
  ASSUME NEW w \in Walks, NEW c, c \notin Separators \cup Digits
  PROVE  Taken(w, c) \in Walks /\ ~Taken(w, c).ok
<1>1. Taken(w, c) = [w EXCEPT !.ok = FALSE]
  BY Zenon DEF Taken
<1>2. [w EXCEPT !.ok = FALSE] \in Walks /\ ~[w EXCEPT !.ok = FALSE].ok
  BY DEF Walks
<1> QED BY <1>1, <1>2

LEMMA TakenOtherKeeps ==
  ASSUME NEW w \in Walks, NEW c, c \notin Separators \cup Digits
  PROVE  Taken(w, c).sum = w.sum /\ Taken(w, c).odd = w.odd /\ Taken(w, c).digits = w.digits
<1>1. Taken(w, c) = [w EXCEPT !.ok = FALSE]
  BY Zenon DEF Taken
<1> DEFINE v == [w EXCEPT !.ok = FALSE]
<1>2. v.sum = w.sum /\ v.odd = w.odd /\ v.digits = w.digits
  BY DEF Walks
<1> QED BY <1>1, <1>2

LEMMA TakenDigit ==
  ASSUME NEW w \in Walks, NEW c \in Digits
  PROVE  /\ Taken(w, c) \in Walks
         /\ Taken(w, c).sum = w.sum + (IF w.odd THEN Doubled(c - 48) ELSE c - 48)
         /\ Taken(w, c).digits = w.digits + 1
         /\ Taken(w, c).odd = ~w.odd
         /\ Taken(w, c).ok = w.ok
<1> DEFINE x == IF w.odd THEN Doubled(c - 48) ELSE c - 48
<1>1. c - 48 \in 0 .. 9 /\ Doubled(c - 48) \in 0 .. 9
  BY DigitRange, Weights
<1>2. x \in Nat
  BY <1>1
<1>3. c \notin Separators
  BY DEF Separators, Digits
<1>4. Taken(w, c) = Digit(w, c - 48)
  BY <1>3, Zenon DEF Taken
<1>5. Digit(w, c - 48) = [w EXCEPT !.sum = @ + x, !.digits = @ + 1, !.odd = ~@]
  BY Zenon DEF Digit
<1> HIDE DEF x
<1> DEFINE v == [w EXCEPT !.sum = @ + x, !.digits = @ + 1, !.odd = ~@]
<1>6. v.sum = w.sum + x /\ v.digits = w.digits + 1 /\ v.odd = ~w.odd /\ v.ok = w.ok
  BY <1>2 DEF Walks
<1>8. v \in Walks
  <2>1. w.sum + x \in Nat /\ w.digits + 1 \in Nat
    BY <1>2 DEF Walks
  <2>3. (~w.odd) \in BOOLEAN
    BY Zenon
  <2>2. \A y, z \in Nat : \A q \in BOOLEAN : [w EXCEPT !.sum = y, !.digits = z, !.odd = q] \in Walks
    BY DEF Walks
  <2> DEFINE y == w.sum + x
             z == w.digits + 1
             q == ~w.odd
  <2>4. y \in Nat /\ z \in Nat /\ q \in BOOLEAN /\ v = [w EXCEPT !.sum = y, !.digits = z, !.odd = q]
    BY <2>1, <2>3, Zenon
  <2> HIDE DEF y, z, q, v
  <2> QED BY <2>2, <2>4
<1> HIDE DEF v
<1>7. Taken(w, c) = v
  BY <1>4, <1>5 DEF v
<1> QED BY <1>6, <1>7, <1>8 DEF x
-----------------------------------------------------------------------------
\* What Walk's function is, from the end of the text to its beginning.
WalkOf(s, f) ==
  /\ f[Len(s) + 1] = Start
  /\ \A i \in 1 .. Len(s) : f[i] = Taken(f[i + 1], s[i])
  /\ \A i \in 1 .. Len(s) + 1 : f[i] \in Walks

LEMMA TakenIsWalk == ASSUME NEW w \in Walks, NEW c PROVE Taken(w, c) \in Walks
<1>1. CASE c \in Separators
  BY <1>1, TakenSeparator
<1>2. CASE c \in Digits
  BY <1>2, TakenDigit
<1>3. CASE c \notin Separators \cup Digits
  BY <1>3, TakenOther
<1> QED BY <1>1, <1>2, <1>3

LEMMA WalkEquations ==
  ASSUME NEW s \in Seq(Int)
  PROVE  \E f : WalkOf(s, f) /\ Walk(s) = f[1]
<1> DEFINE n == Len(s)
           IsWalk(f) == f = [i \in 1 .. Len(s) + 1 |->
                               IF i > Len(s) THEN Start ELSE Taken(f[i + 1], s[i])]
           step == [x \in (1 .. n) \X Walks |-> Taken(x[2], s[n + 1 - x[1]])]
<1>1. n \in Nat
  BY LenProperties
<1>2. Start \in Walks
  BY DEF Start, Walks
<1>3. \A i \in 1 .. n : \A w \in Walks : step[<<i, w>>] = Taken(w, s[n + 1 - i])
  OBVIOUS
<1> HIDE DEF step, n
<1>4. step \in [(1 .. n) \X Walks -> Walks]
  BY TakenIsWalk DEF step
<1>5. \E f : Iteration(f, n, Walks, Start, step)
  <2> HIDE DEF IsWalk
  <2> QED BY <1>1, <1>2, <1>4, Iterated
<1>6. PICK f : /\ f[0] = Start
               /\ \A i \in 0 .. n : f[i] \in Walks
               /\ \A i \in 1 .. n : f[i] = step[<<i, f[i - 1]>>]
  <2> HIDE DEF IsWalk
  <2> QED BY <1>5 DEF Iteration
<1> DEFINE g == [i \in 1 .. n + 1 |-> f[n + 1 - i]]
<1>7. ASSUME NEW i \in 1 .. n + 1
      PROVE  g[i] = IF i > n THEN Start ELSE Taken(g[i + 1], s[i])
  <2>1. CASE i > n
    <3>1. n + 1 - i = 0
      BY <1>1, <2>1
    <3> QED BY <1>6, <2>1, <3>1
  <2>2. CASE ~(i > n)
    <3>1. /\ i \in 1 .. n /\ n + 1 - i \in 1 .. n /\ n + 1 - (n + 1 - i) = i
          /\ (n + 1 - i) - 1 = n + 1 - (i + 1) /\ i + 1 \in 1 .. n + 1
          /\ (n + 1 - i) - 1 \in 0 .. n
      BY <1>1, <2>2
    <3>2. g[i + 1] = f[(n + 1 - i) - 1] /\ g[i] = f[n + 1 - i]
      BY <3>1
    <3>3. f[n + 1 - i] = Taken(f[(n + 1 - i) - 1], s[i])
      BY <1>3, <1>6, <3>1
    <3> QED BY <2>2, <3>2, <3>3
  <2> QED BY <2>1, <2>2
<1>8. g = [i \in 1 .. n + 1 |-> g[i]]
  OBVIOUS
<1> HIDE DEF g
<1>9. g = [i \in 1 .. n + 1 |-> IF i > n THEN Start ELSE Taken(g[i + 1], s[i])]
  BY <1>7, <1>8
<1>10. IsWalk(g)
  BY <1>9 DEF n
<1> DEFINE h == CHOOSE h : IsWalk(h)
<1>11. IsWalk(h)
  BY <1>10, Zenon
<1>12. Walk(s) = h[1]
  BY Zenon DEF Walk
<1> HIDE DEF h
<1>13. \A i \in 1 .. n + 1 : h[i] = IF i > n THEN Start ELSE Taken(h[i + 1], s[i])
  BY <1>11 DEF n
<1> HIDE DEF IsWalk
<1>14. h[n + 1] = Start /\ \A i \in 1 .. n : h[i] = Taken(h[i + 1], s[i])
  <2>1. n + 1 \in 1 .. n + 1 /\ n + 1 > n /\ \A i \in 1 .. n : i \in 1 .. n + 1 /\ ~(i > n)
    BY <1>1
  <2> QED BY <1>13, <2>1
<1> DEFINE Good == {i \in 1 .. n + 1 : h[i] \in Walks}
<1>15. n + 1 \in Good
  BY <1>1, <1>2, <1>14
<1>16. ASSUME NEW i \in 1 .. n, i + 1 \in Good PROVE i \in Good
  <2>1. i \in 1 .. n + 1
    BY <1>1
  <2> QED BY <1>14, <1>16, <2>1, TakenIsWalk
<1>17. \A i \in 1 .. n + 1 : i \in Good
  <2> HIDE DEF Good
  <2> QED BY <1>1, <1>15, <1>16, Downward
<1>18. WalkOf(s, h)
  BY <1>14, <1>17 DEF WalkOf, n
<1> QED BY <1>12, <1>18

LEMMA LessThanTenApart ==
  ASSUME NEW x \in Nat, NEW y \in Nat, NEW a \in 0 .. 9, NEW b \in 0 .. 9,
         x - y = a - b, x % 10 = 0, y % 10 = 0
  PROVE  a = b
OBVIOUS

\* One digit changed: behind it the walks agree, and from there on their sums
\* differ by what the two digits weigh, which is no multiple of ten.
LEMMA OneWrongDigit ==
  ASSUME NEW s \in Seq(Int), NEW p \in 1 .. Len(s), s[p] \in Digits,
         NEW c \in Digits, c # s[p], Luhn(s)
  PROVE  ~Luhn([s EXCEPT ![p] = c])
<1> DEFINE t == [s EXCEPT ![p] = c]
           n == Len(s)
<1>1. c \in Int
  BY DEF Digits
<1>2. n \in Nat /\ p \in 1 .. n
  BY LenProperties
<1>3. t \in Seq(Int) /\ Len(t) = n /\ t[p] = c /\ \A i \in 1 .. n : i # p => t[i] = s[i]
  BY <1>1, ExceptSeq
<1> HIDE DEF t, n
<1>4. PICK f : WalkOf(s, f) /\ Walk(s) = f[1]
  BY WalkEquations
<1>5. PICK g : WalkOf(t, g) /\ Walk(t) = g[1]
  BY <1>3, WalkEquations
<1>6. /\ f[n + 1] = Start /\ g[n + 1] = Start
      /\ \A i \in 1 .. n : f[i] = Taken(f[i + 1], s[i]) /\ g[i] = Taken(g[i + 1], t[i])
      /\ \A i \in 1 .. n + 1 : f[i] \in Walks /\ g[i] \in Walks
  BY <1>3, <1>4, <1>5 DEF WalkOf, n
<1> DEFINE Same == {i \in 1 .. n + 1 : p < i => f[i] = g[i]}
<1>7. \A i \in 1 .. n + 1 : i \in Same
  <2>1. n + 1 \in Same
    BY <1>2, <1>6
  <2>2. ASSUME NEW i \in 1 .. n, i + 1 \in Same PROVE i \in Same
    <3>1. i \in 1 .. n + 1 /\ (p < i => p < i + 1 /\ i # p)
      BY <1>2
    <3> QED BY <1>3, <1>6, <2>2, <3>1
  <2> HIDE DEF Same
  <2> QED BY <1>2, <2>1, <2>2, Downward
<1>8. p + 1 \in 1 .. n + 1 /\ p < p + 1 /\ f[p + 1] = g[p + 1]
  <2>1. p + 1 \in 1 .. n + 1 /\ p < p + 1
    BY <1>2
  <2> QED BY <1>7, <2>1
<1> DEFINE w == f[p + 1]
           a == IF w.odd THEN Doubled(s[p] - 48) ELSE s[p] - 48
           b == IF w.odd THEN Doubled(c - 48) ELSE c - 48
<1>9. /\ f[p].sum = w.sum + a /\ g[p].sum = w.sum + b
      /\ f[p].digits = g[p].digits /\ f[p].odd = g[p].odd
  <2>1. f[p] = Taken(f[p + 1], s[p]) /\ g[p] = Taken(f[p + 1], c) /\ f[p + 1] \in Walks
    BY <1>2, <1>3, <1>6, <1>8
  <2>2. f[p].sum = w.sum + a /\ f[p].digits = w.digits + 1 /\ f[p].odd = ~w.odd
    BY <2>1, TakenDigit
  <2>3. g[p].sum = w.sum + b /\ g[p].digits = w.digits + 1 /\ g[p].odd = ~w.odd
    BY <2>1, TakenDigit
  <2> QED BY <2>2, <2>3
<1>10. a \in 0 .. 9 /\ b \in 0 .. 9 /\ a # b
  <2>1. s[p] - 48 \in 0 .. 9 /\ c - 48 \in 0 .. 9 /\ s[p] - 48 # c - 48
    BY DigitRange DEF Digits
  <2> QED BY <2>1, Weights
<1> HIDE DEF a, b, w
<1> DEFINE Apart == {i \in 1 .. n + 1 : i <= p => f[i].sum - g[i].sum = a - b /\ f[i].odd = g[i].odd}
<1>11. \A i \in 1 .. n + 1 : i \in Apart
  <2>1. n + 1 \in Apart
    BY <1>2
  <2>2. ASSUME NEW i \in 1 .. n, i + 1 \in Apart PROVE i \in Apart
    <3>1. i \in 1 .. n + 1 /\ i + 1 \in 1 .. n + 1 /\ (i <= p => i = p \/ i + 1 <= p)
      BY <1>2
    <3>2. CASE i = p
      <4>1. w.sum \in Nat
        BY <1>6, <1>8 DEF Walks, w
      <4> QED BY <1>9, <1>10, <3>1, <3>2, <4>1
    <3>3. CASE i + 1 <= p
      <4> DEFINE u == f[i + 1]
                 v == g[i + 1]
                 e == s[i]
      <4>1. u.sum - v.sum = a - b /\ u.odd = v.odd
        BY <2>2, <3>1, <3>3
      <4>2. i # p
        BY <1>2, <3>3
      <4>3. u \in Walks /\ v \in Walks /\ f[i] = Taken(u, e) /\ g[i] = Taken(v, e)
        BY <1>3, <1>6, <3>1, <4>2
      <4> HIDE DEF u, v, e
      <4>4. f[i].sum - g[i].sum = a - b /\ f[i].odd = g[i].odd
        <5>1. CASE e \in Separators
          BY <4>1, <4>3, <5>1, TakenSeparator
        <5>2. CASE e \in Digits
          <6> DEFINE x == IF u.odd THEN Doubled(e - 48) ELSE e - 48
          <6>1. x \in Nat
            <7>1. e - 48 \in 0 .. 9
              BY <5>2, DigitRange
            <7>2. Doubled(e - 48) \in 0 .. 9
              BY <7>1, Weights
            <7> QED BY <7>1, <7>2
          <6>2. f[i].sum = u.sum + x /\ f[i].odd = ~u.odd
            BY <4>3, <5>2, TakenDigit
          <6>3. g[i].sum = v.sum + x /\ g[i].odd = ~v.odd
            BY <4>1, <4>3, <5>2, TakenDigit
          <6>4. u.sum \in Nat /\ v.sum \in Nat
            BY <4>3 DEF Walks
          <6> HIDE DEF x
          <6>5. f[i].sum - g[i].sum = a - b
            BY <1>10, <4>1, <6>1, <6>2, <6>3, <6>4
          <6> QED BY <4>1, <6>2, <6>3, <6>5
        <5>3. CASE e \notin Separators \cup Digits
          BY <4>1, <4>3, <5>3, TakenOtherKeeps
        <5> QED BY <5>1, <5>2, <5>3
      <4> QED BY <3>1, <4>4
    <3> QED BY <3>1, <3>2, <3>3
  <2> HIDE DEF Apart
  <2> QED BY <1>2, <2>1, <2>2, Downward
<1>12. f[1].sum - g[1].sum = a - b
  <2>1. 1 \in 1 .. n + 1 /\ 1 <= p
    BY <1>2
  <2> QED BY <1>11, <2>1
<1>13. f[1].sum \in Nat /\ g[1].sum \in Nat
  BY <1>2, <1>6 DEF Walks
<1>14. f[1].sum % 10 = 0
  BY <1>4 DEF Luhn, Passes
<1>15. g[1].sum % 10 # 0
  BY <1>10, <1>12, <1>13, <1>14, LessThanTenApart
<1> QED BY <1>5, <1>15 DEF Luhn, Passes, t
-----------------------------------------------------------------------------
(***************************************************************************)
(* The reference: the digits alone, and their weights from the right.      *)
(***************************************************************************)
NumberOf(s, f) ==
  /\ f[0] = <<>>
  /\ \A i \in 1 .. Len(s) : f[i] = IF s[i] \in Separators THEN f[i - 1] ELSE Append(f[i - 1], s[i])
  /\ \A i \in 0 .. Len(s) : f[i] \in Seq(Int)

LEMMA NumberEquations ==
  ASSUME NEW s \in Seq(Int)
  PROVE  \E f : NumberOf(s, f) /\ Number(s) = f[Len(s)]
<1> DEFINE n == Len(s)
           IsNumber(f) == f = [i \in 0 .. Len(s) |->
                                 IF i = 0 THEN <<>>
                                 ELSE IF s[i] \in Separators THEN f[i - 1] ELSE Append(f[i - 1], s[i])]
           Kept(t, c) == IF c \in Separators THEN t ELSE Append(t, c)
           step == [x \in (1 .. n) \X Seq(Int) |-> Kept(x[2], s[x[1]])]
<1>1. n \in Nat /\ \A i \in 1 .. n : s[i] \in Int
  BY LenProperties
<1>2. <<>> \in Seq(Int)
  BY EmptySeq
<1>3. \A i \in 1 .. n : \A t \in Seq(Int) : step[<<i, t>>] = Kept(t, s[i])
  OBVIOUS
<1>4. \A t \in Seq(Int) : \A c \in Int : Kept(t, c) \in Seq(Int)
  BY AppendProperties
<1> HIDE DEF step, n, Kept
<1>5. step \in [(1 .. n) \X Seq(Int) -> Seq(Int)]
  BY <1>1, <1>4 DEF step
<1>6. \E f : Iteration(f, n, Seq(Int), <<>>, step)
  <2> HIDE DEF IsNumber
  <2> QED BY <1>1, <1>2, <1>5, Iterated
<1>7. PICK f : /\ f[0] = <<>>
               /\ \A i \in 0 .. n : f[i] \in Seq(Int)
               /\ \A i \in 1 .. n : f[i] = step[<<i, f[i - 1]>>]
  <2> HIDE DEF IsNumber
  <2> QED BY <1>6 DEF Iteration
<1> DEFINE g == [i \in 0 .. n |-> f[i]]
<1>8. \A i \in 0 .. n : g[i] = IF i = 0 THEN <<>> ELSE Kept(g[i - 1], s[i])
  <2>1. ASSUME NEW i \in 1 .. n PROVE i - 1 \in 0 .. n /\ i \in 0 .. n /\ i # 0
    BY <1>1
  <2>2. ASSUME NEW i \in 1 .. n PROVE g[i] = Kept(g[i - 1], s[i])
    <3>1. f[i] = Kept(f[i - 1], s[i])
      BY <1>3, <1>7, <2>1
    <3> QED BY <2>1, <3>1
  <2>3. \A i \in 0 .. n : i = 0 \/ i \in 1 .. n
    BY <1>1
  <2>4. g[0] = <<>>
    BY <1>1, <1>7
  <2> HIDE DEF g
  <2> QED BY <2>1, <2>2, <2>3, <2>4
<1>9. g = [i \in 0 .. n |-> g[i]]
  OBVIOUS
<1> HIDE DEF g
<1>10. g = [i \in 0 .. n |-> IF i = 0 THEN <<>> ELSE Kept(g[i - 1], s[i])]
  BY <1>8, <1>9
<1>11. IsNumber(g)
  BY <1>10, Zenon DEF n, Kept
<1> DEFINE h == CHOOSE h : IsNumber(h)
<1>12. IsNumber(h)
  BY <1>11, Zenon
<1>13. Number(s) = h[Len(s)]
  BY Zenon DEF Number
<1> HIDE DEF h
<1>14. h = [i \in 0 .. n |-> IF i = 0 THEN <<>> ELSE Kept(h[i - 1], s[i])]
  BY <1>12, Zenon DEF n, Kept
<1> HIDE DEF IsNumber
<1>15. h[0] = <<>> /\ \A i \in 1 .. n : h[i] = Kept(h[i - 1], s[i])
  <2>1. 0 \in 0 .. n /\ \A i \in 1 .. n : i \in 0 .. n /\ i # 0
    BY <1>1
  <2>2. \A i \in 0 .. n : h[i] = IF i = 0 THEN <<>> ELSE Kept(h[i - 1], s[i])
    BY <1>14
  <2> QED BY <2>1, <2>2
<1> DEFINE Good == {i \in 0 .. n : h[i] \in Seq(Int)}
<1>16. 0 \in Good
  <2>1. 0 \in 0 .. n
    BY <1>1
  <2>2. h[0] \in Seq(Int)
    BY <1>2, <1>15, Zenon
  <2> QED BY <2>1, <2>2
<1>17. ASSUME NEW i \in 1 .. n, i - 1 \in Good PROVE i \in Good
  <2>1. i \in 0 .. n /\ s[i] \in Int
    BY <1>1
  <2> QED BY <1>4, <1>15, <1>17, <2>1
<1>18. \A i \in 0 .. n : i \in Good
  <2> HIDE DEF Good
  <2> QED BY <1>1, <1>16, <1>17, Upward
<1>19. NumberOf(s, h)
  BY <1>15, <1>18 DEF NumberOf, n, Kept
<1> QED BY <1>13, <1>19

Weight(c, odd) == IF odd THEN CrossSum(2 * (c - 48)) ELSE c - 48

ChecksumOf(number, f) ==
  /\ f[0] = 0
  /\ \A k \in 1 .. Len(number) :
       f[k] = f[k - 1] + Weight(number[k], (Len(number) - k) % 2 = 1)
  /\ \A k \in 0 .. Len(number) : f[k] \in Int

LEMMA WeightIsInt == ASSUME NEW c \in Int, NEW odd PROVE Weight(c, odd) \in Int
BY DEF Weight, CrossSum

LEMMA ChecksumEquations ==
  ASSUME NEW number \in Seq(Int)
  PROVE  \E f : ChecksumOf(number, f) /\ Checksum(number) = f[Len(number)]
<1> DEFINE n == Len(number)
           IsChecksum(f) == f = [k \in 0 .. Len(number) |->
                                   IF k = 0 THEN 0
                                   ELSE LET d == number[k] - 48
                                        IN  f[k - 1] + (IF (Len(number) - k) % 2 = 1 THEN CrossSum(2 * d) ELSE d)]
           Weighs(k) == Weight(number[k], (n - k) % 2 = 1)
           step == [x \in (1 .. n) \X Int |-> x[2] + Weighs(x[1])]
<1>1. n \in Nat /\ \A i \in 1 .. n : number[i] \in Int
  BY LenProperties
<1>2. \A k \in 1 .. n : Weighs(k) \in Int
  BY <1>1, WeightIsInt
<1> HIDE DEF n, Weighs
<1>3. \A i \in 1 .. n : \A t \in Int : step[<<i, t>>] = t + Weighs(i)
  OBVIOUS
<1>5. step \in [(1 .. n) \X Int -> Int]
  BY <1>1, <1>2
<1> HIDE DEF step
<1>6. \E f : Iteration(f, n, Int, 0, step)
  <2> HIDE DEF IsChecksum
  <2>1. 0 \in Int
    OBVIOUS
  <2> QED BY <1>1, <1>5, <2>1, Iterated, Zenon
<1>7. PICK f : /\ f[0] = 0
               /\ \A i \in 0 .. n : f[i] \in Int
               /\ \A i \in 1 .. n : f[i] = step[<<i, f[i - 1]>>]
  <2> HIDE DEF IsChecksum
  <2> QED BY <1>6 DEF Iteration
<1> DEFINE g == [i \in 0 .. n |-> f[i]]
<1>8. \A i \in 0 .. n : g[i] = IF i = 0 THEN 0 ELSE g[i - 1] + Weighs(i)
  <2>1. ASSUME NEW i \in 1 .. n PROVE i - 1 \in 0 .. n /\ i \in 0 .. n /\ i # 0
    BY <1>1
  <2>2. ASSUME NEW i \in 1 .. n PROVE g[i] = g[i - 1] + Weighs(i)
    <3>1. f[i] = f[i - 1] + Weighs(i)
      BY <1>3, <1>7, <2>1
    <3> QED BY <2>1, <3>1
  <2>3. \A i \in 0 .. n : i = 0 \/ i \in 1 .. n
    BY <1>1
  <2>4. g[0] = 0
    BY <1>1, <1>7
  <2> HIDE DEF g
  <2> QED BY <2>1, <2>2, <2>3, <2>4
<1>9. g = [i \in 0 .. n |-> g[i]]
  OBVIOUS
<1> HIDE DEF g
<1>10. g = [i \in 0 .. n |-> IF i = 0 THEN 0 ELSE g[i - 1] + Weighs(i)]
  BY <1>8, <1>9
<1>11. IsChecksum(g)
  BY <1>10, Zenon DEF n, Weighs, Weight
<1> DEFINE h == CHOOSE h : IsChecksum(h)
<1>12. IsChecksum(h)
  BY <1>11, Zenon
<1>13. Checksum(number) = h[Len(number)]
  BY Zenon DEF Checksum
<1> HIDE DEF h
<1>14. h = [i \in 0 .. n |-> IF i = 0 THEN 0 ELSE h[i - 1] + Weighs(i)]
  BY <1>12, Zenon DEF n, Weighs, Weight
<1> HIDE DEF IsChecksum
<1>15. h[0] = 0 /\ \A i \in 1 .. n : h[i] = h[i - 1] + Weighs(i)
  <2>1. 0 \in 0 .. n /\ \A i \in 1 .. n : i \in 0 .. n /\ i # 0
    BY <1>1
  <2>2. \A i \in 0 .. n : h[i] = IF i = 0 THEN 0 ELSE h[i - 1] + Weighs(i)
    BY <1>14
  <2> QED BY <2>1, <2>2
<1> DEFINE Good == {i \in 0 .. n : h[i] \in Int}
<1>16. 0 \in Good
  BY <1>1, <1>15
<1>17. ASSUME NEW i \in 1 .. n, i - 1 \in Good PROVE i \in Good
  <2>1. i \in 0 .. n
    BY <1>1
  <2> QED BY <1>2, <1>15, <1>17, <2>1
<1>18. \A i \in 0 .. n : i \in Good
  <2> HIDE DEF Good
  <2> QED BY <1>1, <1>16, <1>17, Upward
<1>19. ChecksumOf(number, h)
  BY <1>15, <1>18 DEF ChecksumOf, n, Weighs
<1> QED BY <1>13, <1>19
-----------------------------------------------------------------------------
(***************************************************************************)
(* Walk and the reference, place by place.                                 *)
(***************************************************************************)
AllBytes(s, i, j) == \A k \in i .. j : s[k] \in Separators \cup Digits

LEMMA NumberGrows ==
  ASSUME NEW s \in Seq(Int), NEW f, NumberOf(s, f), NEW i \in 1 .. Len(s)
  PROVE  /\ Len(f[i]) \in Nat /\ Len(f[i - 1]) \in Nat
         /\ s[i] \in Separators => f[i] = f[i - 1]
         /\ s[i] \notin Separators =>
              /\ Len(f[i]) = Len(f[i - 1]) + 1
              /\ f[i][Len(f[i])] = s[i]
              /\ \A j \in 1 .. Len(f[i - 1]) : f[i][j] = f[i - 1][j]
<1> DEFINE b == f[i - 1]
           c == f[i]
<1>1. Len(s) \in Nat /\ s[i] \in Int
  BY LenProperties
<1>2. i \in 0 .. Len(s) /\ i - 1 \in 0 .. Len(s)
  BY <1>1
<1>3. b \in Seq(Int) /\ c \in Seq(Int)
  BY <1>2 DEF NumberOf
<1>4. c = IF s[i] \in Separators THEN b ELSE Append(b, s[i])
  BY DEF NumberOf
<1> HIDE DEF b, c
<1>5. Len(b) \in Nat /\ Len(c) \in Nat
  BY <1>3, LenProperties
<1>6. /\ Len(Append(b, s[i])) = Len(b) + 1
      /\ Append(b, s[i])[Len(b) + 1] = s[i]
      /\ \A j \in 1 .. Len(b) : Append(b, s[i])[j] = b[j]
  BY <1>1, <1>3, AppendProperties
<1>7. s[i] \notin Separators =>
        Len(c) = Len(b) + 1 /\ c[Len(c)] = s[i] /\ \A j \in 1 .. Len(b) : c[j] = b[j]
  BY <1>4, <1>6
<1> QED BY <1>4, <1>5, <1>7 DEF b, c

LEMMA NumberPrefix ==
  ASSUME NEW s \in Seq(Int), NEW f, NumberOf(s, f), NEW q \in 0 .. Len(s)
  PROVE  /\ Len(f[q]) \in Nat /\ Len(f[Len(s)]) \in Nat /\ Len(f[q]) <= Len(f[Len(s)])
         /\ \A j \in 1 .. Len(f[q]) : f[Len(s)][j] = f[q][j]
<1> DEFINE n == Len(s)
           Prefix(i) == /\ Len(f[i]) <= Len(f[n])
                        /\ \A j \in 1 .. Len(f[i]) : f[n][j] = f[i][j]
           Good == {i \in 1 .. n + 1 : Prefix(i - 1)}
<1>1. n \in Nat
  BY LenProperties
<1>2. \A i \in 0 .. n : Len(f[i]) \in Nat
  BY LenProperties DEF NumberOf
<1>a. \A i \in 1 .. n :
         /\ s[i] \in Separators => f[i] = f[i - 1]
         /\ s[i] \notin Separators =>
              /\ Len(f[i]) = Len(f[i - 1]) + 1
              /\ \A j \in 1 .. Len(f[i - 1]) : f[i][j] = f[i - 1][j]
  BY NumberGrows
<1> HIDE DEF n
<1>3. n + 1 \in Good
  <2>1. n + 1 \in 1 .. n + 1 /\ (n + 1) - 1 = n /\ n \in 0 .. n
    BY <1>1
  <2>2. Prefix(n)
    BY <1>2, <2>1
  <2> QED BY <2>1, <2>2
<1>4. ASSUME NEW i \in 1 .. n, i + 1 \in Good PROVE i \in Good
  <2>1. /\ i \in 1 .. n + 1 /\ i \in 0 .. n /\ i - 1 \in 0 .. n /\ (i + 1) - 1 = i /\ n \in 0 .. n
    BY <1>1
  <2>2. Prefix(i)
    BY <1>4, <2>1
  <2>3. CASE s[i] \in Separators
    <3>1. Prefix(i - 1)
      BY <1>a, <2>2, <2>3
    <3> QED BY <2>1, <3>1
  <2>4. CASE s[i] \notin Separators
    <3>1. Len(f[i]) = Len(f[i - 1]) + 1 /\ \A j \in 1 .. Len(f[i - 1]) : f[i][j] = f[i - 1][j]
      BY <1>a, <2>4
    <3>2. Len(f[i]) \in Nat /\ Len(f[i - 1]) \in Nat /\ Len(f[n]) \in Nat
      BY <1>2, <2>1
    <3>3. Len(f[i - 1]) <= Len(f[n]) /\ \A j \in 1 .. Len(f[i - 1]) : j \in 1 .. Len(f[i])
      BY <2>2, <3>1, <3>2
    <3>4. Prefix(i - 1)
      BY <2>2, <3>1, <3>3
    <3> QED BY <2>1, <3>4
  <2> QED BY <2>3, <2>4
<1>5. \A i \in 1 .. n + 1 : i \in Good
  <2> HIDE DEF Good
  <2> QED BY <1>1, <1>3, <1>4, Downward
<1>6. Prefix(q)
  <2>1. q + 1 \in 1 .. n + 1 /\ (q + 1) - 1 = q
    BY <1>1 DEF n
  <2> QED BY <1>5, <2>1
<1>7. Len(f[q]) \in Nat /\ Len(f[n]) \in Nat
  BY <1>1, <1>2 DEF n
<1> QED BY <1>6, <1>7 DEF n

LEMMA NumberDigits ==
  ASSUME NEW s \in Seq(Int), NEW f, NumberOf(s, f)
  PROVE  (\A k \in 1 .. Len(f[Len(s)]) : f[Len(s)][k] \in Digits) <=> AllBytes(s, 1, Len(s))
<1> DEFINE n == Len(s)
           AllDigits(i) == \A k \in 1 .. Len(f[i]) : f[i][k] \in Digits
           Good == {i \in 0 .. n : AllDigits(i) <=> AllBytes(s, 1, i)}
<1>1. n \in Nat
  BY LenProperties
<1>2. 0 \in Good
  <2>1. AllDigits(0) /\ AllBytes(s, 1, 0)
    BY DEF NumberOf, AllBytes
  <2> QED BY <1>1, <2>1
<1>3. ASSUME NEW i \in 1 .. n, i - 1 \in Good PROVE i \in Good
  <2>1. /\ Len(f[i]) \in Nat /\ Len(f[i - 1]) \in Nat
        /\ s[i] \in Separators => f[i] = f[i - 1]
        /\ s[i] \notin Separators =>
             /\ Len(f[i]) = Len(f[i - 1]) + 1
             /\ f[i][Len(f[i])] = s[i]
             /\ \A j \in 1 .. Len(f[i - 1]) : f[i][j] = f[i - 1][j]
    BY NumberGrows
  <2>2. AllBytes(s, 1, i) <=> AllBytes(s, 1, i - 1) /\ s[i] \in Separators \cup Digits
    <3>1. \A k : k \in 1 .. i <=> k \in 1 .. i - 1 \/ k = i
      OBVIOUS
    <3> QED BY <3>1 DEF AllBytes
  <2>3. AllDigits(i - 1) <=> AllBytes(s, 1, i - 1)
    BY <1>3
  <2>4. AllDigits(i) <=> AllBytes(s, 1, i)
    <3>1. CASE s[i] \in Separators
      BY <2>1, <2>2, <2>3, <3>1
    <3>2. CASE s[i] \notin Separators
      <4>1. \A k : k \in 1 .. Len(f[i]) <=> k \in 1 .. Len(f[i - 1]) \/ k = Len(f[i])
        BY <2>1, <3>2
      <4>2. AllDigits(i) <=> AllDigits(i - 1) /\ s[i] \in Digits
        BY <2>1, <3>2, <4>1
      <4> QED BY <2>2, <2>3, <3>2, <4>2
    <3> QED BY <3>1, <3>2
  <2>5. i \in 0 .. n
    BY <1>1
  <2> QED BY <2>4, <2>5
<1>4. \A i \in 0 .. n : i \in Good
  <2> HIDE DEF Good
  <2> QED BY <1>1, <1>2, <1>3, Upward
<1>5. n \in Good
  <2> HIDE DEF Good
  <2>1. n \in 0 .. n
    BY <1>1
  <2> QED BY <1>4, <2>1
<1> QED BY <1>5

LEMMA WalkOk ==
  ASSUME NEW s \in Seq(Int), NEW w, WalkOf(s, w)
  PROVE  w[1].ok <=> AllBytes(s, 1, Len(s))
<1> DEFINE n == Len(s)
           Good == {i \in 1 .. n + 1 : w[i].ok <=> AllBytes(s, i, n)}
<1>1. n \in Nat
  BY LenProperties
<1>2. /\ w[n + 1] = Start
      /\ \A i \in 1 .. n : w[i] = Taken(w[i + 1], s[i])
      /\ \A i \in 1 .. n + 1 : w[i] \in Walks
  BY DEF WalkOf
<1> HIDE DEF n
<1>3. n + 1 \in Good
  <2>1. Start.ok
    BY DEF Start
  <2>2. AllBytes(s, n + 1, n)
    BY <1>1 DEF AllBytes
  <2> QED BY <1>1, <1>2, <2>1, <2>2
<1>4. ASSUME NEW i \in 1 .. n, i + 1 \in Good PROVE i \in Good
  <2>1. w[i] = Taken(w[i + 1], s[i]) /\ w[i + 1] \in Walks /\ i \in 1 .. n + 1
    BY <1>1, <1>2
  <2>2. AllBytes(s, i, n) <=> AllBytes(s, i + 1, n) /\ s[i] \in Separators \cup Digits
    <3>1. \A k : k \in i .. n <=> k \in i + 1 .. n \/ k = i
      BY <1>1
    <3> QED BY <3>1 DEF AllBytes
  <2>3. w[i + 1].ok <=> AllBytes(s, i + 1, n)
    BY <1>4
  <2>4. w[i].ok <=> w[i + 1].ok /\ s[i] \in Separators \cup Digits
    <3>1. CASE s[i] \in Separators
      BY <2>1, <3>1, TakenSeparator
    <3>2. CASE s[i] \in Digits
      BY <2>1, <3>2, TakenDigit
    <3>3. CASE s[i] \notin Separators \cup Digits
      BY <2>1, <3>3, TakenOther
    <3> QED BY <3>1, <3>2, <3>3
  <2> QED BY <2>1, <2>2, <2>3, <2>4
<1>5. \A i \in 1 .. n + 1 : i \in Good
  <2> HIDE DEF Good
  <2> QED BY <1>1, <1>3, <1>4, Downward
<1>6. 1 \in 1 .. n + 1
  BY <1>1
<1> QED BY <1>5, <1>6 DEF n

\* With a byte taken, as many digits are left as the walk has not seen, and the
\* checksum of those it has seen is its sum.
LEMMA WalkCounts ==
  ASSUME NEW s \in Seq(Int), AllBytes(s, 1, Len(s)),
         NEW w, WalkOf(s, w), NEW f, NumberOf(s, f), NEW u, ChecksumOf(f[Len(s)], u)
  PROVE  /\ w[1].digits = Len(f[Len(s)])
         /\ w[1].sum = u[Len(f[Len(s)])]
<1> DEFINE n == Len(s)
           number == f[n]
           N == Len(number)
           L(i) == Len(f[i])
           Agrees(i) == /\ w[i].digits = N - L(i - 1)
                        /\ w[i].odd <=> (N - L(i - 1)) % 2 = 1
                        /\ w[i].sum = u[N] - u[L(i - 1)]
           Good == {i \in 1 .. n + 1 : Agrees(i)}
<1>1. n \in Nat
  BY LenProperties
<1>2. /\ w[n + 1] = Start
      /\ \A i \in 1 .. n : w[i] = Taken(w[i + 1], s[i])
      /\ \A i \in 1 .. n + 1 : w[i] \in Walks
  BY DEF WalkOf
<1>3. \A i \in 0 .. n : L(i) \in Nat /\ N \in Nat /\ L(i) <= N /\ \A j \in 1 .. L(i) : number[j] = f[i][j]
  BY NumberPrefix
<1>4. /\ u[0] = 0
      /\ \A k \in 1 .. N : u[k] = u[k - 1] + Weight(number[k], (N - k) % 2 = 1)
      /\ \A k \in 0 .. N : u[k] \in Int
  BY DEF ChecksumOf
<1>5. \A i \in 1 .. n : /\ s[i] \in Separators \cup Digits
                        /\ s[i] \in Separators => L(i) = L(i - 1)
                        /\ s[i] \notin Separators => L(i) = L(i - 1) + 1 /\ f[i][L(i)] = s[i]
  BY NumberGrows DEF AllBytes
<1>6. L(0) = 0
  BY DEF NumberOf
<1> HIDE DEF n, number, N, L
<1>7. n + 1 \in Good
  <2>1. (n + 1) - 1 = n /\ n \in 0 .. n /\ n + 1 \in 1 .. n + 1 /\ L(n) = N
    BY <1>1 DEF N, L, number
  <2>2. N \in Nat /\ u[N] \in Int
    BY <1>3, <1>4, <2>1
  <2>3. Start.digits = 0 /\ Start.sum = 0 /\ ~Start.odd
    BY DEF Start
  <2>4. N - L(n) = 0 /\ u[N] - u[L(n)] = 0 /\ 0 % 2 = 0
    BY <2>1, <2>2
  <2>5. Agrees(n + 1)
    BY <1>2, <2>1, <2>3, <2>4
  <2> QED BY <2>1, <2>5
<1>8. ASSUME NEW i \in 1 .. n, i + 1 \in Good PROVE i \in Good
  <2> DEFINE v == w[i + 1]
             k == L(i)
  <2>1. /\ i \in 1 .. n + 1 /\ i + 1 \in 1 .. n + 1 /\ i \in 0 .. n /\ i - 1 \in 0 .. n /\ (i + 1) - 1 = i
    BY <1>1
  <2>2. /\ v.digits = N - k /\ (v.odd <=> (N - k) % 2 = 1) /\ v.sum = u[N] - u[k]
    BY <1>8, <2>1
  <2>3. w[i] = Taken(v, s[i]) /\ v \in Walks
    BY <1>2, <2>1
  <2>4. k \in Nat /\ N \in Nat /\ k <= N /\ \A j \in 1 .. k : number[j] = f[i][j]
    BY <1>3, <2>1
  <2>a. L(i - 1) \in Nat
    BY <1>3, <2>1
  <2>5. CASE s[i] \in Separators
    <3>1. w[i] = v /\ L(i - 1) = k
      BY <1>5, <2>3, <2>5, TakenSeparator
    <3>2. Agrees(i)
      BY <2>2, <3>1
    <3> QED BY <2>1, <3>2
  <2>6. CASE s[i] \notin Separators
    <3>1. s[i] \in Digits /\ L(i - 1) = k - 1 /\ f[i][k] = s[i]
      <4>1. s[i] \in Digits /\ k = L(i - 1) + 1 /\ f[i][k] = s[i]
        BY <1>5, <2>6
      <4> QED BY <2>4, <2>a, <4>1
    <3>2. k \in 1 .. N /\ k - 1 \in 0 .. N /\ k \in 0 .. N /\ N \in 0 .. N /\ k \in 1 .. k
      BY <2>4, <2>a, <3>1
    <3>3. number[k] = s[i]
      BY <2>4, <3>1, <3>2
    <3>4. u[k] = u[k - 1] + Weight(s[i], (N - k) % 2 = 1) /\ u[k - 1] \in Int /\ u[k] \in Int /\ u[N] \in Int
      BY <1>4, <3>2, <3>3
    <3> DEFINE x == IF v.odd THEN Doubled(s[i] - 48) ELSE s[i] - 48
    <3>5. /\ w[i].sum = v.sum + x /\ w[i].digits = v.digits + 1 /\ w[i].odd = ~v.odd
      BY <2>3, <3>1, TakenDigit
    <3>6. Weight(s[i], (N - k) % 2 = 1) = x /\ x \in Int
      <4>1. s[i] - 48 \in 0 .. 9
        BY <3>1, DigitRange
      <4>2. Doubled(s[i] - 48) \in 0 .. 9 /\ Doubled(s[i] - 48) = CrossSum(2 * (s[i] - 48))
        BY <4>1, Weights
      <4>3. CASE v.odd
        BY <2>2, <4>2, <4>3 DEF Weight
      <4>4. CASE ~v.odd
        BY <2>2, <4>1, <4>4 DEF Weight
      <4> QED BY <4>3, <4>4
    <3> HIDE DEF x, k, v
    <3>7. w[i].sum = u[N] - u[k - 1]
      BY <2>2, <3>4, <3>5, <3>6
    <3>8. w[i].digits = N - (k - 1)
      BY <2>2, <2>4, <3>5
    <3>9. w[i].odd <=> (N - (k - 1)) % 2 = 1
      <4>1. (N - (k - 1)) % 2 = 1 <=> ~((N - k) % 2 = 1)
        BY <2>4
      <4> QED BY <2>2, <3>5, <4>1
    <3>10. Agrees(i)
      BY <3>1, <3>7, <3>8, <3>9
    <3> QED BY <2>1, <3>10
  <2> QED BY <2>5, <2>6
<1>9. \A i \in 1 .. n + 1 : i \in Good
  <2> HIDE DEF Good
  <2> QED BY <1>1, <1>7, <1>8, Downward
<1>10. Agrees(1)
  <2>1. 1 \in 1 .. n + 1
    BY <1>1
  <2> QED BY <1>9, <2>1
<1>11. N \in Nat /\ u[N] \in Int
  <2>1. 0 \in 0 .. n
    BY <1>1
  <2>2. N \in Nat
    BY <1>3, <2>1
  <2> QED BY <1>4, <2>2
<1>12. w[1].digits = N /\ w[1].sum = u[N]
  BY <1>4, <1>6, <1>10, <1>11
<1> QED BY <1>12 DEF N, number, n

LEMMA WalkIsChecksum ==
  ASSUME NEW s \in Seq(Int)
  PROVE  Luhn(s) <=> IsCardNumber(s)
<1>1. PICK w : WalkOf(s, w) /\ Walk(s) = w[1]
  BY WalkEquations
<1>2. PICK f : NumberOf(s, f) /\ Number(s) = f[Len(s)]
  BY NumberEquations
<1>3. Number(s) \in Seq(Int)
  <2>1. Len(s) \in 0 .. Len(s)
    BY LenProperties
  <2> QED BY <1>2, <2>1 DEF NumberOf
<1>4. PICK u : ChecksumOf(Number(s), u) /\ Checksum(Number(s)) = u[Len(Number(s))]
  BY <1>3, ChecksumEquations
<1>5. w[1].ok <=> AllBytes(s, 1, Len(s))
  BY <1>1, WalkOk
<1>6. (\A k \in 1 .. Len(Number(s)) : Number(s)[k] \in Digits) <=> AllBytes(s, 1, Len(s))
  BY <1>2, NumberDigits
<1>7. CASE AllBytes(s, 1, Len(s))
  <2>1. w[1].digits = Len(Number(s)) /\ w[1].sum = Checksum(Number(s))
    BY <1>1, <1>2, <1>4, <1>7, WalkCounts
  <2> QED BY <1>1, <1>5, <1>6, <1>7, <2>1 DEF Luhn, Passes, IsCardNumber
<1>8. CASE ~AllBytes(s, 1, Len(s))
  BY <1>1, <1>5, <1>6, <1>8 DEF Luhn, Passes, IsCardNumber
<1> QED BY <1>7, <1>8
-----------------------------------------------------------------------------
\* The texts the passes start from.
GivenInv == passes \in Nat /\ (passes = 0 => text \in Inputs)

LEMMA GivenInvariant == SettleSpec => []GivenInv
<1>1. SettleInit => GivenInv
  BY DEF SettleInit, Init, GivenInv
<1>2. GivenInv /\ [SettleNext]_settleVars => GivenInv'
  <2> SUFFICES ASSUME GivenInv, [SettleNext]_settleVars PROVE GivenInv'
    OBVIOUS
  <2>1. CASE Rewrite
    BY <2>1 DEF Rewrite, GivenInv
  <2>2. CASE Searching
    <3>1. text' = text /\ passes' = passes
      BY <2>2, SameText DEF Searching
    <3> QED BY <3>1 DEF GivenInv
  <2>3. CASE UNCHANGED settleVars
    BY <2>3 DEF settleVars, vars, GivenInv
  <2> QED BY <2>1, <2>2, <2>3 DEF SettleNext, Rested
<1> QED BY <1>1, <1>2, PTL DEF SettleSpec

\* Luhn of packs.go reports the Luhn checksum of the digits of a text, whatever
\* separators stand between them.
THEOREM LuhnChecks == SettleSpec => []LuhnIsChecksum
<1>1. GivenInv => LuhnIsChecksum
  BY WalkIsChecksum, SettleAssumption DEF GivenInv, LuhnIsChecksum, Given
<1> QED BY <1>1, GivenInvariant, PTL

\* No number Luhn passes still passes with one digit mistaken.
THEOREM LuhnCatchesOneDigit == SettleSpec => []OneWrongDigitFails
<1>1. GivenInv => OneWrongDigitFails
  <2> SUFFICES ASSUME GivenInv, Given, Luhn(text),
                      NEW p \in 1 .. Len(text), text[p] \in Digits, NEW c \in Digits \ {text[p]}
               PROVE  ~Luhn([text EXCEPT ![p] = c])
    BY DEF OneWrongDigitFails
  <2>1. text \in Seq(Int)
    BY SettleAssumption DEF GivenInv, Given
  <2> QED BY <2>1, OneWrongDigit
<1> QED BY <1>1, GivenInvariant, PTL
=============================================================================
