--------------------------- MODULE ConfirmProofs ---------------------------
(***************************************************************************)
(* What Confirm guarantees for every set of texts, every rule set and every*)
(* regexp that keep the contract of ConfirmContract.                       *)
(*                                                                         *)
(* The argument: the merged windows never touch and each holds the full    *)
(* slices of its hits (MergeInv); if no anchor is too long (AnchorsFit, a  *)
(* hypothesis wherever it is needed) each is a slice of the input.  So a   *)
(* match contained in the input lies well inside exactly one window, where *)
(* it is found the same way (CandidatesAgree); the greedy choice of matches*)
(* is local to a window as well, because the windows do not touch          *)
(* (SelectionsAgree); and the windows between them yield what the whole    *)
(* input yields (WindowsAnswer).                                           *)
(*                                                                         *)
(* Last come two facts about any rules that Build lets in, or need no more *)
(* than AnchorsFit: a rule reports all of its windows or none (ReportInv), *)
(* and covered counts what the windows cover.                              *)
(***************************************************************************)
EXTENDS ConfirmContract, LeastElement, SequenceTheorems, TLAPS

\* The windows in rs are what Confirm merged for the hits of r up to the k-th.
SeparateWindows(t, rs) ==
  /\ \A i \in 1 .. Len(rs) : 0 <= rs[i][1] /\ rs[i][2] <= Length(t)
  /\ \A i, j \in 1 .. Len(rs) : i < j => rs[i][2] < rs[j][1]

EndBehindStart(rs) == \A i \in 1 .. Len(rs) : rs[i][1] <= rs[i][2]

LegalWindows(t, rs) ==
  /\ \A i \in 1 .. Len(rs) :
       0 <= rs[i][1] /\ rs[i][1] <= rs[i][2] /\ rs[i][2] <= Length(t)
  /\ \A i, j \in 1 .. Len(rs) : i < j => rs[i][2] < rs[j][1]

HoldHits(r, t, rs, k) ==
  \A i \in 1 .. k : Hits(t)[i].rule = r =>
    \E j \in 1 .. Len(rs) :
      rs[j][1] <= Lo(r, Hits(t)[i]) /\ Hi(r, t, Hits(t)[i]) <= rs[j][2]
-----------------------------------------------------------------------------
LEMMA HitFacts ==
  ASSUME NEW t \in Inputs, NEW i \in 1 .. Len(Hits(t))
  PROVE  /\ Length(t) \in Nat /\ Len(Hits(t)) \in Nat
         /\ Hits(t)[i].rule \in Rules
         /\ Hits(t)[i].start \in Nat /\ Hits(t)[i].end \in Nat
         /\ Hits(t)[i].start < Hits(t)[i].end /\ Hits(t)[i].end <= Length(t)
<1>1. Hits(t) \in Seq(Hit) /\ Length(t) \in Nat
  BY ScanAssumption
<1>2. Hits(t)[i] \in Hit
  BY <1>1
<1> QED BY <1>1, <1>2, ScanAssumption DEF Hit

LEMMA WindowFacts ==
  ASSUME NEW r \in Windowed
  PROVE  /\ r \in Rules /\ r \in Nat /\ Window[r] \in Nat \ {0}
         /\ EdgeGuard \in Nat /\ Context \in Nat \ {0} /\ Context <= EdgeGuard
BY RulesAssumption, LocalityAssumption

LEMMA RangeTypes ==
  ASSUME NEW t \in Inputs, NEW rs \in Seq(Nat \X Nat), NEW i \in 1 .. Len(rs)
  PROVE  rs[i][1] \in Nat /\ rs[i][2] \in Nat /\ Length(t) \in Nat
<1>1. rs[i] \in Nat \X Nat
  OBVIOUS
<1> QED BY <1>1, ScanAssumption

LEMMA AreLegal ==
  ASSUME NEW t, NEW rs, SeparateWindows(t, rs), EndBehindStart(rs)
  PROVE  LegalWindows(t, rs)
BY DEF SeparateWindows, EndBehindStart, LegalWindows

\* The slice of a hit lies in the text.
LEMMA SliceFacts ==
  ASSUME NEW t \in Inputs, NEW i \in 1 .. Len(Hits(t)), Hits(t)[i].rule \in Windowed
  PROVE  LET r == Hits(t)[i].rule
             lo == Lo(r, Hits(t)[i])
             hi == Hi(r, t, Hits(t)[i])
         IN  lo \in Nat /\ hi \in Nat /\ hi <= Length(t)
<1> DEFINE g == Hits(t)[i]
           W == Window[g.rule]
<1>1. W \in Nat \ {0} /\ EdgeGuard \in Nat
  BY WindowFacts
<1>2. g.start \in Nat /\ g.end \in Nat /\ Length(t) \in Nat
  BY HitFacts
<1> HIDE DEF W
<1> QED BY <1>1, <1>2 DEF Lo, Hi, maxInt, minInt, W

\* It ends behind its start unless the anchor is too long.
LEMMA SliceOrder ==
  ASSUME AnchorsFit, NEW t \in Inputs, NEW i \in 1 .. Len(Hits(t)), Hits(t)[i].rule \in Windowed
  PROVE  Lo(Hits(t)[i].rule, Hits(t)[i]) <= Hi(Hits(t)[i].rule, t, Hits(t)[i])
<1> DEFINE g == Hits(t)[i]
           W == Window[g.rule]
<1>1. W \in Nat \ {0} /\ EdgeGuard \in Nat
  BY WindowFacts
<1>2. g.start \in Nat /\ g.end \in Nat /\ g.start < g.end /\ g.end <= Length(t) /\ Length(t) \in Nat
  BY HitFacts
<1>3. g.end - g.start <= 2 * (W + EdgeGuard)
  BY DEF AnchorsFit
<1> HIDE DEF W
<1>4. g.end - W - EdgeGuard <= g.start + W + EdgeGuard
  BY <1>1, <1>2, <1>3
<1> QED BY <1>1, <1>2, <1>4 DEF Lo, Hi, maxInt, minInt, W

-----------------------------------------------------------------------------
\* The match lies in the slice, EdgeGuard away from an edge of the slice that
\* is not an edge of the text.
Clear(r, t, lo, hi, m) ==
  /\ lo <= m.whole /\ m.wholeEnd <= hi
  /\ lo = 0 \/ lo + EdgeGuard <= m.whole
  /\ hi = Length(t) \/ m.whole + Window[r] + EdgeGuard <= hi

\* The arithmetic of a slice: p and q bound a match, x and y the hit in it.
LEMMA LoBoundsMatch ==
  ASSUME NEW W \in Nat, NEW G \in Nat, NEW y \in Nat, NEW p \in Nat, NEW q \in Nat,
         y <= q, q - p <= W
  PROVE  LET lo == maxInt(0, y - W - G)
         IN  lo <= p /\ (lo = 0 \/ lo + G <= p)
BY DEF maxInt

LEMMA HiBoundsMatch ==
  ASSUME NEW W \in Nat, NEW G \in Nat, NEW n \in Nat, NEW x \in Nat, NEW p \in Nat, NEW q \in Nat,
         p <= x, q - p <= W, q <= n
  PROVE  LET hi == minInt(n, x + W + G)
         IN  q <= hi /\ (hi = n \/ p + W + G <= hi)
BY DEF minInt

LEMMA ClearIsWider ==
  ASSUME NEW r \in Windowed, NEW t \in Inputs, NEW m \in Match,
         NEW lo \in Nat, NEW hi \in Nat, NEW lo2 \in Nat, NEW hi2 \in Nat,
         Clear(r, t, lo, hi, m), lo2 <= lo, hi <= hi2, hi2 <= Length(t)
  PROVE  Clear(r, t, lo2, hi2, m)
<1> DEFINE p == m.whole
           q == m.wholeEnd
           W == Window[r]
           n == Length(t)
<1>1. p \in Nat /\ q \in Nat /\ W \in Nat /\ EdgeGuard \in Nat /\ n \in Nat
  BY WindowFacts, ScanAssumption DEF Match
<1>2. lo <= p /\ q <= hi /\ (lo = 0 \/ lo + EdgeGuard <= p) /\ (hi = n \/ p + W + EdgeGuard <= hi)
  BY DEF Clear
<1> HIDE DEF p, q, W, n
<1>3. hi2 <= n
  BY DEF n
<1>4. lo2 <= p /\ q <= hi2
  BY <1>1, <1>2
<1>5. lo2 = 0 \/ lo2 + EdgeGuard <= p
  BY <1>1, <1>2
<1>6. hi2 = n \/ p + W + EdgeGuard <= hi2
  BY <1>1, <1>2, <1>3
<1> QED BY <1>4, <1>5, <1>6 DEF Clear, p, q, W, n

\* A match holds a hit, so it lies clear of the edges of that hit's slice.
LEMMA HitBoundsMatch ==
  ASSUME NEW r \in Windowed, NEW t \in Inputs,
         NEW lo \in 0 .. Length(t), NEW hi \in lo .. Length(t),
         NEW m \in Candidates(r, t, lo, hi)
  PROVE  /\ m \in Match
         /\ lo <= m.whole /\ m.whole <= m.wholeEnd /\ m.wholeEnd <= hi
         /\ m.wholeEnd - m.whole <= Window[r]
         /\ \E i \in 1 .. Len(Hits(t)) :
              /\ Hits(t)[i].rule = r
              /\ m.whole <= Hits(t)[i].start /\ Hits(t)[i].end <= m.wholeEnd
              /\ Clear(r, t, Lo(r, Hits(t)[i]), Hi(r, t, Hits(t)[i]), m)
<1>1. Length(t) \in Nat /\ r \in Rules
  BY ScanAssumption, WindowFacts
<1>2. /\ m \in Match
      /\ lo <= m.whole /\ m.whole <= m.wholeEnd /\ m.wholeEnd <= hi
  BY <1>1, GreedyAssumption
<1>3. m.wholeEnd - m.whole <= Window[r]
  BY <1>1, WindowAssumption
<1>4. PICK i \in 1 .. Len(Hits(t)) :
        /\ Hits(t)[i].rule = r
        /\ m.whole <= Hits(t)[i].start /\ Hits(t)[i].end <= m.wholeEnd
  BY <1>1, AnchorAssumption
<1> DEFINE g == Hits(t)[i]
<1>5. g.start \in Nat /\ g.end \in Nat
  BY HitFacts
<1>6. m.whole \in Nat /\ m.wholeEnd \in Nat
  BY <1>2 DEF Match
<1>7. Window[r] \in Nat \ {0} /\ EdgeGuard \in Nat
  BY WindowFacts
<1>8. /\ g.end <= m.wholeEnd /\ m.whole <= g.start /\ g.rule = r
  BY <1>4
<1> HIDE DEF g
<1>9. /\ Lo(r, g) = 0 \/ Lo(r, g) + EdgeGuard <= m.whole
      /\ Lo(r, g) <= m.whole
  BY <1>3, <1>5, <1>6, <1>7, <1>8, LoBoundsMatch DEF Lo
<1>10. /\ Hi(r, t, g) = Length(t) \/ m.whole + Window[r] + EdgeGuard <= Hi(r, t, g)
       /\ m.wholeEnd <= Hi(r, t, g)
  <2>1. m.wholeEnd <= Length(t)
    BY <1>1, <1>2, <1>6
  <2> QED BY <1>1, <1>3, <1>5, <1>6, <1>7, <1>8, <2>1, HiBoundsMatch DEF Hi
<1>11. Clear(r, t, Lo(r, g), Hi(r, t, g), m)
  BY <1>9, <1>10 DEF Clear
<1> QED BY <1>2, <1>3, <1>8, <1>11 DEF g

LEMMA WindowSlice ==
  ASSUME NEW t \in Inputs, NEW rs \in Seq(Nat \X Nat), LegalWindows(t, rs),
         NEW i \in 1 .. Len(rs)
  PROVE  /\ rs[i][1] \in 0 .. Length(t) /\ rs[i][2] \in rs[i][1] .. Length(t)
         /\ rs[i][1] \in Nat /\ rs[i][2] \in Nat
<1>1. rs[i] \in Nat \X Nat /\ Length(t) \in Nat
  BY ScanAssumption
<1> QED BY <1>1 DEF LegalWindows

\* A hit and the match around it share the window that holds the hit's slice.
LEMMA HitHasWindow ==
  ASSUME NEW r \in Windowed, NEW t \in Inputs, NEW rs \in Seq(Nat \X Nat),
         LegalWindows(t, rs), HoldHits(r, t, rs, Len(Hits(t))), NEW m \in Match,
         NEW i \in 1 .. Len(Hits(t)), Hits(t)[i].rule = r,
         Clear(r, t, Lo(r, Hits(t)[i]), Hi(r, t, Hits(t)[i]), m)
  PROVE  \E v \in 1 .. Len(rs) : Clear(r, t, rs[v][1], rs[v][2], m)
<1>1. PICK v \in 1 .. Len(rs) :
        rs[v][1] <= Lo(r, Hits(t)[i]) /\ Hi(r, t, Hits(t)[i]) <= rs[v][2]
  BY DEF HoldHits
<1>2. rs[v][1] \in Nat /\ rs[v][2] \in Nat /\ rs[v][2] <= Length(t)
  BY WindowSlice, ScanAssumption
<1>3. Lo(r, Hits(t)[i]) \in Nat /\ Hi(r, t, Hits(t)[i]) \in Nat
  BY SliceFacts
<1> QED BY <1>1, <1>2, <1>3, ClearIsWider

\* Windows do not touch, so a match is in at most one of them.
LEMMA OneWindow ==
  ASSUME NEW t \in Inputs, NEW rs \in Seq(Nat \X Nat), LegalWindows(t, rs),
         NEW v \in 1 .. Len(rs), NEW k \in 1 .. Len(rs), NEW p \in Nat,
         rs[v][1] <= p, p <= rs[v][2], rs[k][1] <= p, p <= rs[k][2]
  PROVE  v = k
<1>1. /\ rs[v][1] \in Nat /\ rs[v][2] \in Nat
      /\ rs[k][1] \in Nat /\ rs[k][2] \in Nat
  BY WindowSlice
<1>2. CASE v < k
  BY <1>1, <1>2 DEF LegalWindows
<1>3. CASE k < v
  BY <1>1, <1>3 DEF LegalWindows
<1> QED BY <1>2, <1>3

\* A match found in a slice that is one of the windows is clear of its edges.
LEMMA MatchInWindow ==
  ASSUME NEW r \in Windowed, NEW t \in Inputs, NEW rs \in Seq(Nat \X Nat),
         LegalWindows(t, rs), HoldHits(r, t, rs, Len(Hits(t))),
         NEW v \in 1 .. Len(rs), NEW m \in Candidates(r, t, rs[v][1], rs[v][2])
  PROVE  m \in Match /\ Clear(r, t, rs[v][1], rs[v][2], m)
<1>1. rs[v][1] \in 0 .. Length(t) /\ rs[v][2] \in rs[v][1] .. Length(t)
  BY WindowSlice
<1>2. /\ m \in Match
      /\ rs[v][1] <= m.whole /\ m.whole <= m.wholeEnd /\ m.wholeEnd <= rs[v][2]
      /\ \E i \in 1 .. Len(Hits(t)) :
           Hits(t)[i].rule = r /\ Clear(r, t, Lo(r, Hits(t)[i]), Hi(r, t, Hits(t)[i]), m)
  BY <1>1, HitBoundsMatch
<1>3. PICK k \in 1 .. Len(rs) : Clear(r, t, rs[k][1], rs[k][2], m)
  BY <1>2, HitHasWindow
<1>4. /\ m.whole \in Nat /\ m.wholeEnd \in Nat
      /\ rs[v][1] \in Nat /\ rs[v][2] \in Nat /\ rs[k][1] \in Nat /\ rs[k][2] \in Nat
  BY <1>2, WindowSlice DEF Match
<1>5. /\ rs[v][1] <= m.whole /\ m.whole <= rs[v][2]
      /\ rs[k][1] <= m.whole /\ m.whole <= rs[k][2]
  BY <1>2, <1>3, <1>4, SMTT(30) DEF Clear
<1>6. v = k
  BY <1>4, <1>5, OneWindow
<1> QED BY <1>2, <1>3, <1>6

\* Every match of the whole input lies in a window, clear of its edges.
LEMMA MatchHasWindow ==
  ASSUME NEW r \in Windowed, NEW t \in Inputs, NEW rs \in Seq(Nat \X Nat),
         LegalWindows(t, rs), HoldHits(r, t, rs, Len(Hits(t))),
         NEW m \in Whole(r, t)
  PROVE  m \in Match /\ \E v \in 1 .. Len(rs) : Clear(r, t, rs[v][1], rs[v][2], m)
<1>1. 0 \in 0 .. Length(t) /\ Length(t) \in 0 .. Length(t)
  BY ScanAssumption
<1>2. m \in Match /\ \E i \in 1 .. Len(Hits(t)) :
        Hits(t)[i].rule = r /\ Clear(r, t, Lo(r, Hits(t)[i]), Hi(r, t, Hits(t)[i]), m)
  BY <1>1, HitBoundsMatch DEF Whole
<1> QED BY <1>2, HitHasWindow
-----------------------------------------------------------------------------
\* Away from its edges a slice has the matches of the whole input.
LEMMA CandidatesAgree ==
  ASSUME NEW r \in Windowed, NEW t \in Inputs,
         NEW lo \in 0 .. Length(t), NEW hi \in lo .. Length(t),
         NEW m \in Match, m.whole \in lo .. hi, Clear(r, t, lo, hi, m)
  PROVE  m \in Candidates(r, t, lo, hi) <=> m \in Whole(r, t)
<1> DEFINE p == m.whole
<1>1. /\ p \in Nat /\ Window[r] \in Nat /\ EdgeGuard \in Nat /\ Context \in Nat /\ Context <= EdgeGuard
      /\ lo \in Nat /\ hi \in Nat
  BY WindowFacts, ScanAssumption DEF Match
<1>2. lo = 0 \/ lo + Context <= p
  BY <1>1 DEF Clear
<1>3. hi = Length(t) \/ p + Window[r] + Context <= hi
  BY <1>1 DEF Clear
<1>4. {k \in Candidates(r, t, lo, hi) : k.whole = p} = {k \in Whole(r, t) : k.whole = p}
  BY <1>2, <1>3, LocalityAssumption
<1> QED BY <1>4

\* A window yields exactly the matches of the whole input that lie in it.
LEMMA WindowCandidates ==
  ASSUME NEW r \in Windowed, NEW t \in Inputs, NEW rs \in Seq(Nat \X Nat),
         LegalWindows(t, rs), HoldHits(r, t, rs, Len(Hits(t))),
         NEW v \in 1 .. Len(rs)
  PROVE  Candidates(r, t, rs[v][1], rs[v][2])
           = {m \in Whole(r, t) : Clear(r, t, rs[v][1], rs[v][2], m)}
<1>1. /\ rs[v][1] \in 0 .. Length(t) /\ rs[v][2] \in rs[v][1] .. Length(t)
      /\ rs[v][1] \in Nat /\ rs[v][2] \in Nat
  BY WindowSlice
<1>2. ASSUME NEW m \in Match, Clear(r, t, rs[v][1], rs[v][2], m), m.whole <= m.wholeEnd
      PROVE  m.whole \in rs[v][1] .. rs[v][2]
  BY <1>1, <1>2 DEF Clear, Match
<1>3. ASSUME NEW m \in Candidates(r, t, rs[v][1], rs[v][2])
      PROVE  m \in Whole(r, t) /\ Clear(r, t, rs[v][1], rs[v][2], m)
  <2>1. m \in Match /\ Clear(r, t, rs[v][1], rs[v][2], m)
    BY MatchInWindow
  <2>2. m.whole <= m.wholeEnd
    BY <1>1, HitBoundsMatch
  <2> QED BY <1>1, <1>2, <2>1, <2>2, CandidatesAgree
<1>4. ASSUME NEW m \in Whole(r, t), Clear(r, t, rs[v][1], rs[v][2], m)
      PROVE  m \in Candidates(r, t, rs[v][1], rs[v][2])
  <2>1. 0 \in 0 .. Length(t) /\ Length(t) \in 0 .. Length(t)
    BY ScanAssumption
  <2>2. m \in Match /\ m.whole <= m.wholeEnd
    BY <2>1, HitBoundsMatch DEF Whole
  <2> QED BY <1>1, <1>2, <1>4, <2>2, CandidatesAgree
<1> QED BY <1>3, <1>4

\* The arithmetic of two windows, the one that ends at a before the one that
\* starts at b.
LEMMA NoWayBack ==
  ASSUME NEW a \in Nat, NEW b \in Nat, a < b, NEW x \in Nat, x <= a, NEW y \in Nat, b <= y
  PROVE  x < y
OBVIOUS

LEMMA FollowsLater ==
  ASSUME NEW m \in Match, NEW k \in Match, m.whole <= m.wholeEnd, k.wholeEnd < m.whole
  PROVE  Follows(m, k)
<1> DEFINE x == k.wholeEnd
           y == m.whole
           z == m.wholeEnd
<1>1. x \in Nat /\ y \in Nat /\ z \in Nat /\ y <= z /\ x < y
  BY DEF Match
<1> HIDE DEF x, y, z
<1>2. x <= y /\ x < z
  BY <1>1
<1> QED BY <1>2 DEF Follows, x, y, z

\* What a match earlier in the input, in another window, cannot do.
LEMMA EarlierWindow ==
  ASSUME NEW r \in Windowed, NEW t \in Inputs, NEW rs \in Seq(Nat \X Nat),
         LegalWindows(t, rs), NEW v \in 1 .. Len(rs), NEW j \in 1 .. Len(rs), j # v,
         NEW m \in Match, NEW k \in Match, m.whole <= m.wholeEnd,
         Clear(r, t, rs[v][1], rs[v][2], m), Clear(r, t, rs[j][1], rs[j][2], k),
         k.whole < m.whole
  PROVE  Follows(m, k)
<1>1. /\ rs[v][1] \in Nat /\ rs[v][2] \in Nat /\ rs[j][1] \in Nat /\ rs[j][2] \in Nat
      /\ m.whole \in Nat /\ m.wholeEnd \in Nat /\ k.whole \in Nat /\ k.wholeEnd \in Nat
  BY WindowSlice DEF Match
<1>2. /\ rs[v][1] <= m.whole /\ m.wholeEnd <= rs[v][2]
      /\ rs[j][1] <= k.whole /\ k.wholeEnd <= rs[j][2]
  BY DEF Clear
<1>3. CASE j < v
  <2>1. rs[j][2] < rs[v][1]
    BY <1>3 DEF LegalWindows
  <2>2. k.wholeEnd < m.whole
    BY <1>1, <1>2, <2>1, NoWayBack
  <2> QED BY <2>2, FollowsLater
<1>4. CASE v < j
  <2>1. rs[v][2] < rs[j][1]
    BY <1>4 DEF LegalWindows
  <2>2. m.wholeEnd < k.whole
    BY <1>1, <1>2, <2>1, NoWayBack
  <2>3. FALSE
    BY <1>1, <2>2
  <2> QED BY <2>3
<1> QED BY <1>3, <1>4

\* The leftmost, non-overlapping selection is made window by window.
LEMMA SelectionsAgree ==
  ASSUME NEW r \in Windowed, NEW t \in Inputs, NEW rs \in Seq(Nat \X Nat),
         LegalWindows(t, rs), HoldHits(r, t, rs, Len(Hits(t))),
         NEW v \in 1 .. Len(rs)
  PROVE  FindAll(r, t, rs[v][1], rs[v][2])
           = {m \in FindAll(r, t, 0, Length(t)) : Clear(r, t, rs[v][1], rs[v][2], m)}
<1> DEFINE In(m) == Clear(r, t, rs[v][1], rs[v][2], m)
           C == Candidates(r, t, rs[v][1], rs[v][2])
           S == FindAll(r, t, rs[v][1], rs[v][2])
           U == Whole(r, t)
           F == FindAll(r, t, 0, Length(t))
           Differ == {m \in C : ~(m \in S <=> m \in F)}
           Starts == {m.whole : m \in Differ}
<1>1. /\ rs[v][1] \in 0 .. Length(t) /\ rs[v][2] \in rs[v][1] .. Length(t)
      /\ 0 \in 0 .. Length(t) /\ Length(t) \in 0 .. Length(t) /\ r \in Rules
  BY WindowSlice, ScanAssumption, WindowFacts
<1>2. C = {m \in U : In(m)}
  <2>1. Candidates(r, t, rs[v][1], rs[v][2])
          = {m \in Whole(r, t) : Clear(r, t, rs[v][1], rs[v][2], m)}
    BY WindowCandidates
  <2> QED BY <2>1
<1>3. /\ S \subseteq C
      /\ \A m \in C : m \in S <=> \A k \in S : k.whole < m.whole => Follows(m, k)
  BY <1>1, GreedyAssumption
<1>4. /\ F \subseteq U /\ U \subseteq Match
      /\ \A m \in U : m.whole <= m.wholeEnd
      /\ \A m \in U : m \in F <=> \A k \in F : k.whole < m.whole => Follows(m, k)
  BY <1>1, GreedyAssumption DEF Whole
<1>5. \A k \in U : \E j \in 1 .. Len(rs) : Clear(r, t, rs[j][1], rs[j][2], k)
  BY MatchHasWindow
<1>6. \A m \in C, k \in U : ~In(k) /\ k.whole < m.whole => Follows(m, k)
  BY <1>2, <1>4, <1>5, EarlierWindow
<1> HIDE DEF In, C, S, U, F
<1>7. Differ = {}
  <2>1. SUFFICES ASSUME Differ # {} PROVE FALSE
    OBVIOUS
  <2>2. Starts \in SUBSET Nat /\ Starts # {}
    BY <1>2, <1>4, <2>1 DEF Match
  <2>3. PICK p \in Starts : \A q \in Starts : p <= q
    BY <2>2, LeastOfNats
  <2>4. PICK m \in Differ : p = m.whole
    OBVIOUS
  <2>5. m \in C /\ m \in U /\ m.whole \in Nat
    BY <1>2, <1>4 DEF Match
  <2>6. \A k \in C : k.whole < m.whole => (k \in S <=> k \in F)
    <3>1. SUFFICES ASSUME NEW k \in C, k.whole < m.whole, ~(k \in S <=> k \in F) PROVE FALSE
      OBVIOUS
    <3>2. k.whole \in Starts /\ k.whole \in Nat
      BY <1>2, <1>4, <3>1 DEF Match
    <3>3. p <= k.whole
      BY <2>3, <3>2, Zenon
    <3> QED BY <2>4, <2>5, <3>1, <3>2, <3>3
  <2>7. ASSUME \A k \in S : k.whole < m.whole => Follows(m, k),
               NEW k \in F, k.whole < m.whole
        PROVE  Follows(m, k)
    BY <1>2, <1>3, <1>4, <1>6, <2>5, <2>6, <2>7
  <2>8. ASSUME \A k \in F : k.whole < m.whole => Follows(m, k),
               NEW k \in S, k.whole < m.whole
        PROVE  Follows(m, k)
    BY <1>3, <2>6, <2>8
  <2>9. m \in S <=> m \in F
    BY <1>3, <1>4, <2>5, <2>7, <2>8
  <2> QED BY <2>4, <2>9
<1>8. S = {m \in F : In(m)}
  BY <1>2, <1>3, <1>4, <1>7
<1> QED BY <1>8 DEF S, F, In
\* No match of a window touches an edge of it that is no edge of the input.
LEMMA NoMatchAtEdge ==
  ASSUME NEW r \in Windowed, NEW t \in Inputs, NEW rs \in Seq(Nat \X Nat),
         LegalWindows(t, rs), HoldHits(r, t, rs, Len(Hits(t))),
         NEW v \in 1 .. Len(rs), NEW m \in Candidates(r, t, rs[v][1], rs[v][2])
  PROVE  ~AtEdge(t, m, rs[v][1], rs[v][2])
<1>1. rs[v][1] \in 0 .. Length(t) /\ rs[v][2] \in rs[v][1] .. Length(t) /\ Length(t) \in Nat
  BY WindowSlice, ScanAssumption
<1>2. m \in Match /\ Clear(r, t, rs[v][1], rs[v][2], m)
  BY MatchInWindow
<1>3. m.wholeEnd - m.whole <= Window[r]
  BY <1>1, HitBoundsMatch
<1>4. /\ m.whole \in Nat /\ m.wholeEnd \in Nat /\ Window[r] \in Nat
      /\ EdgeGuard \in Nat /\ Context \in Nat \ {0} /\ Context <= EdgeGuard
  BY <1>2, WindowFacts DEF Match
<1>5. ~(m.whole = rs[v][1] /\ rs[v][1] > 0)
  BY <1>1, <1>2, <1>4 DEF Clear
<1>6. ~(m.wholeEnd = rs[v][2] /\ rs[v][2] < Length(t))
  BY <1>1, <1>2, <1>3, <1>4, SMTT(30) DEF Clear
<1> QED BY <1>5, <1>6 DEF AtEdge

LEMMA LimitDrops ==
  ASSUME NEW r, NEW t, NEW lo, NEW hi, NEW limit
  PROVE  /\ matchesIn(r, t, lo, hi, limit) \subseteq matchesIn(r, t, lo, hi, -1)
         /\ matchesIn(r, t, lo, hi, -1) = {m \in FindAll(r, t, lo, hi) : IsSecret(r, t, m)}
BY DEF matchesIn, Limited

\* Between them the windows of a rule have the secrets of the whole input.
LEMMA WindowsAnswer ==
  ASSUME NEW r \in Windowed, NEW t \in Inputs, NEW rs \in Seq(Nat \X Nat),
         LegalWindows(t, rs), HoldHits(r, t, rs, Len(Hits(t)))
  PROVE  /\ \A v \in 1 .. Len(rs) :
              SpansOf(matchesIn(r, t, rs[v][1], rs[v][2], -1)) \subseteq Secrets(r, t)
         /\ Secrets(r, t) =
              UNION {SpansOf(matchesIn(r, t, rs[v][1], rs[v][2], -1)) : v \in 1 .. Len(rs)}
<1> DEFINE F == FindAll(r, t, 0, Length(t))
           In(v) == matchesIn(r, t, rs[v][1], rs[v][2], -1)
<1>1. ASSUME NEW v \in 1 .. Len(rs)
      PROVE  In(v) = {m \in F : Clear(r, t, rs[v][1], rs[v][2], m) /\ IsSecret(r, t, m)}
  <2>1. FindAll(r, t, rs[v][1], rs[v][2]) = {m \in F : Clear(r, t, rs[v][1], rs[v][2], m)}
    BY SelectionsAgree
  <2> QED BY <2>1, LimitDrops
<1>2. Secrets(r, t) = {Span(m) : m \in {m \in F : IsSecret(r, t, m)}}
  BY LimitDrops DEF Secrets, SpansOf
<1>3. F \subseteq Whole(r, t)
  <2>1. 0 \in 0 .. Length(t) /\ Length(t) \in 0 .. Length(t) /\ r \in Rules
    BY ScanAssumption, WindowFacts
  <2> QED BY <2>1, GreedyAssumption DEF Whole
<1>4. ASSUME NEW m \in F, IsSecret(r, t, m)
      PROVE  \E v \in 1 .. Len(rs) : m \in In(v)
  BY <1>1, <1>3, <1>4, MatchHasWindow
<1> HIDE DEF F, In
<1>5. ASSUME NEW v \in 1 .. Len(rs) PROVE SpansOf(In(v)) \subseteq Secrets(r, t)
  BY <1>1, <1>2 DEF SpansOf
<1>6. Secrets(r, t) \subseteq UNION {SpansOf(In(v)) : v \in 1 .. Len(rs)}
  BY <1>2, <1>4 DEF SpansOf
<1>7. Secrets(r, t) = UNION {SpansOf(In(v)) : v \in 1 .. Len(rs)}
  BY <1>5, <1>6
<1> QED BY <1>5, <1>7 DEF In
-----------------------------------------------------------------------------
\* Merging goes left to right: the last window starts where the slice of an
\* earlier hit does, so no later hit's slice starts before it.
MergeInv ==
  pc \in {"merge", "search"} =>
    /\ SeparateWindows(text, ranges)
    /\ AnchorsFit => EndBehindStart(ranges)
    /\ HoldHits(idx, text, ranges, h)
    /\ ranges # <<>> => \E i \in 1 .. h :
         Hits(text)[i].rule = idx /\ ranges[Len(ranges)][1] = Lo(idx, Hits(text)[i])

InWindowAll(i) == SpansOf(matchesIn(idx, text, ranges[i][1], ranges[i][2], -1))

SearchInv ==
  pc = "search" =>
    /\ h = Len(Hits(text)) /\ w <= Len(ranges) + 1
    /\ spans \subseteq Secrets(idx, text)
    /\ op = "collect" /\ MaxMatches = -1 => spans = UNION {InWindowAll(i) : i \in 1 .. w - 1}

OrderInv ==
  pc \in {"merge", "search", "whole"} => \A q \in pending : idx <= q

BaseInv == TypeOK /\ MergeInv /\ OrderInv

\* What holds besides, if no anchor is too long.
Inv == AnchorsFit /\ BaseInv /\ SearchInv /\ SlicesAreLegal

LEMMA HitIndex ==
  ASSUME TypeOK, h < Len(Hits(text))
  PROVE  h + 1 \in 1 .. Len(Hits(text)) /\ h \in Nat /\ Len(Hits(text)) \in Nat
<1>1. Hits(text) \in Seq(Hit)
  BY ScanAssumption DEF TypeOK
<1> QED BY <1>1 DEF TypeOK

LEMMA InitInv == Init => BaseInv /\ SearchInv /\ SlicesAreLegal
<1> SUFFICES ASSUME Init PROVE BaseInv /\ SearchInv /\ SlicesAreLegal
  OBVIOUS
<1>1. text \in Inputs /\ Active(text) \subseteq Rules /\ Hits(text) \in Seq(Hit)
  BY ScanAssumption DEF Init
<1>2. TypeOK
  BY <1>1 DEF Init, TypeOK
<1> QED BY <1>2 DEF Init, BaseInv, MergeInv, SearchInv, OrderInv, SlicesAreLegal

\* What visit is given becomes a report of the rule being confirmed.
LEMMA VisitType ==
  ASSUME TypeOK, pc \in {"search", "whole"}, pc = "search" => idx \in Active(text) \ pending,
         NEW ss \in SUBSET ((Nat \cup {-1}) \X (Nat \cup {-1})), Visit(ss)
  PROVE  found' \subseteq [rule : Rules, start : Nat \cup {-1}, end : Nat \cup {-1}]
<1>1. idx \in Rules
  BY ScanAssumption DEF TypeOK
<1>2. Visited(ss) \subseteq ss
  BY DEF Visited
<1> QED BY <1>1, <1>2 DEF Visit, TypeOK

LEMMA SpansType ==
  ASSUME NEW r \in Rules, NEW t \in Inputs, NEW lo \in 0 .. Length(t), NEW hi \in lo .. Length(t),
         NEW limit
  PROVE  SpansOf(matchesIn(r, t, lo, hi, limit)) \subseteq (Nat \cup {-1}) \X (Nat \cup {-1})
<1>1. matchesIn(r, t, lo, hi, limit) \subseteq Match
  BY LimitDrops, RegexpAssumption
<1> QED BY <1>1 DEF SpansOf, Span, Match

LEMMA ConfirmTypes == TypeOK /\ [Next]_vars /\ MergeInv => TypeOK'
<1> SUFFICES ASSUME TypeOK, [Next]_vars, MergeInv PROVE TypeOK'
  OBVIOUS
<1>0. /\ Rules \subseteq Nat /\ Active(text) \subseteq Rules /\ Hits(text) \in Seq(Hit)
      /\ Length(text) \in Nat /\ Windowed \subseteq Rules
  BY ScanAssumption, RulesAssumption DEF TypeOK
<1>1. CASE PickRule
  <2>1. PICK r \in pending :
          /\ idx' = r /\ pending' = pending \ {r}
          /\ \/ r \in Windowed /\ pc' = "merge" /\ h' = 0 /\ ranges' = <<>> /\ covered' = 0
             \/ r \notin Windowed /\ pc' = "whole" /\ UNCHANGED <<h, ranges, covered>>
    BY <1>1 DEF PickRule, Without
  <2>2. r \in Rules /\ r \in Nat /\ r \in Active(text)
    BY <1>0 DEF TypeOK
  <2>3. h' \in 0 .. Len(Hits(text)) /\ ranges' \in Seq(Nat \X Nat) /\ covered' \in Int
    <3>1. 0 \in 0 .. Len(Hits(text)) /\ <<>> \in Seq(Nat \X Nat)
      BY <1>0
    <3>2. h \in 0 .. Len(Hits(text)) /\ ranges \in Seq(Nat \X Nat) /\ covered \in Int
      BY DEF TypeOK
    <3>3. CASE r \in Windowed
      <4>1. h' = 0 /\ ranges' = <<>> /\ covered' = 0
        BY <2>1, <3>3
      <4> QED BY <3>1, <4>1
    <3>4. CASE r \notin Windowed
      BY <2>1, <3>2, <3>4
    <3> QED BY <3>3, <3>4
  <2> QED BY <1>1, <2>1, <2>2, <2>3 DEF PickRule, TypeOK
<1>2. CASE Finish
  BY <1>2 DEF Finish, TypeOK
<1>3. CASE SkipHit
  BY <1>0, <1>3, HitIndex DEF SkipHit, TypeOK
<1>4. CASE ExtendRange
  <2>1. h + 1 \in 1 .. Len(Hits(text)) /\ h \in Nat /\ Len(Hits(text)) \in Nat
    BY <1>4, HitIndex DEF ExtendRange
  <2> DEFINE g == Hits(text)[h + 1]
             last == ranges[Len(ranges)]
             hi == NewHi(last, g)
  <2>2. Hi(idx, text, g) \in Nat
    BY <1>4, <2>1, SliceFacts DEF ExtendRange, NextHit, TypeOK
  <2>3. last \in Nat \X Nat
    BY <1>4 DEF ExtendRange, Touches, TypeOK
  <2>4. hi \in Nat
    BY <2>2, <2>3 DEF NewHi, maxInt
  <2>5. /\ ranges' = [ranges EXCEPT ![Len(ranges)] = <<last[1], hi>>]
        /\ covered' = covered + (hi - last[2])
        /\ h' = h + 1
    BY <1>4 DEF ExtendRange, NextHit, Gained
  <2>6. ranges' \in Seq(Nat \X Nat)
    <3>1. Len(ranges) \in 1 .. Len(ranges) /\ ranges \in Seq(Nat \X Nat)
      BY <1>4 DEF ExtendRange, Touches, TypeOK
    <3>2. <<last[1], hi>> \in Nat \X Nat
      BY <2>3, <2>4
    <3> HIDE DEF last, hi
    <3> QED BY <2>5, <3>1, <3>2, ExceptSeq
  <2>7. covered' \in Int
    BY <2>3, <2>4, <2>5 DEF TypeOK
  <2> HIDE DEF g, last, hi
  <2> QED BY <1>4, <2>1, <2>5, <2>6, <2>7 DEF ExtendRange, TypeOK
<1>5. CASE NewRange
  <2>1. h + 1 \in 1 .. Len(Hits(text)) /\ h \in Nat /\ Len(Hits(text)) \in Nat
    BY <1>5, HitIndex DEF NewRange
  <2> DEFINE g == Hits(text)[h + 1]
  <2>2. Hi(idx, text, g) \in Nat /\ Lo(idx, g) \in Nat
    BY <1>5, <2>1, SliceFacts DEF NewRange, NextHit, TypeOK
  <2>3. /\ ranges' = Append(ranges, <<Lo(idx, g), Hi(idx, text, g)>>)
        /\ covered' = covered + (Hi(idx, text, g) - Lo(idx, g))
        /\ h' = h + 1
    BY <1>5 DEF NewRange, NextHit
  <2> HIDE DEF g
  <2>4. ranges' \in Seq(Nat \X Nat)
    BY <2>2, <2>3 DEF TypeOK
  <2>5. covered' \in Int
    BY <2>2, <2>3 DEF TypeOK
  <2> QED BY <1>5, <2>1, <2>3, <2>4, <2>5 DEF NewRange, TypeOK
<1>6. CASE AbandonWindows
  BY <1>6 DEF AbandonWindows, TypeOK
<1>7. CASE StartSearch
  BY <1>7 DEF StartSearch, FreshSpans, TypeOK
<1>8. CASE OutOfRange
  BY <1>8 DEF OutOfRange, TypeOK
<1>9. ASSUME pc = "search", w <= Len(ranges), ranges[w][1] <= ranges[w][2]
      PROVE  SpansOf(InWindow(w)) \subseteq (Nat \cup {-1}) \X (Nat \cup {-1})
  <2>1. w \in 1 .. Len(ranges) /\ idx \in Rules
    BY <1>0, <1>9 DEF TypeOK
  <2>2. ranges[w][1] \in 0 .. Length(text) /\ ranges[w][2] \in ranges[w][1] .. Length(text)
    <3>1. ranges[w][1] \in Nat /\ ranges[w][2] \in Nat
      BY <2>1, RangeTypes DEF TypeOK
    <3>2. ranges[w][2] <= Length(text)
      BY <1>9, <2>1 DEF MergeInv, SeparateWindows
    <3> QED BY <1>0, <1>9, <3>1, <3>2
  <2> QED BY <2>1, <2>2, SpansType DEF InWindow, TypeOK
<1>10. CASE SearchWindow
  BY <1>9, <1>10 DEF SearchWindow, TypeOK
<1>11. CASE ReachEdge
  <2>1. SpansOf({m \in InWindow(w) : \A k \in EdgeMatches(w) : m.whole < k.whole})
          \subseteq SpansOf(InWindow(w))
    BY DEF SpansOf
  <2> QED BY <1>9, <1>11, <2>1 DEF ReachEdge, TypeOK
<1>12. CASE ReportWindows
  <2>1. found' \subseteq [rule : Rules, start : Nat \cup {-1}, end : Nat \cup {-1}]
    BY <1>12, VisitType DEF ReportWindows, TypeOK
  <2> QED BY <1>12, <2>1 DEF ReportWindows, TypeOK
<1>13. CASE SearchWhole
  <2>1. idx \in Rules /\ text \in Inputs
    BY <1>0, <1>13 DEF SearchWhole, TypeOK
  <2>2. SpansOf(matchesIn(idx, text, 0, Length(text), Limit)) \subseteq (Nat \cup {-1}) \X (Nat \cup {-1})
    BY <1>0, <2>1, SpansType
  <2>3. found' \subseteq [rule : Rules, start : Nat \cup {-1}, end : Nat \cup {-1}]
    BY <1>13, <2>2, VisitType DEF SearchWhole
  <2> QED BY <1>13, <2>3 DEF SearchWhole, TypeOK
<1>14. CASE UNCHANGED vars
  BY <1>14 DEF vars, TypeOK
<1> QED
  BY <1>1, <1>2, <1>3, <1>4, <1>5, <1>6, <1>7, <1>8, <1>10, <1>11, <1>12, <1>13, <1>14
     DEF Next, Terminated

\* The slice of a later hit starts no earlier: hits are ordered by their ends.
LEMMA LoIsMonotone ==
  ASSUME NEW t \in Inputs, NEW i \in 1 .. Len(Hits(t)), NEW j \in 1 .. Len(Hits(t)), i <= j,
         Hits(t)[i].rule \in Windowed, Hits(t)[i].rule = Hits(t)[j].rule
  PROVE  Lo(Hits(t)[i].rule, Hits(t)[i]) <= Lo(Hits(t)[j].rule, Hits(t)[j])
<1> DEFINE a == Hits(t)[i].end
           b == Hits(t)[j].end
           W == Window[Hits(t)[i].rule]
<1>1. a \in Nat /\ b \in Nat /\ W \in Nat /\ EdgeGuard \in Nat
  BY HitFacts, WindowFacts
<1>2. a <= b
  BY ScanAssumption
<1> HIDE DEF a, b, W
<1>3. maxInt(0, a - W - EdgeGuard) <= maxInt(0, b - W - EdgeGuard)
  BY <1>1, <1>2 DEF maxInt
<1> QED BY <1>3 DEF Lo, a, b, W

LEMMA Appended ==
  ASSUME NEW S, NEW rs \in Seq(S), NEW e \in S
  PROVE  /\ Len(Append(rs, e)) = Len(rs) + 1 /\ Append(rs, e) # <<>>
         /\ \A j \in 1 .. Len(rs) : Append(rs, e)[j] = rs[j]
         /\ Append(rs, e)[Len(rs) + 1] = e
BY AppendProperties

\* A window to the right of all others, and one more hit it holds.
LEMMA AppendWindow ==
  ASSUME NEW t \in Inputs, NEW rs \in Seq(Nat \X Nat), SeparateWindows(t, rs),
         NEW lo \in Nat, NEW hi \in Nat, hi <= Length(t),
         rs # <<>> => rs[Len(rs)][2] < lo /\ rs[Len(rs)][1] <= lo
  PROVE  /\ SeparateWindows(t, Append(rs, <<lo, hi>>))
         /\ EndBehindStart(rs) /\ lo <= hi => EndBehindStart(Append(rs, <<lo, hi>>))
         /\ Append(rs, <<lo, hi>>) # <<>>
         /\ Append(rs, <<lo, hi>>)[Len(Append(rs, <<lo, hi>>))] = <<lo, hi>>
         /\ \A j \in 1 .. Len(rs) : \E k \in 1 .. Len(Append(rs, <<lo, hi>>)) :
              Append(rs, <<lo, hi>>)[k] = rs[j]
<1> DEFINE n == Len(rs)
           new == Append(rs, <<lo, hi>>)
<1>1. n \in Nat /\ Length(t) \in Nat /\ <<lo, hi>> \in Nat \X Nat
  BY ScanAssumption, LenProperties
<1>2. /\ Len(new) = n + 1 /\ new # <<>>
      /\ \A j \in 1 .. n : new[j] = rs[j]
      /\ new[n + 1] = <<lo, hi>>
  BY <1>1, Appended
<1>3. \A i \in 1 .. n : rs[i][1] \in Nat /\ rs[i][2] \in Nat
  BY RangeTypes
<1>4. /\ \A i \in 1 .. n : 0 <= rs[i][1] /\ rs[i][2] <= Length(t)
      /\ \A i, j \in 1 .. n : i < j => rs[i][2] < rs[j][1]
  BY DEF SeparateWindows
<1>5. n > 0 => rs # <<>> /\ rs[n][2] < lo /\ rs[n][1] <= lo
  BY <1>1
<1> HIDE DEF n, new
<1>6. ASSUME NEW j \in 1 .. n PROVE rs[j][2] < lo
  <2>1. n > 0 /\ n \in 1 .. n
    BY <1>1
  <2>2. j = n \/ rs[j][2] < rs[n][1]
    <3>1. CASE j < n
      BY <1>4, <2>1, <3>1
    <3> QED BY <1>1, <3>1
  <2>3. rs[n][2] < lo /\ rs[n][1] <= lo
    BY <1>5, <2>1
  <2> QED BY <1>3, <2>1, <2>2, <2>3
<1>7. ASSUME NEW i \in 1 .. n + 1
      PROVE  /\ 0 <= new[i][1] /\ new[i][2] <= Length(t)
             /\ EndBehindStart(rs) /\ lo <= hi => new[i][1] <= new[i][2]
  <2>1. CASE i = n + 1
    BY <1>2, <2>1
  <2>2. CASE i # n + 1
    <3>1. i \in 1 .. n
      BY <1>1, <2>2
    <3> QED BY <1>2, <1>4, <3>1 DEF EndBehindStart, n
  <2> QED BY <2>1, <2>2
<1>8. ASSUME NEW i \in 1 .. n + 1, NEW j \in 1 .. n + 1, i < j
      PROVE  new[i][2] < new[j][1]
  <2>0. i \in 1 .. n
    BY <1>1, <1>8
  <2>1. CASE j = n + 1
    BY <1>2, <1>6, <2>0, <2>1
  <2>2. CASE j # n + 1
    <3>1. j \in 1 .. n
      BY <1>1, <2>2
    <3> QED BY <1>2, <1>4, <1>8, <2>0, <3>1
  <2> QED BY <2>1, <2>2
<1>9. SeparateWindows(t, new) /\ (EndBehindStart(rs) /\ lo <= hi => EndBehindStart(new))
  BY <1>2, <1>7, <1>8 DEF SeparateWindows, EndBehindStart
<1>10. \A j \in 1 .. n : j \in 1 .. Len(new) /\ new[j] = rs[j]
  BY <1>1, <1>2
<1> QED BY <1>2, <1>9, <1>10 DEF n, new

\* The last window, widened to the right.
LEMMA WidenWindow ==
  ASSUME NEW t \in Inputs, NEW rs \in Seq(Nat \X Nat), SeparateWindows(t, rs), rs # <<>>,
         NEW hi \in Nat, rs[Len(rs)][2] <= hi, hi <= Length(t),
         NEW new, new = [rs EXCEPT ![Len(rs)] = <<rs[Len(rs)][1], hi>>]
  PROVE  /\ SeparateWindows(t, new)
         /\ Len(new) = Len(rs) /\ Len(rs) \in 1 .. Len(rs)
         /\ new[Len(rs)] = <<rs[Len(rs)][1], hi>>
         /\ \A j \in 1 .. Len(rs) : new[j][1] = rs[j][1] /\ rs[j][2] <= new[j][2]
<1> DEFINE n == Len(rs)
<1>1. n \in 1 .. n /\ Length(t) \in Nat
  BY ScanAssumption
<1>2. \A i \in 1 .. n : rs[i][1] \in Nat /\ rs[i][2] \in Nat
  BY RangeTypes
<1>3. /\ Len(new) = n
      /\ \A j \in 1 .. n : new[j] = IF j = n THEN <<rs[n][1], hi>> ELSE rs[j]
  <2>1. <<rs[n][1], hi>> \in Nat \X Nat
    BY <1>1, <1>2
  <2> QED BY <1>1, <2>1, ExceptSeq
<1>4. /\ \A i \in 1 .. n : 0 <= rs[i][1] /\ rs[i][2] <= Length(t)
      /\ \A i, j \in 1 .. n : i < j => rs[i][2] < rs[j][1]
  BY DEF SeparateWindows
<1>5. rs[n][2] <= hi
  OBVIOUS
<1> HIDE DEF n
<1>6. \A j \in 1 .. n : new[j][1] = rs[j][1] /\ rs[j][2] <= new[j][2] /\ (j # n => new[j] = rs[j])
  BY <1>1, <1>2, <1>3, <1>5
<1>7. new[n][2] = hi
  BY <1>1, <1>3
<1>8. ASSUME NEW i \in 1 .. n
      PROVE  0 <= new[i][1] /\ new[i][2] <= Length(t)
  <2>1. CASE i = n
    BY <1>2, <1>4, <1>5, <1>6, <1>7, <2>1
  <2>2. CASE i # n
    BY <1>4, <1>6, <2>2
  <2> QED BY <2>1, <2>2
<1>9. ASSUME NEW i \in 1 .. n, NEW j \in 1 .. n, i < j
      PROVE  new[i][2] < new[j][1]
  <2>1. i # n /\ n \in Nat
    BY <1>1, <1>9
  <2> QED BY <1>4, <1>6, <1>9, <2>1
<1>10. SeparateWindows(t, new)
  BY <1>3, <1>8, <1>9 DEF SeparateWindows
<1> QED BY <1>1, <1>3, <1>6, <1>10 DEF n

LEMMA WidenedInOrder ==
  ASSUME NEW rs \in Seq(Nat \X Nat), rs # <<>>, EndBehindStart(rs),
         NEW hi \in Nat, rs[Len(rs)][2] <= hi,
         NEW new, new = [rs EXCEPT ![Len(rs)] = <<rs[Len(rs)][1], hi>>]
  PROVE  EndBehindStart(new)
<1> DEFINE n == Len(rs)
<1>1. n \in 1 .. n /\ \A i \in 1 .. n : rs[i] \in Nat \X Nat /\ rs[i][1] <= rs[i][2]
  BY DEF EndBehindStart
<1>2. rs[n][1] \in Nat /\ rs[n][2] \in Nat /\ rs[n][1] <= rs[n][2]
  BY <1>1
<1>3. Len(new) = n /\ \A i \in 1 .. n : new[i] = IF i = n THEN <<rs[n][1], hi>> ELSE rs[i]
  BY <1>1, <1>2, ExceptSeq
<1>4. rs[n][1] <= hi
  BY <1>2
<1> HIDE DEF n
<1>5. \A i \in 1 .. n : new[i][1] <= new[i][2]
  BY <1>1, <1>3, <1>4
<1> QED BY <1>3, <1>5 DEF EndBehindStart

HoldsHit(r, t, rs, g) ==
  \E j \in 1 .. Len(rs) : rs[j][1] <= Lo(r, g) /\ Hi(r, t, g) <= rs[j][2]

LEMMA HoldOneMore ==
  ASSUME NEW r, NEW t \in Inputs, NEW rs, NEW new, NEW k \in Nat,
         HoldHits(r, t, rs, k),
         \A i \in 1 .. k : Hits(t)[i].rule = r /\ HoldsHit(r, t, rs, Hits(t)[i])
                             => HoldsHit(r, t, new, Hits(t)[i]),
         Hits(t)[k + 1].rule = r => HoldsHit(r, t, new, Hits(t)[k + 1])
  PROVE  HoldHits(r, t, new, k + 1)
<1>1. SUFFICES ASSUME NEW i \in 1 .. k + 1, Hits(t)[i].rule = r
               PROVE  HoldsHit(r, t, new, Hits(t)[i])
  BY DEF HoldHits, HoldsHit
<1>2. CASE i = k + 1
  BY <1>1, <1>2
<1>3. CASE i # k + 1
  <2>1. i \in 1 .. k
    BY <1>3
  <2> QED BY <1>1, <2>1 DEF HoldHits, HoldsHit
<1> QED BY <1>2, <1>3

\* The merge loop of windowedMatches keeps MergeInv.
LEMMA MergeKept == TypeOK /\ [Next]_vars /\ MergeInv => MergeInv'
<1> SUFFICES ASSUME TypeOK, [Next]_vars, MergeInv, pc' \in {"merge", "search"} PROVE MergeInv'
  BY DEF MergeInv
<1> DEFINE g == Hits(text)[h + 1]
           lo == Lo(idx, g)
           hi == Hi(idx, text, g)
           n == Len(ranges)
<1>1. text' = text /\ text \in Inputs
  BY DEF Next, vars, PickRule, Finish, SkipHit, ExtendRange, NewRange, AbandonWindows, StartSearch,
         OutOfRange, SearchWindow, ReachEdge, ReportWindows, SearchWhole, Terminated, TypeOK
<1>2. CASE PickRule
  <2>1. ranges' = <<>> /\ h' = 0
    BY <1>2 DEF PickRule
  <2>2. SeparateWindows(text', <<>>) /\ EndBehindStart(<<>>) /\ HoldHits(idx', text', <<>>, 0)
    BY DEF SeparateWindows, EndBehindStart, HoldHits
  <2> QED BY <2>1, <2>2 DEF MergeInv
<1>3. CASE SkipHit \/ ExtendRange \/ NewRange
  <2>1. /\ h + 1 \in 1 .. Len(Hits(text)) /\ h \in Nat /\ h' = h + 1 /\ idx' = idx
        /\ pc = "merge" /\ idx \in Windowed /\ ranges \in Seq(Nat \X Nat)
        /\ Length(text) \in Nat
    BY <1>3, HitIndex, ScanAssumption DEF SkipHit, ExtendRange, NewRange, TypeOK
  <2>2. /\ SeparateWindows(text, ranges) /\ HoldHits(idx, text, ranges, h)
        /\ AnchorsFit => EndBehindStart(ranges)
    BY <2>1 DEF MergeInv
  <2>3. CASE SkipHit
    <3>1. g.rule # idx /\ ranges' = ranges
      BY <2>3 DEF SkipHit, NextHit
    <3>2. HoldHits(idx, text, ranges, h + 1)
      BY <1>1, <2>1, <2>2, <3>1, HoldOneMore
    <3>3. ranges # <<>> => \E i \in 1 .. h + 1 :
            Hits(text)[i].rule = idx /\ ranges[n][1] = Lo(idx, Hits(text)[i])
      BY <2>1 DEF MergeInv
    <3> QED BY <1>1, <2>1, <2>2, <3>1, <3>2, <3>3 DEF MergeInv
  <2>4. ASSUME g.rule = idx
        PROVE  lo \in Nat /\ hi \in Nat /\ hi <= Length(text) /\ (AnchorsFit => lo <= hi)
    BY <1>1, <2>1, <2>4, SliceFacts, SliceOrder
  <2>5. CASE ExtendRange
    <3> DEFINE top == maxInt(ranges[n][2], hi)
    <3>1. /\ g.rule = idx /\ ranges # <<>> /\ lo <= ranges[n][2]
          /\ ranges' = [ranges EXCEPT ![n] = <<ranges[n][1], top>>]
      BY <2>5 DEF ExtendRange, NextHit, Touches, NewHi
    <3>2. n \in 1 .. n /\ ranges[n][1] \in Nat /\ ranges[n][2] \in Nat /\ ranges[n][2] <= Length(text)
      <4>1. n \in 1 .. n
        BY <2>1, <3>1
      <4>2. ranges[n][2] <= Length(text)
        BY <2>2, <4>1 DEF SeparateWindows
      <4> QED BY <1>1, <2>1, <4>1, <4>2, RangeTypes
    <3>3. top \in Nat /\ ranges[n][2] <= top /\ hi <= top /\ top <= Length(text)
      BY <2>1, <2>4, <3>1, <3>2 DEF maxInt
    <3> HIDE DEF top
    <3>4. /\ SeparateWindows(text, ranges') /\ Len(ranges') = n
          /\ AnchorsFit => EndBehindStart(ranges')
          /\ ranges'[n] = <<ranges[n][1], top>>
          /\ \A j \in 1 .. n : ranges'[j][1] = ranges[j][1] /\ ranges[j][2] <= ranges'[j][2]
      <4>1. ranges' = [ranges EXCEPT ![Len(ranges)] = <<ranges[Len(ranges)][1], top>>]
        BY <3>1
      <4>2. SeparateWindows(text, ranges) /\ ranges \in Seq(Nat \X Nat) /\ text \in Inputs /\ ranges # <<>>
        BY <1>1, <2>1, <2>2, <3>1
      <4>3. ranges[Len(ranges)][2] <= top /\ top <= Length(text) /\ top \in Nat
        BY <3>3
      <4> HIDE DEF lo, hi, g
      <4>4. SeparateWindows(text, ranges')
        BY <4>1, <4>2, <4>3, WidenWindow
      <4>8. ASSUME EndBehindStart(ranges) PROVE EndBehindStart(ranges')
        BY <4>1, <4>2, <4>3, <4>8, WidenedInOrder
      <4>5. Len(ranges') = Len(ranges)
        BY <4>1, <4>2, <4>3, WidenWindow
      <4>6. ranges'[Len(ranges)] = <<ranges[Len(ranges)][1], top>>
        BY <4>1, <4>2, <4>3, WidenWindow
      <4>7. ASSUME NEW j \in 1 .. Len(ranges)
            PROVE  ranges'[j][1] = ranges[j][1] /\ ranges[j][2] <= ranges'[j][2]
        BY <4>1, <4>2, <4>3, WidenWindow
      <4> QED BY <2>2, <4>4, <4>5, <4>6, <4>7, <4>8
    <3>5. PICK i \in 1 .. h : Hits(text)[i].rule = idx /\ ranges[n][1] = Lo(idx, Hits(text)[i])
      BY <2>1, <3>1 DEF MergeInv
    <3>6. ranges[n][1] <= lo
      <4>1. i \in 1 .. Len(Hits(text)) /\ i <= h + 1
        BY <2>1
      <4> HIDE DEF n
      <4> QED BY <1>1, <2>1, <3>1, <3>5, <4>1, LoIsMonotone
    <3>7. HoldsHit(idx, text, ranges', g)
      BY <3>2, <3>3, <3>4, <3>6 DEF HoldsHit
    <3>8. ASSUME NEW k \in 1 .. h, Hits(text)[k].rule = idx,
                 HoldsHit(idx, text, ranges, Hits(text)[k])
          PROVE  HoldsHit(idx, text, ranges', Hits(text)[k])
      <4>1. PICK j \in 1 .. n : /\ ranges[j][1] <= Lo(idx, Hits(text)[k])
                                /\ Hi(idx, text, Hits(text)[k]) <= ranges[j][2]
        BY <3>8 DEF HoldsHit
      <4>2. k \in 1 .. Len(Hits(text))
        BY <2>1
      <4>3. Hi(idx, text, Hits(text)[k]) \in Nat
        BY <1>1, <2>1, <3>8, <4>2, SliceFacts
      <4>4. ranges'[j][1] = ranges[j][1] /\ ranges[j][2] <= ranges'[j][2]
        BY <3>4
      <4>5. ranges[j][2] \in Nat /\ ranges'[j][2] \in Nat
        <5>1. ranges' \in Seq(Nat \X Nat)
          BY <2>1, <3>1, <3>2, <3>3, ExceptSeq
        <5>2. j \in 1 .. Len(ranges')
          BY <3>4
        <5> QED BY <1>1, <2>1, <5>1, <5>2, RangeTypes
      <4> QED BY <3>4, <4>1, <4>3, <4>4, <4>5 DEF HoldsHit
    <3>9. HoldHits(idx, text, ranges', h + 1)
      BY <1>1, <2>1, <2>2, <3>7, <3>8, HoldOneMore
    <3>10. \E k \in 1 .. h + 1 : Hits(text)[k].rule = idx /\ ranges'[n][1] = Lo(idx, Hits(text)[k])
      BY <2>1, <3>2, <3>4, <3>5
    <3> QED BY <1>1, <2>1, <3>4, <3>9, <3>10 DEF MergeInv
  <2>6. CASE NewRange
    <3>1. /\ g.rule = idx /\ ranges' = Append(ranges, <<lo, hi>>)
          /\ ranges = <<>> \/ ~(lo <= ranges[n][2])
      BY <2>6 DEF NewRange, NextHit, Touches
    <3>2. lo \in Nat /\ hi \in Nat /\ hi <= Length(text) /\ (AnchorsFit => lo <= hi)
      BY <2>4, <3>1
    <3>3. ASSUME ranges # <<>> PROVE ranges[n][2] < lo /\ ranges[n][1] <= lo
      <4>1. n \in 1 .. n
        BY <2>1, <3>3
      <4>2. ranges[n][2] \in Nat
        BY <1>1, <2>1, <4>1, RangeTypes
      <4>3. PICK i \in 1 .. h : Hits(text)[i].rule = idx /\ ranges[n][1] = Lo(idx, Hits(text)[i])
        BY <2>1, <3>3 DEF MergeInv
      <4>4. ranges[n][1] <= lo
        <5>1. i \in 1 .. Len(Hits(text)) /\ i <= h + 1
          BY <2>1
        <5> HIDE DEF n
        <5> QED BY <1>1, <2>1, <3>1, <4>3, <5>1, LoIsMonotone
      <4> QED BY <3>1, <3>2, <3>3, <4>2, <4>4
    <3> HIDE DEF lo, hi
    <3>4. /\ SeparateWindows(text, ranges') /\ ranges' # <<>>
          /\ AnchorsFit => EndBehindStart(ranges')
          /\ ranges'[Len(ranges')] = <<lo, hi>>
          /\ \A j \in 1 .. n : \E k \in 1 .. Len(ranges') : ranges'[k] = ranges[j]
      <4>1. ranges # <<>> => ranges[Len(ranges)][2] < lo /\ ranges[Len(ranges)][1] <= lo
        BY <3>3
      <4>2. SeparateWindows(text, ranges) /\ ranges \in Seq(Nat \X Nat) /\ text \in Inputs
        BY <1>1, <2>1, <2>2
      <4>3. ranges' = Append(ranges, <<lo, hi>>) /\ lo \in Nat /\ hi \in Nat /\ hi <= Length(text)
        BY <3>1, <3>2
      <4> HIDE DEF g, n
      <4>4. SeparateWindows(text, ranges') /\ ranges' # <<>> /\ ranges'[Len(ranges')] = <<lo, hi>>
        BY <4>1, <4>2, <4>3, AppendWindow
      <4>5. EndBehindStart(ranges) /\ lo <= hi => EndBehindStart(ranges')
        BY <4>1, <4>2, <4>3, AppendWindow
      <4>6. \A j \in 1 .. Len(ranges) : \E k \in 1 .. Len(ranges') : ranges'[k] = ranges[j]
        BY <4>1, <4>2, <4>3, AppendWindow
      <4> QED BY <2>2, <3>2, <4>4, <4>5, <4>6 DEF n
    <3>5. Len(ranges') \in 1 .. Len(ranges')
      <4>1. ranges' \in Seq(Nat \X Nat)
        BY <2>1, <3>1, <3>2
      <4> QED BY <3>4, <4>1
    <3>6. HoldsHit(idx, text, ranges', g)
      BY <3>2, <3>4, <3>5 DEF HoldsHit, lo, hi
    <3>7. ASSUME NEW k \in 1 .. h, HoldsHit(idx, text, ranges, Hits(text)[k])
          PROVE  HoldsHit(idx, text, ranges', Hits(text)[k])
      BY <3>4, <3>7 DEF HoldsHit
    <3>8. HoldHits(idx, text, ranges', h + 1)
      BY <1>1, <2>1, <2>2, <3>6, <3>7, HoldOneMore
    <3>9. h + 1 \in 1 .. h + 1 /\ ranges'[Len(ranges')][1] = Lo(idx, g)
      BY <2>1, <3>4 DEF lo
    <3> QED BY <1>1, <2>1, <3>1, <3>4, <3>8, <3>9 DEF MergeInv
  <2> QED BY <1>3, <2>3, <2>5, <2>6
<1>4. CASE UNCHANGED <<text, ranges, h, idx>> /\ pc \in {"merge", "search"}
  BY <1>4 DEF MergeInv
<1> QED
  BY <1>2, <1>3, <1>4
     DEF Next, vars, Finish, AbandonWindows, StartSearch, OutOfRange, SearchWindow, ReachEdge,
         ReportWindows, SearchWhole, Terminated

\* While it searches, a rule's windows give the answer of the whole input.
LEMMA SearchFacts ==
  ASSUME AnchorsFit, TypeOK, MergeInv, SearchInv, pc = "search"
  PROVE  /\ idx \in Windowed /\ text \in Inputs /\ ranges \in Seq(Nat \X Nat)
         /\ LegalWindows(text, ranges) /\ HoldHits(idx, text, ranges, Len(Hits(text)))
         /\ \A v \in 1 .. Len(ranges) :
              /\ ranges[v][1] <= ranges[v][2]
              /\ EdgeMatches(v) = {}
              /\ SpansOf(InWindow(v)) \subseteq Secrets(idx, text)
              /\ Limit = -1 => InWindowAll(v) = SpansOf(InWindow(v))
         /\ Secrets(idx, text) = UNION {InWindowAll(v) : v \in 1 .. Len(ranges)}
<1>1. /\ idx \in Windowed /\ text \in Inputs /\ ranges \in Seq(Nat \X Nat)
      /\ LegalWindows(text, ranges) /\ HoldHits(idx, text, ranges, Len(Hits(text)))
  BY AreLegal DEF TypeOK, MergeInv, SearchInv
<1>2. /\ \A v \in 1 .. Len(ranges) : InWindowAll(v) \subseteq Secrets(idx, text)
      /\ Secrets(idx, text) = UNION {InWindowAll(v) : v \in 1 .. Len(ranges)}
  BY <1>1, WindowsAnswer DEF InWindowAll
<1>3. ASSUME NEW v \in 1 .. Len(ranges)
      PROVE  /\ ranges[v][1] <= ranges[v][2]
             /\ EdgeMatches(v) = {}
             /\ SpansOf(InWindow(v)) \subseteq InWindowAll(v)
             /\ Limit = -1 => InWindowAll(v) = SpansOf(InWindow(v))
  <2>1. ranges[v][1] \in 0 .. Length(text) /\ ranges[v][2] \in ranges[v][1] .. Length(text) /\ idx \in Rules
    BY <1>1, WindowSlice, WindowFacts
  <2>2. FindAll(idx, text, ranges[v][1], ranges[v][2]) \subseteq Candidates(idx, text, ranges[v][1], ranges[v][2])
    BY <1>1, <2>1, GreedyAssumption
  <2>3. InWindow(v) \subseteq Candidates(idx, text, ranges[v][1], ranges[v][2])
    BY <2>2, LimitDrops DEF InWindow
  <2>4. EdgeMatches(v) = {}
    BY <1>1, <2>3, NoMatchAtEdge DEF EdgeMatches
  <2>5. SpansOf(InWindow(v)) \subseteq InWindowAll(v)
    BY LimitDrops DEF InWindow, InWindowAll, SpansOf
  <2>6. ranges[v][1] <= ranges[v][2]
    BY <1>1 DEF LegalWindows
  <2> QED BY <2>4, <2>5, <2>6 DEF InWindow, InWindowAll
<1> QED BY <1>1, <1>2, <1>3

LEMMA SearchKept == AnchorsFit /\ TypeOK /\ [Next]_vars /\ MergeInv /\ SearchInv => SearchInv'
<1> SUFFICES ASSUME AnchorsFit, TypeOK, [Next]_vars, MergeInv, SearchInv, pc' = "search" PROVE SearchInv'
  BY DEF SearchInv
<1>1. CASE StartSearch
  <2>1. /\ spans' = {} /\ w' = 1 /\ h' = h /\ h = Len(Hits(text)) /\ ranges' = ranges
        /\ text' = text /\ idx' = idx /\ op' = op
    BY <1>1 DEF StartSearch, FreshSpans
  <2>2. 1 .. w' - 1 = {}
    BY <2>1
  <2>3. w' <= Len(ranges') + 1
    BY <2>1 DEF TypeOK
  <2> QED BY <2>1, <2>2, <2>3 DEF SearchInv
<1>2. CASE SearchWindow
  <2>1. /\ pc = "search" /\ w <= Len(ranges) /\ spans' = spans \cup SpansOf(InWindow(w)) /\ w' = w + 1
        /\ UNCHANGED <<text, op, idx, h, ranges>>
    BY <1>2 DEF SearchWindow
  <2>2. w \in 1 .. Len(ranges) /\ w \in Nat /\ Len(ranges) \in Nat
    BY <2>1 DEF TypeOK
  <2>3. spans' \subseteq Secrets(idx, text)
    BY <2>1, <2>2, SearchFacts DEF SearchInv
  <2>4. ASSUME op = "collect", MaxMatches = -1
        PROVE  spans' = UNION {InWindowAll(i) : i \in 1 .. w' - 1}
    <3>1. SpansOf(InWindow(w)) = InWindowAll(w)
      BY <2>1, <2>2, <2>4, SearchFacts DEF Limit
    <3>2. 1 .. w' - 1 = (1 .. w - 1) \cup {w}
      BY <2>1, <2>2
    <3>3. spans = UNION {InWindowAll(i) : i \in 1 .. w - 1}
      BY <2>1, <2>4 DEF SearchInv
    <3> QED BY <2>1, <3>1, <3>2, <3>3
  <2>5. \A i : InWindowAll(i)' = InWindowAll(i)
    BY <2>1 DEF InWindowAll
  <2>6. w' <= Len(ranges') + 1 /\ h' = Len(Hits(text'))
    BY <2>1, <2>2 DEF SearchInv
  <2> QED BY <2>1, <2>3, <2>4, <2>5, <2>6 DEF SearchInv
<1>3. CASE UNCHANGED vars
  BY <1>3 DEF vars, SearchInv, InWindowAll
<1>4. ~ReachEdge /\ ~OutOfRange
  <2>1. pc = "search" /\ w <= Len(ranges) => w \in 1 .. Len(ranges)
    BY DEF TypeOK
  <2> QED BY <2>1, SearchFacts DEF ReachEdge, OutOfRange
<1> QED
  BY <1>1, <1>2, <1>3, <1>4
     DEF Next, PickRule, Finish, SkipHit, ExtendRange, NewRange, AbandonWindows,
         ReportWindows, SearchWhole, Terminated

\* A window is searched only if it is a slice: no step leads to a panic.
LEMMA PanicFree ==
  AnchorsFit /\ TypeOK /\ [Next]_vars /\ MergeInv /\ SearchInv /\ SlicesAreLegal => SlicesAreLegal'
<1> SUFFICES ASSUME AnchorsFit, TypeOK, [Next]_vars, MergeInv, SearchInv, SlicesAreLegal PROVE SlicesAreLegal'
  OBVIOUS
<1>1. ~OutOfRange
  <2>1. SUFFICES ASSUME pc = "search", w <= Len(ranges), ranges[w][1] > ranges[w][2] PROVE FALSE
    BY DEF OutOfRange
  <2>2. w \in 1 .. Len(ranges)
    BY <2>1 DEF TypeOK
  <2>3. ranges[w][1] \in Nat /\ ranges[w][2] \in Nat /\ ranges[w][1] <= ranges[w][2]
    BY <2>1, <2>2, SearchFacts, WindowSlice
  <2> QED BY <2>1, <2>3
<1> QED
  BY <1>1
     DEF Next, vars, SlicesAreLegal, PickRule, Finish, SkipHit, ExtendRange, NewRange, AbandonWindows,
         StartSearch, SearchWindow, ReachEdge, ReportWindows, SearchWhole, Terminated

LEMMA OrderKept == TypeOK /\ [Next]_vars /\ OrderInv => OrderInv'
<1> SUFFICES ASSUME TypeOK, [Next]_vars, OrderInv PROVE OrderInv'
  OBVIOUS
<1>1. CASE PickRule
  BY <1>1 DEF PickRule, Without, OrderInv
<1>2. CASE ~PickRule
  BY <1>2 DEF Next, vars, OrderInv, Finish, SkipHit, ExtendRange, NewRange, AbandonWindows,
       StartSearch, OutOfRange, SearchWindow, ReachEdge, ReportWindows, SearchWhole, Terminated
<1> QED BY <1>1, <1>2

LEMMA NextBaseInv == BaseInv /\ [Next]_vars => BaseInv'
BY ConfirmTypes, MergeKept, OrderKept DEF BaseInv

LEMMA NextInv == Inv /\ [Next]_vars => Inv'
BY NextBaseInv, SearchKept, PanicFree DEF Inv, BaseInv

\* Every behaviour of a call satisfies the inductive invariant.
THEOREM Invariance == Spec => []BaseInv
BY InitInv, NextBaseInv, PTL DEF Spec

THEOREM FittingInvariance == AnchorsFit /\ Spec => []Inv
<1>1. AnchorsFit /\ Init => Inv
  BY InitInv DEF Inv
<1> QED BY <1>1, NextInv, PTL DEF Spec
-----------------------------------------------------------------------------
\* Type correctness of the model of eachMatch.
THEOREM TypeCorrect == Spec => []TypeOK
BY Invariance, PTL DEF BaseInv

\* Whatever the anchors, windowedMatches never makes two windows that touch, and
\* none that reaches out of the input.
THEOREM WindowsNeverTouch == Spec => [](Merging => SeparateWindows(text, ranges))
<1>1. BaseInv => (Merging => SeparateWindows(text, ranges))
  BY DEF BaseInv, MergeInv, Merging
<1> QED BY <1>1, Invariance, PTL

\* If no anchor is too long, they are disjoint slices, in ascending order.
THEOREM WindowsAreSeparate == AnchorsFit /\ Spec => []WindowsSeparate
<1>1. Inv => WindowsSeparate
  BY DEF Inv, BaseInv, MergeInv, SeparateWindows, EndBehindStart, WindowsSeparate, Merging
<1> QED BY <1>1, FittingInvariance, PTL

\* Merging never cuts into the slice of a hit.
THEOREM HitsAreHeld == Spec => []WindowsHoldHits
<1>1. BaseInv => WindowsHoldHits
  BY DEF BaseInv, MergeInv, HoldHits, WindowsHoldHits, Merging
<1> QED BY <1>1, Invariance, PTL

\* The edge check of windowedMatches never fires for a rule that keeps its
\* contract.
THEOREM EdgeIsOutOfReach == AnchorsFit /\ Spec => []NeverAtEdge
<1>1. Inv => NeverAtEdge
  <2> SUFFICES ASSUME Inv, pc = "search", NEW i \in 1 .. Len(ranges),
                      NEW m \in matchesIn(idx, text, ranges[i][1], ranges[i][2], Limit)
               PROVE  ~AtEdge(text, m, ranges[i][1], ranges[i][2])
    BY DEF NeverAtEdge
  <2>1. EdgeMatches(i) = {} /\ m \in InWindow(i)
    BY SearchFacts DEF Inv, BaseInv, InWindow
  <2> QED BY <2>1 DEF EdgeMatches
<1> QED BY <1>1, FittingInvariance, PTL

\* No window makes windowedMatches slice the input out of range.
THEOREM NoPanic == AnchorsFit /\ Spec => []SlicesAreLegal
BY FittingInvariance, PTL DEF Inv
-----------------------------------------------------------------------------
\* What one rule reports in one step of FullSearch.
LEMMA ReportStep ==
  ASSUME Inv, pc \in {"search", "whole"}, pc' = "pick",
         UNCHANGED <<text, op, pending, idx>>,
         NEW ss \in SUBSET Secrets(idx, text), Visit(ss),
         op = "collect" /\ MaxMatches = -1 => ss = Secrets(idx, text)
  PROVE  \E r \in Outstanding : Abstract!Report(r)
<1>1. idx \in Outstanding /\ Outstanding' = Outstanding \ {idx}
  BY DEF Outstanding, Inv, BaseInv, TypeOK
<1>2. \A q \in Outstanding : idx <= q
  BY DEF Outstanding, Inv, BaseInv, OrderInv, TypeOK
<1>3. Visited(ss) \subseteq Secrets(idx, text)
  BY DEF Visited
<1>4. op = "collect" /\ ~(MaxMatches # -1) => Visited(ss) = Secrets(idx, text)
  BY DEF Visited
<1>5. found' = found \cup Abstract!Reports(idx, Visited(ss))
  BY DEF Visit, Abstract!Reports
<1>6. Abstract!Report(idx)
  BY <1>1, <1>2, <1>3, <1>4, <1>5 DEF Abstract!Report, Abstract!Answers
<1> QED BY <1>1, <1>6

LEMMA StepRefines == Inv /\ [Next]_vars => [Abstract!Next]_(Abstract!vars)
<1> SUFFICES ASSUME Inv, [Next]_vars PROVE Abstract!Next \/ UNCHANGED Abstract!vars
  OBVIOUS
<1> USE DEF Abstract!vars
<1>1. CASE PickRule
  <2>1. pc = "pick" /\ pc' \in {"merge", "whole"} /\ UNCHANGED <<text, op, found>>
    BY <1>1 DEF PickRule
  <2>2. Outstanding' = Outstanding
    BY <1>1 DEF PickRule, Without, Outstanding
  <2> QED BY <2>1, <2>2
<1>2. CASE Finish
  <2>1. Abstract!Finish
    BY <1>2 DEF Finish, Stopped, Outstanding, Abstract!Finish
  <2> QED BY <2>1 DEF Abstract!Next
<1>3. CASE SkipHit \/ ExtendRange \/ NewRange \/ AbandonWindows \/ StartSearch \/ SearchWindow \/ ReachEdge
  BY <1>3 DEF SkipHit, ExtendRange, NewRange, AbandonWindows, StartSearch, SearchWindow, ReachEdge, Outstanding
<1>4. CASE OutOfRange
  BY <1>4, PanicFree DEF OutOfRange, Inv, BaseInv, SlicesAreLegal
<1>5. CASE ReportWindows
  <2>1. /\ pc = "search" /\ w > Len(ranges) /\ Visit(spans) /\ pc' = "pick"
        /\ UNCHANGED <<text, op, pending, idx>>
    BY <1>5 DEF ReportWindows
  <2>2. spans \in SUBSET Secrets(idx, text)
    BY <2>1 DEF Inv, SearchInv
  <2>3. op = "collect" /\ MaxMatches = -1 => spans = Secrets(idx, text)
    <3>1. w - 1 = Len(ranges)
      BY <2>1 DEF Inv, BaseInv, SearchInv, TypeOK
    <3>2. Secrets(idx, text) = UNION {InWindowAll(v) : v \in 1 .. Len(ranges)}
      BY <2>1, SearchFacts DEF Inv, BaseInv
    <3> QED BY <2>1, <3>1, <3>2 DEF Inv, SearchInv
  <2> QED BY <2>1, <2>2, <2>3, ReportStep DEF Abstract!Next
<1>6. CASE SearchWhole
  <2> DEFINE ss == SpansOf(matchesIn(idx, text, 0, Length(text), Limit))
  <2>1. /\ pc = "whole" /\ Visit(ss) /\ pc' = "pick"
        /\ UNCHANGED <<text, op, pending, idx>>
    BY <1>6 DEF SearchWhole
  <2>2. ss \in SUBSET Secrets(idx, text)
    BY LimitDrops DEF Secrets, SpansOf
  <2>3. op = "collect" /\ MaxMatches = -1 => ss = Secrets(idx, text)
    BY DEF Limit, Secrets
  <2> HIDE DEF ss
  <2> QED BY <2>1, <2>2, <2>3, ReportStep DEF Abstract!Next
<1>7. CASE Terminated \/ UNCHANGED vars
  BY <1>7 DEF Terminated, vars, Outstanding
<1> QED BY <1>1, <1>2, <1>3, <1>4, <1>5, <1>6, <1>7 DEF Next

\* README.md, "Nothing else changes: Redact returns the same bytes either way":
\* confirming a rule in windows around its anchors, behind the prefilter,
\* implements searching the whole input with every rule.
THEOREM WindowsChangeNothing == AnchorsFit /\ Spec => ImplementsFullSearch
<1>1. Init => Abstract!Init
  BY DEF Init, Abstract!Init, Outstanding
<1> QED BY <1>1, StepRefines, FittingInvariance, PTL DEF Spec, ImplementsFullSearch, Abstract!Spec
-----------------------------------------------------------------------------
(***************************************************************************)
(* What that means for the callers: the reports at the end of a call.      *)
(***************************************************************************)
Heard(rs) == UNION {Abstract!Reports(r, Secrets(r, text)) : r \in rs}

HeardInv ==
  /\ found \subseteq Abstract!Answer
  /\ Outstanding \subseteq Active(text)
  /\ op = "collect" /\ MaxMatches = -1 => found = Heard(Active(text) \ Outstanding)
  /\ op = "collect" /\ pc = "done" => Outstanding = {}

\* A rule that no anchor woke has no secret.
LEMMA AsleepIsSilent ==
  ASSUME NEW t \in Inputs, NEW r \in Rules \ Active(t)
  PROVE  Secrets(r, t) = {}
<1>1. 0 \in 0 .. Length(t) /\ Length(t) \in 0 .. Length(t)
  BY ScanAssumption
<1>2. FindAll(r, t, 0, Length(t)) \subseteq Whole(r, t)
  BY <1>1, GreedyAssumption DEF Whole
<1>3. Whole(r, t) = {}
  BY AnchorAssumption
<1>4. FindAll(r, t, 0, Length(t)) = {}
  BY <1>2, <1>3
<1>5. matchesIn(r, t, 0, Length(t), -1) = {}
  BY <1>4, LimitDrops
<1> QED BY <1>5 DEF Secrets, SpansOf

LEMMA AwakeAnswer == text \in Inputs => Abstract!Answer = Heard(Active(text))
<1> SUFFICES ASSUME text \in Inputs PROVE Abstract!Answer = Heard(Active(text))
  OBVIOUS
<1>1. Active(text) \subseteq Rules
  BY ScanAssumption
<1>2. \A r \in Rules \ Active(text) : Abstract!Reports(r, Secrets(r, text)) = {}
  BY AsleepIsSilent DEF Abstract!Reports
<1> QED BY <1>1, <1>2 DEF Abstract!Answer, Heard

LEMMA ReportHeard ==
  ASSUME Inv, HeardInv, NEW r \in Outstanding, Abstract!Report(r)
  PROVE  /\ found' \subseteq Abstract!Answer
         /\ Outstanding' \subseteq Active(text)
         /\ op = "collect" /\ MaxMatches = -1 => found' = Heard(Active(text) \ Outstanding')
<1>1. PICK ss \in SUBSET Secrets(r, text) :
        /\ op = "collect" /\ MaxMatches = -1 => ss = Secrets(r, text)
        /\ found' = found \cup Abstract!Reports(r, ss)
  BY DEF Abstract!Report, Abstract!Answers
<1>2. Outstanding' = Outstanding \ {r} /\ r \in Active(text) /\ text \in Inputs
  BY DEF Abstract!Report, HeardInv, Inv, BaseInv, TypeOK
<1>3. Abstract!Reports(r, ss) \subseteq Abstract!Reports(r, Secrets(r, text))
  BY DEF Abstract!Reports
<1>4. Abstract!Reports(r, ss) \subseteq Abstract!Answer
  BY <1>2, <1>3, AwakeAnswer DEF Heard
<1>5. ASSUME op = "collect", MaxMatches = -1
      PROVE  found' = Heard(Active(text) \ Outstanding')
  <2>1. found' = found \cup Abstract!Reports(r, Secrets(r, text))
    BY <1>1, <1>5
  <2>2. Active(text) \ Outstanding' = (Active(text) \ Outstanding) \cup {r}
    BY <1>2 DEF HeardInv
  <2>3. found = Heard(Active(text) \ Outstanding)
    BY <1>5 DEF HeardInv
  <2> QED BY <2>1, <2>2, <2>3 DEF Heard
<1> QED BY <1>1, <1>2, <1>4, <1>5 DEF HeardInv

LEMMA HeardKept == Inv /\ HeardInv /\ [Next]_vars => HeardInv'
<1> SUFFICES ASSUME Inv, HeardInv, [Next]_vars PROVE HeardInv'
  OBVIOUS
<1>1. text' = text /\ op' = op
  BY DEF Next, vars, PickRule, Finish, SkipHit, ExtendRange, NewRange, AbandonWindows, StartSearch,
         OutOfRange, SearchWindow, ReachEdge, ReportWindows, SearchWhole, Terminated
<1>2. Abstract!Answer' = Abstract!Answer /\ \A rs : Heard(rs)' = Heard(rs)
  BY <1>1 DEF Abstract!Answer, Abstract!Reports, Heard
<1>3. op = "collect" /\ pc' = "done" => Outstanding' = {}
  <2>1. CASE Finish
    BY <2>1 DEF Finish, Stopped, Outstanding
  <2>2. CASE Terminated \/ UNCHANGED vars
    BY <2>2 DEF Terminated, vars, HeardInv, Outstanding
  <2> QED BY <2>1, <2>2 DEF Next, PickRule, SkipHit, ExtendRange, NewRange, AbandonWindows,
        StartSearch, OutOfRange, SearchWindow, ReachEdge, ReportWindows, SearchWhole
<1>4. CASE \E r \in Outstanding : Abstract!Report(r)
  <2>1. PICK r \in Outstanding : Abstract!Report(r)
    BY <1>4
  <2> QED BY <1>1, <1>2, <1>3, <2>1, ReportHeard DEF HeardInv
<1>5. CASE found' = found /\ Outstanding' = Outstanding
  BY <1>1, <1>2, <1>3, <1>5 DEF HeardInv
<1> QED BY <1>4, <1>5, StepRefines DEF Abstract!Next, Abstract!Finish, Abstract!vars

\* "Redact returns the same bytes either way" rests on this: a call of Find or
\* Redact without a cap ends with every secret that a search of the whole input
\* by every rule has, and no call is told of anything else.
FindsAll ==
  /\ found \subseteq Abstract!Answer
  /\ pc = "done" /\ op = "collect" /\ MaxMatches = -1 => found = Abstract!Answer

THEOREM FindsEverySecret == AnchorsFit /\ Spec => []FindsAll
<1>1. Init => HeardInv
  BY DEF Init, HeardInv, Heard, Outstanding
<1>2. Inv /\ HeardInv => FindsAll
  <2> SUFFICES ASSUME Inv, HeardInv PROVE FindsAll
    OBVIOUS
  <2>1. Abstract!Answer = Heard(Active(text))
    BY AwakeAnswer DEF Inv, BaseInv, TypeOK
  <2>2. Active(text) \ {} = Active(text)
    OBVIOUS
  <2> QED BY <2>1, <2>2 DEF HeardInv, FindsAll
<1> QED BY <1>1, <1>2, HeardKept, FittingInvariance, PTL DEF Spec
-----------------------------------------------------------------------------
(***************************************************************************)
(* Whichever way a rule is confirmed, in its windows or over the whole     *)
(* input, it reports once and from one of the two.  None of this needs the *)
(* contract: it holds for any pattern, window and anchor Build lets in.    *)
(***************************************************************************)
Confirming == pc \in {"merge", "search", "whole"}

ReportTypes ==
  /\ text \in Inputs /\ h \in Nat /\ w \in Nat \ {0} /\ ranges \in Seq(Int \X Int)
  /\ pc \in {"merge", "search"} => idx \in Windowed

\* A rule reports after it was handed out, and before the next one is.
ReportOnce ==
  /\ \A f \in found : f.rule \notin pending
  /\ Confirming => idx \notin pending /\ \A f \in found : f.rule # idx

SearchedSoFar == UNION {SpansOf(InWindow(i)) : i \in 1 .. w - 1}
BackToWhole == NoSaving \/ EdgeSeen

OneSource ==
  /\ pc = "search" =>
       /\ ~NoSaving /\ w <= Len(ranges) + 1
       /\ spans = SearchedSoFar /\ \A i \in 1 .. w - 1 : EdgeMatches(i) = {}
  /\ pc = "whole" /\ idx \in Windowed => BackToWhole

ReportInv == ReportTypes /\ ReportOnce /\ OneSource /\ AllOrNothing

LEMMA SliceTypes ==
  ASSUME NEW t \in Inputs, NEW i \in 1 .. Len(Hits(t)), NEW r \in Windowed
  PROVE  Lo(r, Hits(t)[i]) \in Int /\ Hi(r, t, Hits(t)[i]) \in Int
<1>1. /\ Hits(t)[i].start \in Nat /\ Hits(t)[i].end \in Nat /\ Length(t) \in Nat
      /\ Window[r] \in Nat /\ EdgeGuard \in Nat
  BY HitFacts, RulesAssumption
<1> QED BY <1>1 DEF Lo, Hi, maxInt, minInt

LEMMA RangesType ==
  ASSUME ReportTypes, ExtendRange \/ NewRange
  PROVE  ranges' \in Seq(Int \X Int)
<1> DEFINE g == Hits(text)[h + 1]
<1>1. /\ h < Len(Hits(text)) /\ pc = "merge" /\ Hits(text) \in Seq(Hit)
  BY ScanAssumption DEF ReportTypes, ExtendRange, NewRange
<1>2. h + 1 \in 1 .. Len(Hits(text)) /\ idx \in Windowed /\ text \in Inputs
  BY <1>1 DEF ReportTypes
<1>3. Lo(idx, g) \in Int /\ Hi(idx, text, g) \in Int
  BY <1>2, SliceTypes
<1>4. CASE ExtendRange
  <2> DEFINE n == Len(ranges)
             new == <<ranges[n][1], maxInt(ranges[n][2], Hi(idx, text, g))>>
  <2>1. ranges' = [ranges EXCEPT ![n] = new] /\ ranges # <<>>
    BY <1>4 DEF ExtendRange, NewHi, NextHit, Touches
  <2>2. ranges \in Seq(Int \X Int)
    BY DEF ReportTypes
  <2>3. ranges[n] \in Int \X Int
    <3>1. n \in 1 .. n
      BY <2>1, <2>2
    <3> QED BY <2>2, <3>1
  <2>4. new \in Int \X Int
    BY <1>3, <2>3 DEF maxInt
  <2> HIDE DEF new
  <2> QED BY <2>1, <2>2, <2>4, ExceptSeq
<1>5. CASE NewRange
  <2>1. ranges' = Append(ranges, <<Lo(idx, g), Hi(idx, text, g)>>)
    BY <1>5 DEF NewRange, NextHit
  <2> QED BY <1>3, <2>1 DEF ReportTypes
<1> QED BY <1>4, <1>5

LEMMA ReportTypesKept == ReportTypes /\ [Next]_vars => ReportTypes'
<1> SUFFICES ASSUME ReportTypes, [Next]_vars PROVE ReportTypes'
  OBVIOUS
<1> USE DEF ReportTypes
<1>1. CASE ExtendRange \/ NewRange
  BY <1>1, RangesType DEF ExtendRange, NewRange
<1>2. CASE PickRule
  <2>1. \/ pc' = "merge" /\ idx' \in Windowed /\ h' = 0 /\ ranges' = <<>>
        \/ pc' = "whole" /\ UNCHANGED <<h, ranges>>
    BY <1>2 DEF PickRule
  <2>2. text' = text /\ w' = w
    BY <1>2 DEF PickRule
  <2>3. ranges' \in Seq(Int \X Int)
    BY <2>1, EmptySeq DEF ReportTypes
  <2>4. h' \in Nat /\ (pc' \in {"merge", "search"} => idx' \in Windowed)
    BY <2>1
  <2> QED BY <2>2, <2>3, <2>4
<1>3. CASE StartSearch \/ SearchWindow
  BY <1>3 DEF StartSearch, SearchWindow
<1>4. CASE SkipHit
  BY <1>4 DEF SkipHit
<1>5. CASE UNCHANGED <<text, h, w, ranges, idx>> /\ (pc' \in {"merge", "search"} => pc' = pc)
  BY <1>5
<1> QED
  BY <1>1, <1>2, <1>3, <1>4, <1>5
     DEF Next, vars, Finish, AbandonWindows, OutOfRange, ReachEdge, ReportWindows, SearchWhole, Terminated

LEMMA ReportOnceKept == ReportOnce /\ [Next]_vars => ReportOnce'
<1> SUFFICES ASSUME ReportOnce, [Next]_vars PROVE ReportOnce'
  OBVIOUS
<1>1. CASE PickRule
  BY <1>1 DEF PickRule, Without, ReportOnce, Confirming
<1>2. CASE ReportWindows \/ SearchWhole
  <2>1. /\ Confirming /\ pc' = "pick" /\ pending' = pending /\ idx' = idx
        /\ \E ss : Visit(ss)
    BY <1>2 DEF ReportWindows, SearchWhole, Confirming
  <2>2. \A f \in found' : f \in found \/ f.rule = idx
    BY <2>1 DEF Visit
  <2> QED BY <2>1, <2>2 DEF ReportOnce, Confirming
<1>3. CASE ~(PickRule \/ ReportWindows \/ SearchWhole)
  BY <1>3 DEF Next, vars, ReportOnce, Confirming, Finish, SkipHit, ExtendRange, NewRange,
       AbandonWindows, StartSearch, OutOfRange, SearchWindow, ReachEdge, Terminated
<1> QED BY <1>1, <1>2, <1>3

LEMMA SameSources ==
  ASSUME UNCHANGED <<text, op, idx, ranges, covered>>
  PROVE  /\ BackToWhole' = BackToWhole /\ NoSaving' = NoSaving
         /\ \A v : InWindow(v)' = InWindow(v) /\ EdgeMatches(v)' = EdgeMatches(v)
<1>1. \A v : InWindow(v)' = InWindow(v)
  BY DEF InWindow, Limit
<1>2. \A v : EdgeMatches(v)' = EdgeMatches(v)
  BY <1>1 DEF EdgeMatches
<1>3. NoSaving' = NoSaving
  BY DEF NoSaving
<1>4. EdgeSeen' = EdgeSeen
  BY <1>2 DEF EdgeSeen
<1> QED BY <1>1, <1>2, <1>3, <1>4 DEF BackToWhole

LEMMA OneSourceKept == ReportInv /\ [Next]_vars => OneSource'
<1> SUFFICES ASSUME ReportInv, [Next]_vars PROVE OneSource'
  OBVIOUS
<1> USE DEF ReportInv
<1>1. CASE PickRule
  BY <1>1 DEF PickRule, OneSource
<1>2. CASE AbandonWindows
  <2>1. pc' = "whole" /\ NoSaving /\ UNCHANGED <<text, op, idx, ranges, covered>>
    BY <1>2 DEF AbandonWindows
  <2>2. BackToWhole'
    BY <2>1, SameSources DEF BackToWhole
  <2> QED BY <2>1, <2>2 DEF OneSource
<1>3. CASE StartSearch
  <2>1. /\ pc' = "search" /\ ~NoSaving /\ spans' = {} /\ w' = 1
        /\ UNCHANGED <<text, op, idx, ranges, covered>>
    BY <1>3 DEF StartSearch, FreshSpans
  <2>2. ~NoSaving' /\ w' <= Len(ranges') + 1
    BY <2>1, SameSources DEF ReportTypes
  <2>3. 1 .. w' - 1 = {}
    BY <2>1
  <2>4. SearchedSoFar' = {}
    BY <2>3 DEF SearchedSoFar
  <2> QED BY <2>1, <2>2, <2>3, <2>4 DEF OneSource
<1>4. CASE SearchWindow
  <2>1. /\ pc = "search" /\ pc' = "search" /\ w <= Len(ranges) /\ EdgeMatches(w) = {}
        /\ spans' = spans \cup SpansOf(InWindow(w)) /\ w' = w + 1
        /\ UNCHANGED <<text, op, idx, ranges, covered>>
    BY <1>4 DEF SearchWindow
  <2>2. w \in Nat \ {0} /\ Len(ranges) \in Nat
    BY DEF ReportTypes
  <2>3. 1 .. w' - 1 = (1 .. w - 1) \cup {w}
    BY <2>1, <2>2
  <2>4. \A v : InWindow(v)' = InWindow(v) /\ EdgeMatches(v)' = EdgeMatches(v)
    BY <2>1, SameSources
  <2>5. SearchedSoFar' = UNION {SpansOf(InWindow(v)) : v \in (1 .. w - 1) \cup {w}}
    BY <2>3, <2>4 DEF SearchedSoFar, SpansOf
  <2>6. UNION {SpansOf(InWindow(v)) : v \in (1 .. w - 1) \cup {w}}
          = SearchedSoFar \cup SpansOf(InWindow(w))
    BY Zenon DEF SearchedSoFar
  <2>7. spans' = SearchedSoFar'
    BY <2>1, <2>5, <2>6 DEF OneSource
  <2>8. \A v \in 1 .. w' - 1 : EdgeMatches(v)' = {}
    BY <2>1, <2>3, <2>4 DEF OneSource
  <2>9. ~NoSaving' /\ w' <= Len(ranges') + 1
    BY <2>1, <2>2, SameSources DEF OneSource
  <2> QED BY <2>1, <2>7, <2>8, <2>9 DEF OneSource
<1>5. CASE ReachEdge
  <2>1. /\ pc' = "whole" /\ w <= Len(ranges) /\ EdgeMatches(w) # {}
        /\ UNCHANGED <<text, op, idx, ranges, covered>>
    BY <1>5 DEF ReachEdge
  <2>2. w \in 1 .. Len(ranges)
    BY <2>1 DEF ReportTypes
  <2>3. EdgeSeen
    BY <2>1, <2>2 DEF EdgeSeen
  <2>4. BackToWhole'
    BY <2>1, <2>3, SameSources DEF BackToWhole
  <2> QED BY <2>1, <2>4 DEF OneSource
<1>6. CASE UNCHANGED vars
  <2>1. UNCHANGED <<text, op, idx, ranges, covered, pc, w, spans>>
    BY <1>6 DEF vars
  <2>2. SearchedSoFar' = SearchedSoFar
    BY <2>1, SameSources DEF SearchedSoFar, SpansOf
  <2> QED BY <2>1, <2>2, SameSources DEF OneSource
<1>7. CASE pc' \notin {"search", "whole"}
  BY <1>7 DEF OneSource
<1> QED
  BY <1>1, <1>2, <1>3, <1>4, <1>5, <1>6, <1>7
     DEF Next, Finish, SkipHit, ExtendRange, NewRange, OutOfRange, ReportWindows, SearchWhole,
         Terminated, OneSource

LEMMA SpansArePairs ==
  ASSUME NEW ms, NEW s \in SpansOf(ms)
  PROVE  s = <<s[1], s[2]>>
BY DEF SpansOf, Span

\* The rule's first report is its whole report.
LEMMA FirstReport ==
  ASSUME ReportOnce, Confirming, op = "collect", UNCHANGED <<idx, op>>,
         NEW ss, \A s \in ss : s = <<s[1], s[2]>>, Visit(ss)
  PROVE  FoundBy(idx)' = ss
<1>1. found' = found \cup {[rule |-> idx, start |-> s[1], end |-> s[2]] : s \in ss}
  BY DEF Visit, Visited
<1>2. \A f \in found : f.rule # idx
  BY DEF ReportOnce
<1>3. ASSUME NEW s PROVE s \in FoundBy(idx)' <=> s \in ss
  <2>1. CASE s \in ss
    <3> DEFINE f == [rule |-> idx, start |-> s[1], end |-> s[2]]
    <3>1. f \in found' /\ f.rule = idx' /\ s = <<f.start, f.end>>
      BY <1>1, <2>1
    <3> QED BY <2>1, <3>1 DEF FoundBy
  <2>2. CASE s \in FoundBy(idx)'
    <3>1. PICK f \in found' : f.rule = idx /\ s = <<f.start, f.end>>
      BY <2>2 DEF FoundBy
    <3>2. PICK z \in ss : f = [rule |-> idx, start |-> z[1], end |-> z[2]]
      BY <1>1, <1>2, <3>1
    <3>3. s = z
      BY <3>1, <3>2
    <3> QED BY <2>2, <3>2, <3>3
  <2> QED BY <2>1, <2>2
<1> QED BY <1>3

Unread == SpansOf(UNION {InWindow(i) : i \in 1 .. Len(ranges)})
InWhole == SpansOf(matchesIn(idx, text, 0, Length(text), Limit))

LEMMA AllOrNothingKept == ReportInv /\ [Next]_vars => AllOrNothing'
<1> SUFFICES ASSUME ReportInv, [Next]_vars, pc' = "pick", op' = "collect", idx' \in Windowed,
                    idx' \in Active(text') \ pending'
             PROVE  FoundBy(idx)' = SpansOf(IF NoSaving \/ EdgeSeen
                                            THEN matchesIn(idx, text, 0, Length(text), Limit)
                                            ELSE UNION {InWindow(i) : i \in 1 .. Len(ranges)})'
  BY DEF AllOrNothing
<1> USE DEF ReportInv
<1>1. SUFFICES FoundBy(idx)' = IF BackToWhole' THEN InWhole' ELSE Unread'
  BY DEF BackToWhole, InWhole, Unread, SpansOf
<1>2. CASE ReportWindows
  <2>1. /\ pc = "search" /\ w > Len(ranges) /\ Visit(spans) /\ op = "collect"
        /\ UNCHANGED <<text, op, idx, ranges, covered>>
    BY <1>2 DEF ReportWindows
  <2>2. w - 1 = Len(ranges)
    BY <2>1 DEF OneSource, ReportTypes
  <2>3. ~BackToWhole'
    BY <2>1, <2>2, SameSources DEF OneSource, BackToWhole, EdgeSeen
  <2>4. spans = Unread
    BY <2>1, <2>2 DEF OneSource, SearchedSoFar, Unread, SpansOf
  <2>5. Unread' = Unread
    BY <2>1, SameSources DEF Unread, SpansOf
  <2>6. FoundBy(idx)' = spans
    BY <2>1, <2>4, FirstReport, SpansArePairs DEF Confirming, Unread
  <2> QED BY <2>3, <2>4, <2>5, <2>6
<1>3. CASE SearchWhole
  <2>1. /\ pc = "whole" /\ Visit(InWhole) /\ op = "collect" /\ idx \in Windowed
        /\ UNCHANGED <<text, op, idx, ranges, covered>>
    BY <1>3 DEF SearchWhole, InWhole
  <2>2. BackToWhole'
    BY <2>1, SameSources DEF OneSource
  <2>3. InWhole' = InWhole
    BY <2>1 DEF InWhole, Limit
  <2>4. FoundBy(idx)' = InWhole
    BY <2>1, FirstReport, SpansArePairs DEF Confirming, InWhole
  <2> QED BY <2>2, <2>3, <2>4
<1>4. CASE UNCHANGED vars
  <2>1. UNCHANGED <<text, op, idx, ranges, covered, pc, found, pending>>
    BY <1>4 DEF vars
  <2>2. FoundBy(idx) = IF BackToWhole THEN InWhole ELSE Unread
    BY <2>1 DEF AllOrNothing, BackToWhole, InWhole, Unread
  <2>3. InWhole' = InWhole /\ Unread' = Unread /\ FoundBy(idx)' = FoundBy(idx)
    BY <2>1, SameSources DEF InWhole, Unread, Limit, SpansOf, FoundBy
  <2> QED BY <2>1, <2>2, <2>3, SameSources
<1> QED
  BY <1>2, <1>3, <1>4
     DEF Next, PickRule, Finish, SkipHit, ExtendRange, NewRange, AbandonWindows, StartSearch,
         OutOfRange, SearchWindow, ReachEdge, Terminated

\* A report is all of the windows or all of the whole input, for any windows,
\* any patterns and any cap.
THEOREM ReportsAreWhole == Spec => []AllOrNothing
<1>1. Init => ReportInv
  BY DEF Init, ReportInv, ReportTypes, ReportOnce, OneSource, AllOrNothing, Confirming
<1>2. ReportInv /\ [Next]_vars => ReportInv'
  BY ReportTypesKept, ReportOnceKept, OneSourceKept, AllOrNothingKept DEF ReportInv
<1>3. ReportInv => AllOrNothing
  BY DEF ReportInv
<1> QED BY <1>1, <1>2, <1>3, PTL DEF Spec
-----------------------------------------------------------------------------
(***************************************************************************)
(* The count of the bytes in the windows.                                  *)
(***************************************************************************)
InRanges(t, rs) ==
  {p \in 0 .. Length(t) : \E i \in 1 .. Len(rs) : rs[i][1] <= p /\ p < rs[i][2]}

\* Bytes that follow all that were counted.
LEMMA CountBehind ==
  ASSUME NEW n \in Nat, NEW B \in SUBSET (0 .. n), NEW x \in Nat, NEW y \in Nat, x <= y,
         \A p \in B : p < x
  PROVE  Cardinality(B \cup (x .. y - 1)) = Cardinality(B) + (y - x)
<1>1. IsFiniteSet(B)
  <2>1. IsFiniteSet(0 .. n)
    BY FS_Interval
  <2> QED BY <2>1, FS_Subset
<1>2. Cardinality(B) \in Nat
  BY <1>1, FS_CardinalityType
<1>3. IsFiniteSet(x .. y - 1) /\ Cardinality(x .. y - 1) = y - x
  <2> DEFINE z == y - 1
  <2>1. x \in Int /\ z \in Int
    OBVIOUS
  <2>2. IsFiniteSet(x .. z) /\ Cardinality(x .. z) = IF x > z THEN 0 ELSE z - x + 1
    <3> HIDE DEF z
    <3> QED BY <2>1, FS_Interval
  <2> QED BY <2>2
<1>4. B \cap (x .. y - 1) = {}
  OBVIOUS
<1>5. Cardinality(B \cap (x .. y - 1)) = 0
  BY <1>4, FS_EmptySet
<1> DEFINE c == Cardinality(B)
           d == Cardinality(x .. y - 1)
<1>6. Cardinality(B \cup (x .. y - 1)) = c + d - 0
  BY <1>1, <1>3, <1>5, FS_Union
<1> HIDE DEF c
<1> QED BY <1>2, <1>3, <1>6 DEF c

LEMMA InEarlierRanges ==
  ASSUME NEW t \in Inputs, NEW rs \in Seq(Nat \X Nat), LegalWindows(t, rs), rs # <<>>
  PROVE  \A p \in InRanges(t, rs) : p < rs[Len(rs)][2]
<1> SUFFICES ASSUME NEW p \in InRanges(t, rs) PROVE p < rs[Len(rs)][2]
  OBVIOUS
<1>1. PICK i \in 1 .. Len(rs) : rs[i][1] <= p /\ p < rs[i][2]
  BY DEF InRanges
<1>2. Len(rs) \in 1 .. Len(rs) /\ Length(t) \in Nat /\ p \in Nat
  BY ScanAssumption DEF InRanges
<1>3. rs[i][1] \in Nat /\ rs[i][2] \in Nat /\ rs[Len(rs)][1] \in Nat /\ rs[Len(rs)][2] \in Nat
  BY <1>2, WindowSlice
<1>4. i # Len(rs) => rs[i][2] < rs[Len(rs)][1]
  BY <1>2 DEF LegalWindows
<1>5. rs[Len(rs)][1] <= rs[Len(rs)][2]
  BY <1>2 DEF LegalWindows
<1> QED BY <1>1, <1>2, <1>3, <1>4, <1>5

LEMMA WidenCount ==
  ASSUME NEW t \in Inputs, NEW rs \in Seq(Nat \X Nat), LegalWindows(t, rs), rs # <<>>,
         NEW hi \in Nat, rs[Len(rs)][2] <= hi, hi <= Length(t),
         NEW new, new = [rs EXCEPT ![Len(rs)] = <<rs[Len(rs)][1], hi>>]
  PROVE  Cardinality(InRanges(t, new)) = Cardinality(InRanges(t, rs)) + (hi - rs[Len(rs)][2])
<1> DEFINE n == Len(rs)
           top == rs[n][2]
           fresh == top .. hi - 1
<1>1. n \in 1 .. n /\ Length(t) \in Nat
  BY ScanAssumption
<1>2. \A j \in 1 .. n : rs[j][1] \in Nat /\ rs[j][2] \in Nat /\ rs[j][1] <= rs[j][2]
  BY WindowSlice DEF LegalWindows
<1>3. /\ Len(new) = n /\ new[n] = <<rs[n][1], hi>>
      /\ \A j \in 1 .. n : j # n => new[j] = rs[j]
  OBVIOUS
<1>4. InRanges(t, new) = InRanges(t, rs) \cup fresh
  <2>1. ASSUME NEW p \in 0 .. Length(t)
        PROVE  (\E j \in 1 .. n : new[j][1] <= p /\ p < new[j][2]) <=>
               (\E j \in 1 .. n : rs[j][1] <= p /\ p < rs[j][2]) \/ (top <= p /\ p < hi)
    <3>1. new[n][1] = rs[n][1] /\ new[n][2] = hi /\ rs[n][1] \in Nat /\ top \in Nat /\ rs[n][1] <= top
      BY <1>1, <1>2, <1>3
    <3>2. (new[n][1] <= p /\ p < new[n][2]) <=> (rs[n][1] <= p /\ p < rs[n][2]) \/ (top <= p /\ p < hi)
      BY <1>1, <3>1
    <3>3. \A j \in 1 .. n : j # n => new[j][1] = rs[j][1] /\ new[j][2] = rs[j][2]
      BY <1>3
    <3> HIDE DEF n, top
    <3> QED BY <1>1, <3>2, <3>3
  <2>2. ASSUME NEW p PROVE p \in fresh <=> p \in 0 .. Length(t) /\ top <= p /\ p < hi
    BY <1>1, <1>2
  <2> HIDE DEF fresh, n, top
  <2> QED BY <1>3, <2>1, <2>2 DEF InRanges
<1>5. InRanges(t, rs) \in SUBSET (0 .. Length(t))
  BY DEF InRanges
<1>6. \A p \in InRanges(t, rs) : p < top
  BY InEarlierRanges
<1>7. top \in Nat /\ Length(t) \in Nat
  BY <1>1, <1>2
<1>8. top <= hi
  OBVIOUS
<1> DEFINE B == InRanges(t, rs)
           size == Length(t)
<1> HIDE DEF top, B, size
<1>9. Cardinality(B \cup (top .. hi - 1)) = Cardinality(B) + (hi - top)
  <2>1. B \in SUBSET (0 .. size) /\ size \in Nat /\ \A p \in B : p < top
    BY <1>5, <1>6, <1>7 DEF B, size
  <2> QED BY <1>7, <1>8, <2>1, CountBehind
<1> QED BY <1>4, <1>9 DEF top, B

LEMMA AppendCount ==
  ASSUME NEW t \in Inputs, NEW rs \in Seq(Nat \X Nat), LegalWindows(t, rs),
         NEW lo \in Nat, NEW hi \in Nat, lo <= hi, hi <= Length(t),
         rs # <<>> => rs[Len(rs)][2] < lo,
         NEW new, new = Append(rs, <<lo, hi>>)
  PROVE  Cardinality(InRanges(t, new)) = Cardinality(InRanges(t, rs)) + (hi - lo)
<1> DEFINE n == Len(rs)
<1>1. n \in Nat /\ Length(t) \in Nat
  BY ScanAssumption
<1>2. Len(new) = n + 1 /\ new[n + 1] = <<lo, hi>> /\ \A j \in 1 .. n : new[j] = rs[j]
  OBVIOUS
<1>3. InRanges(t, new) = InRanges(t, rs) \cup (lo .. hi - 1)
  <2>1. ASSUME NEW p \in 0 .. Length(t)
        PROVE  (\E j \in 1 .. n + 1 : new[j][1] <= p /\ p < new[j][2]) <=>
               (\E j \in 1 .. n : rs[j][1] <= p /\ p < rs[j][2]) \/ (lo <= p /\ p < hi)
    <3>1. new[n + 1][1] = lo /\ new[n + 1][2] = hi
      BY <1>2
    <3>2. 1 .. n + 1 = (1 .. n) \cup {n + 1}
      BY <1>1
    <3> QED BY <1>2, <3>1, <3>2, Zenon
  <2>2. ASSUME NEW p PROVE p \in lo .. hi - 1 <=> p \in 0 .. Length(t) /\ lo <= p /\ p < hi
    BY <1>1
  <2> QED BY <1>2, <2>1, <2>2 DEF InRanges
<1>4. InRanges(t, rs) \in SUBSET (0 .. Length(t))
  BY DEF InRanges
<1>5. \A p \in InRanges(t, rs) : p < lo
  <2> SUFFICES ASSUME NEW p \in InRanges(t, rs) PROVE p < lo
    OBVIOUS
  <2>1. rs # <<>>
    BY DEF InRanges
  <2>2. p < rs[n][2] /\ p \in Nat /\ n \in 1 .. n
    BY <2>1, InEarlierRanges, <1>1 DEF InRanges
  <2>3. rs[n][2] \in Nat
    BY <2>2, WindowSlice
  <2>4. rs[n][2] < lo
    BY <2>1
  <2> DEFINE top == rs[n][2]
  <2> HIDE DEF top
  <2>5. p < top /\ top < lo /\ top \in Nat
    BY <2>2, <2>3, <2>4 DEF top
  <2> QED BY <2>2, <2>5
<1> DEFINE B == InRanges(t, rs)
           size == Length(t)
<1> HIDE DEF B, size
<1>6. B \in SUBSET (0 .. size) /\ size \in Nat /\ \A p \in B : p < lo
  BY <1>1, <1>4, <1>5 DEF B, size
<1>7. Cardinality(B \cup (lo .. hi - 1)) = Cardinality(B) + (hi - lo)
  BY <1>6, CountBehind
<1> QED BY <1>3, <1>7 DEF B

LEMMA CountInRanges ==
  CoveredIsExact <=> (Merging => covered = Cardinality(InRanges(text, ranges)))
BY DEF CoveredIsExact, InRanges

LEMMA CountKept == Inv /\ CoveredIsExact /\ [Next]_vars => CoveredIsExact'
<1> SUFFICES ASSUME Inv, CoveredIsExact, [Next]_vars, Merging'
             PROVE  covered' = Cardinality(InRanges(text', ranges'))
  BY DEF CoveredIsExact, InRanges
<1> DEFINE n == Len(ranges)
           g == Hits(text)[h + 1]
<1>1. CASE PickRule
  <2>1. covered' = 0 /\ ranges' = <<>>
    BY <1>1 DEF PickRule, Merging
  <2>2. InRanges(text', <<>>) = {}
    BY DEF InRanges
  <2> QED BY <2>1, <2>2, FS_EmptySet
<1>2. CASE ExtendRange \/ NewRange
  <2>1. /\ Merging /\ text' = text /\ text \in Inputs /\ ranges \in Seq(Nat \X Nat)
        /\ ranges' \in Seq(Nat \X Nat) /\ covered \in Int
    BY <1>2, NextInv DEF ExtendRange, NewRange, Merging, Inv, BaseInv, TypeOK
  <2>2. LegalWindows(text, ranges) /\ LegalWindows(text, ranges')
    <3>1. Inv' /\ Merging'
      BY <1>2, NextInv DEF ExtendRange, NewRange, Merging
    <3>2. SeparateWindows(text, ranges) /\ EndBehindStart(ranges)
      BY <2>1 DEF Inv, BaseInv, MergeInv, Merging
    <3>3. SeparateWindows(text, ranges') /\ EndBehindStart(ranges')
      BY <2>1, <3>1 DEF Inv, BaseInv, MergeInv, Merging, SeparateWindows, EndBehindStart
    <3> QED BY <3>2, <3>3, AreLegal
  <2>3. covered = Cardinality(InRanges(text, ranges)) /\ Length(text) \in Nat
    BY <2>1, CountInRanges, ScanAssumption
  <2>4. CASE ExtendRange
    <3> DEFINE top == maxInt(ranges[n][2], Hi(idx, text, g))
    <3>1. /\ ranges # <<>> /\ ranges' = [ranges EXCEPT ![n] = <<ranges[n][1], top>>]
          /\ covered' = covered + (top - ranges[n][2])
      BY <2>4 DEF ExtendRange, NextHit, Touches, NewHi, Gained
    <3>2. n \in 1 .. n /\ Len(ranges') = n /\ ranges'[n] = <<ranges[n][1], top>>
      BY <2>1, <3>1
    <3>3. ranges[n][2] \in Nat /\ ranges'[n][2] \in Nat /\ ranges'[n][2] <= Length(text)
      BY <2>1, <2>2, <2>3, <3>2, WindowSlice
    <3>4. top \in Nat /\ top <= Length(text)
      BY <3>2, <3>3
    <3>5. ranges[n][2] <= top
      <4>1. Hi(idx, text, g) \in Int
        <5>1. h < Len(Hits(text)) /\ pc = "merge" /\ idx \in Windowed
          BY <2>4 DEF ExtendRange, Inv, BaseInv, TypeOK
        <5>2. h + 1 \in 1 .. Len(Hits(text))
          BY <5>1, HitIndex DEF Inv, BaseInv
        <5> QED BY <2>1, <5>1, <5>2, SliceTypes
      <4> QED BY <3>3, <4>1 DEF maxInt
    <3> HIDE DEF top
    <3> QED BY <2>1, <2>2, <2>3, <3>1, <3>4, <3>5, WidenCount
  <2>5. CASE NewRange
    <3> DEFINE lo == Lo(idx, g)
               hi == Hi(idx, text, g)
               new == Append(ranges, <<lo, hi>>)
    <3>1. ranges' = new /\ covered' = covered + (hi - lo) /\ ~Touches(g)
      BY <2>5 DEF NewRange, NextHit
    <3>2. n \in Nat /\ Len(new) = n + 1 /\ new[n + 1] = <<lo, hi>> /\ \A j \in 1 .. n : new[j] = ranges[j]
      BY <2>1
    <3> HIDE DEF lo, hi, new
    <3>3. n + 1 \in 1 .. Len(new)
      BY <3>2
    <3>4. /\ new[n + 1][1] \in Nat /\ new[n + 1][2] \in Nat
          /\ new[n + 1][1] <= new[n + 1][2] /\ new[n + 1][2] <= Length(text)
      BY <2>1, <2>2, <2>3, <3>1, <3>3, WindowSlice DEF LegalWindows
    <3>5. lo \in Nat /\ hi \in Nat /\ lo <= hi /\ hi <= Length(text)
      BY <3>2, <3>4
    <3>6. ranges # <<>> => ranges[n][2] < lo
      <4> SUFFICES ASSUME ranges # <<>> PROVE ranges[n][2] < lo
        OBVIOUS
      <4>1. n \in 1 .. n
        BY <2>1
      <4>2. ranges[n][2] \in Nat
        BY <2>1, <2>2, <4>1, WindowSlice
      <4>3. ~ (lo <= ranges[n][2])
        BY <3>1 DEF Touches, lo
      <4> DEFINE top == ranges[n][2]
      <4> HIDE DEF top
      <4>4. top \in Nat /\ ~ (lo <= top)
        BY <4>2, <4>3 DEF top
      <4>5. top < lo
        BY <3>5, <4>4
      <4> QED BY <4>5 DEF top
    <3>7. ranges' = Append(ranges, <<lo, hi>>)
      BY <3>1 DEF new
    <3>8. Cardinality(InRanges(text, ranges')) = Cardinality(InRanges(text, ranges)) + (hi - lo)
      <4> HIDE DEF n
      <4>1. ranges # <<>> => ranges[Len(ranges)][2] < lo
        BY <3>6 DEF n
      <4>2. LegalWindows(text, ranges) /\ ranges \in Seq(Nat \X Nat) /\ text \in Inputs
        BY <2>1, <2>2
      <4> QED BY <3>5, <3>7, <4>1, <4>2, AppendCount
    <3> QED BY <2>1, <2>3, <3>1, <3>8
  <2> QED BY <1>2, <2>4, <2>5
<1>3. CASE UNCHANGED <<text, ranges, covered>> /\ Merging
  BY <1>3, CountInRanges
<1> QED
  BY <1>1, <1>2, <1>3
     DEF Next, vars, Merging, Finish, SkipHit, AbandonWindows, StartSearch, OutOfRange,
         SearchWindow, ReachEdge, ReportWindows, SearchWhole, Terminated

\* covered counts every byte in the windows once, if no anchor is too long for
\* its window to be a slice.
THEOREM CountIsExact == AnchorsFit /\ Spec => []CoveredIsExact
<1>1. Init => CoveredIsExact
  BY DEF Init, CoveredIsExact, Merging
<1> QED BY <1>1, CountKept, FittingInvariance, PTL DEF Spec
=============================================================================
