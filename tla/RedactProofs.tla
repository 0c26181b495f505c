--------------------------- MODULE RedactProofs ---------------------------
(***************************************************************************)
(* Resolution and rewriting are right for every list of distinct matches   *)
(* and every order sort.Slice may leave them in.                           *)
(*                                                                         *)
(* The argument: the sweep overwrites the front of the slice it reads, but *)
(* never an element it has still to read, so those stay in order and behind*)
(* the kept ones (Swept); every match read was kept or is reached into by  *)
(* a kept one before it (Decided); and the kept ones lie apart (Apart), so *)
(* writing them never looks back (Tiles).  RedactBytes takes these steps   *)
(* wherever dst and src lie; with no byte shared it never writes to src    *)
(* (BInv), and what it has appended are the bytes Redact writes (WriteInv).*)
(***************************************************************************)
EXTENDS RedactBytes, SequenceTheorems, TLAPS

Chunk == [rule : Nat \cup {-1}, start : 0 .. TextLen, end : 0 .. TextLen]

Apart == \A i, j \in 1 .. kept : i < j => matches[i].end <= matches[j].start

\* m was kept, or lost to a kept match.
Decided(m) ==
  \E k \in 1 .. kept :
    \/ matches[k] = m
    \/ Less(matches[k], m) /\ m.start < matches[k].end

Unread(m) == \E i \in read + 1 .. Len(matches) : matches[i] = m

Swept ==
  /\ kept <= read
  /\ end = IF kept = 0 THEN 0 ELSE matches[kept].end
  /\ \A i, j \in 1 .. Len(matches) :
       (i <= kept \/ read < i) /\ i < j /\ read < j => ~Less(matches[j], matches[i])
  /\ \A m \in Given : Decided(m) \/ Unread(m)

\* The chunks s cut the text up to place p.
Tiles(s, p) ==
  /\ p = 0 \/ Len(s) > 0
  /\ Len(s) > 0 => s[1].start = 0 /\ s[Len(s)].end = p
  /\ \A i \in 1 .. Len(s) - 1 : s[i].end = s[i + 1].start

Replaced(s) == {s[i] : i \in {i \in 1 .. Len(s) : s[i].rule # -1}}

IInv ==
  /\ TypeOK
  /\ pc # "panic"
  /\ \A i \in 1 .. Len(matches) : matches[i] \in Given
  /\ Apart
  /\ pc = "sort" => matches = given /\ read = 0 /\ kept = 0 /\ end = 0
  /\ pc = "sweep" => Swept
  /\ pc \in {"write", "done"} => \A m \in Given : Decided(m)
  /\ pc \in {"sort", "sweep"} => written = 0 /\ last = 0 /\ out = <<>>
  /\ pc = "write" =>
       /\ last = IF written = 0 THEN 0 ELSE matches[written].end
       /\ Tiles(out, last) /\ Replaced(out) = {matches[i] : i \in 1 .. written}
  /\ pc = "done" => Len(out) > 0 /\ Tiles(out, TextLen) /\ Replaced(out) = Kept
-----------------------------------------------------------------------------
LEMMA MatchFacts ==
  ASSUME NEW m \in Match
  PROVE  /\ m.rule \in Nat /\ m.start \in Nat /\ m.end \in Nat
         /\ m.start <= TextLen /\ m.end <= TextLen
         /\ m \in Chunk /\ m.rule # -1
BY ListsAssumption DEF Match, Chunk

LEMMA GivenFacts ==
  ASSUME given \in Lists, NEW m \in Given
  PROVE  /\ m \in Match
         /\ m.start < m.end
<1>1. given \in Seq(Match) /\ \A i \in 1 .. Len(given) : given[i].start < given[i].end
  BY ListsAssumption
<1>2. PICK i \in 1 .. Len(given) : m = given[i]
  BY DEF Given
<1> QED BY <1>1, <1>2

\* Less is irreflexive and total on matches.
LEMMA LessTotal ==
  ASSUME NEW a \in Match, NEW b \in Match, ~Less(b, a)
  PROVE  a = b \/ Less(a, b)
<1>1. a.start = b.start /\ a.end = b.end /\ a.rule = b.rule => a = b
  BY DEF Match
<1> QED BY <1>1, MatchFacts DEF Less

\* Whatever order sort.Slice leaves, it holds the same matches.
LEMMA SortedFacts ==
  ASSUME NEW l \in Seq(Match), NEW s \in Sorted(l)
  PROVE  /\ s \in Seq(Match) /\ Len(s) = Len(l)
         /\ {s[i] : i \in 1 .. Len(l)} = {l[i] : i \in 1 .. Len(l)}
         /\ \A i, j \in 1 .. Len(l) : i < j => ~Less(s[j], s[i])
<1> DEFINE n == Len(l)
<1>1. n \in Nat /\ \A i \in 1 .. n : l[i] \in Match
  OBVIOUS
<1>2. PICK p \in Onto(1 .. n) : s = [i \in 1 .. n |-> l[p[i]]]
  BY Zenon DEF Sorted, Orders
<1>3. p \in [1 .. n -> 1 .. n] /\ \A w \in 1 .. n : \E v \in 1 .. n : p[v] = w
  BY <1>2, Zenon DEF Onto
<1> HIDE DEF n
<1>4. s \in [1 .. n -> Match] /\ \A i \in 1 .. n : s[i] = l[p[i]]
  BY <1>1, <1>2, <1>3
<1>5. s \in Seq(Match) /\ Len(s) = n
  BY <1>1, <1>4
<1>6. \A i \in 1 .. n : \E j \in 1 .. n : s[i] = l[j]
  BY <1>3, <1>4
<1>7. ASSUME NEW j \in 1 .. n PROVE \E i \in 1 .. n : s[i] = l[j]
  <2>1. PICK i \in 1 .. n : p[i] = j
    BY <1>3
  <2> QED BY <1>4, <2>1
<1>8. {s[i] : i \in 1 .. n} = {l[i] : i \in 1 .. n}
  <2>1. ASSUME NEW i \in 1 .. n PROVE s[i] \in {l[j] : j \in 1 .. n}
    BY <1>6
  <2>2. ASSUME NEW j \in 1 .. n PROVE l[j] \in {s[i] : i \in 1 .. n}
    BY <1>7
  <2> QED BY <2>1, <2>2
<1>9. \A i, j \in 1 .. n : i < j => ~Less(s[j], s[i])
  BY Zenon DEF Sorted, n
<1> QED BY <1>5, <1>8, <1>9 DEF n

LEMMA NothingWritten ==
  Tiles(<<>>, 0) /\ Replaced(<<>>) = {matches[i] : i \in 1 .. 0}
BY DEF Tiles, Replaced

\* A chunk that starts where the text has been cut to cuts it to its end.
LEMMA AppendChunk ==
  ASSUME NEW s \in Seq(Chunk), NEW c \in Chunk, Tiles(s, c.start)
  PROVE  /\ Append(s, c) \in Seq(Chunk) /\ Len(Append(s, c)) > 0
         /\ Tiles(Append(s, c), c.end)
         /\ Replaced(Append(s, c)) = IF c.rule = -1 THEN Replaced(s) ELSE Replaced(s) \cup {c}
<1> DEFINE t == Append(s, c)
           n == Len(s)
<1>1. /\ n \in Nat /\ t \in Seq(Chunk) /\ Len(t) = n + 1
      /\ t[n + 1] = c /\ \A i \in 1 .. n : t[i] = s[i]
  BY AppendProperties
<1> HIDE DEF t
<1>2. Tiles(t, c.end)
  BY <1>1 DEF Tiles
<1>3. ASSUME NEW x PROVE x \in Replaced(t) <=> x \in Replaced(s) \/ (x = c /\ x.rule # -1)
  BY <1>1 DEF Replaced
<1>4. Replaced(t) = IF c.rule = -1 THEN Replaced(s) ELSE Replaced(s) \cup {c}
  BY <1>3
<1> QED BY <1>1, <1>2, <1>4 DEF t

-----------------------------------------------------------------------------
LEMMA InitIInv == Init => IInv
<1> SUFFICES ASSUME Init PROVE IInv
  OBVIOUS
<1>1. given \in Lists /\ given \in Seq(Match) /\ TextLen \in Nat
  BY ListsAssumption DEF Init
<1>2. TypeOK
  BY <1>1 DEF Init, TypeOK
<1> QED BY <1>1, <1>2 DEF Init, IInv, Apart, Given

LEMMA NothingToResolveStep == ASSUME IInv, NothingToResolve PROVE IInv'
<1>1. given \in Lists /\ given \in Seq(Match) /\ matches = given /\ Len(given) \in Nat /\ Len(given) < 2
  BY ListsAssumption DEF IInv, TypeOK, NothingToResolve
<1>2. TypeOK'
  BY <1>1 DEF IInv, TypeOK, NothingToResolve
<1>3. Apart'
  BY <1>1 DEF Apart, NothingToResolve
<1>4. \A m \in Given : Decided(m)'
  BY <1>1 DEF Given, Decided, NothingToResolve
<1>5. written' = 0 /\ last' = 0 /\ out' = <<>>
  BY DEF IInv, NothingToResolve
<1> QED BY <1>1, <1>2, <1>3, <1>4, <1>5, NothingWritten DEF IInv, Given, NothingToResolve

LEMMA SortStep == ASSUME IInv, Sort PROVE IInv'
<1>1. /\ given \in Lists /\ given \in Seq(Match) /\ matches = given /\ Len(given) \in Nat
      /\ read = 0 /\ kept = 0 /\ end = 0
  BY ListsAssumption DEF IInv, TypeOK, Sort
<1>2. /\ matches' \in Seq(Match) /\ Len(matches') = Len(given)
      /\ {matches'[i] : i \in 1 .. Len(given)} = {given[i] : i \in 1 .. Len(given)}
      /\ \A i, j \in 1 .. Len(given) : i < j => ~Less(matches'[j], matches'[i])
  BY <1>1, SortedFacts DEF Sort
<1>3. TypeOK'
  BY <1>1, <1>2 DEF IInv, TypeOK, Sort
<1>4. Apart'
  BY <1>1 DEF Apart, Sort
<1>5. Swept'
  <2>1. ASSUME NEW m \in Given' PROVE Unread(m)'
    <3>1. PICK i \in 1 .. Len(given) : matches'[i] = m
      BY <1>2 DEF Given, Sort
    <3>2. read' = 0 /\ Len(matches') = Len(given) /\ i \in read' + 1 .. Len(matches')
      BY <1>1, <1>2 DEF Sort
    <3> QED BY <3>1, <3>2 DEF Unread
  <2> QED BY <1>1, <1>2, <2>1 DEF Swept, Sort
<1>6. \A i \in 1 .. Len(matches') : matches'[i] \in Given'
  BY <1>1, <1>2 DEF Given, Sort
<1> QED BY <1>3, <1>4, <1>5, <1>6 DEF IInv, Sort

LEMMA DropStep == ASSUME IInv, Drop PROVE IInv'
<1> DEFINE m == matches[read + 1]
<1>1. /\ given \in Lists /\ matches \in Seq(Match) /\ Len(matches) \in Nat
      /\ read \in Nat /\ kept \in Nat /\ kept <= read /\ read < Len(matches)
      /\ TextLen \in Nat /\ Swept /\ m \in Match
  BY ListsAssumption DEF IInv, TypeOK, Swept, Drop
<1>2. TypeOK'
  BY <1>1 DEF IInv, TypeOK, Drop
<1>3. Decided(m)
  <2>1. m.start < end /\ m.start \in Nat
    BY <1>1, MatchFacts DEF Drop, Overlaps
  <2>2. kept \in 1 .. Len(matches) /\ end = matches[kept].end /\ matches[kept] \in Match
    BY <1>1, <2>1 DEF Swept
  <2>3. ~Less(m, matches[kept])
    BY <1>1, <2>2 DEF Swept
  <2>4. matches[kept] = m \/ Less(matches[kept], m)
    BY <1>1, <2>2, <2>3, LessTotal
  <2> QED BY <2>1, <2>2, <2>4 DEF Decided
<1>4. \A g \in Given : Decided(g)' \/ Unread(g)'
  <2>1. SUFFICES ASSUME NEW g \in Given, ~Decided(g) PROVE Unread(g)'
    BY DEF Decided, Drop
  <2>2. PICK i \in read + 1 .. Len(matches) : matches[i] = g
    BY <1>1, <2>1 DEF Swept, Unread
  <2>3. i # read + 1
    BY <1>3, <2>1, <2>2
  <2> QED BY <1>1, <2>2, <2>3 DEF Unread, Drop
<1>5. Swept'
  BY <1>1, <1>4 DEF Swept, Given, Drop
<1> QED BY <1>2, <1>5 DEF IInv, Apart, Given, Drop

LEMMA KeepStep == ASSUME IInv, Keep PROVE IInv'
<1> DEFINE m == matches[read + 1]
           n == Len(matches)
<1>1. /\ given \in Lists /\ matches \in Seq(Match) /\ n \in Nat /\ Len(given) = n
      /\ read \in Nat /\ kept \in Nat /\ kept <= read /\ read < n
      /\ TextLen \in Nat /\ Swept /\ Apart /\ m \in Match /\ m \in Given
  BY ListsAssumption DEF IInv, TypeOK, Swept, Keep
<1>2. /\ matches' \in Seq(Match) /\ Len(matches') = n
      /\ \A j \in 1 .. n : matches'[j] = IF j = kept + 1 THEN m ELSE matches[j]
  <2>1. matches' = [matches EXCEPT ![kept + 1] = m] /\ kept + 1 \in 1 .. n
    BY <1>1 DEF Keep
  <2> HIDE DEF m, n
  <2> QED BY <1>1, <2>1, ExceptSeq DEF n
<1>3. kept' = kept + 1 /\ read' = read + 1 /\ end' = m.end /\ given' = given
  BY DEF Keep
<1>4. TypeOK'
  BY <1>1, <1>2, <1>3, MatchFacts DEF IInv, TypeOK, Keep
<1>5. Apart'
  <2>1. ASSUME NEW i \in 1 .. kept PROVE matches[i].end <= m.start
    <3>1. /\ kept \in 1 .. n /\ matches[kept] \in Match /\ matches[i] \in Match
          /\ matches[kept].start < matches[kept].end
      BY <1>1, GivenFacts DEF IInv
    <3>2. matches[kept].end <= m.start
      BY <1>1, <3>1, MatchFacts DEF Swept, Keep, Overlaps
    <3>3. i = kept \/ matches[i].end <= matches[kept].start
      BY <1>1 DEF Apart
    <3> QED BY <1>1, <3>1, <3>2, <3>3, MatchFacts
  <2> HIDE DEF m, n
  <2> QED BY <1>1, <1>2, <1>3, <2>1 DEF Apart
<1>6. \A i \in 1 .. n : matches'[i] \in Given'
  BY <1>1, <1>2, <1>3 DEF IInv, Given
<1>7. Swept'
  <2>1. ASSUME NEW i \in 1 .. n, NEW j \in 1 .. n, i <= kept + 1 \/ read + 1 < i, i < j, read + 1 < j
        PROVE  ~Less(matches'[j], matches'[i])
    <3>1. matches'[j] = matches[j]
      BY <1>1, <1>2, <2>1
    <3>2. CASE i = kept + 1
      <4>1. matches'[i] = m
        BY <1>2, <3>2
      <4> QED BY <1>1, <2>1, <3>1, <4>1 DEF Swept
    <3>3. CASE i # kept + 1
      <4>1. matches'[i] = matches[i] /\ (i <= kept \/ read < i) /\ read < j
        BY <1>1, <1>2, <2>1, <3>3
      <4> QED BY <1>1, <2>1, <3>1, <4>1 DEF Swept
    <3> QED BY <3>2, <3>3
  <2>2. ASSUME NEW g \in Given PROVE Decided(g)' \/ Unread(g)'
    <3>1. CASE Decided(g)
      <4>1. \A k \in 1 .. kept : matches'[k] = matches[k] /\ k \in 1 .. kept'
        BY <1>1, <1>2, <1>3
      <4> QED BY <3>1, <4>1 DEF Decided
    <3>2. CASE Unread(g)
      <4>1. PICK i \in read + 1 .. n : matches[i] = g
        BY <3>2 DEF Unread
      <4>2. CASE i = read + 1
        <5>1. matches'[kept + 1] = g /\ kept + 1 \in 1 .. kept'
          BY <1>1, <1>2, <1>3, <4>1, <4>2
        <5> QED BY <5>1 DEF Decided
      <4>3. CASE i # read + 1
        <5>1. matches'[i] = g /\ i \in read' + 1 .. Len(matches')
          BY <1>1, <1>2, <1>3, <4>1, <4>3
        <5> QED BY <5>1 DEF Unread
      <4> QED BY <4>2, <4>3
    <3> QED BY <1>1, <3>1, <3>2 DEF Swept
  <2>3. Given' = Given /\ kept' # 0 /\ end' = matches'[kept'].end /\ kept' <= read'
    BY <1>1, <1>2, <1>3 DEF Given
  <2> HIDE DEF m, n
  <2> QED BY <1>1, <1>2, <1>3, <2>1, <2>2, <2>3 DEF Swept, n
<1> QED BY <1>2, <1>4, <1>5, <1>6, <1>7 DEF IInv, Keep

LEMMA ResolvedStep == ASSUME IInv, Resolved PROVE IInv'
<1>1. TypeOK'
  BY DEF IInv, TypeOK, Resolved
<1>2. \A m \in Given : Decided(m)'
  <2>1. SUFFICES ASSUME NEW m \in Given PROVE Decided(m)
    BY DEF Decided, Resolved
  <2>2. ~Unread(m)
    BY DEF IInv, TypeOK, Unread, Resolved
  <2> QED BY <2>2 DEF IInv, Swept, Resolved
<1>3. written' = 0 /\ last' = 0 /\ out' = <<>>
  BY DEF IInv, Resolved
<1> QED BY <1>1, <1>2, <1>3, NothingWritten DEF IInv, Apart, Given, Resolved

LEMMA ReplaceStep == ASSUME IInv, Replace PROVE IInv'
<1> DEFINE m == matches[written + 1]
           c == Copied(last, m.start)
<1>1. /\ given \in Lists /\ matches \in Seq(Match) /\ Len(matches) \in Nat
      /\ kept \in 0 .. Len(matches) /\ written \in Nat /\ written < kept
      /\ TextLen \in Nat /\ out \in Seq(Chunk) /\ last \in 0 .. TextLen
  BY ListsAssumption DEF IInv, TypeOK, Chunk, Replace
<1>2. /\ m \in Match /\ m \in Chunk /\ m.rule # -1
      /\ m.start \in 0 .. TextLen /\ m.end \in 0 .. TextLen
  <2>1. m \in Match
    BY <1>1
  <2> QED BY <2>1, MatchFacts DEF Match
<1>3. last <= m.start
  <2>1. CASE written = 0
    BY <1>1, <1>2, <2>1 DEF IInv, Replace
  <2>2. CASE written # 0
    <3>1. last = matches[written].end
      BY <1>1, <2>2 DEF IInv, Replace
    <3> QED BY <1>1, <2>2, <3>1 DEF IInv, Apart
  <2> QED BY <2>1, <2>2
<1>4. /\ out' = out \o <<c, m>> /\ last' = m.end /\ written' = written + 1
      /\ UNCHANGED <<given, matches, pc, read, kept, end>>
  BY <1>3 DEF Replace, PastEnd
<1>5. c \in Chunk /\ c.start = last /\ c.end = m.start /\ c.rule = -1
  BY <1>1, <1>2 DEF Copied, Chunk
<1> HIDE DEF c, m
<1>6. out' = Append(Append(out, c), m)
  BY <1>1, <1>2, <1>4, <1>5
<1>7. /\ Append(out, c) \in Seq(Chunk) /\ Tiles(Append(out, c), m.start)
      /\ Replaced(Append(out, c)) = Replaced(out)
  <2>1. Tiles(out, c.start)
    BY <1>5 DEF IInv, Replace
  <2> QED BY <1>1, <1>5, <2>1, AppendChunk
<1>8. /\ out' \in Seq(Chunk) /\ Tiles(out', m.end)
      /\ Replaced(out') = Replaced(out) \cup {m}
  BY <1>2, <1>6, <1>7, AppendChunk
<1>9. Replaced(out') = {matches'[i] : i \in 1 .. written'}
  <2>1. {matches[i] : i \in 1 .. written + 1} = {matches[i] : i \in 1 .. written} \cup {m}
    BY <1>1 DEF m
  <2> QED BY <1>4, <1>8, <2>1 DEF IInv, Replace
<1>10. TypeOK'
  BY <1>1, <1>2, <1>4, <1>8, SMTT(30) DEF IInv, TypeOK, Chunk
<1>11. last' = matches'[written'].end /\ written' # 0
  BY <1>1, <1>4 DEF m
<1> QED BY <1>4, <1>8, <1>9, <1>10, <1>11 DEF IInv, Apart, Decided, Given, Replace

LEMMA CopyRestStep == ASSUME IInv, CopyRest PROVE IInv'
<1> DEFINE c == Copied(last, TextLen)
<1>1. TextLen \in Nat /\ out \in Seq(Chunk) /\ last \in 0 .. TextLen
  BY ListsAssumption DEF IInv, TypeOK, Chunk
<1>2. c \in Chunk /\ c.start = last /\ c.end = TextLen /\ c.rule = -1
  BY <1>1 DEF Copied, Chunk
<1>3. out' = Append(out, c)
  BY DEF CopyRest
<1> HIDE DEF c
<1>4. Tiles(out, c.start) /\ Replaced(out) = Kept
  BY <1>2 DEF IInv, Kept, CopyRest
<1>5. /\ out' \in Seq(Chunk) /\ Len(out') > 0 /\ Tiles(out', TextLen)
      /\ Replaced(out') = Kept
  BY <1>1, <1>2, <1>3, <1>4, AppendChunk
<1>6. TypeOK'
  BY <1>1, <1>5 DEF IInv, TypeOK, Chunk, CopyRest
<1> QED BY <1>5, <1>6 DEF IInv, Apart, Decided, Given, Kept, CopyRest

-----------------------------------------------------------------------------
\* Every reachable state of resolve and of the rewriting satisfies IInv.
THEOREM Sweeping == Spec => []IInv
<1>1. Init => IInv
  BY InitIInv
<1>2. IInv /\ [Next]_vars => IInv'
  <2>1. SUFFICES ASSUME IInv, [Next]_vars PROVE IInv'
    OBVIOUS
  <2>2. CASE NothingToResolve
    BY <2>1, <2>2, NothingToResolveStep
  <2>3. CASE Sort
    BY <2>1, <2>3, SortStep
  <2>4. CASE Drop
    BY <2>1, <2>4, DropStep
  <2>5. CASE Keep
    BY <2>1, <2>5, KeepStep
  <2>6. CASE Resolved
    BY <2>1, <2>6, ResolvedStep
  <2>7. CASE Replace
    BY <2>1, <2>7, ReplaceStep
  <2>8. CASE CopyRest
    BY <2>1, <2>8, CopyRestStep
  <2>9. CASE UNCHANGED vars
    <3>1. Apart' = Apart /\ Swept' = Swept /\ TypeOK' = TypeOK /\ Given' = Given /\ Kept' = Kept
      BY <2>9 DEF vars, TypeOK, Apart, Swept, Decided, Unread, Given, Kept
    <3>2. \A m : Decided(m)' = Decided(m)
      BY <2>9 DEF vars, Decided
    <3> QED BY <2>1, <2>9, <3>1, <3>2 DEF vars, IInv
  <2> QED BY <2>1, <2>2, <2>3, <2>4, <2>5, <2>6, <2>7, <2>8, <2>9 DEF Next, Terminated
<1> QED BY <1>1, <1>2, PTL DEF Spec

\* Type correctness.
THEOREM TypeCorrect == Spec => []TypeOK
<1>1. IInv => TypeOK
  BY DEF IInv
<1> QED BY <1>1, Sweeping, PTL

\* Find returns spans in order and without overlaps.
THEOREM KeptApart == Spec => []InOrderApart
<1>1. IInv => InOrderApart
  BY DEF IInv, Apart, InOrderApart
<1> QED BY <1>1, Sweeping, PTL

\* Overlaps resolve leftmost-longest, ties going to the rule added first.
THEOREM Leftmost == Spec => []LeftmostLongest
<1>1. ASSUME IInv, pc \in {"write", "done"}, NEW m \in Given
      PROVE  m \in Kept <=> \A k \in Kept : Beats(k, m) => k.end <= m.start
  <2>1. kept \in 0 .. Len(matches) /\ Len(matches) \in Nat /\ given \in Lists
    BY <1>1 DEF IInv, TypeOK
  <2>2. m \in Match
    BY <1>1, <2>1, GivenFacts
  <2>3. ASSUME NEW i \in 1 .. kept, NEW j \in 1 .. kept, m = matches[j], Beats(matches[i], m)
        PROVE  matches[i].end <= m.start
    <3>1. /\ matches[i] \in Match /\ matches[i].start < matches[i].end
          /\ m.start < m.end
      BY <1>1, <2>1, GivenFacts DEF IInv
    <3>2. i # j /\ ~(matches[j].end <= matches[i].start)
      BY <2>2, <2>3, <3>1, MatchFacts DEF Beats
    <3> QED BY <1>1, <2>1, <2>3, <3>2 DEF IInv, Apart
  <2>4. ASSUME m \notin Kept
        PROVE  \E k \in Kept : Beats(k, m) /\ ~(k.end <= m.start)
    <3>1. PICK i \in 1 .. kept : Less(matches[i], m) /\ m.start < matches[i].end
      BY <1>1, <2>4 DEF IInv, Decided, Kept
    <3>2. matches[i] \in Match /\ matches[i] \in Kept
      BY <1>1, <2>1, GivenFacts DEF IInv, Kept
    <3> QED BY <2>2, <3>1, <3>2, MatchFacts DEF Beats, Less
  <2> QED BY <2>3, <2>4 DEF Kept
<1>2. ASSUME IInv, pc \in {"write", "done"} PROVE Kept \subseteq Given
  BY <1>2 DEF IInv, TypeOK, Kept
<1>3. IInv => LeftmostLongest
  BY <1>1, <1>2 DEF LeftmostLongest
<1> QED BY <1>3, Sweeping, PTL

\* The redacted text is the input without a gap or an overlap, with exactly
\* the kept matches replaced, and slicing it never panics.
THEOREM Whole == Spec => []TextIsWhole
<1>1. IInv => TextIsWhole
  BY DEF IInv, Tiles, Replaced, TextIsWhole
<1> QED BY <1>1, Sweeping, PTL
-----------------------------------------------------------------------------
\* The memory of the call is that of its layout, written to behind dst only.
HeapType ==
  [mem : Memory, alone : BOOLEAN, own : Memory, at : Nat, len : Nat, cap : Nat]

HeapInv(d) ==
  /\ d \in HeapType
  /\ d.alone \/ ( /\ ~layout.alone
                  /\ d.at = layout.at /\ d.cap = layout.cap
                  /\ layout.len <= d.len /\ d.len <= d.cap )
  /\ Len(d.mem) = Len(layout.mem)
  /\ \A i \in 1 .. TextLen : d.mem[layout.src + i] = i

BInv ==
  /\ layout \in Layouts
  /\ NoByteShared => HeapInv(heap)
-----------------------------------------------------------------------------
\* The bytes are written along the steps of Redact, so what holds of its
\* matches and chunks holds here too.
LEMMA StepsOfRedact == [BytesNext]_bytesVars => [Next]_vars
BY DEF BytesNext, Resolving, ReplaceBytes, CopyRestBytes, BytesTerminated, bytesVars, Next, vars

\* Every behaviour of RedactBytes is one of Redact, as far as matches and chunks go.
LEMMA BytesFollowRedact == BytesSpec => Spec
<1>1. BytesInit => Init
  BY DEF BytesInit
<1> QED BY <1>1, StepsOfRedact, PTL DEF BytesSpec, Spec
-----------------------------------------------------------------------------
LEMMA LayoutFacts ==
  ASSUME layout \in Layouts
  PROVE  /\ layout.src \in Nat /\ layout.at \in Nat /\ layout.len \in Nat /\ layout.cap \in Nat
         /\ Len(layout.mem) \in Nat
         /\ layout.at + layout.cap <= Len(layout.mem)
         /\ layout.src + TextLen <= Len(layout.mem)
BY LayoutsAssumption DEF Memory

\* A slice within a sequence.
LEMMA SlicedBytes ==
  ASSUME NEW s \in Seq(Int), NEW from \in Nat, NEW n \in Nat, from + n <= Len(s)
  PROVE  /\ SubSeq(s, from + 1, from + n) \in Seq(Int)
         /\ Len(SubSeq(s, from + 1, from + n)) = n
         /\ \A i \in 1 .. n : SubSeq(s, from + 1, from + n)[i] = s[from + i]
<1> DEFINE x == SubSeq(s, from + 1, from + n)
<1>1. \A p \in from + 1 .. from + n : s[p] \in Int
  BY ElementOfSeq, LenProperties
<1>2. from + 1 \in Int /\ from + n \in Int
  OBVIOUS
<1>3. /\ x \in Seq(Int)
      /\ Len(x) = IF from + 1 <= from + n THEN (from + n) - (from + 1) + 1 ELSE 0
      /\ \A i \in 1 .. (from + n) - (from + 1) + 1 : x[i] = s[(from + 1) + i - 1]
  BY <1>1, <1>2, SubSeqProperties
<1> HIDE DEF x
<1>4. Len(x) = n
  BY <1>3
<1>5. ASSUME NEW i \in 1 .. n PROVE x[i] = s[from + i]
  <2>1. i \in 1 .. (from + n) - (from + 1) + 1 /\ (from + 1) + i - 1 = from + i
    OBVIOUS
  <2> QED BY <1>3, <2>1
<1> QED BY <1>3, <1>4, <1>5 DEF x

LEMMA SlicesOfOriginal ==
  ASSUME NEW from \in Nat, NEW to \in 0 .. TextLen
  PROVE  Between(Original, from, to) \in Memory
<1>1. \A p \in from + 1 .. to : Original[p] \in Int
  BY ListsAssumption DEF Original
<1> QED BY <1>1, ListsAssumption, SubSeqProperties DEF Between, Memory

\* Where src was, it still is.
LEMMA SourceIsOriginal ==
  ASSUME NEW d, layout \in Layouts, HeapInv(d)
  PROVE  SrcOf(d) = Original
<1> DEFINE a == layout.src
           s == SubSeq(d.mem, a + 1, a + TextLen)
<1>1. a \in Nat /\ TextLen \in Nat /\ \A i \in 1 .. TextLen : d.mem[a + i] = i
  BY ListsAssumption, LayoutsAssumption DEF HeapInv
<1> HIDE DEF a
<1>2. ASSUME NEW p \in a + 1 .. a + TextLen PROVE d.mem[p] \in Int
  <2>1. p - a \in 1 .. TextLen /\ a + (p - a) = p
    BY <1>1
  <2> QED BY <1>1, <2>1
<1>3. /\ s \in Seq(Int)
      /\ Len(s) = IF a + 1 <= a + TextLen THEN (a + TextLen) - (a + 1) + 1 ELSE 0
      /\ \A i \in 1 .. (a + TextLen) - (a + 1) + 1 : s[i] = d.mem[(a + 1) + i - 1]
  <2>1. a + 1 \in Int /\ a + TextLen \in Int
    BY <1>1
  <2> QED BY <1>2, <2>1, SubSeqProperties
<1> HIDE DEF s
<1>4. Len(s) = TextLen /\ \A i \in 1 .. TextLen : s[i] = i
  <2>1. ASSUME NEW i \in 1 .. TextLen PROVE s[i] = d.mem[a + i]
    <3>1. i \in 1 .. (a + TextLen) - (a + 1) + 1 /\ (a + 1) + i - 1 = a + i
      BY <1>1
    <3> QED BY <1>3, <3>1
  <2>2. Len(s) = TextLen
    BY <1>1, <1>3
  <2> QED BY <1>1, <2>1, <2>2
<1>5. Original \in Seq(Int) /\ Len(Original) = TextLen /\ \A i \in 1 .. TextLen : Original[i] = i
  BY <1>1 DEF Original
<1>6. s = Original
  BY <1>3, <1>4, <1>5, SeqEqual
<1> QED BY <1>6 DEF s, a, SrcOf, Between

\* m with the bytes of s written from new on.
Over(m, new, s) ==
  [p \in DOMAIN m |-> IF p \in new + 1 .. new + Len(s) THEN s[p - new] ELSE m[p]]

LEMMA OverTypes ==
  ASSUME NEW m \in Seq(Int), NEW new \in Nat, NEW s \in Seq(Int)
  PROVE  /\ Over(m, new, s) \in Seq(Int) /\ Len(Over(m, new, s)) = Len(m)
         /\ \A p \in 1 .. Len(m) :
              Over(m, new, s)[p] = IF p \in new + 1 .. new + Len(s) THEN s[p - new] ELSE m[p]
<1> DEFINE n == Len(m)
           l == Len(s)
           o == Over(m, new, s)
<1>1. /\ n \in Nat /\ DOMAIN m = 1 .. n /\ \A p \in 1 .. n : m[p] \in Int
      /\ l \in Nat /\ \A p \in 1 .. l : s[p] \in Int
  BY LenProperties, ElementOfSeq
<1>2. o = [p \in 1 .. n |-> IF p \in new + 1 .. new + l THEN s[p - new] ELSE m[p]]
  BY <1>1 DEF Over
<1> HIDE DEF n, l, o
<1>3. \A p \in new + 1 .. new + l : s[p - new] \in Int
  <2>1. \A p \in new + 1 .. new + l : p - new \in 1 .. l
    BY <1>1
  <2> QED BY <1>1, <2>1
<1>4. o \in [1 .. n -> Int] /\ \A p \in 1 .. n : o[p] = IF p \in new + 1 .. new + l THEN s[p - new] ELSE m[p]
  BY <1>1, <1>2, <1>3
<1>5. o \in Seq(Int) /\ Len(o) = n
  BY <1>1, <1>4, SeqDef
<1> QED BY <1>4, <1>5 DEF n, l, o

LEMMA SliceWrittenOver ==
  ASSUME NEW m \in Seq(Int), NEW at \in Nat, NEW len \in Nat, NEW s \in Seq(Int),
         at + len + Len(s) <= Len(m)
  PROVE  Between(Over(m, at + len, s), at, at + (len + Len(s))) = Between(m, at, at + len) \o s
<1> DEFINE l == Len(s)
           n == Len(m)
           new == at + len
           size == len + l
           o == Over(m, at + len, s)
           x == Between(o, at, at + size)
           y == Between(m, at, at + len)
<1>1. l \in Nat /\ n \in Nat /\ new \in Nat /\ size \in Nat /\ at + size <= n /\ at + len <= n
  BY LenProperties
<1>2. /\ o \in Seq(Int) /\ Len(o) = n
      /\ \A p \in 1 .. n : o[p] = IF p \in new + 1 .. new + l THEN s[p - new] ELSE m[p]
  BY <1>1, OverTypes
<1> HIDE DEF o
<1>3. x \in Seq(Int) /\ Len(x) = size /\ \A i \in 1 .. size : x[i] = o[at + i]
  <2> HIDE DEF size, n
  <2> QED BY <1>1, <1>2, SlicedBytes DEF Between
<1>4. y \in Seq(Int) /\ Len(y) = len /\ \A i \in 1 .. len : y[i] = m[at + i]
  BY <1>1, SlicedBytes DEF Between
<1> HIDE DEF x, y
<1>5. /\ y \o s \in Seq(Int) /\ Len(y \o s) = size
      /\ \A i \in 1 .. size : (y \o s)[i] = IF i <= len THEN y[i] ELSE s[i - len]
  <2> HIDE DEF l
  <2> QED BY <1>1, <1>4, ConcatProperties DEF l
<1>6. ASSUME NEW i \in 1 .. size PROVE x[i] = (y \o s)[i]
  <2>1. i \in Nat /\ at + i \in 1 .. n
    <3> HIDE DEF n, l
    <3> QED BY <1>1
  <2>2. CASE i <= len
    <3>1. at + i \notin new + 1 .. new + l /\ i \in 1 .. len
      <4> HIDE DEF l
      <4> QED BY <1>1, <2>1, <2>2
    <3> HIDE DEF new, l, size, n
    <3>2. o[at + i] = m[at + i]
      BY <1>2, <2>1, <3>1
    <3>3. (y \o s)[i] = y[i]
      BY <1>5, <2>2
    <3> QED BY <1>3, <1>4, <3>1, <3>2, <3>3
  <2>3. CASE ~(i <= len)
    <3>1. at + i \in new + 1 .. new + l /\ (at + i) - new = i - len
      <4> HIDE DEF l
      <4> QED BY <1>1, <2>1, <2>3
    <3> HIDE DEF new, l, size, n
    <3>2. o[at + i] = s[i - len]
      BY <1>2, <2>1, <3>1
    <3>3. (y \o s)[i] = s[i - len]
      BY <1>5, <2>3
    <3> QED BY <1>3, <3>2, <3>3
  <2> QED BY <2>2, <2>3
<1> HIDE DEF size
<1>7. x = y \o s
  BY <1>3, <1>5, <1>6, SeqEqual
<1> QED BY <1>7 DEF x, y, size, o

LEMMA AppendedBytes ==
  ASSUME NEW d \in HeapType, NEW s \in Memory,
         d.alone \/ (d.len <= d.cap /\ d.at + d.cap <= Len(d.mem))
  PROVE  /\ Appended(d, s) \in HeapType
         /\ Contents(d) \in Memory
         /\ Contents(Appended(d, s)) = Contents(d) \o s
         /\ Len(Appended(d, s).mem) = Len(d.mem)
         /\ Appended(d, s).alone \/ ( /\ ~d.alone
                                      /\ Appended(d, s).at = d.at /\ Appended(d, s).cap = d.cap
                                      /\ Appended(d, s).len = d.len + Len(s)
                                      /\ d.len + Len(s) <= d.cap )
         /\ \A p \in 1 .. Len(d.mem) :
              Appended(d, s).alone \/ p \notin d.at + d.len + 1 .. d.at + d.len + Len(s)
                => Appended(d, s).mem[p] = d.mem[p]
<1> DEFINE n == Len(d.mem)
           l == Len(s)
           e == Appended(d, s)
           o == Over(d.mem, d.at + d.len, s)
<1>1. /\ d.mem \in Seq(Int) /\ d.at \in Nat /\ d.len \in Nat /\ d.cap \in Nat /\ n \in Nat
      /\ d.own \in Seq(Int) /\ d.alone \in BOOLEAN /\ s \in Seq(Int) /\ l \in Nat
  BY LenProperties DEF HeapType, Memory
<1>2. Contents(d) \in Seq(Int)
  <2>1. CASE ~d.alone
    <3>1. d.at + d.len <= n
      BY <1>1, <2>1
    <3> QED BY <1>1, <2>1, <3>1, SlicedBytes DEF Contents, Between
  <2>2. CASE d.alone
    BY <1>1, <2>2 DEF Contents
  <2> QED BY <2>1, <2>2
<1>3. CASE ~d.alone /\ d.len + l <= d.cap
  <2>1. e = [d EXCEPT !.mem = o, !.len = @ + l]
    BY <1>3 DEF Appended, Over
  <2>2. /\ o \in Seq(Int) /\ Len(o) = n
        /\ \A p \in 1 .. n :
             o[p] = IF p \in d.at + d.len + 1 .. d.at + d.len + l THEN s[p - (d.at + d.len)] ELSE d.mem[p]
    <3> DEFINE new == d.at + d.len
    <3>1. new \in Nat
      BY <1>1
    <3> DEFINE m == d.mem
    <3>2. m \in Seq(Int) /\ o = Over(m, new, s)
      BY <1>1
    <3> HIDE DEF new, m
    <3>3. /\ Over(m, new, s) \in Seq(Int) /\ Len(Over(m, new, s)) = Len(m)
          /\ \A p \in 1 .. Len(m) :
               Over(m, new, s)[p] = IF p \in new + 1 .. new + Len(s) THEN s[p - new] ELSE m[p]
      BY <1>1, <3>1, <3>2, OverTypes
    <3> HIDE DEF o
    <3> QED BY <3>2, <3>3 DEF new, m
  <2>3. d.at + d.len + l <= n
    BY <1>1, <1>3
  <2>4. Between(o, d.at, d.at + (d.len + l)) = Between(d.mem, d.at, d.at + d.len) \o s
    BY <1>1, <2>3, SliceWrittenOver
  <2> HIDE DEF o, l, n, e
  <2>5. /\ e.mem = o /\ e.alone = d.alone /\ e.at = d.at /\ e.cap = d.cap /\ e.own = d.own
        /\ e.len = d.len + l
    BY <1>1, <2>1 DEF HeapType
  <2>6. e \in HeapType
    <3>1. d.len + l \in Nat /\ o \in Memory
      BY <1>1, <2>2 DEF Memory
    <3> QED BY <1>1, <2>1, <3>1 DEF HeapType
  <2>7. Contents(e) = Contents(d) \o s
    BY <1>3, <2>4, <2>5 DEF Contents
  <2>8. \A p \in 1 .. n : p \notin d.at + d.len + 1 .. d.at + d.len + l => e.mem[p] = d.mem[p]
    BY <2>2, <2>5
  <2> QED BY <1>2, <1>3, <2>2, <2>5, <2>6, <2>7, <2>8 DEF Memory, e, l, n
<1>4. CASE d.alone \/ ~(d.len + l <= d.cap)
  <2>1. e = [d EXCEPT !.alone = TRUE, !.own = Contents(d) \o s]
    BY <1>1, <1>4 DEF Appended
  <2>2. Contents(d) \o s \in Memory
    BY <1>1, <1>2, ConcatProperties DEF Memory
  <2>3. e \in HeapType
    BY <1>1, <2>1, <2>2 DEF HeapType
  <2>4. e.mem = d.mem /\ e.alone /\ e.own = Contents(d) \o s
    BY <1>1, <2>1 DEF HeapType
  <2> HIDE DEF e
  <2>5. Contents(e) = Contents(d) \o s
    BY <2>4 DEF Contents
  <2> QED BY <1>2, <2>3, <2>4, <2>5 DEF Memory, e
<1> QED BY <1>3, <1>4

LEMMA AppendingKeepsSource ==
  ASSUME NEW d, NEW s \in Memory, layout \in Layouts, NoByteShared, HeapInv(d)
  PROVE  HeapInv(Appended(d, s))
<1> DEFINE e == Appended(d, s)
           l == Len(s)
           n == Len(d.mem)
<1>1. /\ d \in HeapType /\ d.at \in Nat /\ d.len \in Nat /\ d.cap \in Nat /\ n \in Nat /\ l \in Nat
      /\ TextLen \in Nat /\ n = Len(layout.mem)
      /\ \A i \in 1 .. TextLen : d.mem[layout.src + i] = i
  BY ListsAssumption, LenProperties DEF HeapInv, HeapType, Memory
<1>2. /\ layout.src \in Nat /\ layout.at \in Nat /\ layout.len \in Nat /\ layout.cap \in Nat
      /\ layout.at + layout.cap <= n /\ layout.src + TextLen <= n
  BY <1>1, LayoutFacts
<1>3. d.alone \/ ( /\ ~layout.alone /\ d.at = layout.at /\ d.cap = layout.cap
                   /\ layout.len <= d.len /\ d.len <= d.cap )
  BY DEF HeapInv
<1>4. /\ e \in HeapType /\ Len(e.mem) = n
      /\ e.alone \/ ( /\ ~d.alone /\ e.at = d.at /\ e.cap = d.cap
                      /\ e.len = d.len + l /\ d.len + l <= d.cap )
      /\ \A p \in 1 .. n :
           e.alone \/ p \notin d.at + d.len + 1 .. d.at + d.len + l => e.mem[p] = d.mem[p]
  BY <1>1, <1>2, <1>3, AppendedBytes
<1> HIDE DEF e, l, n
<1>5. ASSUME NEW i \in 1 .. TextLen PROVE e.mem[layout.src + i] = i
  <2> DEFINE p == layout.src + i
  <2>1. p \in 1 .. n /\ p \in layout.src + 1 .. layout.src + TextLen
    BY <1>1, <1>2
  <2>2. p \notin layout.at + layout.len + 1 .. layout.at + layout.cap \/ layout.alone
    BY <2>1 DEF NoByteShared
  <2> HIDE DEF p
  <2>3. ASSUME ~e.alone PROVE p \notin d.at + d.len + 1 .. d.at + d.len + l
    <3>1. ~layout.alone /\ d.at = layout.at /\ d.cap = layout.cap /\ layout.len <= d.len /\ d.len + l <= d.cap
      BY <1>3, <1>4, <2>3
    <3>2. p \in Nat /\ p \notin layout.at + layout.len + 1 .. layout.at + layout.cap
      BY <1>1, <1>2, <2>1, <2>2, <3>1
    <3> QED BY <1>1, <1>2, <3>1, <3>2, SMTT(30)
  <2>4. e.mem[p] = d.mem[p]
    BY <1>4, <2>1, <2>3
  <2> QED BY <1>1, <2>4 DEF p
<1>6. e.alone \/ ( /\ ~layout.alone /\ e.at = layout.at /\ e.cap = layout.cap
                   /\ layout.len <= e.len /\ e.len <= e.cap )
  BY <1>1, <1>2, <1>3, <1>4
<1> QED BY <1>1, <1>4, <1>5, <1>6 DEF HeapInv, e
-----------------------------------------------------------------------------
LEMMA BytesInitBInv == BytesInit => BInv
<1> SUFFICES ASSUME BytesInit, NoByteShared PROVE layout \in Layouts /\ HeapInv(heap)
  BY DEF BInv, BytesInit
<1>1. layout \in Layouts /\ heap = AsGiven(layout)
  BY DEF BytesInit, Begin
<1>2. /\ heap.mem = layout.mem /\ heap.alone = layout.alone /\ heap.own = layout.own
      /\ heap.at = layout.at /\ heap.len = layout.len /\ heap.cap = layout.cap
  BY <1>1, Zenon DEF AsGiven
<1>3. heap \in HeapType
  BY <1>1, LayoutsAssumption DEF AsGiven, HeapType
<1>4. layout.len <= heap.len /\ heap.len <= heap.cap
  BY <1>1, <1>2, LayoutsAssumption
<1>5. \A i \in 1 .. TextLen : heap.mem[layout.src + i] = i
  BY <1>1, <1>2, LayoutsAssumption
<1> QED BY <1>1, <1>2, <1>3, <1>4, <1>5 DEF HeapInv

\* The mask of a match reads the bytes of the match in src.
LEMMA ReplaceBytesBInv == IInv /\ BInv /\ ReplaceBytes => BInv'
<1> SUFFICES ASSUME IInv, BInv, ReplaceBytes, NoByteShared PROVE HeapInv(heap)'
  BY DEF BInv, ReplaceBytes, NoByteShared
<1> DEFINE m == matches[written + 1]
           copied == Appended(heap, Between(SrcOf(heap), last, m.start))
<1>1. layout' = layout /\ layout \in Layouts /\ HeapInv(heap)
  BY DEF ReplaceBytes, BInv
<1>2. HeapInv(heap)' <=> HeapInv(heap')
  BY <1>1 DEF HeapInv
<1>3. m \in Match /\ m \in Given /\ last \in 0 .. TextLen /\ given \in Lists
  <2>1. written + 1 \in 1 .. Len(matches)
    BY DEF IInv, TypeOK, ReplaceBytes, Replace
  <2> QED BY <2>1 DEF IInv, TypeOK
<1>4. m.start \in 0 .. TextLen /\ m.end \in 0 .. TextLen
  BY <1>3 DEF Match
<1>5. Replacement(m.rule, Between(Original, m.start, m.end)) \in Memory
  BY <1>3, LayoutsAssumption DEF Given
<1>6. heap' = IF last <= m.start
              THEN Appended(copied, Replacement(m.rule, Between(SrcOf(copied), m.start, m.end)))
              ELSE heap
  BY DEF ReplaceBytes
<1> HIDE DEF m
<1>7. HeapInv(copied)
  <2>1. Between(SrcOf(heap), last, m.start) \in Memory
    BY <1>1, <1>3, <1>4, SourceIsOriginal, SlicesOfOriginal
  <2> QED BY <1>1, <2>1, AppendingKeepsSource
<1> HIDE DEF copied
<1>8. CASE last <= m.start
  <2>1. heap' = Appended(copied, Replacement(m.rule, Between(Original, m.start, m.end)))
    BY <1>1, <1>6, <1>7, <1>8, SourceIsOriginal
  <2>2. HeapInv(heap')
    BY <1>1, <1>5, <1>7, <2>1, AppendingKeepsSource
  <2> QED BY <1>2, <2>2
<1>9. CASE ~(last <= m.start)
  BY <1>1, <1>2, <1>6, <1>9
<1> QED BY <1>8, <1>9

LEMMA CopyRestBytesBInv == IInv /\ BInv /\ CopyRestBytes => BInv'
<1> SUFFICES ASSUME IInv, BInv, CopyRestBytes, NoByteShared PROVE HeapInv(heap)'
  BY DEF BInv, CopyRestBytes, NoByteShared
<1>1. layout' = layout /\ layout \in Layouts /\ HeapInv(heap)
  BY DEF CopyRestBytes, BInv
<1>2. HeapInv(heap)' <=> HeapInv(heap')
  BY <1>1 DEF HeapInv
<1>3. last \in Nat /\ TextLen \in 0 .. TextLen
  BY ListsAssumption DEF IInv, TypeOK
<1>4. heap' = Appended(heap, Between(Original, last, TextLen))
  BY <1>1, SourceIsOriginal DEF CopyRestBytes
<1>5. Between(Original, last, TextLen) \in Memory
  BY <1>3, SlicesOfOriginal
<1> QED BY <1>1, <1>2, <1>4, <1>5, AppendingKeepsSource

LEMMA BytesNextBInv == IInv /\ BInv /\ [BytesNext]_bytesVars => BInv'
<1> SUFFICES ASSUME IInv, BInv, [BytesNext]_bytesVars PROVE BInv'
  OBVIOUS
<1>1. CASE UNCHANGED <<layout, heap>>
  BY <1>1 DEF BInv, NoByteShared, HeapInv
<1>2. CASE Resolving \/ BytesTerminated \/ UNCHANGED bytesVars
  BY <1>1, <1>2 DEF Resolving, BytesTerminated, bytesVars
<1> QED BY <1>2, ReplaceBytesBInv, CopyRestBytesBInv DEF BytesNext

\* With no byte of dst's room in src, RedactBytes leaves src as it was, whether
\* dst has the capacity or has to move, and whatever rules write.
THEOREM SourceIsKept == BytesSpec => []SourceSurvives
<1>1. BInv => SourceSurvives
  BY SourceIsOriginal DEF BInv, SourceSurvives
<1>2. BytesSpec => []IInv
  BY BytesFollowRedact, Sweeping
<1> QED BY <1>1, <1>2, BytesInitBInv, BytesNextBInv, PTL DEF BytesSpec
-----------------------------------------------------------------------------
(***************************************************************************)
(* What RedactBytes appends.  Redact's bytes and RedactBytes' are written  *)
(* in lock step: behind dst lies what Redact has written so far, and what  *)
(* has not been read of src is still there.                                *)
(***************************************************************************)
Intact(d, n) == \A i \in n + 1 .. TextLen : d.mem[layout.src + i] = i

\* d is dst with the bytes s behind it.
Holds(d, s) ==
  /\ d \in HeapType /\ s \in Memory
  /\ Len(d.mem) = Len(layout.mem)
  /\ Contents(d) = Contents(AsGiven(layout)) \o s
  /\ d.alone \/ ( /\ ~layout.alone
                  /\ d.at = layout.at /\ d.cap = layout.cap
                  /\ d.len = layout.len + Len(s) /\ d.len <= d.cap )

Behaves == NoByteShared \/ ~ahead

WriteInv ==
  /\ layout \in Layouts
  /\ ahead \in BOOLEAN
  /\ Behaves => Holds(heap, redacted)
  /\ Behaves /\ pc # "done" => Intact(heap, last)
  /\ ~ahead /\ pc # "done" => ~Outruns(Len(redacted), last)

\* What has not been written over is read as it was.
LEMMA WhatIsRead ==
  ASSUME layout \in Layouts, NEW d, d.mem \in Seq(Int), Len(d.mem) = Len(layout.mem),
         NEW from \in Nat, NEW to \in Nat, from <= to, to <= TextLen, Intact(d, from)
  PROVE  /\ Between(SrcOf(d), from, to) = Between(Original, from, to)
         /\ Between(Original, from, to) \in Memory /\ Len(Between(Original, from, to)) = to - from
<1> DEFINE a == layout.src
           n == to - from
           s == SrcOf(d)
           x == Between(s, from, to)
           y == Between(Original, from, to)
<1>1. a \in Nat /\ TextLen \in Nat /\ a + TextLen <= Len(d.mem) /\ n \in Nat /\ from + n = to
  BY LayoutFacts, ListsAssumption
<1>2. \A i \in from + 1 .. TextLen : d.mem[a + i] = i
  BY DEF Intact
<1> HIDE DEF a, n
<1>3. s \in Seq(Int) /\ Len(s) = TextLen /\ \A i \in 1 .. TextLen : s[i] = d.mem[a + i]
  BY <1>1, SlicedBytes DEF SrcOf, Between, a
<1>4. Original \in Seq(Int) /\ Len(Original) = TextLen /\ \A i \in 1 .. TextLen : Original[i] = i
  BY <1>1 DEF Original
<1> HIDE DEF s
<1>5. x \in Seq(Int) /\ Len(x) = n /\ \A i \in 1 .. n : x[i] = s[from + i]
  <2>1. x = SubSeq(s, from + 1, from + n)
    BY <1>1 DEF Between
  <2> QED BY <1>1, <1>3, <2>1, SlicedBytes
<1>6. y \in Seq(Int) /\ Len(y) = n /\ \A i \in 1 .. n : y[i] = Original[from + i]
  <2>1. y = SubSeq(Original, from + 1, from + n)
    BY <1>1 DEF Between
  <2> QED BY <1>1, <1>4, <2>1, SlicedBytes
<1> HIDE DEF x, y
<1>7. ASSUME NEW i \in 1 .. n PROVE x[i] = y[i]
  <2>1. from + i \in 1 .. TextLen /\ from + i \in from + 1 .. TextLen
    BY <1>1
  <2> QED BY <1>2, <1>3, <1>4, <1>5, <1>6, <2>1
<1>8. x = y
  BY <1>5, <1>6, <1>7, SeqEqual
<1> QED BY <1>6, <1>8 DEF x, y, s, n, Memory

LEMMA HeldContents ==
  ASSUME layout \in Layouts
  PROVE  Contents(AsGiven(layout)) \in Seq(Int)
<1> DEFINE g == AsGiven(layout)
<1>1. /\ g \in HeapType /\ g.len <= g.cap /\ g.at + g.cap <= Len(g.mem)
  BY LayoutsAssumption DEF AsGiven, HeapType
<1> HIDE DEF g
<1>2. <<>> \in Memory
  BY EmptySeq DEF Memory
<1>3. Contents(g) \in Memory
  BY <1>1, <1>2, AppendedBytes
<1> QED BY <1>3 DEF g, Memory

\* A byte behind to is out of the reach of l bytes written behind len + z.
LEMMA OutOfReach ==
  ASSUME NEW at \in Nat, NEW len \in Nat, NEW cap \in Nat, NEW z \in Nat, NEW l \in Nat,
         NEW far \in Nat, NEW p \in Nat, p > far, (len + z) + l <= cap,
         p \notin at + len + 1 .. at + cap \/ at + len + (z + l) <= far
  PROVE  p \notin at + (len + z) + 1 .. at + (len + z) + l
OBVIOUS

\* Appending s when no more than the bytes up to from have been read, and those
\* up to the position to may be written over.
LEMMA AppendStep ==
  ASSUME layout \in Layouts, NEW d, NEW w, Holds(d, w), NEW s \in Memory,
         NEW from \in Nat, NEW to \in Nat, from <= to, to <= TextLen, Intact(d, from),
         NoByteShared \/ ~Outruns(Len(w \o s), to)
  PROVE  Holds(Appended(d, s), w \o s) /\ Intact(Appended(d, s), to)
<1> DEFINE e == Appended(d, s)
           l == Len(s)
           z == Len(w)
           n == Len(d.mem)
           c == Contents(AsGiven(layout))
<1>1. /\ d \in HeapType /\ d.at \in Nat /\ d.len \in Nat /\ d.cap \in Nat /\ n \in Nat /\ l \in Nat
      /\ TextLen \in Nat /\ n = Len(layout.mem) /\ w \in Seq(Int) /\ s \in Seq(Int) /\ z \in Nat
      /\ Contents(d) = c \o w
  BY ListsAssumption, LenProperties DEF Holds, HeapType, Memory
<1>2. /\ layout.src \in Nat /\ layout.at \in Nat /\ layout.len \in Nat /\ layout.cap \in Nat
      /\ layout.at + layout.cap <= n /\ layout.src + TextLen <= n
  BY <1>1, LayoutFacts
<1>3. d.alone \/ ( /\ ~layout.alone /\ d.at = layout.at /\ d.cap = layout.cap
                   /\ d.len = layout.len + z /\ d.len <= d.cap )
  BY DEF Holds
<1>4. /\ e \in HeapType /\ Len(e.mem) = n /\ Contents(e) = Contents(d) \o s
      /\ e.alone \/ ( /\ ~d.alone /\ e.at = d.at /\ e.cap = d.cap
                      /\ e.len = d.len + l /\ d.len + l <= d.cap )
      /\ \A p \in 1 .. n :
           e.alone \/ p \notin d.at + d.len + 1 .. d.at + d.len + l => e.mem[p] = d.mem[p]
  BY <1>1, <1>2, <1>3, AppendedBytes
<1>5. w \o s \in Seq(Int) /\ Len(w \o s) = z + l
  BY <1>1, ConcatProperties
<1>6. NoByteShared \/ layout.at + layout.len + (z + l) <= layout.src + to
  BY <1>1, <1>2, <1>5, SMTT(30) DEF Outruns
<1>7. Contents(e) = c \o (w \o s)
  <2>1. c \in Seq(Int)
    BY HeldContents
  <2> HIDE DEF c, e
  <2>2. w \in Seq(Int) /\ s \in Seq(Int)
    BY <1>1
  <2>3. (c \o w) \o s = c \o (w \o s)
    BY <2>1, <2>2, ConcatAssociative
  <2> QED BY <1>1, <1>4, <2>3
<1> HIDE DEF e, l, n, z, c
<1>8. e.alone \/ ( /\ ~layout.alone /\ e.at = layout.at /\ e.cap = layout.cap
                   /\ e.len = layout.len + (z + l) /\ e.len <= e.cap )
  BY <1>1, <1>2, <1>3, <1>4
<1>9. ASSUME NEW i \in to + 1 .. TextLen PROVE e.mem[layout.src + i] = i
  <2> DEFINE p == layout.src + i
  <2>1. p \in 1 .. n /\ p \in layout.src + 1 .. layout.src + TextLen /\ p > layout.src + to /\ p \in Nat
    <3>1. i \in Nat /\ i > to /\ i <= TextLen /\ i >= 1
      BY <1>1
    <3> DEFINE v == layout.src
    <3>2. v \in Nat /\ v + TextLen <= n /\ TextLen \in Nat /\ n \in Nat
      BY <1>1, <1>2
    <3> HIDE DEF v
    <3>3. v + i \in 1 .. n /\ v + i \in v + 1 .. v + TextLen /\ v + i > v + to /\ v + i \in Nat
      BY <3>1, <3>2
    <3> QED BY <3>3 DEF v
  <2>2. p \notin layout.at + layout.len + 1 .. layout.at + layout.cap
          \/ layout.alone \/ layout.at + layout.len + (z + l) <= layout.src + to
    BY <1>6, <2>1 DEF NoByteShared
  <2>3. d.mem[p] = i
    BY <1>1 DEF Intact
  <2> HIDE DEF p
  <2>4. ASSUME ~e.alone PROVE p \notin d.at + d.len + 1 .. d.at + d.len + l
    <3>1. /\ ~layout.alone /\ d.at = layout.at /\ d.cap = layout.cap /\ d.len = layout.len + z
          /\ d.len + l <= d.cap
      BY <1>3, <1>4, <2>4
    <3> DEFINE far == layout.src + to
    <3>2. far \in Nat /\ p > far
      BY <1>2, <2>1
    <3>3. p \notin layout.at + layout.len + 1 .. layout.at + layout.cap
            \/ layout.at + layout.len + (z + l) <= far
      BY <2>2, <3>1
    <3>4. (layout.len + z) + l <= layout.cap
      BY <3>1
    <3> HIDE DEF far
    <3>5. p \notin layout.at + (layout.len + z) + 1 .. layout.at + (layout.len + z) + l
      BY <1>1, <1>2, <2>1, <3>2, <3>3, <3>4, OutOfReach
    <3> QED BY <3>1, <3>5
  <2>5. e.mem[p] = d.mem[p]
    BY <1>4, <2>1, <2>4
  <2> QED BY <2>3, <2>5 DEF p
<1>10. Intact(e, to)
  BY <1>9 DEF Intact
<1>11. Holds(e, w \o s)
  BY <1>1, <1>4, <1>5, <1>7, <1>8 DEF Holds, Memory, c
<1> QED BY <1>10, <1>11 DEF e
-----------------------------------------------------------------------------
LEMMA BytesInitWriteInv == BytesInit => WriteInv
<1> SUFFICES ASSUME BytesInit PROVE WriteInv
  OBVIOUS
<1> DEFINE g == AsGiven(layout)
<1>1. layout \in Layouts /\ heap = g /\ redacted = <<>> /\ last = 0 /\ ahead = Outruns(0, 0)
  BY DEF BytesInit, Begin, Init
<1>2. /\ g \in HeapType /\ g.mem = layout.mem /\ g.alone = layout.alone /\ g.at = layout.at
      /\ g.cap = layout.cap /\ g.len = layout.len /\ g.len <= g.cap /\ layout.len \in Nat
      /\ \A i \in 1 .. TextLen : g.mem[layout.src + i] = i
  BY <1>1, LayoutsAssumption DEF AsGiven, HeapType
<1>3. <<>> \in Memory /\ Len(<<>>) = 0 /\ Contents(g) \o <<>> = Contents(g)
  BY <1>1, HeldContents, EmptySeq, ConcatEmptySeq DEF Memory
<1> HIDE DEF g
<1>4. Holds(g, <<>>)
  BY <1>1, <1>2, <1>3 DEF Holds, g
<1>5. Intact(g, 0)
  BY <1>2 DEF Intact
<1>6. ahead \in BOOLEAN
  BY <1>1 DEF Outruns
<1> QED BY <1>1, <1>3, <1>4, <1>5, <1>6 DEF WriteInv

LEMMA SameHeld ==
  ASSUME layout' = layout
  PROVE  /\ NoByteShared' = NoByteShared
         /\ Holds(heap, redacted)' <=> Holds(heap', redacted')
         /\ Intact(heap, last)' <=> Intact(heap', last')
         /\ Outruns(Len(redacted), last)' <=> Outruns(Len(redacted'), last')
BY DEF NoByteShared, Holds, Intact, Outruns

LEMMA HeldTypes ==
  ASSUME layout \in Layouts, NEW d, NEW s, Holds(d, s)
  PROVE  d.mem \in Seq(Int) /\ Len(d.mem) = Len(layout.mem) /\ s \in Seq(Int) /\ Len(s) \in Nat
BY LenProperties DEF Holds, HeapType, Memory

LEMMA ReplaceBytesWriteInv == IInv /\ WriteInv /\ ReplaceBytes => WriteInv'
<1> SUFFICES ASSUME IInv, WriteInv, ReplaceBytes PROVE WriteInv'
  OBVIOUS
<1> DEFINE m == matches[written + 1]
           b == Between(Original, last, m.start)
           s == Replacement(m.rule, Between(Original, m.start, m.end))
           copied == Appended(heap, Between(SrcOf(heap), last, m.start))
<1>1. layout' = layout /\ layout \in Layouts /\ pc = "write" /\ ahead \in BOOLEAN
  BY DEF ReplaceBytes, Replace, WriteInv
<1>2. m \in Match /\ m \in Given /\ last \in 0 .. TextLen /\ given \in Lists
  <2>1. written + 1 \in 1 .. Len(matches)
    BY DEF IInv, TypeOK, ReplaceBytes, Replace
  <2> QED BY <2>1 DEF IInv, TypeOK
<1>3. m.start \in 0 .. TextLen /\ m.end \in 0 .. TextLen /\ m.start < m.end /\ TextLen \in Nat
  BY <1>2, ListsAssumption DEF Match, Given
<1>4. s \in Memory
  BY <1>2, LayoutsAssumption DEF Given
<1>5. ahead' = (ahead \/ Outruns(Len(redacted'), last'))
  BY DEF ReplaceBytes
<1>6. ASSUME ~(last <= m.start) PROVE heap' = heap /\ redacted' = redacted /\ last' = last /\ pc' = "panic"
  BY <1>6 DEF ReplaceBytes, Replace
<1>7. ASSUME last <= m.start
      PROVE  /\ heap' = Appended(copied, Replacement(m.rule, Between(SrcOf(copied), m.start, m.end)))
             /\ redacted' = redacted \o (b \o s) /\ last' = m.end /\ pc' = pc
  BY <1>7 DEF ReplaceBytes, Replace, Redacted, PastEnd
<1> HIDE DEF m
<1>8. CASE ~(last <= m.start)
  BY <1>1, <1>5, <1>6, <1>8, SameHeld DEF WriteInv, Behaves
<1>9. CASE last <= m.start
  <2>1. ASSUME Behaves'
        PROVE  Holds(heap', redacted') /\ Intact(heap', last')
    <3>1. NoByteShared \/ (~ahead /\ ~Outruns(Len(redacted'), last'))
      BY <1>1, <1>5, <2>1, SameHeld DEF Behaves
    <3>2. Holds(heap, redacted) /\ Intact(heap, last)
      BY <1>1, <3>1 DEF WriteInv, Behaves
    <3>3. /\ heap.mem \in Seq(Int) /\ Len(heap.mem) = Len(layout.mem)
          /\ redacted \in Seq(Int) /\ Len(redacted) \in Nat
      BY <1>1, <3>2, HeldTypes
    <3>4. last \in Nat /\ m.start \in Nat /\ m.end \in Nat /\ m.start <= TextLen /\ m.end <= TextLen /\ m.start <= m.end
      BY <1>2, <1>3
    <3>5. Between(SrcOf(heap), last, m.start) = b /\ b \in Memory /\ Len(b) = m.start - last
      BY <1>1, <1>9, <3>2, <3>3, <3>4, WhatIsRead
    <3>6. copied = Appended(heap, b)
      BY <3>5
    <3> HIDE DEF copied, b, s
    <3>7. NoByteShared \/ ~Outruns(Len(redacted \o b), m.start)
      <4>a. redacted \in Seq(Int) /\ b \in Seq(Int)
        BY <3>3, <3>5 DEF Memory
      <4>b. Len(redacted \o b) = Len(redacted) + Len(b)
        BY <4>a, ConcatProperties
      <4>1. Len(redacted \o b) = Len(redacted) + (m.start - last)
        BY <3>5, <4>b
      <4>2. NoByteShared \/ ~Outruns(Len(redacted), last)
        BY <1>1, <3>1 DEF WriteInv
      <4> QED BY <1>1, <1>9, <3>3, <3>4, <4>1, <4>2, LayoutFacts, SMTT(30) DEF Outruns
    <3>8. Holds(copied, redacted \o b) /\ Intact(copied, m.start)
      BY <1>1, <1>9, <3>2, <3>4, <3>5, <3>6, <3>7, AppendStep
    <3>9. /\ copied.mem \in Seq(Int) /\ Len(copied.mem) = Len(layout.mem)
      BY <1>1, <3>8, HeldTypes
    <3>10. Between(SrcOf(copied), m.start, m.end) = Between(Original, m.start, m.end)
      BY <1>1, <3>4, <3>8, <3>9, WhatIsRead
    <3>11. heap' = Appended(copied, s)
      BY <1>7, <1>9, <3>10 DEF s
    <3>12. redacted' = (redacted \o b) \o s
      <4>1. b \in Seq(Int) /\ s \in Seq(Int)
        BY <1>4, <3>5 DEF Memory
      <4>2. (redacted \o b) \o s = redacted \o (b \o s)
        BY <3>3, <4>1, ConcatAssociative
      <4> QED BY <1>7, <1>9, <4>2
    <3>13. NoByteShared \/ ~Outruns(Len((redacted \o b) \o s), m.end)
      BY <1>7, <1>9, <3>1, <3>12
    <3>14. Holds(Appended(copied, s), (redacted \o b) \o s) /\ Intact(Appended(copied, s), m.end)
      BY <1>1, <1>4, <3>4, <3>8, <3>13, AppendStep
    <3> QED BY <1>7, <1>9, <3>11, <3>12, <3>14
  <2>2. ahead' \in BOOLEAN /\ (~ahead' => ~Outruns(Len(redacted'), last'))
    BY <1>1, <1>5 DEF Outruns
  <2> QED BY <1>1, <1>7, <1>9, <2>1, <2>2, SameHeld DEF WriteInv
<1> QED BY <1>8, <1>9

LEMMA CopyRestBytesWriteInv == IInv /\ WriteInv /\ CopyRestBytes => WriteInv'
<1> SUFFICES ASSUME IInv, WriteInv, CopyRestBytes PROVE WriteInv'
  OBVIOUS
<1> DEFINE b == Between(Original, last, TextLen)
<1>1. /\ layout' = layout /\ layout \in Layouts /\ pc = "write" /\ pc' = "done"
      /\ ahead' = ahead /\ ahead \in BOOLEAN
      /\ heap' = Appended(heap, Between(SrcOf(heap), last, TextLen))
      /\ redacted' = redacted \o b
  BY DEF CopyRestBytes, CopyRest, WriteInv
<1>2. last \in Nat /\ TextLen \in Nat /\ last <= TextLen
  BY ListsAssumption DEF IInv, TypeOK
<1>3. ASSUME Behaves' PROVE Holds(heap', redacted')
  <2>1. Behaves
    BY <1>1, <1>3, SameHeld DEF Behaves
  <2>2. Holds(heap, redacted) /\ Intact(heap, last)
    BY <1>1, <2>1 DEF WriteInv
  <2>3. /\ heap.mem \in Seq(Int) /\ Len(heap.mem) = Len(layout.mem)
        /\ redacted \in Seq(Int) /\ Len(redacted) \in Nat
    BY <1>1, <2>2, HeldTypes
  <2>4. Between(SrcOf(heap), last, TextLen) = b /\ b \in Memory /\ Len(b) = TextLen - last
    BY <1>1, <1>2, <2>2, <2>3, WhatIsRead
  <2> HIDE DEF b
  <2>5. NoByteShared \/ ~Outruns(Len(redacted \o b), TextLen)
    <3>a. redacted \in Seq(Int) /\ b \in Seq(Int)
      BY <2>3, <2>4 DEF Memory
    <3>b. Len(redacted \o b) = Len(redacted) + Len(b)
      BY <3>a, ConcatProperties
    <3>1. Len(redacted \o b) = Len(redacted) + (TextLen - last)
      BY <2>4, <3>b
    <3>2. NoByteShared \/ ~Outruns(Len(redacted), last)
      BY <1>1, <2>1 DEF WriteInv, Behaves
    <3> QED BY <1>1, <1>2, <2>3, <3>1, <3>2, LayoutFacts DEF Outruns
  <2>6. Holds(Appended(heap, b), redacted \o b)
    BY <1>1, <1>2, <2>2, <2>4, <2>5, AppendStep
  <2> QED BY <1>1, <2>4, <2>6
<1> QED BY <1>1, <1>3, SameHeld DEF WriteInv

LEMMA BytesNextWriteInv == IInv /\ WriteInv /\ [BytesNext]_bytesVars => WriteInv'
<1> SUFFICES ASSUME IInv, WriteInv, [BytesNext]_bytesVars PROVE WriteInv'
  OBVIOUS
<1>1. CASE Resolving \/ BytesTerminated \/ UNCHANGED bytesVars
  <2>1. UNCHANGED <<layout, heap, redacted, ahead, last>> /\ (pc' = "done" <=> pc = "done")
    BY <1>1 DEF Resolving, NothingToResolve, Sort, Drop, Keep, Resolved, BytesTerminated, Terminated,
                bytesVars, vars
  <2> QED BY <2>1, SameHeld DEF WriteInv, Behaves
<1> QED BY <1>1, ReplaceBytesWriteInv, CopyRestBytesWriteInv DEF BytesNext

\* RedactBytes appends to dst what Redact returns: wherever dst lies with no
\* byte of its room in src, and over src as long as writing does not get ahead
\* of reading.
THEOREM BytesAreRedacts == BytesSpec => []AppendsWhatRedactReturns
<1>1. WriteInv => AppendsWhatRedactReturns
  BY DEF WriteInv, Behaves, Holds, AppendsWhatRedactReturns
<1>2. BytesSpec => []IInv
  BY BytesFollowRedact, Sweeping
<1> QED BY <1>1, <1>2, BytesInitWriteInv, BytesNextWriteInv, PTL DEF BytesSpec
=============================================================================
