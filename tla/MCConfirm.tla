----------------------------- MODULE MCConfirm -----------------------------
(***************************************************************************)
(* A small regexp package and small rule sets for TLC.                     *)
(*                                                                         *)
(* A text is a sequence of bytes: "a" and "b" are letters anchors are made *)
(* of, "d" is another word byte and "-" is not a word byte.  A pattern is a*)
(* list of alternatives, tried in order at a position as a leftmost-first  *)
(* search does, each a sequence of byte classes.  boundary asks for a word *)
(* boundary on either side; group, if not <<>>, names for each alternative *)
(* the class that is the group (0: the group does not participate).        *)
(***************************************************************************)
EXTENDS Confirm, SequencesExt

CONSTANTS Blocks, BlockCount, Patterns

Texts == {FlattenSeq(s) : s \in [1 .. BlockCount -> Blocks]}
TextLength(t) == Len(t)

D == {"d"}
A == {"a"}
B == {"b"}
Sep == {"-"}

Pattern(alts, boundary, group, anchors, window, rejected) ==
  [alts |-> alts, boundary |-> boundary, group |-> group, anchors |-> anchors,
   window |-> window, rejected |-> rejected]


\* \bad?\b
WordPattern == Pattern(<< <<A, D>>, <<A>> >>, TRUE, <<>>, {<<"a">>}, 2, {})
\* aa|da, where Validate refuses aa
PairPattern == Pattern(<< <<A, A>>, <<D, A>> >>, FALSE, <<>>, {<<"a">>}, 2, {<<"a", "a">>})
\* (?P<g>d)?b
GroupPattern == Pattern(<< <<D, B>>, <<B>> >>, FALSE, <<1, 0>>, {<<"b">>}, 2, {})
\* dbd|b with both spelled out as anchors, so hits differ in length
LongPattern == Pattern(<< <<D, B, D>>, <<B>> >>, FALSE, <<>>, {<<"b">>, <<"d", "b", "d">>}, 3, {})
\* ad{0,3} with its window derived too small
CrampedPattern ==
  Pattern(<< <<A, D, D, D>>, <<A, D, D>>, <<A, D>>, <<A>> >>, FALSE, <<>>, {<<"a">>}, 1, {})
\* b, with one more anchor, longer than the window, that no match needs
LongAnchorPattern ==
  Pattern(<< <<B>> >>, FALSE, <<>>, {<<"b">>, <<"d", "d", "-", "d", "d">>}, 1, {})
\* a-|d-, unbounded as far as the builder knows and without anchors
LoosePattern == Pattern(<< <<A, Sep>>, <<D, Sep>> >>, FALSE, <<>>, {}, 0, {})

\* (a-|d-)?, which also matches nothing, anywhere
OptionalPattern == Pattern(<< <<A, Sep>>, <<D, Sep>>, <<>> >>, FALSE, <<>>, {}, 0, {})

LocalPatterns == <<WordPattern, PairPattern, GroupPattern, LongPattern, OptionalPattern>>
CrampedPatterns == <<CrampedPattern, GroupPattern, LongAnchorPattern, LoosePattern>>
LongAnchorPatterns == <<LongAnchorPattern, LoosePattern>>
PairPatterns == <<PairPattern, LoosePattern>>
WordPatterns == <<WordPattern, LoosePattern>>

LocalBlocks == {<<"-", "-", "-">>, <<"a", "d", "-">>, <<"d", "a", "a">>, <<"b", "d", "b">>, <<"-", "d", "b">>}
CrampedBlocks == {<<"d", "d", "-">>, <<"-", "-", "-">>, <<"a", "-", "-">>, <<"a", "d", "d">>, <<"-", "d", "b">>}
RefusedBlocks == {<<"a", "a">>, <<"d", "a">>, <<"-", "-">>}

NoCap == -1

P(r) == Patterns[r + 1]
MCRules == 0 .. Len(Patterns) - 1
MCWindowed == {r \in MCRules : P(r).anchors # {} /\ P(r).window > 0}
MCWindow == [r \in MCWindowed |-> P(r).window]
-----------------------------------------------------------------------------
\* The prefilter: occurrences of anchors by end, longer ones first.
Occurrences(t) ==
  {[rule |-> r, start |-> p[1], end |-> p[2]] : r \in MCRules,
     p \in {q \in (0 .. Len(t)) \X (0 .. Len(t)) : q[1] < q[2]}}

Anchored(t) ==
  {o \in Occurrences(t) : SubSeq(t, o.start + 1, o.end) \in P(o.rule).anchors}

MCActive(t) == {o.rule : o \in Anchored(t)} \cup {r \in MCRules : P(r).anchors = {}}

Before(o, q) ==
  \/ o.end < q.end
  \/ o.end = q.end /\ o.start < q.start
  \/ o.end = q.end /\ o.start = q.start /\ o.rule < q.rule

InOrder(S) == [i \in 1 .. Cardinality(S) |->
  CHOOSE o \in S : Cardinality({q \in S : Before(q, o)}) = i - 1]

HitTable == [t \in Texts |-> InOrder({o \in Anchored(t) : o.rule \in MCWindowed})]
MCHits(t) == HitTable[t]
-----------------------------------------------------------------------------
\* The regexp package on the slice [lo, hi).
Fits(alt, t, p, hi) == p + Len(alt) <= hi /\ \A i \in 1 .. Len(alt) : t[p + i] \in alt[i]

Boundary(t, lo, hi, p) ==
  (p > lo /\ t[p] # "-") # (p < hi /\ t[p + 1] # "-")

Matching(r, t, lo, hi, p) ==
  {k \in 1 .. Len(P(r).alts) :
     /\ Fits(P(r).alts[k], t, p, hi)
     /\ P(r).boundary => /\ Boundary(t, lo, hi, p)
                         /\ Boundary(t, lo, hi, p + Len(P(r).alts[k]))}

MatchAt(r, p, k) ==
  LET end == p + Len(P(r).alts[k])
      g == IF P(r).group = <<>> THEN 0 ELSE P(r).group[k]
  IN  CASE P(r).group = <<>> -> [whole |-> p, wholeEnd |-> end, start |-> p, end |-> end]
        [] P(r).group # <<>> /\ g = 0 -> [whole |-> p, wholeEnd |-> end, start |-> -1, end |-> -1]
        [] OTHER -> [whole |-> p, wholeEnd |-> end, start |-> p + g - 1, end |-> p + g]

Slices(t) == UNION {{<<lo, hi>> : hi \in lo .. Len(t)} : lo \in 0 .. Len(t)}

CandidateTable == [t \in Texts |-> [r \in MCRules |-> [s \in Slices(t) |->
  {MatchAt(r, p, Min(Matching(r, t, s[1], s[2], p))) :
     p \in {q \in s[1] .. s[2] : Matching(r, t, s[1], s[2], q) # {}}}]]]
MCCandidates(r, t, lo, hi) == CandidateTable[t][r][<<lo, hi>>]

\* The leftmost match from p on, and so on; behind says that one has just ended
\* at p, so that an empty match there is passed over.
Selected(matches, lo, hi) ==
  LET from[p \in lo .. hi + 1, behind \in BOOLEAN] ==
        LET ahead == {m \in matches :
                        m.whole > p \/ (m.whole = p /\ (behind => m.wholeEnd > p))}
        IN  IF ahead = {} THEN {}
            ELSE LET m == CHOOSE m \in ahead : \A k \in ahead : m.whole <= k.whole
                 IN  {m} \cup IF m.whole < m.wholeEnd THEN from[m.wholeEnd, TRUE]
                              ELSE from[m.whole + 1, FALSE]
  IN  from[lo, FALSE]

FindAllTable == [t \in Texts |-> [r \in MCRules |-> [s \in Slices(t) |->
  Selected(CandidateTable[t][r][s], s[1], s[2])]]]
MCFindAll(r, t, lo, hi) == FindAllTable[t][r][<<lo, hi>>]

MCValid(r, t, start, end) == SubSeq(t, start + 1, end) \notin P(r).rejected
=============================================================================
