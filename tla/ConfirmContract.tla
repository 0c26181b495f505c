-------------------------- MODULE ConfirmContract --------------------------
(***************************************************************************)
(* Confirm under the contract rule.go and window.go state for a rule: its  *)
(* matches contain an anchor, the derived window really bounds them, and a *)
(* match depends on no more than the bytes next to it.  Under that contract*)
(* the windows and the prefilter change nothing: Confirm implements        *)
(* FullSearch.                                                             *)
(***************************************************************************)
EXTENDS Confirm

CONSTANTS
  Candidates(_,_,_,_),  \* the match, if any, at each start inside a slice
  Context               \* how far around a match a pattern can look

Whole(r, t) == Candidates(r, t, 0, Length(t))

\* FindAllSubmatchIndex takes the leftmost match, then the leftmost one that
\* starts at or after its end, and so on; but no empty match right behind the
\* one before it.
Follows(m, k) == k.wholeEnd <= m.whole /\ k.wholeEnd < m.wholeEnd

ASSUME GreedyAssumption ==
  \A r \in Rules, t \in Inputs : \A lo \in 0 .. Length(t) : \A hi \in lo .. Length(t) :
    /\ Candidates(r, t, lo, hi) \subseteq Match
    /\ \A m \in Candidates(r, t, lo, hi) :
         /\ lo <= m.whole /\ m.whole <= m.wholeEnd /\ m.wholeEnd <= hi
         /\ \A k \in Candidates(r, t, lo, hi) : k.whole = m.whole => k = m
    /\ FindAll(r, t, lo, hi) \subseteq Candidates(r, t, lo, hi)
    /\ \A m \in Candidates(r, t, lo, hi) :
         m \in FindAll(r, t, lo, hi) <=>
           \A k \in FindAll(r, t, lo, hi) : k.whole < m.whole => Follows(m, k)

\* rule.go: every match of Pattern contains at least one of the anchors, so a
\* rule the scan did not wake has none.  (The scan records where the anchors
\* of a windowed rule are.)
ASSUME AnchorAssumption ==
  \A t \in Inputs :
    /\ \A r \in Rules \ Active(t) : Whole(r, t) = {}
    /\ \A r \in Windowed : \A lo \in 0 .. Length(t) : \A hi \in lo .. Length(t) :
         \A m \in Candidates(r, t, lo, hi) : \E i \in 1 .. Len(Hits(t)) :
           /\ Hits(t)[i].rule = r
           /\ m.whole <= Hits(t)[i].start /\ Hits(t)[i].end <= m.wholeEnd

\* No anchor is so long that its slice would end before it starts.  Neither
\* Build nor the contract in rule.go sees to that (MCConfirmSlices shows what
\* happens otherwise), so it is a hypothesis of the theorems that need it.
AnchorsFit ==
  \A t \in Inputs : \A i \in 1 .. Len(Hits(t)) :
    Hits(t)[i].rule \in Windowed =>
      Hits(t)[i].end - Hits(t)[i].start <= 2 * (Window[Hits(t)[i].rule] + EdgeGuard)

\* window.go: no match is longer than the window.
ASSUME WindowAssumption ==
  \A r \in Windowed, t \in Inputs : \A lo \in 0 .. Length(t) : \A hi \in lo .. Length(t) :
    \A m \in Candidates(r, t, lo, hi) : m.wholeEnd - m.whole <= Window[r]

\* The match a bounded pattern has at a position is decided by the bytes it
\* can consume and by Context bytes on either side (word boundaries, line
\* anchors, the decoding of a rune); a slice that holds them decides the same.
ASSUME LocalityAssumption ==
  /\ Context \in Nat \ {0}
  /\ Context <= EdgeGuard
  /\ \A r \in Windowed, t \in Inputs : \A lo \in 0 .. Length(t) : \A hi \in lo .. Length(t) : \A p \in lo .. hi :
       (lo = 0 \/ lo + Context <= p) /\ (hi = Length(t) \/ p + Window[r] + Context <= hi)
       => {m \in Candidates(r, t, lo, hi) : m.whole = p} = {m \in Whole(r, t) : m.whole = p}

Secrets(r, t) == SpansOf(matchesIn(r, t, 0, Length(t), -1))
Outstanding == IF pc \in {"merge", "search", "whole"} THEN pending \cup {idx} ELSE pending

Abstract == INSTANCE FullSearch WITH
  Relevant <- Active, Capped <- MaxMatches # -1,
  pending <- Outstanding, done <- pc = "done"

-----------------------------------------------------------------------------
\* windowedMatches is an optimisation: searched around its anchors, each rule
\* reports what a search of the whole input would have reported.
ImplementsFullSearch == Abstract!Spec

\* The comment on edgeGuard: "No real match can reach this far".  No secret of
\* a rule that keeps its contract is ever seen at the edge of a window.
NeverAtEdge ==
  pc = "search" =>
    \A i \in 1 .. Len(ranges) :
      \A m \in matchesIn(idx, text, ranges[i][1], ranges[i][2], Limit) :
        ~AtEdge(text, m, ranges[i][1], ranges[i][2])

\* WithMaxMatches (option.go): "caps how many matches a single rule redacts
\* per call".
CapIsPerCall ==
  MaxMatches # -1 =>
    \A r \in Rules : Cardinality({f \in found : f.rule = r}) <= MaxMatches

\* fuzz_test.go: Contains answers yes exactly when Find reports something.
ContainsAgreesWithFind ==
  pc = "done" /\ op = "contains" => (found # {} <=> Abstract!Answer # {})
=============================================================================
