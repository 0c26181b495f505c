------------------------------ MODULE Confirm ------------------------------
(***************************************************************************)
(* Confirming the rules a scan woke: eachMatch, windowedMatches and        *)
(* matchesIn of scrubber.go, for one call of Find or Redact ("collect") or *)
(* of Contains ("contains").                                               *)
(*                                                                         *)
(* A rule with a bounded pattern is searched only in windows around its    *)
(* anchor hits; any other active rule, and a bounded one whose windows are *)
(* no saving or show a match at an edge, is searched over the whole input. *)
(* Positions are byte offsets, spans are half open, as in the code.        *)
(*                                                                         *)
(* The regexp package is a parameter: FindAll(r, t, lo, hi) is the set of  *)
(* matches FindAllSubmatchIndex(t[lo:hi], -1) returns for rule r, moved to *)
(* coordinates of t.  A match is a record: the whole span, and the span of *)
(* the rule's group (start = -1 when the group did not participate).       *)
(***************************************************************************)
EXTENDS Integers, Sequences, FiniteSets

CONSTANTS
  Inputs,            \* the texts a call may be given
  Length(_),         \* their lengths in bytes
  Rules,             \* rule indices, ordered as they were added
  Windowed,          \* the rules of the windowed bitmap
  Active(_),         \* the rules the scan of a text leaves in st.rules
  Hits(_),           \* st.hits after that scan, in the order of the scan
  FindAll(_,_,_,_),  \* the regexp package, see above
  Valid(_,_,_,_),    \* rule.validate on text(start, end); TRUE if it is nil
  Window,            \* per windowed rule, the derived bound on a match
  EdgeGuard,         \* 32 in the code
  MaxMatches         \* s.maxMatches: -1 for no cap, else positive

Match == [whole : Nat, wholeEnd : Nat, start : Nat \cup {-1}, end : Nat \cup {-1}]
Hit == [rule : Rules, start : Nat, end : Nat]

ASSUME RulesAssumption ==
  /\ Rules \subseteq Nat
  /\ Windowed \subseteq Rules
  /\ Window \in [Windowed -> Nat \ {0}]
  /\ EdgeGuard \in Nat
  /\ MaxMatches \in {-1} \cup (Nat \ {0})

ASSUME ScanAssumption ==
  \A t \in Inputs :
    /\ Length(t) \in Nat
    /\ Active(t) \subseteq Rules
    /\ Hits(t) \in Seq(Hit)
    /\ \A i \in 1 .. Len(Hits(t)) :
         Hits(t)[i].start < Hits(t)[i].end /\ Hits(t)[i].end <= Length(t)
    /\ \A i, j \in 1 .. Len(Hits(t)) : i <= j => Hits(t)[i].end <= Hits(t)[j].end

ASSUME RegexpAssumption ==
  \A r \in Rules, t \in Inputs : \A lo \in 0 .. Length(t) : \A hi \in lo .. Length(t) :
    FindAll(r, t, lo, hi) \subseteq Match

VARIABLES
  text,     \* the input of the call
  op,       \* "collect" or "contains"
  pc,       \* "pick", "merge", "search", "whole", "done" or "panic"
  pending,  \* the rules forEachRule has still to hand out
  idx,      \* the rule being confirmed
  h,        \* how many of the hits windowedMatches has looked at
  ranges,   \* st.ranges: the merged windows, as pairs <<lo, hi>>
  covered,  \* the running total of their lengths
  w,        \* the window to be searched next
  spans,    \* st.spans, as a set of pairs <<start, end>>
  found     \* what visit was called with

vars == <<text, op, pc, pending, idx, h, ranges, covered, w, spans, found>>

maxInt(a, b) == IF a > b THEN a ELSE b
minInt(a, b) == IF a < b THEN a ELSE b

(***************************************************************************)
(* The slice of the input a match around the hit may need: the match ends  *)
(* no earlier than the hit and starts no later, and is at most Window long.*)
(***************************************************************************)
LoUnclipped(r, hit) == hit.end - Window[r] - EdgeGuard
Lo(r, hit) == maxInt(0, hit.end - Window[r] - EdgeGuard)

HiUnguarded(r, t, hit) == minInt(Length(t), hit.start + Window[r])
Hi(r, t, hit) == minInt(Length(t), hit.start + Window[r] + EdgeGuard)

(***************************************************************************)
(* matchesIn: the regexp returns its first limit matches (all of them if   *)
(* limit < 0), and only then are those dropped that are no secret.         *)
(***************************************************************************)
Limited(ms, limit) ==
  IF limit < 0
  THEN ms
  ELSE {m \in ms : Cardinality({k \in ms : k.whole < m.whole}) < limit}

IsSecret(r, t, m) == m.start >= 0 /\ m.start < m.end /\ Valid(r, t, m.start, m.end)

matchesIn(r, t, lo, hi, limit) ==
  {m \in Limited(FindAll(r, t, lo, hi), limit) : IsSecret(r, t, m)}

AtEdge(t, m, lo, hi) ==
  (m.whole = lo /\ lo > 0) \/ (m.wholeEnd = hi /\ hi < Length(t))

Span(m) == <<m.start, m.end>>
SpansOf(ms) == {Span(m) : m \in ms}

(***************************************************************************)
(* collect and containsAny: the limit they pass, and what visit keeps of   *)
(* the spans it is offered (containsAny stops at the first one).           *)
(***************************************************************************)
Limit == IF op = "contains" THEN 1 ELSE MaxMatches
Stopped == op = "contains" /\ found # {}

Visited(ss) ==
  IF op = "contains"
  THEN {s \in ss : \A x \in ss : s[1] <= x[1]}
  ELSE ss

Visit(ss) ==
  found' = found \cup {[rule |-> idx, start |-> s[1], end |-> s[2]] : s \in Visited(ss)}
-----------------------------------------------------------------------------
Init ==
  /\ text \in Inputs
  /\ op \in {"collect", "contains"}
  /\ pc = "pick"
  /\ pending = Active(text)
  /\ idx = 0
  /\ h = 0
  /\ ranges = <<>>
  /\ covered = 0
  /\ w = 1
  /\ spans = {}
  /\ found = {}

StillPending(r) == pending
Without(r) == pending \ {r}

(***************************************************************************)
(* forEachRule hands out the active rules in ascending order.  A windowed  *)
(* rule starts windowedMatches with st.ranges emptied (st.spans is not).   *)
(***************************************************************************)
PickRule ==
  /\ pc = "pick" /\ ~Stopped
  /\ \E r \in pending :
       /\ \A q \in pending : r <= q
       /\ idx' = r
       /\ pending' = Without(r)
       /\ IF r \in Windowed
          THEN pc' = "merge" /\ h' = 0 /\ ranges' = <<>> /\ covered' = 0
          ELSE pc' = "whole" /\ UNCHANGED <<h, ranges, covered>>
  /\ UNCHANGED <<text, op, w, spans, found>>

Finish ==
  /\ pc = "pick" /\ (Stopped \/ pending = {})
  /\ pc' = "done"
  /\ UNCHANGED <<text, op, pending, idx, h, ranges, covered, w, spans, found>>

NextHit == Hits(text)[h + 1]

Overlaps(hit) == ranges # <<>> /\ Lo(idx, hit) < ranges[Len(ranges)][2]
Touches(hit) == ranges # <<>> /\ Lo(idx, hit) <= ranges[Len(ranges)][2]

\* Hits come in order of their ends: the slice of a longer, later one may end
\* before the slice of a shorter, earlier one.
OwnHi(last, hit) == Hi(idx, text, hit)
NewHi(last, hit) == maxInt(last[2], Hi(idx, text, hit))

WholeLength(last, hi) == hi - last[1]
Gained(last, hi) == hi - last[2]

SkipHit ==
  /\ pc = "merge" /\ h < Len(Hits(text))
  /\ NextHit.rule # idx
  /\ h' = h + 1
  /\ UNCHANGED <<text, op, pc, pending, idx, ranges, covered, w, spans, found>>

ExtendRange ==
  /\ pc = "merge" /\ h < Len(Hits(text))
  /\ NextHit.rule = idx /\ Touches(NextHit)
  /\ LET last == ranges[Len(ranges)]
         hi == NewHi(last, NextHit)
     IN  /\ ranges' = [ranges EXCEPT ![Len(ranges)] = <<last[1], hi>>]
         /\ covered' = covered + Gained(last, hi)
  /\ h' = h + 1
  /\ UNCHANGED <<text, op, pc, pending, idx, w, spans, found>>

NewRange ==
  /\ pc = "merge" /\ h < Len(Hits(text))
  /\ NextHit.rule = idx /\ ~Touches(NextHit)
  /\ LET lo == Lo(idx, NextHit)
         hi == Hi(idx, text, NextHit)
     IN  /\ ranges' = Append(ranges, <<lo, hi>>)
         /\ covered' = covered + (hi - lo)
  /\ h' = h + 1
  /\ UNCHANGED <<text, op, pc, pending, idx, w, spans, found>>

NoSaving == ranges = <<>> \/ covered >= Length(text)

AbandonWindows ==
  /\ pc = "merge" /\ h = Len(Hits(text)) /\ NoSaving
  /\ pc' = "whole"
  /\ UNCHANGED <<text, op, pending, idx, h, ranges, covered, w, spans, found>>

KeptSpans == spans
FreshSpans == {}

StartSearch ==
  /\ pc = "merge" /\ h = Len(Hits(text)) /\ ~NoSaving
  /\ pc' = "search"
  /\ spans' = FreshSpans
  /\ w' = 1
  /\ UNCHANGED <<text, op, pending, idx, h, ranges, covered, found>>

InWindow(i) == matchesIn(idx, text, ranges[i][1], ranges[i][2], Limit)
EdgeMatches(i) == {m \in InWindow(i) : AtEdge(text, m, ranges[i][1], ranges[i][2])}

\* Slicing s[lo:hi] with lo > hi ends the call with a run-time panic.
OutOfRange ==
  /\ pc = "search" /\ w <= Len(ranges)
  /\ ranges[w][1] > ranges[w][2]
  /\ pc' = "panic"
  /\ UNCHANGED <<text, op, pending, idx, h, ranges, covered, w, spans, found>>

SearchWindow ==
  /\ pc = "search" /\ w <= Len(ranges) /\ ranges[w][1] <= ranges[w][2]
  /\ EdgeMatches(w) = {}
  /\ spans' = spans \cup SpansOf(InWindow(w))
  /\ w' = w + 1
  /\ UNCHANGED <<text, op, pc, pending, idx, h, ranges, covered, found>>

PassEdge ==
  /\ pc = "search" /\ w <= Len(ranges) /\ ranges[w][1] <= ranges[w][2]
  /\ EdgeMatches(w) # {}
  /\ w' = w + 1
  /\ UNCHANGED <<text, op, pc, pending, idx, h, ranges, covered, spans, found>>

(***************************************************************************)
(* The first secret at a synthetic edge ends the search: the spans of the  *)
(* ones before it are in st.spans already, and the rule is run again over  *)
(* the whole input.                                                        *)
(***************************************************************************)
ReachEdge ==
  /\ pc = "search" /\ w <= Len(ranges) /\ ranges[w][1] <= ranges[w][2]
  /\ EdgeMatches(w) # {}
  /\ spans' = spans \cup SpansOf({m \in InWindow(w) :
                                  \A k \in EdgeMatches(w) : m.whole < k.whole})
  /\ pc' = "whole"
  /\ UNCHANGED <<text, op, pending, idx, h, ranges, covered, w, found>>

ReportWindows ==
  /\ pc = "search" /\ w > Len(ranges)
  /\ Visit(spans)
  /\ pc' = "pick"
  /\ UNCHANGED <<text, op, pending, idx, h, ranges, covered, w, spans>>

SearchWhole ==
  /\ pc = "whole"
  /\ Visit(SpansOf(matchesIn(idx, text, 0, Length(text), Limit)))
  /\ pc' = "pick"
  /\ UNCHANGED <<text, op, pending, idx, h, ranges, covered, w, spans>>

Terminated == pc \in {"done", "panic"} /\ UNCHANGED vars

Next ==
  \/ PickRule \/ Finish
  \/ SkipHit \/ ExtendRange \/ NewRange \/ AbandonWindows
  \/ StartSearch \/ OutOfRange \/ SearchWindow \/ ReachEdge \/ ReportWindows
  \/ SearchWhole
  \/ Terminated

Spec == Init /\ [][Next]_vars

\* The loops are bounded and nothing blocks, so a call keeps taking steps.
FairSpec == Spec /\ WF_vars(Next)
-----------------------------------------------------------------------------
\* The state variables have the types of their Go counterparts.
TypeOK ==
  /\ text \in Inputs
  /\ op \in {"collect", "contains"}
  /\ pc \in {"pick", "merge", "search", "whole", "done", "panic"}
  /\ pending \subseteq Active(text)
  /\ idx \in Nat
  /\ pc \in {"merge", "search"} => idx \in Windowed
  /\ pc \in {"merge", "search", "whole"} => idx \in Active(text) \ pending
  /\ h \in 0 .. Len(Hits(text))
  /\ ranges \in Seq(Nat \X Nat)
  /\ covered \in Int
  /\ w \in Nat \ {0}
  /\ spans \subseteq (Nat \cup {-1}) \X (Nat \cup {-1})
  /\ found \subseteq [rule : Rules, start : Nat \cup {-1}, end : Nat \cup {-1}]

Merging == pc \in {"merge", "search"}

\* The merged windows are slices of the input, in ascending order and
\* never touch: no byte is searched twice by one rule, and no match of the
\* whole input can lie in two windows.
WindowsSeparate ==
  Merging =>
    /\ \A i \in 1 .. Len(ranges) :
         0 <= ranges[i][1] /\ ranges[i][1] <= ranges[i][2] /\ ranges[i][2] <= Length(text)
    /\ \A i, j \in 1 .. Len(ranges) : i < j => ranges[i][2] < ranges[j][1]

\* Every hit of the rule seen so far keeps its full slice in one window, also
\* after merges with hits of other lengths.
WindowsHoldHits ==
  Merging =>
    \A i \in 1 .. h : Hits(text)[i].rule = idx =>
      \E k \in 1 .. Len(ranges) :
        /\ ranges[k][1] <= Lo(idx, Hits(text)[i])
        /\ Hi(idx, text, Hits(text)[i]) <= ranges[k][2]

\* covered, which decides between one pass and the windows, is the number of
\* bytes the windows hold between them: the merge never counts a byte twice.
CoveredIsExact ==
  Merging =>
    covered = Cardinality({p \in 0 .. Length(text) :
                 \E i \in 1 .. Len(ranges) : ranges[i][1] <= p /\ p < ranges[i][2]})

\* Once a windowed rule has reported, its report is all of its windows or all
\* of the whole input, never a mixture: spans collected before a match was seen
\* at an edge, and spans of the rule before it, are not reported.
FoundBy(r) == {<<f.start, f.end>> : f \in {f \in found : f.rule = r}}
EdgeSeen == \E i \in 1 .. Len(ranges) : EdgeMatches(i) # {}

AllOrNothing ==
  op = "collect" /\ pc = "pick" /\ idx \in Windowed /\ idx \in Active(text) \ pending =>
    FoundBy(idx) =
      SpansOf(IF NoSaving \/ EdgeSeen
              THEN matchesIn(idx, text, 0, Length(text), Limit)
              ELSE UNION {InWindow(i) : i \in 1 .. Len(ranges)})

\* README.md: confirming near the anchor changes nothing else, "Redact returns
\* the same bytes either way"; in particular it returns.
SlicesAreLegal == pc # "panic"

\* A rule may go from its windows back to the whole input, and does so once:
\* every call returns.
Terminates == <>(pc \in {"done", "panic"})
=============================================================================
