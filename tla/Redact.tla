------------------------------ MODULE Redact ------------------------------
(***************************************************************************)
(* What Find, Redact and RedactBytes do with the matches collect gathered: *)
(* resolve of scrubber.go, which drops the overlaps, and the loop that     *)
(* writes the text with the matches replaced.                              *)
(*                                                                         *)
(* The output is a sequence of chunks: a copied slice of the input, or the *)
(* replacement of a match.  RedactBytes appends the same chunks to dst     *)
(* that Redact writes to its builder.                                      *)
(***************************************************************************)
EXTENDS Integers, Sequences

CONSTANTS
  Lists,     \* what collect may have gathered, in the order it did
  TextLen    \* the length of the input

Match == [rule : Nat, start : 0 .. TextLen, end : 0 .. TextLen]

ASSUME ListsAssumption ==
  /\ TextLen \in Nat
  /\ Lists \subseteq Seq(Match)
  /\ \A l \in Lists : \A i \in 1 .. Len(l) : l[i].start < l[i].end
  /\ \A l \in Lists : \A i, j \in 1 .. Len(l) : l[i] = l[j] => i = j

VARIABLES
  given,    \* the matches as collected (the code keeps no copy of them)
  matches,  \* the slice resolve sorts and then compacts in place
  pc,       \* "sort", "sweep", "write", "done" or "panic"
  read,     \* how many matches the sweep has looked at
  kept,     \* how many it kept, at the front of the slice
  end,      \* where the last one kept ends
  written,  \* how many matches have been replaced
  last,     \* how much of the input has been written
  out       \* the output

vars == <<given, matches, pc, read, kept, end, written, last, out>>

Copied(from, to) == [rule |-> -1, start |-> from, end |-> to]

(***************************************************************************)
(* The order of the matches; sort.Slice, which is not stable, may leave    *)
(* any sequence of them that is in order.                                  *)
(***************************************************************************)
ShortestFirst(a, b) ==
  \/ a.start < b.start
  \/ a.start = b.start /\ a.end < b.end
  \/ a.start = b.start /\ a.end = b.end /\ a.rule < b.rule

Less(a, b) ==
  \/ a.start < b.start
  \/ a.start = b.start /\ a.end > b.end
  \/ a.start = b.start /\ a.end = b.end /\ a.rule < b.rule

Onto(S) == {p \in [S -> S] : \A w \in S : \E v \in S : p[v] = w}
Orders(l) == {[i \in 1 .. Len(l) |-> l[p[i]]] : p \in Onto(1 .. Len(l))}
Sorted(l) == {s \in Orders(l) : \A i, j \in 1 .. Len(l) : i < j => ~Less(s[j], s[i])}

Init ==
  /\ given \in Lists
  /\ matches = given
  /\ pc = "sort"
  /\ read = 0 /\ kept = 0 /\ end = 0
  /\ written = 0 /\ last = 0
  /\ out = <<>>

NothingToResolve ==
  /\ pc = "sort" /\ Len(matches) < 2
  /\ kept' = Len(matches)
  /\ pc' = "write"
  /\ UNCHANGED <<given, matches, read, end, written, last, out>>

Sort ==
  /\ pc = "sort" /\ Len(matches) >= 2
  /\ matches' \in Sorted(matches)
  /\ pc' = "sweep"
  /\ UNCHANGED <<given, read, kept, end, written, last, out>>

LateStart(m) == m.start < end - 1
Overlaps(m) == m.start < end

Drop ==
  /\ pc = "sweep" /\ read < Len(matches)
  /\ Overlaps(matches[read + 1])
  /\ read' = read + 1
  /\ UNCHANGED <<given, matches, pc, kept, end, written, last, out>>

\* kept shares the array of matches: keeping a match overwrites an element
\* that the sweep has read already.
Keep ==
  /\ pc = "sweep" /\ read < Len(matches)
  /\ ~Overlaps(matches[read + 1])
  /\ matches' = [matches EXCEPT ![kept + 1] = matches[read + 1]]
  /\ kept' = kept + 1
  /\ end' = matches[read + 1].end
  /\ read' = read + 1
  /\ UNCHANGED <<given, pc, written, last, out>>

Resolved ==
  /\ pc = "sweep" /\ read = Len(matches)
  /\ pc' = "write"
  /\ UNCHANGED <<given, matches, read, kept, end, written, last, out>>

FromStart(m) == m.start
AfterEnd(m) == m.end + 1
PastEnd(m) == m.end

\* Slicing text[last:m.Start] with last > m.Start would be a run-time panic.
Replace ==
  /\ pc = "write" /\ written < kept
  /\ LET m == matches[written + 1]
     IN  IF last <= m.start
         THEN /\ out' = out \o <<Copied(last, m.start), m>>
              /\ last' = PastEnd(m)
              /\ written' = written + 1
              /\ UNCHANGED pc
         ELSE pc' = "panic" /\ UNCHANGED <<out, last, written>>
  /\ UNCHANGED <<given, matches, read, kept, end>>

\* Also the early return of a text without matches, unchanged.
CopyRest ==
  /\ pc = "write" /\ written = kept
  /\ out' = Append(out, Copied(last, TextLen))
  /\ pc' = "done"
  /\ UNCHANGED <<given, matches, read, kept, end, written, last>>

Terminated == pc \in {"done", "panic"} /\ UNCHANGED vars

Next ==
  \/ NothingToResolve \/ Sort \/ Drop \/ Keep \/ Resolved
  \/ Replace \/ CopyRest
  \/ Terminated

Spec == Init /\ [][Next]_vars
-----------------------------------------------------------------------------
\* The matches stay spans of the input and the counters within the slice.
TypeOK ==
  /\ given \in Lists
  /\ matches \in Seq(Match) /\ Len(matches) = Len(given)
  /\ pc \in {"sort", "sweep", "write", "done", "panic"}
  /\ read \in 0 .. Len(matches)
  /\ kept \in 0 .. Len(matches)
  /\ written \in 0 .. kept
  /\ end \in 0 .. TextLen
  /\ last \in 0 .. TextLen
  /\ out \in Seq([rule : Nat \cup {-1}, start : 0 .. TextLen, end : 0 .. TextLen])

Given == {given[i] : i \in 1 .. Len(given)}
Kept == {matches[i] : i \in 1 .. kept}

\* The match that starts first wins, then the longer, then the earlier rule.
Beats(a, b) ==
  \/ a.start < b.start
  \/ a.start = b.start /\ (a.end > b.end \/ (a.end = b.end /\ a.rule < b.rule))

\* doc.go: "Overlapping matches resolve leftmost-longest, ties going to the
\* rule added first. A losing match is dropped, not nested."  A match survives
\* exactly if no surviving match before it reaches into it; whatever order
\* collect gathered them in and sort.Slice left equal ones in.
LeftmostLongest ==
  pc \in {"write", "done"} =>
    /\ Kept \subseteq Given
    /\ \A m \in Given :
         m \in Kept <=> \A k \in Kept : Beats(k, m) => k.end <= m.start

\* Find returns the spans "in order and without overlaps".
InOrderApart ==
  pc \in {"write", "done"} =>
    \A i, j \in 1 .. kept : i < j => matches[i].end <= matches[j].start

\* The redacted text is the input cut into chunks without a gap or an overlap,
\* of which exactly the kept matches are replaced; writing it never slices
\* out of order.
TextIsWhole ==
  /\ pc # "panic"
  /\ pc = "done" =>
       /\ out[1].start = 0 /\ out[Len(out)].end = TextLen
       /\ \A i \in 1 .. Len(out) - 1 : out[i].end = out[i + 1].start
       /\ {out[i] : i \in {i \in 1 .. Len(out) : out[i].rule # -1}} = Kept
=============================================================================
