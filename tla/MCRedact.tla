----------------------------- MODULE MCRedact -----------------------------
(***************************************************************************)
(* What eachMatch can report for a short text: rule by rule, the spans of  *)
(* one rule apart and in order, at most ListLength in all.  Rule 0 writes  *)
(* two bytes, rule 1 masks all but the last byte, and any other deletes.   *)
(***************************************************************************)
EXTENDS RedactBytes, FiniteSets

CONSTANTS ListLength, RuleCount

Matches ==
  {[rule |-> r, start |-> s[1], end |-> s[2]] : r \in 0 .. RuleCount - 1,
     s \in {s \in (0 .. TextLen) \X (0 .. TextLen) : s[1] < s[2]}}

Follows(a, b) == a.rule < b.rule \/ (a.rule = b.rule /\ a.end <= b.start)

MCLists ==
  {l \in UNION {[1 .. n -> Matches] : n \in 0 .. ListLength} :
     \A i, j \in DOMAIN l : i < j => Follows(l[i], l[j])}

MCReplacement(r, s) ==
  CASE r = 0 -> <<-1, -2>>
    [] r = 1 -> <<10 + s[Len(s)]>>
    [] OTHER -> <<>>

\* An array of size bytes with src from offset on.
Array(size, offset) ==
  [p \in 1 .. size |-> IF p \in offset + 1 .. offset + TextLen THEN p - offset ELSE 0]

Shared(size, offset, at, len, cap) ==
  [mem |-> Array(size, offset), src |-> offset, alone |-> FALSE, own |-> <<>>,
   at |-> at, len |-> len, cap |-> cap]
Alone(own) ==
  [mem |-> Array(TextLen, 0), src |-> 0, alone |-> TRUE, own |-> own, at |-> 0, len |-> 0, cap |-> 0]

MCLayouts == {
  Alone(<<>>), Alone(<<0>>),
  Shared(TextLen, 0, 0, 0, TextLen),         \* src[:0]
  Shared(2 * TextLen, 0, 0, 0, 2 * TextLen), \* src[:0] with room behind src
  Shared(2 * TextLen, 0, TextLen, 1, TextLen), \* behind src, with some room
  Shared(2 * TextLen, 2, 0, 1, 2),           \* before src, with room up to it
  Shared(2 * TextLen, 2, 0, 1, TextLen + 2), \* before src, with room over it
  Shared(TextLen, 0, 0, 1, TextLen) }        \* src[:1]
=============================================================================
