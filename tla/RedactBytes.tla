---------------------------- MODULE RedactBytes ----------------------------
(***************************************************************************)
(* RedactBytes(dst, src): the writing of module Redact, done by appending  *)
(* to a slice of the caller's.  append writes behind the slice while its   *)
(* capacity lasts, and that may be where src is, which is still being read *)
(* and handed to a rule's mask; past the capacity the slice moves to an    *)
(* array of its own.                                                       *)
(***************************************************************************)
EXTENDS Redact

CONSTANTS
  Layouts,          \* how dst and src may lie in memory
  Replacement(_,_)  \* what a rule writes for the bytes it redacts

(***************************************************************************)
(* A layout has the array src is in, the offset of src in it, and dst:     *)
(* either a part of the same array (at, len and cap) or, if alone, bytes   *)
(* of an array of its own, or nil.  Byte i of src is i, any other is 0.    *)
(***************************************************************************)
VARIABLES
  layout,
  heap,      \* the layout, as it has been written to
  redacted,  \* the bytes Redact has written for the same text and matches
  ahead      \* TRUE once more has been written than read, if dst lies over src

bytesVars == <<vars, layout, heap, redacted, ahead>>

Original == [i \in 1 .. TextLen |-> i]
Between(s, from, to) == SubSeq(s, from + 1, to)

Memory == Seq(Int)
ASSUME LayoutsAssumption ==
  /\ \A l \in Layouts :
       /\ l.mem \in Memory /\ l.own \in Memory /\ l.alone \in BOOLEAN
       /\ l.src \in Nat /\ l.at \in Nat /\ l.len \in Nat /\ l.cap \in Nat
       /\ l.len <= l.cap /\ l.at + l.cap <= Len(l.mem)
       /\ l.src + TextLen <= Len(l.mem)
       /\ \A i \in 1 .. TextLen : l.mem[l.src + i] = i
  /\ \A l \in Lists : \A i \in 1 .. Len(l) :
       Replacement(l[i].rule, Between(Original, l[i].start, l[i].end)) \in Memory

SrcOf(d) == Between(d.mem, layout.src, layout.src + TextLen)
Contents(d) == IF d.alone THEN d.own ELSE Between(d.mem, d.at, d.at + d.len)

AsGiven(l) == [mem |-> l.mem, alone |-> l.alone, own |-> l.own,
              at |-> l.at, len |-> l.len, cap |-> l.cap]
Emptied(l) == [AsGiven(l) EXCEPT !.own = <<>>, !.len = 0]
InPlaceIfNil(l) ==
  IF l.alone /\ l.own = <<>>
  THEN [AsGiven(l) EXCEPT !.alone = FALSE, !.at = l.src, !.cap = TextLen]
  ELSE AsGiven(l)
Begin(l) == AsGiven(l)

Appended(d, s) ==
  IF ~d.alone /\ d.len + Len(s) <= d.cap
  THEN LET new == d.at + d.len
       IN  [d EXCEPT
             !.mem = [p \in DOMAIN d.mem |->
                        IF p \in new + 1 .. new + Len(s) THEN s[p - new] ELSE d.mem[p]],
             !.len = @ + Len(s)]
  ELSE [d EXCEPT !.alone = TRUE, !.own = Contents(d) \o s]

\* With dst over src: whether n bytes behind dst end later than m bytes of src.
Outruns(n, m) == layout.at + layout.len + n > layout.src + m

BytesInit ==
  /\ Init
  /\ layout \in Layouts
  /\ heap = Begin(layout)
  /\ redacted = <<>>
  /\ ahead = Outruns(0, 0)

Resolving ==
  /\ NothingToResolve \/ Sort \/ Drop \/ Keep \/ Resolved
  /\ UNCHANGED <<layout, heap, redacted, ahead>>

\* What Redact writes for a match, and what lies before it.
Redacted(m) ==
  Between(Original, last, m.start) \o Replacement(m.rule, Between(Original, m.start, m.end))

\* What lies before the match first; the mask then reads the match.
ReplaceBytes ==
  /\ Replace
  /\ LET m == matches[written + 1]
         copied == Appended(heap, Between(SrcOf(heap), last, m.start))
     IN  IF last <= m.start
         THEN /\ heap' = Appended(copied, Replacement(m.rule, Between(SrcOf(copied), m.start, m.end)))
              /\ redacted' = redacted \o Redacted(m)
         ELSE UNCHANGED <<heap, redacted>>
  /\ ahead' = (ahead \/ Outruns(Len(redacted'), last'))
  /\ UNCHANGED layout

CopyRestBytes ==
  /\ CopyRest
  /\ heap' = Appended(heap, Between(SrcOf(heap), last, TextLen))
  /\ redacted' = redacted \o Between(Original, last, TextLen)
  /\ UNCHANGED <<layout, ahead>>

BytesTerminated == Terminated /\ UNCHANGED <<layout, heap, redacted, ahead>>

BytesNext == Resolving \/ ReplaceBytes \/ CopyRestBytes \/ BytesTerminated

BytesSpec == BytesInit /\ [][BytesNext]_bytesVars
-----------------------------------------------------------------------------
\* The room behind dst and src have no byte in common.
NoByteShared ==
  \/ layout.alone
  \/ (layout.at + layout.len + 1 .. layout.at + layout.cap) \cap
     (layout.src + 1 .. layout.src + TextLen) = {}

\* scrubber.go: RedactBytes "appends the redacted form of src to dst": what was
\* in dst is still there and behind it are the bytes Redact returns, for nil, a
\* buffer used before, and also for a dst over the bytes of src as long as the
\* replacements do not outgrow what they replace.
AppendsWhatRedactReturns ==
  pc = "done" /\ (NoByteShared \/ ~ahead) =>
    Contents(heap) = Contents(AsGiven(layout)) \o redacted

\* src is the caller's: without a byte shared it is never written to, whether
\* dst has room or has to grow.
SourceSurvives == NoByteShared => SrcOf(heap) = Original
=============================================================================
