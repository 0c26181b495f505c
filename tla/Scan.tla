------------------------------- MODULE Scan -------------------------------
(***************************************************************************)
(* active and scan of scrubber.go and automaton.go: one pass over an input *)
(* with the machine Automaton builds.  It leaves in st.rules the rules     *)
(* that may match, and in st.hits where the anchors of the windowed ones   *)
(* are.                                                                    *)
(***************************************************************************)
EXTENDS Automaton

CONSTANTS
  Texts,      \* the inputs of a call
  RuleCount   \* how many rules the scrubber has

ASSUME TextsAssumption ==
  /\ Texts \subseteq Seq(Bytes)
  /\ RuleCount \in Nat
  /\ \A l \in AnchorLists : \A j \in 1 .. Len(l) : l[j].rule < RuleCount

VARIABLES
  windowed,  \* the rules with anchors whose pattern is bounded
  text,      \* the input
  pos,       \* how much of it has been read
  cur,       \* the state of the machine
  rules,     \* st.rules
  hits       \* st.hits

scanVars == <<windowed, text, pos, cur, rules, hits>>
allVars == <<vars, scanVars>>

all == 0 .. RuleCount - 1
anchored == {anchors[j].rule : j \in 1 .. Len(anchors)}
always == all \ anchored

ScanInit ==
  /\ Init
  /\ windowed \in SUBSET anchored
  /\ text = <<>> /\ pos = 0 /\ cur = 0
  /\ rules = {} /\ hits = <<>>

\* active leaves the machine alone when every rule runs on every input.
Call ==
  /\ pc = "ready"
  /\ text' \in Texts
  /\ rules' = always
  /\ pc' = IF always = all THEN "scanned" ELSE "scan"
  /\ UNCHANGED <<anchors, fold, insertVars, tableVars, linkVars, windowed, pos, cur, hits>>

Byte == text[pos + 1]
starts(c) == next[0][c] # 0
Reading == pc = "scan" /\ pos < Len(text)

SkipByte ==
  /\ Reading
  /\ cur = 0 /\ ~starts(Byte)
  /\ pos' = pos + 1
  /\ UNCHANGED <<vars, windowed, text, cur, rules, hits>>

HitBeforeByte(o, e) == [rule |-> o.rule, start |-> e - 1 - o.length, end |-> e]
HitOf(o, e) == [rule |-> o.rule, start |-> e - o.length, end |-> e]
WindowedOutputs(s) == {n \in 1 .. Len(out[s]) : out[s][n].rule \in windowed}
HitsOf(s, e) ==
  LET ns == InOrderOf(WindowedOutputs(s), [n \in 1 .. Len(out[s]) |-> n])
  IN  [m \in 1 .. Len(ns) |-> HitOf(out[s][ns[m]], e)]

\* Only a scan that need not record positions may stop early.
EveryRuleKnown(found) == found = all
CanStop(found) == windowed = {} /\ found = all

RulesOf(s) == {out[s][n].rule : n \in 1 .. Len(out[s])}

ReadByte ==
  /\ Reading
  /\ cur # 0 \/ starts(Byte)
  /\ LET s == next[cur][Byte]
     IN  /\ cur' = s
         /\ rules' = rules \cup RulesOf(s)
         /\ hits' = hits \o HitsOf(s, pos + 1)
         /\ pc' = IF out[s] # <<>> /\ CanStop(rules') THEN "scanned" ELSE pc
  /\ pos' = pos + 1
  /\ UNCHANGED <<anchors, fold, insertVars, tableVars, linkVars, windowed, text>>

EndOfInput ==
  /\ pc = "scan" /\ pos = Len(text)
  /\ pc' = "scanned"
  /\ UNCHANGED <<anchors, fold, insertVars, tableVars, linkVars, scanVars>>

ScanDone == pc \in {"failed", "scanned"} /\ UNCHANGED allVars

ScanNext ==
  \/ Build /\ UNCHANGED scanVars
  \/ Call \/ SkipByte \/ ReadByte \/ EndOfInput
  \/ ScanDone

ScanSpec == ScanInit /\ [][ScanNext]_allVars
-----------------------------------------------------------------------------
FoldedText == [j \in 1 .. Len(text) |-> Folded(text[j])]

\* Anchor j occurs in the text, up to ASCII case, and ends at e.
OccursAt(j, e) ==
  /\ Len(Inserted(j)) <= e
  /\ \A n \in 1 .. Len(Inserted(j)) : FoldedText[e - Len(Inserted(j)) + n] = Inserted(j)[n]

\* README.md: a rule runs if one of its anchors is present.  No rule is left
\* out that has an anchor in the text, none is woken by anything else; also
\* when the scan stopped early or skipped bytes at the root.
RulesAreExact ==
  pc = "scanned" =>
    rules = always \cup
      {r \in all : \E j \in 1 .. Len(anchors), e \in 1 .. Len(text) :
                     anchors[j].rule = r /\ OccursAt(j, e)}

\* The windows of a rule rest on it: st.hits has every occurrence of every
\* anchor of a windowed rule that has been read, where it is, once per listing.
Occurrences(h) ==
  {j \in 1 .. Len(anchors) :
     anchors[j].rule = h.rule /\ Len(Inserted(j)) = h.end - h.start /\ OccursAt(j, h.end)}

HitsAreOccurrences ==
  pc \in {"scan", "scanned"} =>
    \A r \in all, e \in 1 .. Len(text) : \A b \in 0 .. e - 1 :
      LET hit == [rule |-> r, start |-> b, end |-> e]
      IN  Cardinality({n \in 1 .. Len(hits) : hits[n] = hit}) =
            IF r \in windowed /\ e <= pos THEN Cardinality(Occurrences(hit)) ELSE 0

\* windowedMatches merges the slices of the hits in one pass: they come in the
\* order of their ends, within the input, and a windowed rule's scan goes on to
\* the end of it.
HitsInOrder ==
  pc \in {"scan", "scanned"} =>
    /\ \A n \in 1 .. Len(hits) : hits[n].start >= 0 /\ hits[n].start < hits[n].end /\ hits[n].end <= pos
    /\ \A n, m \in 1 .. Len(hits) : n <= m => hits[n].end <= hits[m].end
    /\ pc = "scanned" /\ windowed # {} => pos = Len(text)
=============================================================================
