------------------------------ MODULE Settle ------------------------------
(***************************************************************************)
(* Redacting again what Redact returned, until the text stops changing, as *)
(* the loop of FuzzRedact does: a replacement is not the text it replaced, *)
(* so it can make a word boundary or end a value the next pass sees.  Each *)
(* pass is a call of FullSearch followed by the rewriting of the text.     *)
(*                                                                         *)
(* A text is a sequence of bytes.  Each byte remembers where in the first  *)
(* input it was, or 0 if a replacement produced it.                        *)
(***************************************************************************)
EXTENDS FullSearch, Sequences

CONSTANT Replacement(_,_)  \* what a rule writes for the bytes it redacts

\* The spans of a text that have a byte in them.
Spans(t) == {s \in (0 .. Len(t)) \X (0 .. Len(t)) : s[1] < s[2]}

\* What the passes rely on in a text: a secret is a non-empty slice of it
\* (matchesIn sees to that), the rules left out have none, and what is written
\* are bytes.
Contract(t) ==
  /\ Relevant(t) \subseteq Rules
  /\ \A r \in Rules : Secrets(r, t) \subseteq (IF r \in Relevant(t) THEN Spans(t) ELSE {})
  /\ \A r \in Rules : \A s \in Secrets(r, t) : Replacement(r, SubSeq(t, s[1] + 1, s[2])) \in Seq(Int)

ASSUME SettleAssumption == \A t \in Inputs : t \in Seq(Int) /\ Contract(t)

VARIABLES
  input,    \* the text of the first pass
  origin,   \* where the bytes of text come from
  passes,   \* the number of passes that have been written
  settled   \* TRUE once a pass has changed nothing

settleVars == <<vars, input, origin, passes, settled>>

\* The loop gives up after as many passes as the input has bytes, and two.
PassLimit == Len(input) + 3

SettleInit ==
  /\ Init
  /\ input = text
  /\ origin = [i \in 1 .. Len(text) |-> i]
  /\ passes = 0
  /\ settled = FALSE

Searching == (Next /\ UNCHANGED <<input, origin, passes, settled>>)

(***************************************************************************)
(* resolve and the loop of Redact (module Redact has them step by step):   *)
(* going from left to right, the longest match that starts here wins, of   *)
(* equally long ones that of the first rule, and what starts inside it is  *)
(* passed over.                                                            *)
(***************************************************************************)
StartingAt(p) == {m \in found : m.start = p}

Shortest(p) ==
  CHOOSE m \in StartingAt(p) : \A k \in StartingAt(p) :
    m.end < k.end \/ (m.end = k.end /\ m.rule <= k.rule)
Winner(p) ==
  CHOOSE m \in StartingAt(p) : \A k \in StartingAt(p) :
    m.end > k.end \/ (m.end = k.end /\ m.rule <= k.rule)

SecondByte(m) == m.start + 1
Behind(m) == m.end

\* put gives what stands in the result for each match that wins.
Written(s, put) ==
  LET from[p \in 0 .. Len(s)] ==
        IF p = Len(s) THEN <<>>
        ELSE IF StartingAt(p) = {} THEN <<s[p + 1]>> \o from[p + 1]
        ELSE put[Winner(p)] \o from[Behind(Winner(p))]
  IN  from[0]

BytesOf(m) == SubSeq(text, m.start + 1, m.end)
Produced(m) == Replacement(m.rule, BytesOf(m))

Rewrite ==
  /\ done /\ op = "collect" /\ ~settled /\ passes < PassLimit
  /\ text' = Written(text, [m \in found |-> Produced(m)])
  /\ origin' = Written(origin, [m \in found |-> [i \in 1 .. Len(Produced(m)) |-> 0]])
  /\ passes' = passes + 1
  /\ settled' = (text' = text)
  /\ pending' = Relevant(text') /\ found' = {} /\ done' = FALSE
  /\ UNCHANGED <<op, input>>

Rested == done /\ (op = "contains" \/ settled \/ passes = PassLimit) /\ UNCHANGED settleVars

SettleNext == Searching \/ Rewrite \/ Rested

SettleSpec == SettleInit /\ [][SettleNext]_settleVars
-----------------------------------------------------------------------------
\* fuzz_test.go: "What has to hold is that the text settles", within the passes
\* its loop allows: no rule keeps on redacting what the others write.
SettlesInTime == passes = PassLimit => settled

\* "and that nothing is left behind": what a rule still calls a secret in a
\* settled text was put there by a replacement, or reads like one.
NothingLeft ==
  settled =>
    \A r \in Rules : \A s \in Secrets(r, text) :
      \A i \in s[1] + 1 .. s[2] :
        origin[i] = 0 \/ Replacement(r, SubSeq(text, s[1] + 1, s[2])) = SubSeq(text, s[1] + 1, s[2])

\* doc.go: "Redacting twice never reveals anything. It can redact more."  Of the
\* bytes of the input that are still there, a pass removes those the spans of
\* Find cover and no others, and leaves the rest in their order.  What a
\* replacement writes is produced, also where a mask copies it.
Beats(a, b) ==
  \/ a.start < b.start
  \/ a.start = b.start /\ (a.end > b.end \/ (a.end = b.end /\ a.rule < b.rule))
IsChoice(K) == \A m \in found : m \in K <=> \A k \in K : Beats(k, m) => k.end <= m.start

Visible(o) == {o[i] : i \in 1 .. Len(o)} \ {0}
InOrder(o) ==
  \A i, j \in 1 .. Len(o) : i < j /\ o[i] # 0 /\ o[j] # 0 => o[i] < o[j]
Covered(K) == UNION {{origin[i] : i \in m.start + 1 .. m.end} : m \in K}

RemovesWhatIsFound ==
  [][passes' = passes + 1 =>
       /\ InOrder(origin')
       /\ \E K \in SUBSET found :
            IsChoice(K) /\ Visible(origin') = Visible(origin) \ Covered(K)]_settleVars

\* doc.go: "Build rejects a rule that matches a replacement, which is the case
\* where a second pass would rewrite what the first one produced": no later
\* pass turns a produced byte into something else.
ReplacementsStay ==
  passes > 0 =>
    \A m \in found :
      (\E i \in m.start + 1 .. m.end : origin[i] = 0) => Produced(m) = BytesOf(m)
=============================================================================
