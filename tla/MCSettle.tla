----------------------------- MODULE MCSettle -----------------------------
(***************************************************************************)
(* The rules of FuzzRedact and of packs.go cut down to short texts, with   *)
(* their patterns as a regexp package would run them.  Bytes are ASCII:    *)
(*   pin   \bp=(?P<s>\d{2,3})          key   k=(?P<s>\S+)                  *)
(*   pan   \b(?:\d[ -]?){2,3}\d\b      cut   t=(?P<s>\S{2,3})              *)
(* pan is checked by Luhn and masked but for its last digit; cut is bounded*)
(* like secret.keyed, so a long value is left in part.                     *)
(***************************************************************************)
EXTENDS Packs, SequencesExt

CONSTANTS Blocks, BlockCount, RuleSet

Space == 32
Dash == 45
P == 112
K == 107
T == 116
Is == 61
Marker == <<91, 93>>

SettlingRules == <<"pin", "key", "pan", "cut">>
CutRules == <<"pin", "cut">>
MCRules == 0 .. Len(RuleSet) - 1
Kind(r) == RuleSet[r + 1]

FuzzBlocks == {<<P, Is>>, <<K, Is>>, <<T, Is>>, <<49, 56>>, <<50>>, <<Dash>>, <<Space>>}
MCInputs == {FlattenSeq(b) : b \in [1 .. BlockCount -> Blocks]}
-----------------------------------------------------------------------------
Word(c) == c \in Digits \cup {P, K, T}
Boundary(t, p) == (p > 0 /\ Word(t[p])) # (p < Len(t) /\ Word(t[p + 1]))

\* How many bytes of a class, at most max, follow position p.
Run(t, p, class(_), max) ==
  LET fits == {n \in 0 .. max : p + n <= Len(t) /\ \A i \in p + 1 .. p + n : class(t[i])}
  IN  CHOOSE n \in fits : \A k \in fits : k <= n

IsDigit(c) == c \in Digits
NoSpace(c) == c # Space

Keyed(t, p, letter, class(_), min, max) ==
  IF p + 2 <= Len(t) /\ SubSeq(t, p + 1, p + 2) = <<letter, Is>> /\ Run(t, p + 2, class, max) >= min
  THEN {[start |-> p + 2, end |-> p + 2 + Run(t, p + 2, class, max)]}
  ELSE {}

\* The ends of three and of four digits with at most one separator between two.
Ends(t, p) ==
  {e \in p + 3 .. Len(t) :
     LET s == SubSeq(t, p + 1, e)
     IN  /\ s[1] \in Digits /\ s[Len(s)] \in Digits /\ Boundary(t, e)
         /\ \A i \in 1 .. Len(s) : s[i] \in Digits \cup Separators
         /\ \A i \in 1 .. Len(s) - 1 : s[i] \in Digits \/ s[i + 1] \in Digits
         /\ Len(SelectSeq(s, IsDigit)) \in {3, 4}}

MatchAt(r, t, p) ==
  CASE Kind(r) = "pin" -> IF Boundary(t, p) THEN Keyed(t, p, P, IsDigit, 2, 3) ELSE {}
    [] Kind(r) = "key" -> Keyed(t, p, K, NoSpace, 1, Len(t))
    [] Kind(r) = "cut" -> Keyed(t, p, T, NoSpace, 2, 3)
    [] Kind(r) = "pan" ->
         IF Boundary(t, p)
         THEN {[start |-> p, end |-> e] : e \in {e \in Ends(t, p) : \A x \in Ends(t, p) : x <= e}}
         ELSE {}

FindAll(r, t) ==
  LET from[p \in 0 .. Len(t)] ==
        IF p = Len(t) THEN {}
        ELSE IF MatchAt(r, t, p) = {} THEN from[p + 1]
        ELSE LET m == CHOOSE m \in MatchAt(r, t, p) : TRUE IN {m} \cup from[m.end]
  IN  from[0]

Validate(r, s) == Kind(r) = "pan" => Luhn(s)

MCSecrets(r, t) ==
  {<<m.start, m.end>> : m \in {m \in FindAll(r, t) : Validate(r, SubSeq(t, m.start + 1, m.end))}}

Anchor(r) == CASE Kind(r) = "pin" -> P [] Kind(r) = "key" -> K [] Kind(r) = "cut" -> T
MCRelevant(t) ==
  {r \in MCRules : Kind(r) = "pan" \/ \E i \in 1 .. Len(t) : t[i] = Anchor(r)}

MCReplacement(r, s) == IF Kind(r) = "pan" THEN <<42, s[Len(s)]>> ELSE Marker

\* The texts of later passes have bytes of replacements in them too.
ASSUME LaterTexts ==
  \A t \in SeqOf({P, K, T, Is, 49, 50, Dash, Space} \cup {42, 91, 93}, 4) : Contract(t)
=============================================================================
