----------------------------- MODULE Builder -----------------------------
(***************************************************************************)
(* New, Builder.Add and Builder.Build of builder.go: the options are set,  *)
(* the rules checked and compiled one after the other, and sorted into the *)
(* bitmaps scan and eachMatch work with.  A builder may be added to and    *)
(* built again.                                                            *)
(*                                                                         *)
(* A pattern is what Build asks of it: whether it compiles, the groups it  *)
(* names, the bound maxMatchLen derives (0 for none) and whether it matches*)
(* a replacement.                                                          *)
(***************************************************************************)
EXTENDS Integers, Sequences, FiniteSets

CONSTANTS
  Choices,         \* the rules a caller may add
  MaxAdded,        \* how many it adds at most
  Options,         \* the options there are, and
  OptionLists,     \* the lists of them New may be given
  DefaultMarker,   \* "[REDACTED]"
  Compiles(_),     \* patterns regexp.Compile accepts
  Groups(_),       \* the groups such a pattern names
  maxMatchLen(_),  \* its derived window
  Matches(_,_),    \* whether it matches a replacement
  asciiLower(_),   \* of a byte of an anchor
  WordSize,        \* 64: the bits of a word of a hitSet
  hitWords,        \* 8
  MaxStates        \* states the automaton can have

MaxRules == hitWords * WordSize

\* The empty string, of any kind.
Empty == ""

ASSUME BuilderAssumption ==
  /\ WordSize \in Nat \ {0} /\ hitWords \in Nat \ {0} /\ MaxAdded \in Nat
  /\ \A r \in Choices :
       /\ Compiles(r.pattern) => maxMatchLen(r.pattern) \in Nat
       /\ \A n \in 1 .. Len(r.anchors) : Len(r.anchors[n]) \in Nat
  /\ OptionLists \subseteq Seq(Options)
  /\ \A o \in Options :
       \/ o.name = "WithMarker" /\ o.value \in STRING
       \/ o.name \in {"WithCaseSensitiveAnchors", "WithAllowAnchorless"}
       \/ o.name = "WithMaxMatches" /\ o.value \in Int
  /\ DefaultMarker \in STRING

VARIABLES
  given,     \* the options as the caller lists them
  applied,   \* how many of them New has applied
  opts,      \* b.opts, what it has made of them
  rules,     \* the builder's rules
  pc,        \* "new", "idle", "rules", "match" or "machine"
  i,         \* how many rules this Build has taken in
  seen,      \* their IDs
  own,       \* their anchors, each with its rule
  compiled,  \* s.rules
  all, always, windowed,  \* the bitmaps: word -> bits
  cap,       \* s.maxMatches
  result     \* what the last Build returned

options == <<given, applied, opts>>
scrubber == <<seen, own, compiled, all, always, windowed, cap>>
vars == <<options, rules, pc, i, scrubber, result>>

NoBits == [word \in 0 .. hitWords - 1 |-> {}]

(***************************************************************************)
(* New: every option sets its field over the defaults, in the order given. *)
(***************************************************************************)
defaults == [marker |-> DefaultMarker, fold |-> TRUE, allowAnchorless |-> FALSE, maxMatches |-> 0]

Applied(o, option) ==
  CASE option.name = "WithMarker" -> [o EXCEPT !.marker = option.value]
    [] option.name = "WithCaseSensitiveAnchors" -> [o EXCEPT !.fold = FALSE]
    [] option.name = "WithAllowAnchorless" -> [o EXCEPT !.allowAnchorless = TRUE]
    [] option.name = "WithMaxMatches" -> [o EXCEPT !.maxMatches = option.value]

UnmaskedBit(set, index) ==
  [set EXCEPT ![index \div WordSize] = @ \cup {index}]
setRule(set, index) ==
  [set EXCEPT ![index \div WordSize] = @ \cup {index % WordSize}]

(***************************************************************************)
(* forEachRule.  A word is the set of its bits: TrailingZeros64 names the  *)
(* lowest, set &= set-1 clears it, and WordSize rounds empty any word.     *)
(***************************************************************************)
TrailingZeros(bits) == CHOOSE b \in bits : \A c \in bits : b <= c

Round(word, loop) ==
  IF loop.set = {}
  THEN loop
  ELSE [set |-> loop.set \ {TrailingZeros(loop.set)},
        list |-> Append(loop.list, word * WordSize + TrailingZeros(loop.set))]

InWord(word, bits, list) ==
  LET after[k \in 0 .. WordSize] ==
        IF k = 0 THEN [set |-> bits, list |-> list] ELSE Round(word, after[k - 1])
  IN  after[WordSize].list

\* The rules fn is called with, in order.
Listed(set) ==
  LET before[word \in 0 .. hitWords] ==
        IF word = 0 THEN <<>> ELSE InWord(word - 1, set[word - 1], before[word - 1])
  IN  before[hitWords]

NoResult == [kind |-> "none"]
Error(kind, rule) == [kind |-> kind, rule |-> rule]

Init ==
  /\ given \in OptionLists
  /\ applied = 0 /\ opts = defaults
  /\ rules = <<>>
  /\ pc = "new" /\ i = 0
  /\ seen = {} /\ own = {} /\ compiled = <<>>
  /\ all = NoBits /\ always = NoBits /\ windowed = NoBits
  /\ cap = -1
  /\ result = NoResult

ApplyOption ==
  /\ pc = "new" /\ applied < Len(given)
  /\ opts' = Applied(opts, given[applied + 1])
  /\ applied' = applied + 1
  /\ UNCHANGED <<given, rules, pc, i, scrubber, result>>

AllApplied ==
  /\ pc = "new" /\ applied = Len(given)
  /\ pc' = "idle"
  /\ UNCHANGED <<options, rules, i, scrubber, result>>

Add(r) ==
  /\ pc = "idle" /\ Len(rules) < MaxAdded
  /\ rules' = Append(rules, r)
  /\ UNCHANGED <<options, pc, i, scrubber, result>>

Return(value) == pc' = "idle" /\ result' = value

TooMany(n) == n > MaxRules + 1
TooManyRules(n) == n > MaxRules

RejectBuilder ==
  /\ pc = "idle"
  /\ \/ opts.marker = Empty /\ Return(Error("ErrEmptyMarker", 0))
     \/ opts.marker # Empty /\ TooManyRules(Len(rules)) /\ Return(Error("ErrTooManyRules", 0))
  /\ UNCHANGED <<options, rules, i, scrubber>>

SeenBefore == seen
NoneSeen == {}

\* The regexp package takes -1 for no cap, and 0 for no match at all.
AsGiven(n) == n
CapFor(n) == IF n > 0 THEN n ELSE -1

StartBuild ==
  /\ pc = "idle" /\ opts.marker # Empty /\ ~TooManyRules(Len(rules))
  /\ pc' = "rules" /\ i' = 0
  /\ seen' = NoneSeen /\ own' = {} /\ compiled' = <<>>
  /\ all' = NoBits /\ always' = NoBits /\ windowed' = NoBits
  /\ cap' = CapFor(opts.maxMatches)
  /\ result' = NoResult
  /\ UNCHANGED <<options, rules>>

(***************************************************************************)
(* The checks of a rule in the order Build, compile and anchorsOf make     *)
(* them; the first that fails is reported.                                 *)
(***************************************************************************)
Checks(r) == <<
  [fails |-> r.id = Empty,                               kind |-> "ErrEmptyID"],
  [fails |-> r.id \in seen,                              kind |-> "ErrDuplicateID"],
  [fails |-> r.pattern = Empty,                          kind |-> "ErrEmptyPattern"],
  [fails |-> ~Compiles(r.pattern),                       kind |-> "regexp"],
  [fails |-> r.group # Empty /\ r.group \notin Groups(r.pattern), kind |-> "ErrUnknownGroup"],
  [fails |-> r.mask /\ r.replace # Empty,                kind |-> "ErrReplaceAndMask"],
  [fails |-> r.anchors = <<>> /\ ~opts.allowAnchorless,  kind |-> "ErrNoAnchors"],
  [fails |-> \E n \in 1 .. Len(r.anchors) : r.anchors[n] = <<>>, kind |-> "ErrEmptyAnchor"] >>

Failing(r) == {n \in 1 .. Len(Checks(r)) : Checks(r)[n].fails}
Taking == pc = "rules" /\ i < Len(rules)

RejectRule ==
  /\ Taking
  /\ \E n \in Failing(rules[i + 1]) :
       /\ \A m \in Failing(rules[i + 1]) : n <= m
       /\ Return(Error(Checks(rules[i + 1])[n].kind, i + 1))
  /\ UNCHANGED <<options, rules, i, scrubber>>

Replacement(r) == IF r.replace = Empty THEN opts.marker ELSE r.replace

lowerASCII(text) == [n \in 1 .. Len(text) |-> asciiLower(text[n])]
AnchorsOf(r, index) ==
  {[text |-> IF opts.fold THEN lowerASCII(r.anchors[n]) ELSE r.anchors[n], rule |-> index] :
     n \in 1 .. Len(r.anchors)}

compile(r) ==
  [id |-> r.id, pattern |-> r.pattern, group |-> r.group, replace |-> Replacement(r),
   mask |-> r.mask, window |-> maxMatchLen(r.pattern)]

bounded(c) == c.window > 0

BoundedAtAll(r, c) == bounded(c)
BoundedWithAnchors(r, c) == r.anchors # <<>> /\ bounded(c)

TakeRule ==
  /\ Taking /\ Failing(rules[i + 1]) = {}
  /\ LET r == rules[i + 1]
     IN  /\ seen' = seen \cup {r.id}
         /\ own' = own \cup AnchorsOf(r, i)
         /\ compiled' = Append(compiled, compile(r))
         /\ all' = setRule(all, i)
         /\ always' = IF r.anchors = <<>> THEN setRule(always, i) ELSE always
         /\ windowed' = IF BoundedWithAnchors(r, compile(r)) THEN setRule(windowed, i) ELSE windowed
  /\ i' = i + 1
  /\ UNCHANGED <<options, rules, pc, cap, result>>

AllTaken ==
  /\ pc = "rules" /\ i = Len(rules)
  /\ pc' = "match"
  /\ UNCHANGED <<options, rules, i, scrubber, result>>

(***************************************************************************)
(* rejectSelfMatch: every rule against the marker and every static         *)
(* replacement, those of later rules included.                             *)
(***************************************************************************)
EarlierReplacements(n) ==
  {opts.marker} \cup {compiled[m].replace : m \in {m \in 1 .. n : ~compiled[m].mask}}
Replacements(n) ==
  {opts.marker} \cup {compiled[m].replace : m \in {m \in 1 .. Len(compiled) : ~compiled[m].mask}}

MatchesItself(n) == \E text \in Replacements(n) : Matches(compiled[n].pattern, text)

RejectSelfMatch ==
  /\ pc = "match"
  /\ \E n \in 1 .. Len(compiled) :
       /\ MatchesItself(n)
       /\ \A m \in 1 .. n - 1 : ~MatchesItself(m)
       /\ Return(Error("ErrMarkerMatch", n))
  /\ UNCHANGED <<options, rules, i, scrubber>>

PassSelfMatch ==
  /\ pc = "match"
  /\ \A n \in 1 .. Len(compiled) : ~MatchesItself(n)
  /\ pc' = "machine"
  /\ UNCHANGED <<options, rules, i, scrubber, result>>

\* What Automaton needs for the anchors: a state per prefix, and the root.
StatesFor(anchors) == 1 + Cardinality(UNION {{SubSeq(o.text, 1, n) : n \in 1 .. Len(o.text)} : o \in anchors})

TooManyStates(anchors) == StatesFor(anchors) > MaxStates

RejectAnchors ==
  /\ pc = "machine" /\ TooManyStates(own)
  /\ Return(Error("ErrTooManyStates", 0))
  /\ UNCHANGED <<options, rules, i, scrubber>>

Succeed ==
  /\ pc = "machine" /\ ~TooManyStates(own)
  /\ Return([kind |-> "scrubber", rules |-> compiled, anchors |-> own,
             all |-> all, always |-> always, windowed |-> windowed, cap |-> cap])
  /\ UNCHANGED <<options, rules, i, scrubber>>

Next ==
  \/ ApplyOption \/ AllApplied
  \/ \E r \in Choices : Add(r)
  \/ RejectBuilder \/ StartBuild \/ RejectRule \/ TakeRule \/ AllTaken
  \/ RejectSelfMatch \/ PassSelfMatch \/ RejectAnchors \/ Succeed

Spec == Init /\ [][Next]_vars
-----------------------------------------------------------------------------
BitMaps == [0 .. hitWords - 1 -> SUBSET (0 .. WordSize - 1)]

\* The bitmaps hold bits of their words only: a rule whose bit fell outside its
\* word would never be handed out.
TypeOK ==
  /\ given \in OptionLists /\ applied \in 0 .. Len(given)
  /\ opts \in [marker : STRING, fold : BOOLEAN, allowAnchorless : BOOLEAN, maxMatches : Int]
  /\ rules \in Seq(Choices) /\ Len(rules) <= MaxAdded
  /\ pc \in {"new", "idle", "rules", "match", "machine"}
  /\ i \in 0 .. Len(rules)
  /\ pc \notin {"new", "idle"} => i = Len(compiled)
  /\ all \in BitMaps /\ always \in BitMaps /\ windowed \in BitMaps

Returning == pc' = "idle" /\ result' # result

\* "It fails on an unusable rule rather than silently dropping it": the scrubber
\* has every rule of the builder, in the order they were added; each runs on
\* every input or has all of its anchors in the machine, in the case scan will
\* look for; and only one whose positions the scan will record is confirmed in
\* windows.  Anchorless and Windowed list them so.
IdsOf(s, set) == [n \in 1 .. Len(Listed(set)) |-> s.rules[Listed(set)[n] + 1].id]
Anchorless(s) == IdsOf(s, s.always)
Windowed(s) == IdsOf(s, s.windowed)

InOrder(S) ==
  CHOOSE list \in [1 .. Cardinality(S) -> S] :
    \A m, n \in 1 .. Cardinality(S) : m < n => list[m] < list[n]
Ids(S) == [n \in 1 .. Len(InOrder(S)) |-> rules[InOrder(S)[n] + 1].id]
RuleIndices == 0 .. Len(rules) - 1

HasEveryRule(s) ==
  /\ IdsOf(s, s.all) = [n \in 1 .. Len(rules) |-> rules[n].id]
  /\ Anchorless(s) = Ids({n \in RuleIndices : rules[n + 1].anchors = <<>>})
  /\ Windowed(s) =
       Ids({n \in RuleIndices : rules[n + 1].anchors # <<>> /\ maxMatchLen(rules[n + 1].pattern) > 0})
  /\ \A n \in 1 .. Len(rules) : \A m \in 1 .. Len(rules[n].anchors) :
       \E o \in s.anchors :
         /\ o.rule = n - 1 /\ Len(o.text) = Len(rules[n].anchors[m])
         /\ \A k \in 1 .. Len(o.text) :
              o.text[k] \in IF opts.fold THEN {asciiLower(rules[n].anchors[m][k])}
                            ELSE {rules[n].anchors[m][k]}

BuildKeepsEveryRule ==
  [][Returning /\ result'.kind = "scrubber" => HasEveryRule(result')]_vars

\* Build is decided by the rules and the options, never by an earlier Build of
\* the same builder or by the order of the rules' faults.
UsableRule(r) ==
  /\ r.id # Empty /\ r.pattern # Empty /\ Compiles(r.pattern)
  /\ r.group \in {Empty} \cup Groups(r.pattern)
  /\ r.mask => r.replace = Empty
  /\ r.anchors = <<>> => opts.allowAnchorless
  /\ \A n \in 1 .. Len(r.anchors) : r.anchors[n] # <<>>

Usable ==
  /\ opts.marker # Empty
  /\ Len(rules) <= MaxRules
  /\ \A n \in 1 .. Len(rules) : UsableRule(rules[n])
  /\ \A n, m \in 1 .. Len(rules) : rules[n].id = rules[m].id => n = m
  /\ \A n, m \in 1 .. Len(rules) :
       ~Matches(rules[n].pattern, opts.marker) /\ (~rules[m].mask => ~Matches(rules[n].pattern, Replacement(rules[m])))
  /\ ~TooManyStates(UNION {AnchorsOf(rules[n], n - 1) : n \in 1 .. Len(rules)})

BuildDecides == [][Returning => (result'.kind = "scrubber" <=> Usable)]_vars

\* doc.go: Build rejects a rule that matches a replacement.  In a scrubber no
\* rule matches what any rule of it writes, before it or after it.
NoRuleMatchesAReplacement ==
  result.kind = "scrubber" =>
    \A n, m \in 1 .. Len(result.rules) :
      /\ ~Matches(result.rules[n].pattern, opts.marker)
      /\ ~result.rules[m].mask => ~Matches(result.rules[n].pattern, result.rules[m].replace)

\* option.go: a cap is the one asked for last, and "Zero, the default, means no
\* cap": passed on as it is, zero would make the regexp package find nothing
\* and every secret stay.
AskedFor(name) == {n \in 1 .. Len(given) : given[n].name = name}

CapIsTheLastAskedFor ==
  result.kind = "scrubber" =>
    IF \E n \in AskedFor("WithMaxMatches") :
         given[n].value > 0 /\ \A m \in AskedFor("WithMaxMatches") : m <= n
    THEN \E n \in AskedFor("WithMaxMatches") :
           given[n].value = result.cap /\ \A m \in AskedFor("WithMaxMatches") : m <= n
    ELSE result.cap = -1
=============================================================================
