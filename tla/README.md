# scrub in TLA+

Specifications, model-checking runs and machine-checked proofs for `scrub`, the Go library that
redacts secrets from text with rules registered at runtime. A rule is a regular expression plus
literal anchors; one Aho-Corasick pass over the input decides which rules can match at all, and
rules whose pattern is bounded are confirmed only in windows around their anchors. The library
promises that none of this changes the result: `Redact` returns what a search of the whole input by
every rule would have given. Most of this directory is about that promise.

The modules are translated from the Go source; `PROJECT.json` maps every definition to its lines.
The regexp engine, `Validate` and `Mask` come from outside the library: they are parameters, with
the assumptions the code makes about them stated as named `ASSUME`s.

## The system

| part | source | state | operations |
|---|---|---|---|
| builder | `builder.go`, `option.go`, `errors.go` | options, the rules added so far | `Add`, `Build` (`compile`, `anchorsOf`, `rejectSelfMatch`), `MustBuild` |
| derived window | `window.go` | none | `maxMatchLen`, `maxLen`, `classLen`, `runeLen` |
| automaton, construction | `automaton.go` | trie, then transition table and outputs | `insert`, `addState`, `link`, `freeze` |
| scan | `automaton.go`, `active` in `scrubber.go` | `st.rules`, `st.hits`, state of the machine, position | one pass, with a skip loop and an early stop |
| confirmation | `eachMatch`, `windowedMatches`, `matchesIn`, `collect`, `containsAny` in `scrubber.go` | `st.ranges`, `st.spans`, `covered`, what was reported | merge the windows, search them, fall back to the whole input |
| resolution and rewriting | `resolve`, `Redact`, `RedactBytes` in `scrubber.go` | the slice of matches, compacted in place; the output | sort, sweep, write |
| repeated redaction | `doc.go`, `FuzzRedact` in `fuzz_test.go` | the text, pass after pass | `Redact` of what `Redact` returned |
| rule packs | `packs/packs.go` | none (tables of rules) | `Luhn`, the validator of the card number rules |
| repository automation | `tools/hack`, `.github` | pull request comments, tags, releases | scripts and workflows |

How they interact: `Build` turns the builder's rules into an immutable `Scrubber` (compiled rules,
the automaton, three bitmaps: `all`, `always` for rules without anchors, `windowed` for bounded
rules with anchors). A call owns a `scanState` on its stack: `active` fills `st.rules` and
`st.hits`; `eachMatch` visits the active rules in order, calling `windowedMatches` for windowed
ones, and calls `visit` back for every secret; `collect` appends what it is told to a slice that
`resolve` sorts and compacts; `Redact` writes the text around it. There are no goroutines, locks or
files: calls share only the immutable `Scrubber`. What is hard here is not interleaving but a long
sequence of steps over reused, overlapping or overwritten data: windows merged in the order of
their ends, a search abandoned half-way, a transition table rewritten while it is read, a slice
compacted under its own iterator.

What makes each part correct:

- options: of options that repeat or contradict each other the last one holds.
- builder: a rule is never silently lost or misclassified; Build depends on the rules and options
  only; no rule matches a replacement.
- derived window: never shorter than a match, and not given up without need.
- automaton: after linking, every row leads to the longest suffix that starts an anchor; every
  anchor is output wherever it ends.
- scan: exactly the rules with an anchor in the text are woken; for windowed rules every occurrence
  is recorded where it is.
- confirmation: the windows change nothing; a half-searched rule leaves no trace; every call
  returns.
- `RedactBytes`: the caller gets the same bytes wherever `dst` lies, and keeps `src`.
- repeated redaction: a pass removes what it found and nothing else, the text settles, nothing is left
  behind.
- resolution: leftmost-longest, ties to the earlier rule, whatever order the matches come in; the
  text is cut without gap or overlap.

## Modules

| module | models | correspondence |
|---|---|---|
| `FullSearch` | what `eachMatch` promises | abstract: one step per rule reports the secrets it has in the whole input; a capped call, and Contains, may hear of fewer |
| `Confirm` | `eachMatch` and below | one action per loop iteration or branch: `PickRule`, `SkipHit`/`ExtendRange`/`NewRange` (merge loop), `AbandonWindows`/`StartSearch` (lines 232-236), `SearchWindow`/`ReachEdge`/`OutOfRange` (search loop), `ReportWindows`, `SearchWhole`, `Finish` |
| `ConfirmContract` | the contract of `rule.go` and `window.go` | assumptions on patterns and anchors; the refinement `Abstract == INSTANCE FullSearch` |
| `Redact` | `resolve`, `Redact` | `Sort` leaves any ordered arrangement (sort.Slice is not stable); `Drop`/`Keep` are the sweep, which writes into the array it reads; `Replace`/`CopyRest` write the output as chunks |
| `RedactBytes` | `RedactBytes` | extends `Redact`: `ReplaceBytes`/`CopyRestBytes` append what `Replace`/`CopyRest` write to `dst`, a slice over the array of `src` or one of its own; `Appended` is Go's `append`, in place while the capacity lasts |
| `Settle` | `Redact` of its own result, as `FuzzRedact` runs it | extends `FullSearch`: `Searching` is one call, `Rewrite` replaces the winners and starts the next pass; `origin` remembers where each byte came from |
| `Luhn` | `Luhn` of `packs.go` | `Taken` is one byte of the loop, `Walk` the loop from the right; `IsCardNumber` is the checksum counted from the left, over the digits alone |
| `Packs` | the two together | the texts the passes of `Settle` start from are what `Luhn` is asked about |
| `Automaton` | `buildAutomaton` | `FollowEdge`/`AddState`/`TooManyStates`/`EndAnchor` are `insert` byte by byte, `StartLink`/`LinkState` one state of the queue at a time, `Freeze` |
| `Scan` | `active`, `scan` | extends `Automaton`: the machine that was built scans a text, `SkipByte`/`ReadByte`/`EndOfInput` |
| `Builder` | `New`, `Add`, `Build`, `Windowed`, `Anchorless` | `ApplyOption` per option, then per Build `RejectBuilder`, or per rule `RejectRule`/`TakeRule`, then `RejectSelfMatch`, `RejectAnchors` or `Succeed`; a `hitSet` is a function from words to sets of bits, `Listed` is `forEachRule`, word by word and lowest bit first; `InOrder`, which names the one ascending list of a set, is what it is compared with |
| `MaxLen` | `window.go` | the calls of `maxLen` as a stack: `VisitZeroWidth`, `VisitAnyChar`, `Enter`, `ReadRune`, `ReadRange`, `JoinConcat`, `JoinAlternate`, `Leave` and `EncloseCapture` to `EncloseRepeat` are its cases and loops; beside each result are the lengths matches can have |
| `LeastElement`, `ConfirmProofs`, `SettleProofs`, `RedactProofs`, `BuilderProofs`, `AutomatonProofs`, `ScanProofs`, `MaxLenProofs` | | theorems and proofs |
| `MCConfirm`, `MCConfirmContract`, `MCSettle`, `MCRedact`, `MCScan`, `MCBuilder`, `MCMaxLen` | | instances for TLC |

`word` in `Automaton` (the bytes that lead to a state), `given` in `Redact` (the matches before
sorting), `layout`, `redacted` and `ahead` in `RedactBytes` (the memory before the call, the bytes
`Redact` writes for the same matches, and whether writing ever got ahead of reading), `lens` and
`finite` in the calls of `MaxLen` and `origin` in `Settle` are history: no action reads them to decide
anything.

Beside some definitions there is a variant that makes a plausible slip: `OwnHi` next to `NewHi`
forgets that the end of a window may not shrink, `KeptSpans` next to `FreshSpans` forgets to empty
`st.spans`. They are not used by the specifications; each property has been checked to fail when
the variant takes the place of the definition (`PROJECT.json`, "mutants").

### What is abstracted

Bytes are members of small sets; a pattern is what the code asks of the regexp package (its leftmost
non-overlapping matches in a slice, whether it matches a text, the names of its groups). Spans and
matches are kept as sets in `Confirm`, since `resolve` orders them anyway; an empty list of matches
and the early return for a text without anchors have the same outcome as the general path and share
its actions. `Builder` keeps the bound `maxMatchLen` as a parameter, and `Automaton`'s limit on states as a count
of prefixes. `Settle` rewrites a text in one step, since `Redact` has the steps, and takes a rule's
secrets from the whole text, since `Confirm` is shown to find exactly those. `RemovesWhatIsFound` speaks
of the bytes of the input as a set, and of their order besides; every byte a replacement writes counts
as produced, also one that `Mask` copies from the secret, so what it says of a pass is which bytes it
takes out, and that it moves none of the others.

## Runs

| run | question | bounds and why they are enough |
|---|---|---|
| `MCConfirmLocal` | do the windows change nothing, under the contract, and does the call return? | texts of 12 bytes in 4 of 5 blocks, 5 rules: a word boundary (context beyond the match), a rejected match, an optional group, two anchors one inside the other (a later hit has the earlier start and the lower end), an unbounded rule without anchors that matches the empty text everywhere, also right behind a match; windows of 2 and 3 and a guard of 1, so that windows touch, stay apart, reach either end of the text, and cover it |
| `MCConfirmCramped` | what if a window is too small? | a pattern up to four bytes with a window of 1, an anchor longer than the window; fires the fallback and the illegal slice |
| `MCSettle` | what does redacting again do? | 5 of 7 blocks, up to 10 bytes, that build, break and extend the values of 4 rules: bounded digits, a value of any length, a value cut off at 3 bytes, a masked card number checked by `Luhn`; two masks or markers can meet and make a new number or value, and the limit on passes is that of the fuzz test; the number that counts as a card number is cut down to 3 digits |
| `MCRedact` | are overlaps resolved leftmost-longest, is the text whole, and does `RedactBytes` append it wherever `dst` lies? | every list of up to 4 matches of 3 rules in 3 bytes: every way two and three matches can nest, touch, tie and chain; replacements that grow, shrink and delete; `dst` nil, used, over `src`, before it, behind it, with too little room and too much |
| `MCScan` | are the machine and the scan right? | 7 lists of anchors (nested, repeated, duplicated, of mixed case) and none, folding on and off, 12 states (one list does not fit), all 1,365 texts of up to 5 bytes over a 4-letter alphabet, every subset of windowed rules |
| `MCBuilder` | does Build accept what it should, and keep it all? | 6 lists of options that repeat and contradict each other; up to 5 rules of 9 kinds, 2 words of 2 bits, so rules cross a word and the limit of the bitmap; builds after builds |
| `MCMaxLen` | is the window a bound, and tight? | trees of up to 7 nodes, runes and ranges at the boundaries of UTF-8, cap 8, which sums and products reach and pass |

Five runs end in a violation, and state what a comment or a test of the repository says:

- `MCConfirmCap`: `WithMaxMatches` "caps how many matches a single rule redacts per call"
  (`option.go`), but the limit goes to each window; a rule found in two windows redacts twice.
- `MCConfirmContains`: `fuzz_test.go` requires Contains to agree with Find. `containsAny` asks for one
  match, and when `Validate` or an optional group drops it, the next one is not looked at.
- `MCConfirmSlices`: an anchor longer than twice the window and `edgeGuard` gives a window that ends
  before it starts, and slicing it panics. The rule needs a second, shorter anchor to be valid.
- `MCMaxLenFold`: a folded literal matches runes longer than the one written (`(?i)k` and U+212A), so
  the derived window is not a bound. More than `edgeGuard` bytes of difference lose the match.
- `MCSettleRewrite`: `doc.go` says that Build rejects the rules with which "a second pass would rewrite
  what the first one produced". It matches patterns against bare replacements only; a rule that needs
  its key and whose value is bounded, as `secret.keyed` is, takes its own marker and the bytes behind
  it for a new value. The text still settles (`MCSettle`), and nothing comes back.

The first four do not concern a rule without a cap, without a long superfluous anchor, and without a
long run, in a folded literal, of letters that have a case partner with more bytes (`k` and `s` among
the ASCII ones, other runes beyond), except for Contains, which needs a `Validate` or an optional group.

What `MCSettle` says is relative: `NothingLeft` lets a rule still match a settled text if every byte of
the match was written by some replacement, or if the match is replaced by itself.
`AppendsWhatRedactReturns` is claimed where `dst`'s room shares no byte with `src`, or where writing
never gets ahead of reading; a `dst` over `src` with replacements that grow is overwritten by Go's rules
for `append`, and the documentation does not offer it.

### Fairness

`Terminates` is checked under weak fairness of the whole next-state relation of `Confirm`. The call
is a sequential loop that never blocks, so it keeps taking steps; no choice between actions is
assumed fair.

## Proofs

`tlapm` checks every theorem for all values of the constants that satisfy the assumptions.

**The windows change nothing** (`ConfirmProofs!WindowsChangeNothing`, `Spec => ImplementsFullSearch`).
Assumed, each by name: a search takes the leftmost match and goes on after it (`GreedyAssumption`);
every match of a windowed rule contains an anchor the scan recorded, and a rule the scan did not wake
matches nothing (`AnchorAssumption`); no match is longer than the window (`WindowAssumption`); what
matches at a position depends on the bytes the window covers and on `Context <= EdgeGuard` bytes
around it (`LocalityAssumption`). Build does not check one more condition, so it is a hypothesis of the
theorems and no assumption: no anchor is longer than twice the window and the guard (`AnchorsFit`).
`MCConfirmContract` has TLC evaluate all of them on concrete patterns. The argument: the inductive invariant says that the windows are ascending, separate slices
(`WindowsSeparate`), that every hit seen so far keeps its slice in one of them (`WindowsHoldHits`), and
that each window searched added exactly the secrets of the whole input that lie in it. A match of
the whole input contains a hit, so it lies in one window together with its surroundings; a match
found in a window sees the same bytes in the whole input; the leftmost-first choices agree because
matches in different windows cannot overlap. Reporting then is a step of `FullSearch`, every other
step stutters.

`FindsEverySecret` says the same of the end of a call: what an uncapped Find or Redact has found is
exactly what the rules have in the whole input (`HeardInv` follows the rules that have reported).

What depends on `AnchorsFit`: `NoPanic` (no window ends before it starts), `WindowsAreSeparate` (the
windows are ascending slices), `CountIsExact` (`covered` is the number of bytes they cover) and, with the
contract, `EdgeIsOutOfReach` (no secret is ever seen at an edge). `MCConfirmSlices` shows a window of
negative length, and a negative `covered`, without it. What does not: `TypeCorrect`; `HitsAreHeld`;
`WindowsNeverTouch`, the part of `WindowsAreSeparate` that merging alone is responsible for; and
`ReportsAreWhole`, which needs no contract either: a rule reports every secret of its windows or, once
it is given up half-way, what the whole input has, never a mixture (`ReportInv` follows the rules that
have been visited and how).

**Repeated redaction** (`SettleProofs`: `RemovesExactly`, for all rules, replacements and first texts). Its
hypothesis is `[]KeepsContract`: in every text the passes come to, a secret is a
non-empty slice (`matchesIn` passes over the others), a rule the scan left out has none, and what is
written are bytes. `SettleAssumption` has TLC evaluate it for the first texts and `LaterTexts` for all
texts of up to four bytes with the bytes of replacements in them. The invariant `SettleInv` says that
what a pass has heard of are secrets of its text (`SearchInv`) and that the bytes of the input that are left are in their order, so no two of
them are the same. What is written is a function defined by recursion over the places of the text:
that there is one (`WrittenEquations`) and what it writes from a place on (`WrittenFrom`: the bytes that
the choice among the matches from there on does not cover) are shown from the end of the text to its
beginning. The winner at a place beats everything that starts there, what starts inside it is passed
over, and so the winners are the leftmost-longest choice of all matches.

**The checksum** (also `SettleProofs`: `LuhnChecks`, `LuhnCatchesOneDigit`, for texts of any length). The walk
from the right and the checksum from the left are compared place by place: the walk's sum is the
checksum of the digits behind the place, and as many digits are before it as the walk has not seen
(`WalkCounts`); a byte that is neither digit nor separator makes both say no. With one digit changed
the walks agree behind it, and from there on their sums stay apart by less than ten and more than
nothing, since doubling maps the digits one to one (`OneWrongDigit`).

**Resolution and rewriting** (`RedactProofs`: `Leftmost`, `KeptApart`, `Whole`, `TypeCorrect`, for every
list of distinct non-empty spans and every text length). None of the properties is inductive, because
the sweep compacts the slice it is reading. The invariant `IInv` says that what is still to be read is
in order and not before anything kept (`Swept`), that every match read was kept or is reached into
by a kept match before it (`Decided`), and that the kept ones lie apart (`Apart`); from that, writing
has cut the text without a gap up to `last` (`Tiles`) with the first `written` matches replaced
(`Replaced`). The sort may return any rearrangement in order: the proof uses only that it loses and
invents no match.

**The memory of RedactBytes** (also `RedactProofs`). `BytesSpec` conjoins the actions of `Redact`, so all
of the above holds of `RedactBytes` as well. `SourceIsKept`: with no byte of `dst`'s room in `src`, `src` is not
written to. The invariant `HeapInv` says that `dst` is still where the caller put it or has moved for
good, and has only grown; appending then writes outside of `src`, so the mask of each match reads the
bytes of the match. `BytesAreRedacts`: what was in `dst` stays and the bytes `Redact` writes come behind
it. `WriteInv` carries two facts as long as no byte is shared or writing is not ahead: the contents of
`dst` are the old ones and `redacted`, and `src` is intact behind `last`; the second makes the next
bytes read the right ones. Assumed of layouts (`LayoutsAssumption`) is that they are slices of their
array and that replacements are bytes.

**Build** (`BuilderProofs`: `Decided`, `ReplacementsAreSafe`, `LastCapWins`, `TypeCorrect`, for all rules,
lists of options, word sizes and limits). None of them is inductive: what Build decides at its end
depends on what was checked rule by rule. `TakenInv` says that the rules taken in are usable and
distinct and that IDs, compiled rules and anchors are those of exactly these rules, which a new Build
of the same builder starts from nothing; `LastCapHolds` says that among the options applied so far the
last one holds. `EveryRuleKept`: the scrubber has every rule, in order, and lists exactly those it
should as anchorless or windowed. `BitsInv` says that the bitmaps hold the indices of the rules taken
so far, those and no others; `HandsOutInOrder` that the two loops of `forEachRule` list any bitmap in
ascending order, each rule once (`RoundInv`: after `k`
rounds what is left of a word is at least `k` and above all that was handed out; a word of which all
bits are below `WordSize` is empty after as many rounds); and a set of numbers has only one such list (`NoLonger`). Assumed is that anchors have lengths and
that a word has a bit at least.

**The machine** (`AutomatonProofs`: `TrieOfPrefixes`, `RowsLeadToLongest`, `OutputsOfSuffixes`,
`EveryStateOnce`, `TypesKept`, for any list of anchors, bytes, folding and number of state ids). `link`
rewrites the table it reads, so a row is right or not depending on how far the queue is. The invariant
`IInv` says that the states are the prefixes of the anchors inserted, one each (`Trie`), and, while
linking, that the queue has the children of the states that are done, shorter words first and at most
two lengths at a time, each with its failure state (`Levels`); a row is complete if its state is done
and has the edges of the trie otherwise (`Rows`), and so for the outputs (`Outputs`). When a state is
linked, its failure state has a shorter word and is done (`ShorterAreDone`), and the longest suffix of
the word and a next byte is found in its row (`LongestThroughFail`). Where a textbook would use
induction, a counterexample of least length is taken (`LeastElement`).

**The scan** (`ScanProofs`: `RulesFound`, `HitsFound`, `HitsOrdered`, `MachineStays`, for any text). The
invariant `SInv` has that of the machine, which a scan does not change; the current state is the
longest suffix of the bytes read that an anchor starts with (`AtLongest`), so the anchors it outputs
are those that end here (`EndingOccurs`); and a byte the skip loop passes over is one at which the
machine stays at the root, which outputs nothing. `MachineStays` says of every state of a scan what the
properties of `Automaton` say of the machine while it is built and when it is ready. `StopsRight` says that a scan which stops early knows
every rule and has no positions to record. These theorems are what `ScanAssumption` and the part of
`AnchorAssumption` about woken rules ask of a scan in `ConfirmContract`.

**The derived window** (`MaxLenProofs`: `WindowsAreWide`, `WindowsAreTight`, for every tree the walk can
find, every rune, range, repetition and cap of at least four). The invariant `IInv` says of each call
on the stack that its result bounds the lengths of what it has read (`Bounds`) and is reached by one of
them, or by one beyond the cap if it is unbounded, unless a part is open-ended or matches nothing
(`Reaches`). Both theorems have the hypothesis `NoWiderPartner`: no rune of a literal has a case
partner that takes more bytes. `MCMaxLenFold` shows that `WindowsAreWide` fails without it.

Only model-checked: termination (`Terminates`), since it is a liveness property; and `SettlesInTime` and
`NothingLeft`, which depend on the rules of the run and do not hold of every set of rules. Two rules
can go on redacting what the other writes; and where one rule deletes a byte at the start of a text
and another adds one behind it, the text can stay the same although its bytes have moved, so the
first rule still finds a byte of the input. The theorems about confirmation are proved under the
assumptions named here, which TLC evaluates on the instances; that a pattern of the regexp package
keeps them is outside of the library.

## Not modelled

- The rules of `packs`: patterns, data for the regexp package. `MCSettle` has a few of them cut down
  to short texts; that each finds what it is meant to find is for the tests beside them.
- `MustBuild`, which is Build with a panic for an error, and the texts of errors.
- Two calls at once: they share the immutable `Scrubber` and nothing else, and a Builder is documented
  as not safe for concurrent use.
- The benchmarks, and the scripts and workflows around the repository: they drive services that are
  not in it and are no part of the library.
