-------------------------- MODULE BuilderProofs --------------------------
(***************************************************************************)
(* Build for any rules, options and limits: its types, its decision, and   *)
(* what holds of the scrubber it returns.  The invariants say that the     *)
(* rules taken in so far are sound and have been recorded, all of them,    *)
(* and that the bits of the bitmaps are those of these rules, which the    *)
(* loops of forEachRule hand out in order.                                 *)
(***************************************************************************)
EXTENDS Builder, LeastElement, SequenceTheorems, FunctionTheorems

\* The rules whose bits a bitmap has.
HandedOut(set) == {n \in 0 .. MaxRules - 1 : n % WordSize \in set[n \div WordSize]}

Building == pc \in {"rules", "match", "machine"}

\* Of the options New has applied, the last one that asks for a cap holds.
AskedSoFar == {n \in AskedFor("WithMaxMatches") : n <= applied}

LastCapHolds ==
  \/ AskedSoFar = {} /\ opts.maxMatches = 0
  \/ \E n \in AskedSoFar :
       opts.maxMatches = given[n].value /\ \A m \in AskedSoFar : m <= n

\* The rules taken in passed every check, and left their traces.
TakenInv ==
  /\ opts.marker # Empty
  /\ Len(rules) <= MaxRules
  /\ compiled \in Seq({compile(r) : r \in Choices})
  /\ Len(compiled) = i
  /\ \A n \in 1 .. i : compiled[n] = compile(rules[n])
  /\ \A n \in 1 .. i : UsableRule(rules[n])
  /\ \A n, m \in 1 .. i : rules[n].id = rules[m].id => n = m
  /\ seen = {rules[n].id : n \in 1 .. i}
  /\ own = UNION {AnchorsOf(rules[n], n - 1) : n \in 1 .. i}
  /\ cap = CapFor(opts.maxMatches)

MatchInv ==
  /\ pc \in {"match", "machine"} => i = Len(rules)
  /\ pc = "machine" => \A n \in 1 .. Len(compiled) : ~MatchesItself(n)

\* The cap of the last scrubber is still the one the options ask for.
ResultInv ==
  /\ pc = "new" => result.kind # "scrubber"
  /\ pc # "new" => applied = Len(given)
  /\ result.kind = "scrubber" => result.cap = CapFor(opts.maxMatches)

IInv ==
  /\ TypeOK /\ LastCapHolds /\ ResultInv /\ NoRuleMatchesAReplacement
  /\ Building => TakenInv /\ MatchInv
-----------------------------------------------------------------------------
\* A rule index lies in a word there is.
LEMMA WordOfIndex ==
  ASSUME NEW index \in Nat, index < MaxRules
  PROVE  /\ index \div WordSize \in 0 .. hitWords - 1
         /\ index % WordSize \in 0 .. WordSize - 1
<1>1. WordSize \in Nat /\ WordSize > 0 /\ hitWords \in Nat
  BY BuilderAssumption
<1>2. index \div WordSize \in Int /\ index % WordSize \in 0 .. WordSize - 1
  BY <1>1
<1>3. index = WordSize * (index \div WordSize) + (index % WordSize)
  BY <1>1
<1> DEFINE q == index \div WordSize
           p == index % WordSize
<1>4. q \in Int /\ p \in 0 .. WordSize - 1 /\ index = WordSize * q + p /\ index < hitWords * WordSize
  BY <1>2, <1>3 DEF MaxRules
<1> HIDE DEF q, p
<1>5. q >= 0
  BY <1>1, <1>4
<1>6. q < hitWords
  BY <1>1, <1>4, <1>5
<1> QED BY <1>1, <1>2, <1>5, <1>6 DEF q

LEMMA SetRuleType ==
  ASSUME NEW set \in BitMaps, NEW index \in Nat, index < MaxRules
  PROVE  setRule(set, index) \in BitMaps
<1>1. index \div WordSize \in 0 .. hitWords - 1 /\ index % WordSize \in 0 .. WordSize - 1
  BY WordOfIndex
<1> QED BY <1>1, Zenon DEF setRule, BitMaps

\* The checks of a rule find nothing exactly if it is usable and its ID new.
LEMMA FailingMeansUnusable ==
  ASSUME NEW r
  PROVE  Failing(r) = {} <=> UsableRule(r) /\ r.id \notin seen
<1>1. Len(Checks(r)) = 8
  BY DEF Checks
<1>2. Failing(r) = {} <=> \A n \in 1 .. 8 : ~Checks(r)[n].fails
  BY <1>1 DEF Failing
<1>3. (\A n \in 1 .. 8 : ~Checks(r)[n].fails) <=>
        /\ ~Checks(r)[1].fails /\ ~Checks(r)[2].fails /\ ~Checks(r)[3].fails
        /\ ~Checks(r)[4].fails /\ ~Checks(r)[5].fails /\ ~Checks(r)[6].fails
        /\ ~Checks(r)[7].fails /\ ~Checks(r)[8].fails
  OBVIOUS
<1>4. /\ Checks(r)[1].fails <=> r.id = Empty
      /\ Checks(r)[2].fails <=> r.id \in seen
      /\ Checks(r)[3].fails <=> r.pattern = Empty
      /\ Checks(r)[4].fails <=> ~Compiles(r.pattern)
      /\ Checks(r)[5].fails <=> (r.group # Empty /\ r.group \notin Groups(r.pattern))
      /\ Checks(r)[6].fails <=> (r.mask /\ r.replace # Empty)
      /\ Checks(r)[7].fails <=> (r.anchors = <<>> /\ ~opts.allowAnchorless)
      /\ Checks(r)[8].fails <=> \E n \in 1 .. Len(r.anchors) : r.anchors[n] = <<>>
  BY DEF Checks
<1> QED BY <1>2, <1>3, <1>4 DEF UsableRule

LEMMA KindsOfFaults ==
  ASSUME NEW r, NEW n \in 1 .. Len(Checks(r))
  PROVE  Checks(r)[n].kind # "scrubber"
<1>1. n \in {1, 2, 3, 4, 5, 6, 7, 8}
  BY DEF Checks
<1> QED BY <1>1 DEF Checks
-----------------------------------------------------------------------------
LEMMA InitIInv == Init => IInv
<1> SUFFICES ASSUME Init PROVE IInv
  OBVIOUS
<1>1. given \in Seq(Options)
  BY BuilderAssumption DEF Init
<1>2. NoBits \in BitMaps
  BY BuilderAssumption DEF NoBits, BitMaps
<1>3. TypeOK
  BY <1>1, <1>2, BuilderAssumption DEF Init, TypeOK, defaults
<1>4. LastCapHolds
  BY <1>1 DEF Init, LastCapHolds, AskedSoFar, AskedFor, defaults
<1> QED BY <1>3, <1>4 DEF Init, IInv, ResultInv, NoRuleMatchesAReplacement, NoResult, Building

LEMMA ApplyOptionIInv == IInv /\ ApplyOption => IInv'
<1> SUFFICES ASSUME IInv, ApplyOption PROVE IInv'
  OBVIOUS
<1> DEFINE n == applied + 1
<1>1. given \in Seq(Options) /\ applied \in Nat /\ n \in 1 .. Len(given) /\ given[n] \in Options
  BY BuilderAssumption DEF IInv, TypeOK, ApplyOption
<1>2. given' = given /\ applied' = n /\ opts' = Applied(opts, given[n])
  BY DEF ApplyOption
<1>3. \/ given[n].name = "WithMarker" /\ given[n].value \in STRING
      \/ given[n].name \in {"WithCaseSensitiveAnchors", "WithAllowAnchorless"}
      \/ given[n].name = "WithMaxMatches" /\ given[n].value \in Int
  BY <1>1, BuilderAssumption
<1>4. /\ opts' \in [marker : STRING, fold : BOOLEAN, allowAnchorless : BOOLEAN, maxMatches : Int]
      /\ given[n].name # "WithMaxMatches" => opts'.maxMatches = opts.maxMatches
      /\ given[n].name = "WithMaxMatches" => opts'.maxMatches = given[n].value
  BY <1>2, <1>3 DEF Applied, IInv, TypeOK
<1>5. TypeOK'
  BY <1>1, <1>2, <1>3, <1>4 DEF ApplyOption, IInv, TypeOK, scrubber, BitMaps
<1>6. LastCapHolds'
  <2>1. CASE given[n].name = "WithMaxMatches"
    <3>1. n \in AskedSoFar' /\ \A m \in AskedSoFar' : m <= n
      BY <1>1, <1>2, <2>1 DEF AskedSoFar, AskedFor
    <3> QED BY <1>2, <1>4, <2>1, <3>1 DEF LastCapHolds
  <2>2. CASE given[n].name # "WithMaxMatches"
    <3>1. AskedSoFar' = AskedSoFar
      BY <1>1, <1>2, <2>2 DEF AskedSoFar, AskedFor
    <3> QED BY <1>2, <1>4, <2>2, <3>1 DEF LastCapHolds, IInv
  <2> QED BY <2>1, <2>2
<1>7. pc = "new" /\ pc' = "new" /\ result' = result
  BY DEF ApplyOption
<1> QED BY <1>5, <1>6, <1>7 DEF IInv, ResultInv, NoRuleMatchesAReplacement, Building

\* Steps that leave the options and what has been returned alone.
LEMMA NothingReturned ==
  ASSUME IInv, UNCHANGED <<options, result>>, pc # "new", pc' # "new"
  PROVE  LastCapHolds' /\ ResultInv' /\ NoRuleMatchesAReplacement'
BY DEF IInv, options, LastCapHolds, AskedSoFar, AskedFor, ResultInv, NoRuleMatchesAReplacement

LEMMA AllAppliedIInv == IInv /\ AllApplied => IInv'
<1> SUFFICES ASSUME IInv, AllApplied PROVE IInv'
  OBVIOUS
<1>1. TypeOK'
  BY DEF AllApplied, IInv, TypeOK, options, scrubber, BitMaps
<1>2. pc = "new" /\ pc' = "idle" /\ applied' = Len(given) /\ UNCHANGED <<given, applied, opts, result>>
  BY DEF AllApplied, options
<1>3. LastCapHolds' /\ ResultInv' /\ NoRuleMatchesAReplacement'
  BY <1>2 DEF IInv, LastCapHolds, AskedSoFar, AskedFor, ResultInv, NoRuleMatchesAReplacement
<1> QED BY <1>1, <1>2, <1>3 DEF IInv, Building

LEMMA AddIInv == \A r \in Choices : IInv /\ Add(r) => IInv'
<1> SUFFICES ASSUME NEW r \in Choices, IInv, Add(r) PROVE IInv'
  OBVIOUS
<1>1. TypeOK'
  BY BuilderAssumption DEF Add, IInv, TypeOK, options, scrubber, BitMaps
<1>2. LastCapHolds' /\ ResultInv' /\ NoRuleMatchesAReplacement'
  BY NothingReturned DEF Add
<1> QED BY <1>1, <1>2 DEF IInv, Building, Add

LEMMA RejectBuilderIInv == IInv /\ RejectBuilder => IInv'
<1> SUFFICES ASSUME IInv, RejectBuilder PROVE IInv'
  OBVIOUS
<1>1. pc = "idle" /\ pc' = "idle" /\ UNCHANGED <<given, applied, opts, rules, i, scrubber>>
  BY DEF RejectBuilder, Return, options
<1>2. result'.kind # "scrubber"
  BY DEF RejectBuilder, Return, Error
<1>3. TypeOK'
  BY <1>1 DEF IInv, TypeOK, scrubber, BitMaps
<1>4. LastCapHolds' /\ ResultInv'
  BY <1>1, <1>2 DEF IInv, LastCapHolds, AskedSoFar, AskedFor, ResultInv
<1> QED BY <1>1, <1>2, <1>3, <1>4 DEF IInv, Building, NoRuleMatchesAReplacement

LEMMA StartBuildIInv == IInv /\ StartBuild => IInv'
<1> SUFFICES ASSUME IInv, StartBuild PROVE IInv'
  OBVIOUS
<1>1. /\ pc = "idle" /\ pc' = "rules" /\ i' = 0
      /\ UNCHANGED <<given, applied, opts, rules>>
      /\ seen' = {} /\ own' = {} /\ compiled' = <<>> /\ cap' = CapFor(opts.maxMatches)
      /\ opts.marker # Empty /\ ~TooManyRules(Len(rules))
      /\ result' = NoResult
  BY DEF StartBuild, options, NoneSeen
<1>2. NoBits \in BitMaps
  BY BuilderAssumption DEF NoBits, BitMaps
<1>3. TypeOK'
  BY <1>1, <1>2 DEF StartBuild, IInv, TypeOK, BitMaps
<1>4. LastCapHolds' /\ ResultInv' /\ NoRuleMatchesAReplacement'
  BY <1>1 DEF IInv, LastCapHolds, AskedSoFar, AskedFor, ResultInv, NoRuleMatchesAReplacement, NoResult
<1>5. TakenInv' /\ MatchInv'
  <2>1. Len(rules) \in Nat /\ MaxRules \in Nat
    BY BuilderAssumption DEF IInv, TypeOK, MaxRules
  <2> QED BY <1>1, <2>1 DEF TakenInv, MatchInv, TooManyRules, CapFor
<1> QED BY <1>3, <1>4, <1>5 DEF IInv

\* A Build that fails returns an error and leaves the builder alone.
LEMMA Rejected ==
  ASSUME IInv, Building, pc' = "idle", result'.kind # "scrubber",
         UNCHANGED <<options, rules, i, scrubber>>
  PROVE  IInv'
<1>1. UNCHANGED <<given, applied, opts>>
  BY DEF options
<1>2. TypeOK'
  BY <1>1 DEF IInv, TypeOK, scrubber, BitMaps
<1>3. LastCapHolds' /\ ResultInv'
  BY <1>1 DEF IInv, LastCapHolds, AskedSoFar, AskedFor, ResultInv, Building
<1> QED BY <1>2, <1>3 DEF IInv, Building, NoRuleMatchesAReplacement

LEMMA TakeRuleIInv == IInv /\ TakeRule => IInv'
<1> SUFFICES ASSUME IInv, TakeRule PROVE IInv'
  OBVIOUS
<1> DEFINE r == rules[i + 1]
<1>1. /\ pc = "rules" /\ pc' = "rules" /\ i' = i + 1
      /\ UNCHANGED <<given, applied, opts, rules, cap, result>>
      /\ seen' = seen \cup {r.id} /\ own' = own \cup AnchorsOf(r, i)
      /\ compiled' = Append(compiled, compile(r))
      /\ all' = setRule(all, i)
      /\ always' \in {always, setRule(always, i)}
      /\ windowed' \in {windowed, setRule(windowed, i)}
  BY DEF TakeRule, Taking, options
<1>2. TakenInv /\ rules \in Seq(Choices) /\ i \in Nat /\ i < Len(rules) /\ i < MaxRules /\ r \in Choices
  <2>1. TakenInv /\ rules \in Seq(Choices) /\ i \in Nat /\ i < Len(rules)
    BY DEF IInv, TypeOK, TakeRule, Taking, Building
  <2>2. Len(rules) <= MaxRules /\ MaxRules \in Nat
    BY <2>1, BuilderAssumption DEF TakenInv, MaxRules
  <2> QED BY <2>1, <2>2
<1>3. all' \in BitMaps /\ always' \in BitMaps /\ windowed' \in BitMaps
  BY <1>1, <1>2, SetRuleType DEF IInv, TypeOK
<1>4. UsableRule(r) /\ r.id \notin seen
  BY FailingMeansUnusable DEF TakeRule
<1>5. /\ compiled' \in Seq({compile(q) : q \in Choices})
      /\ Len(compiled') = i + 1
      /\ \A n \in 1 .. i : compiled'[n] = compiled[n]
      /\ compiled'[i + 1] = compile(r)
  <2>1. compile(r) \in {compile(q) : q \in Choices}
    BY <1>2
  <2> HIDE DEF r
  <2> QED BY <1>1, <1>2, <2>1 DEF TakenInv
<1>6. TypeOK'
  BY <1>1, <1>2, <1>3, <1>5 DEF IInv, TypeOK
<1>7. LastCapHolds' /\ ResultInv' /\ NoRuleMatchesAReplacement'
  BY <1>1, NothingReturned DEF options
<1>8. TakenInv'
  <2>1. \A n \in 1 .. i' : n \in 1 .. i \/ n = i + 1
    BY <1>1, <1>2
  <2>2. \A n \in 1 .. i' : compiled'[n] = compile(rules[n])
    BY <1>1, <1>2, <1>5, <2>1 DEF TakenInv
  <2>3. \A n \in 1 .. i' : UsableRule(rules[n])'
    BY <1>1, <1>2, <1>4, <2>1 DEF TakenInv, UsableRule
  <2>4. \A n, m \in 1 .. i' : rules[n].id = rules[m].id => n = m
    BY <1>2, <1>4, <2>1 DEF TakenInv
  <2>5. seen' = {rules[n].id : n \in 1 .. i'}
    <3>1. 1 .. i' = (1 .. i) \cup {i + 1}
      BY <1>1, <1>2
    <3> QED BY <1>1, <1>2, <3>1 DEF TakenInv
  <2>6. own' = UNION {AnchorsOf(rules[n], n - 1) : n \in 1 .. i'}
    <3>1. 1 .. i' = (1 .. i) \cup {i + 1} /\ (i + 1) - 1 = i
      BY <1>1, <1>2
    <3> QED BY <1>1, <1>2, <3>1 DEF TakenInv
  <2>7. own' = UNION {AnchorsOf(rules[n], n - 1)' : n \in 1 .. i'}
    BY <1>1, <2>6 DEF AnchorsOf
  <2>8. /\ compiled' \in Seq({compile(q)' : q \in Choices})
        /\ \A n \in 1 .. i' : compiled'[n] = compile(rules[n])'
    <3>1. \A q : compile(q)' = compile(q)
      BY <1>1 DEF compile, Replacement
    <3>2. {compile(q)' : q \in Choices} = {compile(q) : q \in Choices}
      BY <3>1
    <3> QED BY <1>1, <1>5, <2>2, <3>1, <3>2
  <2>9. cap' = CapFor(opts.maxMatches)'
    BY <1>1, <1>2 DEF TakenInv, CapFor
  <2>10. opts'.marker # Empty /\ Len(rules') <= MaxRules /\ Len(compiled') = i'
    BY <1>1, <1>2, <1>5 DEF TakenInv
  <2> QED BY <1>1, <2>3, <2>4, <2>5, <2>7, <2>8, <2>9, <2>10 DEF TakenInv
<1> QED BY <1>1, <1>6, <1>7, <1>8 DEF IInv, Building, MatchInv

\* The other steps of a Build leave what it has recorded as it is.
LEMMA TakenStays ==
  ASSUME TakenInv, UNCHANGED <<options, rules, i, scrubber>>
  PROVE  TakenInv'
<1>1. UNCHANGED <<opts, rules, i, seen, own, compiled, cap>>
  BY DEF options, scrubber
<1>2. \A q : compile(q)' = compile(q)
  BY <1>1 DEF compile, Replacement
<1>3. {compile(q)' : q \in Choices} = {compile(q) : q \in Choices}
  BY <1>2
<1>4. /\ compiled' \in Seq({compile(q)' : q \in Choices})
      /\ \A n \in 1 .. i' : compiled'[n] = compile(rules[n])'
  BY <1>1, <1>2, <1>3 DEF TakenInv
<1>5. own' = UNION {AnchorsOf(rules[n], n - 1)' : n \in 1 .. i'}
  BY <1>1 DEF TakenInv, AnchorsOf
<1>6. \A n \in 1 .. i' : UsableRule(rules[n])'
  BY <1>1 DEF TakenInv, UsableRule
<1>7. cap' = CapFor(opts.maxMatches)'
  BY <1>1 DEF TakenInv, CapFor
<1> QED BY <1>1, <1>4, <1>5, <1>6, <1>7 DEF TakenInv

LEMMA AllTakenIInv == IInv /\ AllTaken => IInv'
<1> SUFFICES ASSUME IInv, AllTaken PROVE IInv'
  OBVIOUS
<1>1. pc = "rules" /\ pc' = "match" /\ i = Len(rules) /\ UNCHANGED <<options, rules, i, scrubber, result>>
  BY DEF AllTaken
<1>2. TypeOK'
  BY <1>1 DEF IInv, TypeOK, options, scrubber, BitMaps
<1>3. TakenInv' /\ MatchInv'
  BY <1>1, TakenStays DEF IInv, Building, MatchInv
<1> QED BY <1>1, <1>2, <1>3, NothingReturned DEF IInv

LEMMA PassSelfMatchIInv == IInv /\ PassSelfMatch => IInv'
<1> SUFFICES ASSUME IInv, PassSelfMatch PROVE IInv'
  OBVIOUS
<1>1. /\ pc = "match" /\ pc' = "machine" /\ UNCHANGED <<options, rules, i, scrubber, result>>
      /\ \A n \in 1 .. Len(compiled) : ~MatchesItself(n)
  BY DEF PassSelfMatch
<1>2. UNCHANGED <<opts, rules, i, compiled>>
  BY <1>1 DEF options, scrubber
<1>3. TypeOK'
  BY <1>1 DEF IInv, TypeOK, options, scrubber, BitMaps
<1>4. MatchInv'
  <2>1. \A n \in 1 .. Len(compiled') : ~MatchesItself(n)'
    BY <1>1, <1>2 DEF MatchesItself, Replacements
  <2> QED BY <1>1, <1>2, <2>1 DEF MatchInv, IInv, Building
<1> QED BY <1>1, <1>3, <1>4, NothingReturned, TakenStays DEF IInv, Building

LEMMA RejectRuleIInv == IInv /\ RejectRule => IInv'
<1> SUFFICES ASSUME IInv, RejectRule PROVE IInv'
  OBVIOUS
<1>1. PICK n \in Failing(rules[i + 1]) : Return(Error(Checks(rules[i + 1])[n].kind, i + 1))
  BY DEF RejectRule
<1>2. result'.kind # "scrubber"
  BY <1>1, KindsOfFaults DEF Return, Error, Failing
<1> QED BY <1>1, <1>2, Rejected DEF RejectRule, Taking, Building, Return

LEMMA RejectSelfMatchIInv == IInv /\ RejectSelfMatch => IInv'
BY Rejected DEF RejectSelfMatch, Building, Return, Error

LEMMA RejectAnchorsIInv == IInv /\ RejectAnchors => IInv'
BY Rejected DEF RejectAnchors, Building, Return, Error

LEMMA SucceedIInv == IInv /\ Succeed => IInv'
<1> SUFFICES ASSUME IInv, Succeed PROVE IInv'
  OBVIOUS
<1>1. pc = "machine" /\ pc' = "idle" /\ UNCHANGED <<options, rules, i, scrubber>>
  BY DEF Succeed, Return
<1>2. result'.kind = "scrubber" /\ result'.rules = compiled /\ result'.cap = cap
  BY DEF Succeed, Return
<1>3. UNCHANGED <<given, applied, opts, compiled>>
  BY <1>1 DEF options, scrubber
<1>4. TypeOK'
  BY <1>1 DEF IInv, TypeOK, options, scrubber, BitMaps
<1>5. TakenInv /\ \A n \in 1 .. Len(compiled) : ~MatchesItself(n)
  BY <1>1 DEF IInv, Building, MatchInv
<1>6. LastCapHolds' /\ ResultInv'
  BY <1>1, <1>2, <1>3, <1>5 DEF IInv, LastCapHolds, AskedSoFar, AskedFor, ResultInv, TakenInv, CapFor
<1>7. NoRuleMatchesAReplacement'
  BY <1>2, <1>3, <1>5 DEF NoRuleMatchesAReplacement, MatchesItself, Replacements
<1> QED BY <1>1, <1>4, <1>6, <1>7 DEF IInv, Building

LEMMA StutterIInv == IInv /\ UNCHANGED vars => IInv'
<1> SUFFICES ASSUME IInv, UNCHANGED vars PROVE IInv'
  OBVIOUS
<1>1. UNCHANGED <<given, applied, opts, rules, pc, i, seen, own, compiled, all, always, windowed, cap, result>>
  BY DEF vars, options, scrubber
<1>2. TypeOK'
  BY <1>1 DEF IInv, TypeOK, BitMaps
<1>3. LastCapHolds' /\ ResultInv' /\ NoRuleMatchesAReplacement'
  BY <1>1 DEF IInv, LastCapHolds, AskedSoFar, AskedFor, ResultInv, NoRuleMatchesAReplacement
<1>4. Building => TakenInv'
  BY TakenStays DEF IInv, vars
<1>5. Building => MatchInv'
  BY <1>1 DEF IInv, MatchInv, MatchesItself, Replacements
<1> QED BY <1>1, <1>2, <1>3, <1>4, <1>5 DEF IInv, Building

LEMMA NextIInv == IInv /\ [Next]_vars => IInv'
BY ApplyOptionIInv, AllAppliedIInv, AddIInv, RejectBuilderIInv, StartBuildIInv, RejectRuleIInv,
   TakeRuleIInv, AllTakenIInv, RejectSelfMatchIInv, PassSelfMatchIInv, RejectAnchorsIInv,
   SucceedIInv, StutterIInv DEF Next

LEMMA Invariant == Spec => []IInv
BY InitIInv, NextIInv, PTL DEF Spec
-----------------------------------------------------------------------------
\* Builder keeps its types: in particular no rule's bit leaves its word.
THEOREM TypeCorrect == Spec => []TypeOK
<1>1. IInv => TypeOK
  BY DEF IInv
<1> QED BY <1>1, Invariant, PTL

\* rejectSelfMatch: whatever rules and options, no rule of a scrubber matches
\* its marker or the replacement of any rule of it.
THEOREM ReplacementsAreSafe == Spec => []NoRuleMatchesAReplacement
<1>1. IInv => NoRuleMatchesAReplacement
  BY DEF IInv
<1> QED BY <1>1, Invariant, PTL

\* WithMaxMatches: of all the options New is given, the last one decides, and
\* a cap that is not positive is none.
THEOREM LastCapWins == Spec => []CapIsTheLastAskedFor
<1>1. IInv => CapIsTheLastAskedFor
  <2> SUFFICES ASSUME IInv, result.kind = "scrubber" PROVE CapIsTheLastAskedFor
    BY DEF CapIsTheLastAskedFor
  <2> DEFINE asked == AskedFor("WithMaxMatches")
             last(n) == \A m \in asked : m <= n
  <2>1. asked \subseteq Nat /\ AskedSoFar = asked
    <3>1. applied = Len(given) /\ Len(given) \in Nat
      BY BuilderAssumption DEF IInv, ResultInv, TypeOK
    <3> QED BY <3>1 DEF AskedSoFar, AskedFor
  <2>2. \/ asked = {} /\ opts.maxMatches = 0
        \/ \E n \in asked : opts.maxMatches = given[n].value /\ last(n)
    BY <2>1 DEF IInv, LastCapHolds
  <2>3. \A n, m \in asked : last(n) /\ last(m) => n = m
    BY <2>1
  <2>4. result.cap = IF opts.maxMatches > 0 THEN opts.maxMatches ELSE -1
    BY DEF IInv, ResultInv, CapFor
  <2>5. CASE \E n \in asked : given[n].value > 0 /\ last(n)
    BY <2>2, <2>3, <2>4, <2>5 DEF CapIsTheLastAskedFor
  <2>6. CASE ~ \E n \in asked : given[n].value > 0 /\ last(n)
    BY <2>2, <2>4, <2>6 DEF CapIsTheLastAskedFor
  <2> QED BY <2>5, <2>6
<1> QED BY <1>1, Invariant, PTL

\* Once all rules are taken, they are usable but for their replacements and
\* the size of the machine.
LEMMA TakenIsUsable ==
  ASSUME IInv, TakenInv, i = Len(rules)
  PROVE  Usable <=> /\ \A n \in 1 .. Len(compiled) : ~MatchesItself(n)
                    /\ ~TooManyStates(own)
<1>1. /\ Len(compiled) = Len(rules)
      /\ \A n \in 1 .. Len(rules) :
           /\ compiled[n].pattern = rules[n].pattern
           /\ compiled[n].mask = rules[n].mask
           /\ compiled[n].replace = Replacement(rules[n])
  <2>1. \A q : /\ compile(q).pattern = q.pattern
               /\ compile(q).mask = q.mask
               /\ compile(q).replace = Replacement(q)
    BY Zenon DEF compile
  <2>2. Len(compiled) = Len(rules) /\ \A n \in 1 .. Len(rules) : compiled[n] = compile(rules[n])
    BY DEF TakenInv
  <2> QED BY <2>1, <2>2, Zenon
<1>2. (\A n \in 1 .. Len(compiled) : ~MatchesItself(n)) <=>
        \A n, m \in 1 .. Len(rules) :
          /\ ~Matches(rules[n].pattern, opts.marker)
          /\ ~rules[m].mask => ~Matches(rules[n].pattern, Replacement(rules[m]))
  BY <1>1 DEF MatchesItself, Replacements
<1>3. own = UNION {AnchorsOf(rules[n], n - 1) : n \in 1 .. Len(rules)}
  BY DEF TakenInv
<1> QED BY <1>2, <1>3 DEF TakenInv, Usable

\* Build returns a scrubber exactly if the rules and the options are usable,
\* whatever was built with this builder before.
THEOREM Decided == Spec => BuildDecides
<1>1. IInv /\ [Next]_vars => [Returning => (result'.kind = "scrubber" <=> Usable)]_vars
  <2> SUFFICES ASSUME IInv, Next, Returning PROVE result'.kind = "scrubber" <=> Usable
    BY DEF vars
  <2>1. CASE RejectBuilder
    <3>1. Len(rules) \in Nat /\ MaxRules \in Nat
      BY BuilderAssumption DEF IInv, TypeOK, MaxRules
    <3> QED BY <2>1, <3>1 DEF RejectBuilder, Return, Error, TooManyRules, Usable
  <2>2. CASE RejectRule
    <3> DEFINE r == rules[i + 1]
    <3>1. TakenInv /\ i \in Nat /\ i < Len(rules) /\ Len(rules) \in Nat
      BY <2>2 DEF RejectRule, Taking, IInv, TypeOK, Building
    <3>2. PICK n \in Failing(r) : Return(Error(Checks(r)[n].kind, i + 1))
      BY <2>2 DEF RejectRule
    <3>3. ~UsableRule(r) \/ r.id \in seen
      BY <3>2, FailingMeansUnusable
    <3>4. ASSUME r.id \in seen PROVE ~Usable
      <4>1. PICK m \in 1 .. i : rules[m].id = r.id
        BY <3>1, <3>4 DEF TakenInv
      <4>2. m \in 1 .. Len(rules) /\ i + 1 \in 1 .. Len(rules) /\ m # i + 1
        BY <3>1
      <4> QED BY <4>1, <4>2 DEF Usable
    <3>5. ~Usable
      BY <3>1, <3>3, <3>4 DEF Usable
    <3>6. result'.kind # "scrubber"
      BY <3>2, KindsOfFaults DEF Return, Error, Failing
    <3> QED BY <3>5, <3>6
  <2>3. CASE RejectSelfMatch
    <3>1. TakenInv /\ i = Len(rules) /\ \E n \in 1 .. Len(compiled) : MatchesItself(n)
      BY <2>3 DEF RejectSelfMatch, IInv, MatchInv, Building
    <3>2. result'.kind # "scrubber"
      BY <2>3 DEF RejectSelfMatch, Return, Error
    <3> QED BY <3>1, <3>2, TakenIsUsable
  <2>4. CASE RejectAnchors
    <3>1. TakenInv /\ i = Len(rules) /\ TooManyStates(own)
      BY <2>4 DEF RejectAnchors, IInv, MatchInv, Building
    <3>2. result'.kind # "scrubber"
      BY <2>4 DEF RejectAnchors, Return, Error
    <3> QED BY <3>1, <3>2, TakenIsUsable
  <2>5. CASE Succeed
    <3>1. TakenInv /\ MatchInv /\ i = Len(rules) /\ ~TooManyStates(own)
      BY <2>5 DEF Succeed, IInv, MatchInv, Building
    <3>2. result'.kind = "scrubber"
      BY <2>5 DEF Succeed, Return
    <3> QED BY <2>5, <3>1, <3>2, TakenIsUsable DEF MatchInv, Succeed
  <2>6. CASE ApplyOption \/ AllApplied \/ \E r \in Choices : Add(r)
    BY <2>6 DEF ApplyOption, AllApplied, Add, Returning
  <2>7. CASE StartBuild \/ TakeRule \/ AllTaken \/ PassSelfMatch
    BY <2>7 DEF StartBuild, TakeRule, Taking, AllTaken, PassSelfMatch, Returning
  <2> QED BY <2>1, <2>2, <2>3, <2>4, <2>5, <2>6, <2>7 DEF Next
<1> QED BY <1>1, Invariant, PTL DEF Spec, BuildDecides
-----------------------------------------------------------------------------
(***************************************************************************)
(* The bitmaps hold the rules taken in so far, each in its class.          *)
(***************************************************************************)
BitsInv ==
  /\ HandedOut(all) = 0 .. i - 1
  /\ HandedOut(always) = {n \in 0 .. i - 1 : rules[n + 1].anchors = <<>>}
  /\ HandedOut(windowed) =
       {n \in 0 .. i - 1 : BoundedWithAnchors(rules[n + 1], compile(rules[n + 1]))}

BitsWhileBuilding == Building => BitsInv

\* No two rules share a bit.
LEMMA BitIsOfOneRule ==
  ASSUME NEW m \in Nat, NEW n \in Nat,
         m \div WordSize = n \div WordSize, m % WordSize = n % WordSize
  PROVE  m = n
<1>1. WordSize \in Nat /\ WordSize > 0
  BY BuilderAssumption
<1>2. m = WordSize * (m \div WordSize) + (m % WordSize) /\ n = WordSize * (n \div WordSize) + (n % WordSize)
  BY <1>1
<1> DEFINE q == m \div WordSize
           p == m % WordSize
<1>3. m = WordSize * q + p /\ n = WordSize * q + p
  BY <1>2
<1> HIDE DEF q, p
<1> QED BY <1>3

\* setRule adds the rule and no other.
LEMMA SetRuleHandsOut ==
  ASSUME NEW set \in BitMaps, NEW index \in Nat, index < MaxRules
  PROVE  HandedOut(setRule(set, index)) = HandedOut(set) \cup {index}
<1>1. MaxRules \in Nat
  BY BuilderAssumption DEF MaxRules
<1> DEFINE new == setRule(set, index)
<1>2. \A word \in 0 .. hitWords - 1 :
        new[word] = IF word = index \div WordSize THEN set[word] \cup {index % WordSize} ELSE set[word]
  BY Zenon DEF setRule, BitMaps
<1> HIDE DEF new
<1>3. \A n \in 0 .. MaxRules - 1 :
        n % WordSize \in new[n \div WordSize] <=> n % WordSize \in set[n \div WordSize] \/ n = index
  <2> SUFFICES ASSUME NEW n \in 0 .. MaxRules - 1
               PROVE  n % WordSize \in new[n \div WordSize] <=>
                        n % WordSize \in set[n \div WordSize] \/ n = index
    OBVIOUS
  <2>1. n \in Nat /\ n < MaxRules
    BY <1>1
  <2>2. n \div WordSize \in 0 .. hitWords - 1
    BY <2>1, WordOfIndex
  <2>3. n \div WordSize = index \div WordSize /\ n % WordSize = index % WordSize => n = index
    BY <2>1, BitIsOfOneRule
  <2> QED BY <1>2, <2>2, <2>3, Zenon
<1>4. index \in 0 .. MaxRules - 1
  BY <1>1
<1> QED BY <1>3, <1>4, Zenon DEF HandedOut, new

LEMMA NoBitsNoRules == HandedOut(NoBits) = {}
<1>1. MaxRules \in Nat
  BY BuilderAssumption DEF MaxRules
<1>2. \A n \in 0 .. MaxRules - 1 : NoBits[n \div WordSize] = {}
  BY <1>1, WordOfIndex DEF NoBits
<1> QED BY <1>2 DEF HandedOut

LEMMA TakeRuleBits == IInv /\ BitsWhileBuilding /\ TakeRule => BitsInv'
<1> SUFFICES ASSUME IInv, BitsInv, TakeRule PROVE BitsInv'
  BY DEF BitsWhileBuilding, Building, TakeRule, Taking
<1> DEFINE r == rules[i + 1]
<1>1. /\ i' = i + 1 /\ rules' = rules /\ opts' = opts
      /\ all' = setRule(all, i)
      /\ always' = IF r.anchors = <<>> THEN setRule(always, i) ELSE always
      /\ windowed' = IF BoundedWithAnchors(r, compile(r)) THEN setRule(windowed, i) ELSE windowed
  BY DEF TakeRule, Taking, options
<1>2. i \in Nat /\ i < MaxRules
  <2>1. TakenInv /\ i \in Nat /\ i < Len(rules) /\ Len(rules) \in Nat
    BY DEF IInv, TypeOK, TakeRule, Taking, Building
  <2> QED BY <2>1, BuilderAssumption DEF TakenInv, MaxRules
<1>3. all \in BitMaps /\ always \in BitMaps /\ windowed \in BitMaps
  BY DEF IInv, TypeOK
<1>4. 0 .. (i + 1) - 1 = (0 .. i - 1) \cup {i}
  BY <1>2
<1>5. \A q : BoundedWithAnchors(q, compile(q))' = BoundedWithAnchors(q, compile(q))
  BY <1>1 DEF BoundedWithAnchors, bounded, compile, Replacement
<1>6. HandedOut(all)' = HandedOut(all') /\ HandedOut(always)' = HandedOut(always')
      /\ HandedOut(windowed)' = HandedOut(windowed')
  BY DEF HandedOut
<1>7. HandedOut(all') = 0 .. i' - 1
  BY <1>1, <1>2, <1>3, <1>4, SetRuleHandsOut DEF BitsInv
<1>8. HandedOut(always') = {n \in 0 .. i' - 1 : rules'[n + 1].anchors = <<>>}
  <2>1. HandedOut(always') = HandedOut(always) \cup {n \in {i} : rules[n + 1].anchors = <<>>}
    BY <1>1, <1>2, <1>3, SetRuleHandsOut
  <2> QED BY <1>1, <1>4, <2>1 DEF BitsInv
<1>9. HandedOut(windowed') =
        {n \in 0 .. i' - 1 : BoundedWithAnchors(rules'[n + 1], compile(rules'[n + 1]))}
  <2>1. HandedOut(windowed') =
          HandedOut(windowed) \cup {n \in {i} : BoundedWithAnchors(rules[n + 1], compile(rules[n + 1]))}
    BY <1>1, <1>2, <1>3, SetRuleHandsOut
  <2> QED BY <1>1, <1>4, <2>1 DEF BitsInv
<1> QED BY <1>5, <1>6, <1>7, <1>8, <1>9 DEF BitsInv

LEMMA NextBits == IInv /\ BitsWhileBuilding /\ [Next]_vars => BitsWhileBuilding'
<1> SUFFICES ASSUME IInv, BitsWhileBuilding, [Next]_vars PROVE BitsWhileBuilding'
  OBVIOUS
<1>1. CASE TakeRule
  BY <1>1, TakeRuleBits DEF BitsWhileBuilding
<1>2. CASE StartBuild
  <2>1. i' = 0 /\ all' = NoBits /\ always' = NoBits /\ windowed' = NoBits
    BY <1>2 DEF StartBuild
  <2>2. HandedOut(all') = {} /\ HandedOut(always') = {} /\ HandedOut(windowed') = {} /\ 0 .. i' - 1 = {}
    BY <2>1, NoBitsNoRules
  <2> QED BY <2>2 DEF BitsWhileBuilding, BitsInv, HandedOut
<1>3. CASE \/ AllTaken \/ PassSelfMatch \/ UNCHANGED vars
  <2>1. UNCHANGED <<opts, rules, i, all, always, windowed>> /\ (Building' => Building)
    BY <1>3 DEF AllTaken, PassSelfMatch, vars, options, scrubber, Building
  <2>2. \A q : BoundedWithAnchors(q, compile(q))' = BoundedWithAnchors(q, compile(q))
    BY <2>1 DEF BoundedWithAnchors, bounded, compile, Replacement
  <2> QED BY <2>1, <2>2 DEF BitsWhileBuilding, BitsInv, HandedOut
<1>4. CASE \/ ApplyOption \/ AllApplied \/ \E q \in Choices : Add(q)
           \/ RejectBuilder \/ RejectRule \/ RejectSelfMatch \/ RejectAnchors \/ Succeed
  <2>1. pc' \in {"new", "idle"}
    BY <1>4 DEF ApplyOption, AllApplied, Add, RejectBuilder, RejectRule, RejectSelfMatch,
                RejectAnchors, Succeed, Return
  <2> QED BY <2>1 DEF BitsWhileBuilding, Building
<1> QED BY <1>1, <1>2, <1>3, <1>4 DEF Next

LEMMA BitsOfTheRules == Spec => []BitsWhileBuilding
<1>1. Init => BitsWhileBuilding
  BY DEF Init, BitsWhileBuilding, Building
<1> QED BY <1>1, Invariant, NextBits, PTL DEF Spec
-----------------------------------------------------------------------------
(***************************************************************************)
(* InOrder, the list BuildKeepsEveryRule compares with: a set of indices   *)
(* has an ascending list, which leaves none of them out.                   *)
(***************************************************************************)
Ascending(list, S) ==
  /\ list \in [1 .. Cardinality(S) -> S]
  /\ \A m, n \in 1 .. Cardinality(S) : m < n => list[m] < list[n]

Unlisted == {k \in Nat : \E S \in SUBSET (0 .. k - 1) : ~ \E list : Ascending(list, S)}

LEMMA IndicesBelow ==
  ASSUME NEW k \in Nat
  PROVE  IsFiniteSet(0 .. k - 1) /\ Cardinality(0 .. k - 1) = k
<1> DEFINE z == k - 1
<1>1. z \in Int /\ 0 \in Int
  OBVIOUS
<1> HIDE DEF z
<1>2. IsFiniteSet(0 .. z) /\ Cardinality(0 .. z) = IF 0 > z THEN 0 ELSE z - 0 + 1
  BY <1>1, FS_Interval
<1> QED BY <1>2 DEF z

\* The greatest comes last.
LEMMA AscendingWithGreatest ==
  ASSUME NEW k \in Nat, NEW S \in SUBSET (0 .. k), k \in S,
         \E list : Ascending(list, S \ {k})
  PROVE  \E list : Ascending(list, S)
<1> DEFINE R == S \ {k}
           c == Cardinality(R)
<1>1. IsFiniteSet(0 .. k)
  BY FS_Interval
<1>2. IsFiniteSet(S)
  BY <1>1, FS_Subset
<1>3. IsFiniteSet(R) /\ c \in Nat /\ Cardinality(S) = c + 1
  <2>1. IsFiniteSet(R) /\ Cardinality(R) = Cardinality(S) - 1
    BY <1>2, FS_RemoveElement
  <2>2. Cardinality(R) \in Nat /\ Cardinality(S) \in Nat
    BY <2>1, <1>2, FS_CardinalityType
  <2> QED BY <2>1, <2>2
<1>4. PICK f : Ascending(f, R)
  OBVIOUS
<1>5. \A x \in R : x \in Nat /\ x < k
  OBVIOUS
<1> HIDE DEF c
<1>6. f \in [1 .. c -> R] /\ \A m, n \in 1 .. c : m < n => f[m] < f[n]
  BY <1>4 DEF Ascending, c
<1> DEFINE g == [n \in 1 .. c + 1 |-> IF n = c + 1 THEN k ELSE f[n]]
<1>7. \A n \in 1 .. c + 1 : n = c + 1 \/ n \in 1 .. c
  BY <1>3
<1>8. g \in [1 .. c + 1 -> S]
  BY <1>3, <1>6, <1>7
<1>9. \A m, n \in 1 .. c + 1 : m < n => g[m] < g[n]
  <2> SUFFICES ASSUME NEW m \in 1 .. c + 1, NEW n \in 1 .. c + 1, m < n PROVE g[m] < g[n]
    OBVIOUS
  <2>1. m \in 1 .. c /\ g[m] = f[m] /\ f[m] \in R
    BY <1>3, <1>6
  <2>2. n = c + 1 => g[n] = k /\ f[m] < k
    BY <1>5, <2>1
  <2>3. n # c + 1 => n \in 1 .. c /\ g[n] = f[n] /\ f[m] < f[n]
    BY <1>6, <1>7, <2>1
  <2> QED BY <2>1, <2>2, <2>3
<1> HIDE DEF g
<1>10. Ascending(g, S)
  BY <1>3, <1>8, <1>9 DEF Ascending
<1> QED BY <1>10

LEMMA AscendingExists ==
  ASSUME NEW k \in Nat, NEW S \in SUBSET (0 .. k - 1)
  PROVE  \E list : Ascending(list, S)
<1>1. ASSUME Unlisted # {} PROVE FALSE
  <2>1. Unlisted \in SUBSET Nat
    BY DEF Unlisted
  <2>2. PICK l \in Unlisted : \A m \in Unlisted : l <= m
    BY <1>1, <2>1, LeastOfNats
  <2>3. l \in Nat
    BY <2>1, <2>2
  <2>4. PICK T \in SUBSET (0 .. l - 1) : ~ \E list : Ascending(list, T)
    BY <2>2 DEF Unlisted
  <2>5. CASE l = 0
    <3>1. T = {}
      BY <2>4, <2>5
    <3>2. Cardinality(T) = 0
      BY <3>1, FS_EmptySet
    <3>3. Ascending([n \in 1 .. 0 |-> n], T)
      BY <3>2 DEF Ascending
    <3> QED BY <2>4, <3>3
  <2>6. CASE l > 0
    <3> DEFINE b == l - 1
    <3>1. b \in Nat /\ b \notin Unlisted
      BY <2>2, <2>3, <2>6
    <3>2. T \in SUBSET (0 .. b) /\ 0 .. b - 1 = (0 .. b) \ {b}
      BY <2>3, <2>4, <3>1
    <3> HIDE DEF b
    <3>3. \E list : Ascending(list, T \ {b})
      <4>1. T \ {b} \in SUBSET (0 .. b - 1)
        BY <3>2
      <4> QED BY <3>1, <4>1 DEF Unlisted
    <3>4. CASE b \in T
      BY <2>4, <3>1, <3>2, <3>3, <3>4, AscendingWithGreatest
    <3>5. CASE b \notin T
      <4>1. T \ {b} = T
        BY <3>5
      <4> QED BY <2>4, <3>3, <4>1
    <3> QED BY <3>4, <3>5
  <2> QED BY <2>3, <2>5, <2>6
<1> QED BY <1>1 DEF Unlisted

LEMMA InOrderAscends ==
  ASSUME NEW k \in Nat, NEW S \in SUBSET (0 .. k - 1)
  PROVE  /\ Ascending(InOrder(S), S)
         /\ Len(InOrder(S)) = Cardinality(S)
         /\ Cardinality(S) \in Nat
<1>1. Ascending(InOrder(S), S)
  BY AscendingExists DEF Ascending, InOrder
<1>2. Cardinality(S) \in Nat
  BY IndicesBelow, FS_Subset, FS_CardinalityType
<1>3. Len(InOrder(S)) = Cardinality(S)
  <2> DEFINE c == Cardinality(S)
             list == InOrder(S)
  <2>1. list \in [1 .. c -> S] /\ c \in Nat
    BY <1>1, <1>2 DEF Ascending
  <2> HIDE DEF c, list
  <2>2. Len(list) = c
    BY <2>1, SeqDef
  <2> QED BY <2>2 DEF c, list
<1> QED BY <1>1, <1>2, <1>3

\* Nothing is left out.
LEMMA InOrderListsAll ==
  ASSUME NEW k \in Nat, NEW S \in SUBSET (0 .. k - 1)
  PROVE  \A x \in S : \E n \in 1 .. Len(InOrder(S)) : InOrder(S)[n] = x
<1> DEFINE c == Cardinality(S)
           list == InOrder(S)
<1>1. list \in [1 .. c -> S] /\ Len(list) = c /\ c \in Nat
      /\ \A m, n \in 1 .. c : m < n => list[m] < list[n]
  BY InOrderAscends DEF Ascending
<1>2. IsFiniteSet(S)
  BY IndicesBelow, FS_Subset
<1>3. \A x \in S : x \in Int
  OBVIOUS
<1>4. IsFiniteSet(1 .. c) /\ Cardinality(1 .. c) = Cardinality(S)
  <2>1. c = Cardinality(S)
    OBVIOUS
  <2> HIDE DEF c
  <2>2. IsFiniteSet(1 .. c) /\ Cardinality(1 .. c) = IF 1 > c THEN 0 ELSE c - 1 + 1
    BY <1>1, FS_Interval
  <2> QED BY <1>1, <2>1, <2>2
<1> HIDE DEF c, list
<1>5. \A m, n \in 1 .. c : list[m] = list[n] => m = n
  <2> SUFFICES ASSUME NEW m \in 1 .. c, NEW n \in 1 .. c, list[m] = list[n] PROVE m = n
    OBVIOUS
  <2>1. list[m] \in Int /\ list[n] \in Int
    BY <1>1, <1>3
  <2>2. ~(m < n) /\ ~(n < m)
    BY <1>1, <2>1
  <2> QED BY <2>2
<1>6. list \in Injection(1 .. c, S)
  BY <1>1, <1>5, Fun_IsInj
<1>7. list \in Surjection(1 .. c, S)
  BY <1>2, <1>4, <1>6, FS_Injection
<1>8. \A x \in S : \E n \in 1 .. c : list[n] = x
  <2> DEFINE I == 1 .. c
  <2>1. list \in Surjection(I, S)
    BY <1>7
  <2> HIDE DEF I
  <2>2. \A x \in S : \E n \in I : list[n] = x
    BY <2>1, Fun_SurjectionProperties
  <2> QED BY <2>2 DEF I
<1> QED BY <1>1, <1>8 DEF list

\* The indices below k are listed as they are.
LEMMA AllInOrder ==
  ASSUME NEW k \in Nat
  PROVE  Len(InOrder(0 .. k - 1)) = k /\ \A n \in 1 .. k : InOrder(0 .. k - 1)[n] = n - 1
<1> DEFINE list == InOrder(0 .. k - 1)
<1>1. Cardinality(0 .. k - 1) = k
  BY IndicesBelow
<1>2. /\ list \in [1 .. k -> 0 .. k - 1] /\ Len(list) = k
      /\ \A m, n \in 1 .. k : m < n => list[m] < list[n]
  BY <1>1, InOrderAscends DEF Ascending
<1> HIDE DEF list
<1> DEFINE Low == {n \in 1 .. k : list[n] < n - 1}
           High == {m \in 0 .. k - 1 : list[k - m] > k - m - 1}
<1>3. ASSUME Low # {} PROVE FALSE
  <2>1. Low \in SUBSET Nat
    OBVIOUS
  <2>2. \E n \in Low : \A m \in Low : n <= m
    <3> HIDE DEF Low
    <3> QED BY <1>3, <2>1, LeastOfNats
  <2>3. PICK n \in Low : \A m \in Low : n <= m
    BY <2>2
  <2>4. n \in 1 .. k /\ list[n] < n - 1 /\ list[n] \in Nat
    BY <1>2, <2>3
  <2>5. n - 1 \in 1 .. k /\ n - 1 \notin Low
    BY <2>3, <2>4
  <2>6. list[n - 1] \in Nat /\ list[n - 1] >= n - 2
    BY <1>2, <2>5
  <2> QED BY <1>2, <2>4, <2>5, <2>6
<1>4. ASSUME High # {} PROVE FALSE
  <2>1. High \in SUBSET Nat
    OBVIOUS
  <2>2. \E m \in High : \A l \in High : m <= l
    <3> HIDE DEF High
    <3> QED BY <1>4, <2>1, LeastOfNats
  <2>3. PICK m \in High : \A l \in High : m <= l
    BY <2>2
  <2>4. m \in 0 .. k - 1 /\ k - m \in 1 .. k /\ list[k - m] > k - m - 1 /\ list[k - m] \in 0 .. k - 1
    BY <1>2, <2>3
  <2>5. m - 1 \in 0 .. k - 1 /\ m - 1 \notin High
    BY <2>3, <2>4
  <2>6. k - (m - 1) \in 1 .. k /\ list[k - (m - 1)] \in Nat /\ list[k - (m - 1)] <= k - m
    BY <1>2, <2>4, <2>5
  <2> QED BY <1>2, <2>4, <2>6
<1>5. \A n \in 1 .. k : list[n] = n - 1
  <2> SUFFICES ASSUME NEW n \in 1 .. k PROVE list[n] = n - 1
    OBVIOUS
  <2>a. list[n] \in 0 .. k - 1 /\ n \notin Low
    BY <1>2, <1>3
  <2>1. list[n] \in Nat /\ list[n] >= n - 1
    BY <2>a
  <2>2. k - n \in 0 .. k - 1 /\ k - (k - n) = n
    OBVIOUS
  <2>3. k - n \notin High
    BY <1>4
  <2>4. list[n] <= n - 1
    BY <2>1, <2>2, <2>3
  <2> QED BY <2>1, <2>4
<1> QED BY <1>2, <1>5 DEF list
-----------------------------------------------------------------------------
(***************************************************************************)
(* What the two loops of forEachRule have handed out: the inner one, after *)
(* k rounds, the bits of its word below every bit that is left.            *)
(***************************************************************************)
Ascends(list) == \A m, n \in 1 .. Len(list) : m < n => list[m] < list[n]
Elements(list) == {list[n] : n \in 1 .. Len(list)}

Bits == 0 .. WordSize - 1
Loop == [set : SUBSET Bits, list : Seq(Nat)]

LEMMA Lowest ==
  ASSUME NEW bits \in SUBSET Bits, bits # {}
  PROVE  /\ TrailingZeros(bits) \in bits /\ TrailingZeros(bits) \in Nat
         /\ \A c \in bits : TrailingZeros(bits) <= c
<1>1. bits \in SUBSET Nat
  BY DEF Bits
<1>2. \E b \in bits : \A c \in bits : b <= c
  BY <1>1, LeastOfNats
<1>3. TrailingZeros(bits) \in bits /\ \A c \in bits : TrailingZeros(bits) <= c
  BY <1>2, Zenon DEF TrailingZeros
<1> QED BY <1>1, <1>3

LEMMA GreaterAppended ==
  ASSUME NEW list \in Seq(Nat), Ascends(list), NEW x \in Nat, \A y \in Elements(list) : y < x
  PROVE  /\ Append(list, x) \in Seq(Nat) /\ Ascends(Append(list, x))
         /\ Elements(Append(list, x)) = Elements(list) \cup {x}
<1> DEFINE l == Len(list)
           more == Append(list, x)
<1>1. /\ more \in Seq(Nat) /\ l \in Nat /\ Len(more) = l + 1 /\ more[l + 1] = x
      /\ \A n \in 1 .. l : more[n] = list[n]
  BY AppendProperties, LenProperties
<1>2. \A n \in 1 .. l : list[n] \in Elements(list)
  BY DEF Elements
<1> HIDE DEF more
<1>3. Ascends(more)
  <2> SUFFICES ASSUME NEW m \in 1 .. l + 1, NEW n \in 1 .. l + 1, m < n PROVE more[m] < more[n]
    BY <1>1 DEF Ascends
  <2>1. m \in 1 .. l /\ (n = l + 1 \/ n \in 1 .. l)
    BY <1>1
  <2>2. CASE n = l + 1
    BY <1>1, <1>2, <2>1, <2>2
  <2>3. CASE n \in 1 .. l
    BY <1>1, <2>1, <2>3 DEF Ascends
  <2> QED BY <2>1, <2>2, <2>3
<1>4. Elements(more) = Elements(list) \cup {x}
  <2>1. \A n \in 1 .. l + 1 : n = l + 1 \/ n \in 1 .. l
    BY <1>1
  <2>2. \A n \in 1 .. l : n \in 1 .. l + 1
    BY <1>1
  <2>3. l + 1 \in 1 .. l + 1
    BY <1>1
  <2> HIDE DEF l
  <2>4. Elements(more) = {more[n] : n \in 1 .. l + 1} /\ Elements(list) = {list[n] : n \in 1 .. l}
    BY <1>1 DEF Elements, l
  <2> QED BY <1>1, <2>1, <2>2, <2>3, <2>4
<1> QED BY <1>1, <1>3, <1>4 DEF more

LEMMA RoundType ==
  ASSUME NEW word \in Nat, NEW loop \in Loop
  PROVE  Round(word, loop) \in Loop
<1>1. loop.set \in SUBSET Bits /\ loop.list \in Seq(Nat) /\ WordSize \in Nat
  BY BuilderAssumption DEF Loop
<1>2. CASE loop.set = {}
  BY <1>2 DEF Round
<1>3. CASE loop.set # {}
  <2> DEFINE b == TrailingZeros(loop.set)
             x == word * WordSize + b
  <2>1. b \in Nat
    BY <1>1, <1>3, Lowest
  <2>2. x \in Nat
    <3>1. word * WordSize \in Nat
      BY <1>1
    <3> HIDE DEF b
    <3> DEFINE base == word * WordSize
    <3> HIDE DEF base
    <3>2. base + b \in Nat
      <4>1. base \in Nat
        BY <3>1 DEF base
      <4> QED BY <2>1, <4>1
    <3> QED BY <3>2 DEF base
  <2> HIDE DEF b, x
  <2>3. Append(loop.list, x) \in Seq(Nat) /\ loop.set \ {b} \in SUBSET Bits
    BY <1>1, <2>2, AppendProperties
  <2>4. Round(word, loop) = [set |-> loop.set \ {b}, list |-> Append(loop.list, x)]
    BY <1>3 DEF Round, b, x
  <2> QED BY <2>3, <2>4 DEF Loop
<1> QED BY <1>2, <1>3

\* k rounds into a word that starts at index base: what is left of its bits is
\* above all that was handed out.
RoundInv(loop, base, bits, old, k) ==
  /\ loop \in Loop /\ loop.set \subseteq bits
  /\ \A b \in loop.set : b >= k
  /\ Ascends(loop.list)
  /\ Elements(loop.list) = old \cup {base + b : b \in bits \ loop.set}
  /\ \A x \in Elements(loop.list) : \A b \in loop.set : x < base + b

LEMMA OneRound ==
  ASSUME NEW word \in Nat, NEW bits \in SUBSET Bits, NEW old, NEW k \in Nat, NEW loop,
         RoundInv(loop, word * WordSize, bits, old, k)
  PROVE  RoundInv(Round(word, loop), word * WordSize, bits, old, k + 1)
<1> DEFINE base == word * WordSize
           b == TrailingZeros(loop.set)
<1>1. base \in Nat
  BY BuilderAssumption
<1>2. /\ loop \in Loop /\ loop.set \in SUBSET Bits /\ loop.list \in Seq(Nat)
      /\ Round(word, loop) \in Loop
  BY RoundType DEF RoundInv, Loop
<1>3. CASE loop.set = {}
  BY <1>2, <1>3 DEF RoundInv, Round
<1>4. CASE loop.set # {}
  <2>1. b \in loop.set /\ b \in Nat /\ \A c \in loop.set : c \in Nat /\ b <= c
    <3>1. \A c \in loop.set : c \in Nat
      BY <1>2 DEF Bits
    <3> QED BY <1>2, <1>4, <3>1, Lowest
  <2>2. Round(word, loop) = [set |-> loop.set \ {b}, list |-> Append(loop.list, base + b)]
    BY <1>4 DEF Round
  <2>0. RoundInv(loop, base, bits, old, k)
    OBVIOUS
  <2> HIDE DEF base, b
  <2> DEFINE left == loop.set \ {b}
             more == Append(loop.list, base + b)
  <2>3. /\ \A y \in Elements(loop.list) : \A c \in loop.set : y < base + c
        /\ Ascends(loop.list) /\ loop.set \subseteq bits
        /\ Elements(loop.list) = old \cup {base + c : c \in bits \ loop.set}
        /\ \A c \in loop.set : c >= k
    BY <2>0 DEF RoundInv
  <2>4. base + b \in Nat /\ \A y \in Elements(loop.list) : y < base + b
    <3>1. base + b \in Nat
      BY <1>1, <2>1
    <3>2. \A y \in Elements(loop.list) : y < base + b
      BY <2>1, <2>3, Zenon
    <3> QED BY <3>1, <3>2
  <2>5. Ascends(more) /\ Elements(more) = Elements(loop.list) \cup {base + b}
    BY <1>2, <2>3, <2>4, GreaterAppended
  <2> HIDE DEF more
  <2>6. \A c \in left : c \in Nat /\ b < c /\ c >= k + 1
    BY <2>1, <2>3
  <2>7. Elements(more) = old \cup {base + c : c \in bits \ left}
    <3>1. bits \ left = (bits \ loop.set) \cup {b}
      BY <2>1, <2>3
    <3> HIDE DEF left
    <3> QED BY <2>3, <2>5, <3>1
  <2>8. \A y \in Elements(more) : \A c \in left : y < base + c
    <3>1. \A c \in left : base + b < base + c
      BY <1>1, <2>1, <2>6
    <3> QED BY <2>3, <2>5, <3>1
  <2>9. left \subseteq bits
    BY <2>3
  <2>10. Round(word, loop).set = left /\ Round(word, loop).list = more
    BY <2>2 DEF more
  <2> HIDE DEF left
  <2>11. RoundInv(Round(word, loop), base, bits, old, k + 1)
    BY <1>2, <2>5, <2>6, <2>7, <2>8, <2>9, <2>10 DEF RoundInv
  <2> QED BY <2>11 DEF base
<1> QED BY <1>3, <1>4

\* The inner loop, round by round.
LEMMA InWordEquations ==
  ASSUME NEW word \in Nat, NEW bits \in SUBSET Bits, NEW list \in Seq(Nat)
  PROVE  \E f : /\ f[0] = [set |-> bits, list |-> list]
                /\ \A k \in 1 .. WordSize : f[k] = Round(word, f[k - 1])
                /\ InWord(word, bits, list) = f[WordSize].list
<1> DEFINE n == WordSize
           first == [set |-> bits, list |-> list]
           Goes(f) == f = [k \in 0 .. WordSize |-> IF k = 0 THEN first ELSE Round(word, f[k - 1])]
           step == [x \in (1 .. n) \X Loop |-> Round(word, x[2])]
<1>1. n \in Nat
  BY BuilderAssumption
<1>2. first \in Loop
  BY DEF Loop
<1>3. step \in [(1 .. n) \X Loop -> Loop]
  BY RoundType
<1>4. \A k \in 1 .. n : \A l \in Loop : step[<<k, l>>] = Round(word, l)
  OBVIOUS
<1>5. \E f : Iteration(f, n, Loop, first, step)
  <2> HIDE DEF n, first, step
  <2> QED BY <1>1, <1>2, <1>3, Iterated
<1>6. PICK f : /\ f[0] = first
               /\ \A k \in 0 .. n : f[k] \in Loop
               /\ \A k \in 1 .. n : f[k] = step[<<k, f[k - 1]>>]
  <2> HIDE DEF step, n, first
  <2> QED BY <1>5 DEF Iteration
<1> DEFINE g == [k \in 0 .. n |-> f[k]]
<1>7. ASSUME NEW k \in 0 .. n PROVE g[k] = IF k = 0 THEN first ELSE Round(word, g[k - 1])
  <2> HIDE DEF step, first, n
  <2>1. CASE k = 0
    BY <1>6, <2>1
  <2>2. CASE k # 0
    <3>1. k \in 1 .. n /\ k - 1 \in 0 .. n
      BY <1>1, <2>2
    <3>2. g[k] = f[k] /\ g[k - 1] = f[k - 1] /\ f[k - 1] \in Loop
      BY <1>6, <3>1
    <3> QED BY <1>4, <1>6, <2>2, <3>1, <3>2
  <2> QED BY <2>1, <2>2
<1>8. g = [k \in 0 .. n |-> g[k]]
  OBVIOUS
<1> HIDE DEF g
<1>9. g = [k \in 0 .. n |-> IF k = 0 THEN first ELSE Round(word, g[k - 1])]
  <2> HIDE DEF first
  <2> QED BY <1>7, <1>8
<1>10. Goes(g)
  BY <1>9
<1> DEFINE h == CHOOSE h : Goes(h)
<1>11. Goes(h)
  BY <1>10, Zenon
<1>12. InWord(word, bits, list) = h[WordSize].list
  BY Zenon DEF InWord
<1> HIDE DEF h
<1>13. \A k \in 0 .. n : h[k] = IF k = 0 THEN first ELSE Round(word, h[k - 1])
  <2> HIDE DEF first
  <2> QED BY <1>11
<1>14. h[0] = first /\ \A k \in 1 .. n : h[k] = Round(word, h[k - 1])
  <2>1. 0 \in 0 .. n /\ \A k \in 1 .. n : k \in 0 .. n /\ k # 0
    BY <1>1
  <2> HIDE DEF first, n
  <2> QED BY <1>13, <2>1
<1> QED BY <1>12, <1>14

\* A word adds the rules of its bits to the list, in ascending order.
LEMMA WordHandedOut ==
  ASSUME NEW word \in Nat, NEW bits \in SUBSET Bits, NEW list \in Seq(Nat), Ascends(list),
         \A x \in Elements(list) : x < word * WordSize
  PROVE  /\ InWord(word, bits, list) \in Seq(Nat)
         /\ Ascends(InWord(word, bits, list))
         /\ Elements(InWord(word, bits, list)) =
              Elements(list) \cup {word * WordSize + b : b \in bits}
<1> DEFINE n == WordSize
           base == word * WordSize
           old == Elements(list)
<1>1. n \in Nat /\ base \in Nat
  BY BuilderAssumption
<1>2. PICK f : /\ f[0] = [set |-> bits, list |-> list]
               /\ \A k \in 1 .. n : f[k] = Round(word, f[k - 1])
               /\ InWord(word, bits, list) = f[n].list
  BY InWordEquations
<1> DEFINE Good == {k \in 0 .. n : RoundInv(f[k], base, bits, old, k)}
<1>3. 0 \in Good
  <2>1. f[0].set = bits /\ f[0].list = list /\ f[0] \in Loop
    BY <1>2 DEF Loop
  <2>2. \A b \in bits : b \in Nat /\ b >= 0
    BY DEF Bits
  <2>3. \A x \in old : x \in Nat /\ x < base
    BY DEF Elements
  <2> HIDE DEF base, old
  <2>4. \A x \in old : \A b \in bits : x < base + b
    BY <1>1, <2>2, <2>3
  <2>5. old = old \cup {base + b : b \in bits \ bits}
    OBVIOUS
  <2>6. RoundInv(f[0], base, bits, old, 0)
    BY <2>1, <2>2, <2>4, <2>5 DEF RoundInv, old
  <2> QED BY <1>1, <2>6
<1>4. ASSUME NEW k \in 1 .. n, k - 1 \in Good PROVE k \in Good
  <2>1. k - 1 \in Nat /\ (k - 1) + 1 = k /\ k \in 0 .. n
    BY <1>1
  <2>2. RoundInv(Round(word, f[k - 1]), base, bits, old, (k - 1) + 1)
    <3>1. RoundInv(f[k - 1], base, bits, old, k - 1)
      BY <1>4
    <3> HIDE DEF old
    <3> QED BY <2>1, <3>1, OneRound
  <2> HIDE DEF base, old
  <2> QED BY <1>2, <2>1, <2>2
<1>5. n \in Good
  <2> HIDE DEF Good, base, old
  <2>1. \A k \in 0 .. n : k \in Good
    BY <1>1, <1>3, <1>4, Upward
  <2> QED BY <1>1, <2>1
<1>6. RoundInv(f[n], base, bits, old, n)
  BY <1>5
<1> HIDE DEF base, old
<1>7. f[n].set = {}
  <2>1. \A b \in f[n].set : b >= n /\ b \in Bits
    BY <1>6 DEF RoundInv
  <2> QED BY <1>1, <2>1 DEF Bits
<1>8. bits \ f[n].set = bits
  BY <1>7
<1>9. /\ f[n].list \in Seq(Nat) /\ Ascends(f[n].list)
      /\ Elements(f[n].list) = old \cup {base + b : b \in bits}
  BY <1>6, <1>8 DEF RoundInv, Loop
<1> QED BY <1>2, <1>9 DEF base, old

\* Every list of numbers stays one.
LEMMA InWordType ==
  ASSUME NEW word \in Nat, NEW bits \in SUBSET Bits, NEW list \in Seq(Nat)
  PROVE  InWord(word, bits, list) \in Seq(Nat)
<1> DEFINE n == WordSize
<1>1. n \in Nat
  BY BuilderAssumption
<1>2. PICK f : /\ f[0] = [set |-> bits, list |-> list]
               /\ \A k \in 1 .. n : f[k] = Round(word, f[k - 1])
               /\ InWord(word, bits, list) = f[n].list
  BY InWordEquations
<1> DEFINE Good == {k \in 0 .. n : f[k] \in Loop}
<1>3. 0 \in Good
  BY <1>1, <1>2 DEF Loop
<1>4. ASSUME NEW k \in 1 .. n, k - 1 \in Good PROVE k \in Good
  BY <1>1, <1>2, <1>4, RoundType
<1>5. n \in Good
  <2> HIDE DEF Good
  <2>1. \A k \in 0 .. n : k \in Good
    BY <1>1, <1>3, <1>4, Upward
  <2> QED BY <1>1, <2>1
<1> QED BY <1>2, <1>5 DEF Loop

\* The outer loop, word by word.
LEMMA ListedEquations ==
  ASSUME NEW set \in BitMaps
  PROVE  \E f : /\ f[0] = <<>>
                /\ \A w \in 1 .. hitWords : f[w] = InWord(w - 1, set[w - 1], f[w - 1])
                /\ Listed(set) = f[hitWords]
<1> DEFINE n == hitWords
           Goes(f) == f = [word \in 0 .. hitWords |->
                             IF word = 0 THEN <<>> ELSE InWord(word - 1, set[word - 1], f[word - 1])]
           S == Seq(Nat)
           step == [x \in (1 .. n) \X S |-> InWord(x[1] - 1, set[x[1] - 1], x[2])]
<1>1. n \in Nat
  BY BuilderAssumption
<1>2. <<>> \in S
  BY EmptySeq
<1>3. \A w \in 1 .. n : w - 1 \in Nat /\ w - 1 \in 0 .. n - 1 /\ set[w - 1] \in SUBSET Bits
  <2>1. \A w \in 1 .. n : w - 1 \in Nat /\ w - 1 \in 0 .. n - 1
    BY <1>1
  <2> QED BY <2>1 DEF BitMaps, Bits
<1>4. step \in [(1 .. n) \X S -> S]
  <2> SUFFICES ASSUME NEW x \in (1 .. n) \X S PROVE InWord(x[1] - 1, set[x[1] - 1], x[2]) \in S
    OBVIOUS
  <2>1. x[1] \in 1 .. n /\ x[2] \in S
    OBVIOUS
  <2> QED BY <1>3, <2>1, InWordType
<1>5. \A w \in 1 .. n : \A l \in S : step[<<w, l>>] = InWord(w - 1, set[w - 1], l)
  OBVIOUS
<1>6. \E f : Iteration(f, n, S, <<>>, step)
  <2> HIDE DEF n, S, step
  <2> QED BY <1>1, <1>2, <1>4, Iterated
<1>7. PICK f : /\ f[0] = <<>>
               /\ \A w \in 0 .. n : f[w] \in S
               /\ \A w \in 1 .. n : f[w] = step[<<w, f[w - 1]>>]
  <2> HIDE DEF step, n, S
  <2> QED BY <1>6 DEF Iteration
<1> DEFINE g == [w \in 0 .. n |-> f[w]]
<1>8. ASSUME NEW w \in 0 .. n
      PROVE  g[w] = IF w = 0 THEN <<>> ELSE InWord(w - 1, set[w - 1], g[w - 1])
  <2> HIDE DEF step, n, S
  <2>1. CASE w = 0
    BY <1>7, <2>1
  <2>2. CASE w # 0
    <3>1. w \in 1 .. n /\ w - 1 \in 0 .. n
      BY <1>1, <2>2
    <3>2. g[w] = f[w] /\ g[w - 1] = f[w - 1] /\ f[w - 1] \in S
      BY <1>7, <3>1
    <3> QED BY <1>5, <1>7, <2>2, <3>1, <3>2
  <2> QED BY <2>1, <2>2
<1>9. g = [w \in 0 .. n |-> g[w]]
  OBVIOUS
<1> HIDE DEF g
<1>10. g = [w \in 0 .. n |-> IF w = 0 THEN <<>> ELSE InWord(w - 1, set[w - 1], g[w - 1])]
  BY <1>8, <1>9
<1>11. Goes(g)
  BY <1>10
<1> DEFINE h == CHOOSE h : Goes(h)
<1>12. Goes(h)
  BY <1>11, Zenon
<1>13. Listed(set) = h[hitWords]
  BY Zenon DEF Listed
<1> HIDE DEF h
<1>14. \A w \in 0 .. n : h[w] = IF w = 0 THEN <<>> ELSE InWord(w - 1, set[w - 1], h[w - 1])
  BY <1>12
<1>15. h[0] = <<>> /\ \A w \in 1 .. n : h[w] = InWord(w - 1, set[w - 1], h[w - 1])
  <2>1. 0 \in 0 .. n /\ \A w \in 1 .. n : w \in 0 .. n /\ w # 0
    BY <1>1
  <2> HIDE DEF n
  <2> QED BY <1>14, <2>1
<1> QED BY <1>13, <1>15

\* The rules of the first w words.
OfWord(set, v) == {v * WordSize + b : b \in set[v]}
OfWords(set, w) == UNION {OfWord(set, v) : v \in 0 .. w - 1}

LEMMA OneMoreWord ==
  ASSUME NEW set \in BitMaps, NEW w \in 1 .. hitWords
  PROVE  OfWords(set, w) = OfWords(set, w - 1) \cup OfWord(set, w - 1)
<1>1. 0 .. w - 1 = (0 .. (w - 1) - 1) \cup {w - 1}
  BY BuilderAssumption
<1> QED BY <1>1 DEF OfWords

\* The rules of a word come before those of the next.
LEMMA WordsApart ==
  ASSUME NEW v \in Nat, NEW w \in Nat, v < w, NEW b \in Bits
  PROVE  v * WordSize + b \in Nat /\ v * WordSize + b < w * WordSize
<1>1. WordSize \in Nat /\ b \in Nat /\ b < WordSize
  BY BuilderAssumption DEF Bits
<1>2. (v + 1) * WordSize = v * WordSize + WordSize
  BY <1>1
<1>3. \E d \in Nat : w = (v + 1) + d
  <2>1. w - (v + 1) \in Nat /\ w = (v + 1) + (w - (v + 1))
    OBVIOUS
  <2> QED BY <2>1
<1>4. PICK d \in Nat : w = (v + 1) + d
  BY <1>3
<1>5. w * WordSize = (v + 1) * WordSize + d * WordSize
  BY <1>1, <1>4
<1>6. d * WordSize \in Nat /\ v * WordSize \in Nat
  BY <1>1
<1> DEFINE p == v * WordSize
           q == (v + 1) * WordSize
           r == d * WordSize
           t == w * WordSize
<1>7. p \in Nat /\ r \in Nat /\ q = p + WordSize /\ t = q + r
  BY <1>2, <1>5, <1>6
<1> HIDE DEF p, q, r, t
<1>8. p + b \in Nat /\ p + b < t
  BY <1>1, <1>7
<1> QED BY <1>8 DEF p, t

LEMMA OfWordsBelow ==
  ASSUME NEW set \in BitMaps, NEW w \in 0 .. hitWords
  PROVE  \A x \in OfWords(set, w) : x \in Nat /\ x < w * WordSize
<1> SUFFICES ASSUME NEW x \in OfWords(set, w) PROVE x \in Nat /\ x < w * WordSize
  OBVIOUS
<1>1. PICK v \in 0 .. w - 1 : x \in OfWord(set, v)
  BY DEF OfWords
<1>2. PICK b \in set[v] : x = v * WordSize + b
  BY <1>1 DEF OfWord
<1>3. v \in Nat /\ w \in Nat /\ v < w /\ v \in 0 .. hitWords - 1
  BY BuilderAssumption
<1>4. b \in Bits
  BY <1>2, <1>3 DEF BitMaps, Bits
<1> QED BY <1>2, <1>3, <1>4, WordsApart

\* Numbers with the same digit and the same rest.
LEMMA QuotientIsOne ==
  ASSUME NEW x \in Nat, NEW v \in Nat, NEW b \in Nat, b < WordSize, x = v * WordSize + b
  PROVE  x \div WordSize = v /\ x % WordSize = b
<1>1. WordSize \in Nat /\ WordSize > 0
  BY BuilderAssumption
<1> DEFINE q == x \div WordSize
           r == x % WordSize
<1>2. q \in Int /\ r \in Int /\ 0 <= r /\ r < WordSize
  BY <1>1
<1>3. x = q * WordSize + r
  BY <1>1
<1> HIDE DEF q, r
<1>4. (q - v) * WordSize = b - r
  <2>1. q * WordSize + r = v * WordSize + b
    BY <1>3
  <2>2. (q - v) * WordSize = q * WordSize - v * WordSize
    BY <1>1, <1>2
  <2>3. q * WordSize \in Int /\ v * WordSize \in Int
    BY <1>1, <1>2
  <2> DEFINE m == q * WordSize
             n == v * WordSize
             o == (q - v) * WordSize
  <2>4. m \in Int /\ n \in Int /\ m + r = n + b /\ o = m - n
    BY <2>1, <2>2, <2>3
  <2> HIDE DEF m, n, o
  <2>5. o = b - r
    BY <1>2, <2>4
  <2> QED BY <2>5 DEF o
<1>5. ASSUME NEW d \in Int, d >= 1 PROVE d * WordSize >= WordSize
  BY <1>1, <1>5
<1>6. ~(q - v >= 1)
  BY <1>1, <1>2, <1>4, <1>5
<1>7. ~(q - v <= -1)
  <2> SUFFICES ASSUME q - v <= -1 PROVE FALSE
    OBVIOUS
  <2>1. (v - q) * WordSize >= WordSize
    BY <1>2, <1>5
  <2>2. (v - q) * WordSize = -((q - v) * WordSize)
    BY <1>1, <1>2
  <2> QED BY <1>1, <1>2, <1>4, <2>1, <2>2
<1>8. q = v
  BY <1>2, <1>6, <1>7
<1>9. r = b
  BY <1>1, <1>2, <1>4, <1>8
<1> QED BY <1>8, <1>9 DEF q, r

\* The rules of all words are those whose bits the bitmap has.
LEMMA AllWords ==
  ASSUME NEW set \in BitMaps
  PROVE  OfWords(set, hitWords) = HandedOut(set)
<1>1. WordSize \in Nat /\ WordSize > 0 /\ hitWords \in Nat /\ MaxRules = hitWords * WordSize /\ MaxRules \in Nat
  BY BuilderAssumption DEF MaxRules
<1>2. ASSUME NEW x \in OfWords(set, hitWords) PROVE x \in HandedOut(set)
  <2>1. PICK v \in 0 .. hitWords - 1 : x \in OfWord(set, v)
    BY DEF OfWords
  <2>2. PICK b \in set[v] : x = v * WordSize + b
    BY <2>1 DEF OfWord
  <2>3. v \in Nat /\ hitWords \in 0 .. hitWords
    BY <1>1
  <2>4. b \in Nat /\ b < WordSize
    BY <1>1, <2>2 DEF BitMaps
  <2>5. x \in Nat /\ x < MaxRules
    BY <1>1, <2>3, OfWordsBelow
  <2>6. v * WordSize \in Nat /\ x = WordSize * (x \div WordSize) + (x % WordSize)
        /\ x \div WordSize \in Nat /\ x % WordSize \in 0 .. WordSize - 1
    BY <1>1, <2>3, <2>5
  <2>7. x \div WordSize = v /\ x % WordSize = b
    BY <1>1, <2>2, <2>3, <2>4, <2>5, <2>6, QuotientIsOne
  <2>8. x % WordSize \in set[x \div WordSize]
    BY <2>2, <2>7, Zenon
  <2>9. x \in 0 .. MaxRules - 1
    BY <1>1, <2>5
  <2> QED BY <2>8, <2>9, Zenon DEF HandedOut
<1>3. ASSUME NEW x \in HandedOut(set) PROVE x \in OfWords(set, hitWords)
  <2>1. x \in 0 .. MaxRules - 1 /\ x % WordSize \in set[x \div WordSize]
    BY DEF HandedOut
  <2>2. x \in Nat /\ x < MaxRules
    BY <1>1, <2>1
  <2>3. x \div WordSize \in 0 .. hitWords - 1
    BY <2>2, WordOfIndex
  <2>4. x = (x \div WordSize) * WordSize + (x % WordSize)
    BY <1>1, <2>2
  <2> DEFINE v == x \div WordSize
             b == x % WordSize
  <2>5. v \in 0 .. hitWords - 1 /\ b \in set[v] /\ x = v * WordSize + b
    BY <2>1, <2>3, <2>4
  <2> HIDE DEF v, b
  <2>6. x \in OfWord(set, v)
    BY <2>5, Zenon DEF OfWord
  <2> QED BY <2>5, <2>6 DEF OfWords
<1> QED BY <1>2, <1>3

\* forEachRule: of whatever bitmap, every rule in it is handed out, once and
\* after the rules with smaller indices.
THEOREM HandsOutInOrder ==
  ASSUME NEW set \in BitMaps
  PROVE  /\ Listed(set) \in Seq(Nat)
         /\ \A m, n \in 1 .. Len(Listed(set)) : m < n => Listed(set)[m] < Listed(set)[n]
         /\ {Listed(set)[n] : n \in 1 .. Len(Listed(set))} = HandedOut(set)
<1>1. hitWords \in Nat
  BY BuilderAssumption
<1>2. PICK f : /\ f[0] = <<>>
               /\ \A w \in 1 .. hitWords : f[w] = InWord(w - 1, set[w - 1], f[w - 1])
               /\ Listed(set) = f[hitWords]
  BY ListedEquations
<1> DEFINE Right(w) == f[w] \in Seq(Nat) /\ Ascends(f[w]) /\ Elements(f[w]) = OfWords(set, w)
           Good == {w \in 0 .. hitWords : Right(w)}
<1>3. 0 \in Good
  <2>1. Ascends(<<>>) /\ Elements(<<>>) = {} /\ <<>> \in Seq(Nat)
    <3>1. <<>> \in Seq(Nat) /\ 1 .. Len(<<>>) = {}
      BY EmptySeq
    <3> QED BY <3>1 DEF Ascends, Elements
  <2>2. OfWords(set, 0) = {}
    <3>1. 0 .. 0 - 1 = {}
      OBVIOUS
    <3> QED BY <3>1 DEF OfWords
  <2>3. Right(0)
    BY <1>2, <2>1, <2>2
  <2> QED BY <1>1, <2>3
<1>4. ASSUME NEW w \in 1 .. hitWords, w - 1 \in Good PROVE w \in Good
  <2>1. w - 1 \in Nat /\ w \in 0 .. hitWords /\ w - 1 \in 0 .. hitWords /\ w - 1 \in 0 .. hitWords - 1
    BY <1>1
  <2>2. set[w - 1] \in SUBSET Bits
    BY <2>1 DEF BitMaps, Bits
  <2> DEFINE v == w - 1
             list == f[w - 1]
             bits == set[w - 1]
  <2>3. list \in Seq(Nat) /\ Ascends(list) /\ Elements(list) = OfWords(set, v)
    BY <1>4
  <2>4. \A x \in Elements(list) : x < v * WordSize
    BY <2>1, <2>3, OfWordsBelow
  <2>5. v \in Nat /\ bits \in SUBSET Bits
    BY <2>1, <2>2
  <2>6. f[w] = InWord(v, bits, list)
    BY <1>2
  <2>7. OfWords(set, w) = OfWords(set, v) \cup {v * WordSize + b : b \in bits}
    BY OneMoreWord DEF OfWord
  <2> HIDE DEF Right, Good, v, list, bits
  <2>8. /\ InWord(v, bits, list) \in Seq(Nat) /\ Ascends(InWord(v, bits, list))
        /\ Elements(InWord(v, bits, list)) = Elements(list) \cup {v * WordSize + b : b \in bits}
    BY <2>3, <2>4, <2>5, WordHandedOut
  <2>9. Right(w)
    BY <2>3, <2>6, <2>7, <2>8 DEF Right
  <2> QED BY <2>1, <2>9 DEF Good
<1>5. hitWords \in Good
  <2> HIDE DEF Good
  <2>1. \A w \in 0 .. hitWords : w \in Good
    BY <1>1, <1>3, <1>4, Upward
  <2> QED BY <1>1, <2>1
<1>6. /\ Listed(set) \in Seq(Nat) /\ Ascends(Listed(set))
      /\ Elements(Listed(set)) = HandedOut(set)
  BY <1>2, <1>5, AllWords
<1> QED BY <1>6 DEF Ascends, Elements

\* There is one ascending list of a set of numbers: here the second agrees with
\* the first as far as the first goes.
Climbs(f, k) ==
  /\ \A n \in 1 .. k : f[n] \in Nat
  /\ \A m, n \in 1 .. k : m < n => f[m] < f[n]
Covers(f, k, g, l) == \A n \in 1 .. k : \E m \in 1 .. l : g[m] = f[n]

LEMMA NoLonger ==
  ASSUME NEW k \in Nat, NEW l \in Nat, NEW f, NEW g,
         Climbs(f, k), Climbs(g, l), Covers(f, k, g, l), Covers(g, l, f, k)
  PROVE  k <= l /\ \A n \in 1 .. k : f[n] = g[n]
<1> USE DEF Climbs, Covers
<1> DEFINE Apart == {n \in 1 .. k : n > l \/ f[n] # g[n]}
<1>1. ASSUME Apart # {} PROVE FALSE
  <2>1. Apart \in SUBSET Nat
    OBVIOUS
  <2>2. \E n \in Apart : \A m \in Apart : n <= m
    <3> HIDE DEF Apart
    <3> QED BY <1>1, <2>1, LeastOfNats
  <2>3. PICK n \in Apart : \A m \in Apart : n <= m
    BY <2>2
  <2>4. \A m \in 1 .. k : m < n => m <= l /\ f[m] = g[m]
    BY <2>1, <2>3
  <2>5. n \in 1 .. k /\ f[n] \in Nat
    BY <2>3
  <2> HIDE DEF Apart
  <2>6. PICK m \in 1 .. l : g[m] = f[n]
    BY <2>5
  <2>7. ~(m < n)
    <3>1. m < n => m \in 1 .. k /\ f[m] = g[m] /\ f[m] < f[n]
      BY <2>4, <2>5
    <3> QED BY <2>5, <2>6, <3>1
  <2>8. n <= l /\ n \in 1 .. l /\ g[n] \in Nat
    BY <2>5, <2>6, <2>7
  <2>9. f[n] # g[n]
    BY <2>3, <2>8 DEF Apart
  <2>10. n < m /\ g[n] < g[m]
    BY <2>6, <2>7, <2>8, <2>9
  <2>11. PICK o \in 1 .. k : f[o] = g[n]
    BY <2>8
  <2>12. o < n
    <3>1. f[o] \in Nat /\ f[o] < f[n]
      BY <2>6, <2>10, <2>11
    <3>2. ~(n < o) /\ o # n
      BY <2>5, <3>1
    <3> QED BY <2>5, <3>2
  <2>13. g[o] = g[n] /\ o \in 1 .. l
    BY <2>4, <2>8, <2>11, <2>12
  <2> QED BY <2>8, <2>12, <2>13
<1>2. \A n \in 1 .. k : n <= l /\ f[n] = g[n]
  <2> SUFFICES ASSUME NEW n \in 1 .. k PROVE n <= l /\ f[n] = g[n]
    OBVIOUS
  <2>1. ~(n > l \/ f[n] # g[n])
    BY <1>1
  <2> QED BY <2>1
<1>3. k <= l
  <2>1. k = 0 \/ k \in 1 .. k
    OBVIOUS
  <2> QED BY <1>2, <2>1
<1> QED BY <1>2, <1>3

\* It is the list of the bitmap's rules in the order they were added.
LEMMA ListedIsInOrder ==
  ASSUME NEW set \in BitMaps
  PROVE  /\ Len(Listed(set)) = Len(InOrder(HandedOut(set)))
         /\ \A n \in 1 .. Len(Listed(set)) : Listed(set)[n] = InOrder(HandedOut(set))[n]
<1> DEFINE S == HandedOut(set)
           f == Listed(set)
           g == InOrder(S)
           k == Len(f)
           l == Len(g)
<1>1. MaxRules \in Nat /\ S \in SUBSET (0 .. MaxRules - 1)
  BY BuilderAssumption DEF MaxRules, HandedOut
<1>2. /\ f \in Seq(Nat) /\ \A m, n \in 1 .. k : m < n => f[m] < f[n]
      /\ {f[n] : n \in 1 .. k} = S
  BY HandsOutInOrder
<1>3. k \in Nat /\ \A n \in 1 .. k : f[n] \in Nat
  <2> HIDE DEF f
  <2> QED BY <1>2, LenProperties, ElementOfSeq
<1> HIDE DEF S, f
<1>4. /\ l \in Nat /\ g \in [1 .. l -> S]
      /\ \A m, n \in 1 .. l : m < n => g[m] < g[n]
      /\ \A x \in S : \E n \in 1 .. l : g[n] = x
  BY <1>1, InOrderAscends, InOrderListsAll DEF Ascending
<1>5. \A x \in S : x \in Nat
  BY <1>1
<1> HIDE DEF g, k, l
<1>6. Covers(f, k, g, l)
  BY <1>2, <1>4 DEF Covers
<1>7. Covers(g, l, f, k)
  <2> SUFFICES ASSUME NEW m \in 1 .. l PROVE \E n \in 1 .. k : f[n] = g[m]
    BY DEF Covers
  <2>1. g[m] \in S
    BY <1>4
  <2>2. g[m] \in {f[n] : n \in 1 .. k}
    BY <1>2, <2>1
  <2> QED BY <2>2
<1>8. Climbs(f, k)
  BY <1>2, <1>3 DEF Climbs
<1>9. Climbs(g, l)
  BY <1>4, <1>5 DEF Climbs
<1>10. k <= l /\ \A n \in 1 .. k : f[n] = g[n]
  BY <1>3, <1>4, <1>6, <1>7, <1>8, <1>9, NoLonger
<1>11. l <= k
  BY <1>3, <1>4, <1>6, <1>7, <1>8, <1>9, NoLonger
<1>12. k = l
  BY <1>3, <1>4, <1>10, <1>11
<1> QED BY <1>10, <1>12 DEF f, g, k, l, S

\* A list of IDs taken by a scrubber's bitmap is the one of the builder's rules.
LEMMA SameIds ==
  ASSUME NEW s, NEW set, IInv, TakenInv, i = Len(rules), s.rules = compiled,
         set \in BitMaps, HandedOut(set) \in SUBSET RuleIndices
  PROVE  IdsOf(s, set) = Ids(HandedOut(set))
<1> DEFINE list == InOrder(HandedOut(set))
<1>1. Len(rules) \in Nat
  BY DEF IInv, TypeOK
<1>2. list \in [1 .. Len(list) -> RuleIndices]
  <2> DEFINE S == HandedOut(set)
             k == Len(rules)
  <2>1. k \in Nat /\ S \in SUBSET (0 .. k - 1)
    BY <1>1 DEF RuleIndices
  <2> HIDE DEF S, k
  <2>2. InOrder(S) \in [1 .. Len(InOrder(S)) -> S]
    BY <2>1, InOrderAscends DEF Ascending
  <2> QED BY <2>1, <2>2 DEF S, k, RuleIndices
<1>3. \A q : compile(q).id = q.id
  BY DEF compile
<1>4. \A n \in 1 .. Len(rules) : compiled[n] = compile(rules[n])
  BY DEF TakenInv
<1> HIDE DEF list
<1>5. \A n \in 1 .. Len(list) : s.rules[list[n] + 1].id = rules[list[n] + 1].id
  <2> SUFFICES ASSUME NEW n \in 1 .. Len(list)
               PROVE  s.rules[list[n] + 1].id = rules[list[n] + 1].id
    OBVIOUS
  <2>1. list[n] \in RuleIndices
    BY <1>2
  <2>2. list[n] + 1 \in 1 .. Len(rules)
    BY <1>1, <2>1 DEF RuleIndices
  <2> QED BY <1>3, <1>4, <2>2
<1>6. [n \in 1 .. Len(list) |-> s.rules[list[n] + 1].id] = [n \in 1 .. Len(list) |-> rules[list[n] + 1].id]
  BY <1>5
<1>7. Len(Listed(set)) = Len(list) /\ \A n \in 1 .. Len(list) : Listed(set)[n] = list[n]
  BY ListedIsInOrder DEF list
<1>8. [n \in 1 .. Len(Listed(set)) |-> s.rules[Listed(set)[n] + 1].id]
        = [n \in 1 .. Len(list) |-> s.rules[list[n] + 1].id]
  BY <1>7
<1> QED BY <1>6, <1>8 DEF list, IdsOf, Ids

\* Every anchor of every rule goes into the machine, in the case scan looks for.
LEMMA AnchorsAreKept ==
  ASSUME IInv, TakenInv, i = Len(rules), NEW n \in 1 .. Len(rules), NEW m \in 1 .. Len(rules[n].anchors)
  PROVE  \E o \in own :
           /\ o.rule = n - 1 /\ Len(o.text) = Len(rules[n].anchors[m])
           /\ \A k \in 1 .. Len(o.text) :
                o.text[k] \in IF opts.fold THEN {asciiLower(rules[n].anchors[m][k])}
                              ELSE {rules[n].anchors[m][k]}
<1> DEFINE a == rules[n].anchors[m]
           text == IF opts.fold THEN lowerASCII(a) ELSE a
           o == [text |-> text, rule |-> n - 1]
<1>1. rules[n] \in Choices
  BY DEF IInv, TypeOK
<1>2. Len(a) \in Nat
  BY <1>1, BuilderAssumption
<1>3. Len(text) = Len(a)
  <2> HIDE DEF a
  <2>1. \A l \in Nat : \A f : f = [k \in 1 .. l |-> asciiLower(a[k])] => Len(f) = l
    OBVIOUS
  <2>2. Len(lowerASCII(a)) = Len(a)
    BY <1>2, <2>1 DEF lowerASCII
  <2> QED BY <2>2
<1>4. \A k \in 1 .. Len(a) : text[k] = IF opts.fold THEN asciiLower(a[k]) ELSE a[k]
  BY DEF lowerASCII
<1>5. o \in AnchorsOf(rules[n], n - 1)
  BY DEF AnchorsOf
<1>6. own = UNION {AnchorsOf(rules[q], q - 1) : q \in 1 .. Len(rules)}
  BY DEF TakenInv
<1>7. o \in own
  <2> HIDE DEF o
  <2> QED BY <1>5, <1>6
<1>8. o.rule = n - 1 /\ o.text = text
  OBVIOUS
<1> HIDE DEF o, text, a
<1>9. \A k \in 1 .. Len(o.text) : o.text[k] \in IF opts.fold THEN {asciiLower(a[k])} ELSE {a[k]}
  BY <1>3, <1>4, <1>8
<1> QED BY <1>3, <1>7, <1>8, <1>9 DEF a

\* "It fails on an unusable rule rather than silently dropping it": a scrubber
\* has every rule, in the order they were added and each in its class, and
\* every anchor, for any number of rules and words of any size.
THEOREM EveryRuleKept == Spec => BuildKeepsEveryRule
<1>1. ASSUME IInv, BitsWhileBuilding, Succeed PROVE HasEveryRule(result')
  <2> DEFINE s == result'
  <2>1. /\ s.rules = compiled /\ s.anchors = own
        /\ s.all = all /\ s.always = always /\ s.windowed = windowed
    BY <1>1, Zenon DEF Succeed, Return
  <2>2. TakenInv /\ i = Len(rules) /\ BitsInv
    BY <1>1 DEF Succeed, IInv, MatchInv, Building, BitsWhileBuilding
  <2>3. /\ Len(rules) \in Nat /\ RuleIndices = 0 .. i - 1
        /\ all \in BitMaps /\ always \in BitMaps /\ windowed \in BitMaps
    BY <1>1, <2>2 DEF IInv, TypeOK, RuleIndices
  <2> HIDE DEF s
  <2>4. IdsOf(s, s.all) = [n \in 1 .. Len(rules) |-> rules[n].id]
    <3>1. HandedOut(all) = 0 .. Len(rules) - 1 /\ HandedOut(all) \in SUBSET RuleIndices
      BY <2>2, <2>3 DEF BitsInv
    <3>2. IdsOf(s, all) = Ids(HandedOut(all))
      BY <1>1, <2>1, <2>2, <2>3, <3>1, SameIds
    <3>3. /\ Len(InOrder(HandedOut(all))) = Len(rules)
          /\ \A n \in 1 .. Len(rules) : InOrder(HandedOut(all))[n] = n - 1
      BY <2>3, <3>1, AllInOrder
    <3>4. \A n \in 1 .. Len(rules) : (n - 1) + 1 = n
      BY <2>3
    <3>5. Ids(HandedOut(all)) = [n \in 1 .. Len(rules) |-> rules[n].id]
      BY <3>3, <3>4 DEF Ids
    <3> QED BY <2>1, <3>2, <3>5
  <2>5. Anchorless(s) = Ids({n \in RuleIndices : rules[n + 1].anchors = <<>>})
    <3>1. HandedOut(always) = {n \in RuleIndices : rules[n + 1].anchors = <<>>}
      BY <2>2, <2>3 DEF BitsInv
    <3> QED BY <1>1, <2>1, <2>2, <2>3, <3>1, SameIds DEF Anchorless
  <2>6. Windowed(s) =
          Ids({n \in RuleIndices : rules[n + 1].anchors # <<>> /\ maxMatchLen(rules[n + 1].pattern) > 0})
    <3>1. \A q : compile(q).window = maxMatchLen(q.pattern)
      BY DEF compile
    <3>2. \A q : BoundedWithAnchors(q, compile(q)) <=> q.anchors # <<>> /\ maxMatchLen(q.pattern) > 0
      BY <3>1 DEF BoundedWithAnchors, bounded
    <3>3. HandedOut(windowed) =
            {n \in RuleIndices : rules[n + 1].anchors # <<>> /\ maxMatchLen(rules[n + 1].pattern) > 0}
      BY <2>2, <2>3, <3>2 DEF BitsInv
    <3> QED BY <1>1, <2>1, <2>2, <2>3, <3>3, SameIds DEF Windowed
  <2>7. \A n \in 1 .. Len(rules) : \A m \in 1 .. Len(rules[n].anchors) :
          \E o \in s.anchors :
            /\ o.rule = n - 1 /\ Len(o.text) = Len(rules[n].anchors[m])
            /\ \A k \in 1 .. Len(o.text) :
                 o.text[k] \in IF opts.fold THEN {asciiLower(rules[n].anchors[m][k])}
                               ELSE {rules[n].anchors[m][k]}
    BY <1>1, <2>1, <2>2, AnchorsAreKept
  <2> QED BY <2>4, <2>5, <2>6, <2>7 DEF HasEveryRule, s
<1>2. IInv /\ BitsWhileBuilding /\ [Next]_vars
        => [Returning /\ result'.kind = "scrubber" => HasEveryRule(result')]_vars
  <2> SUFFICES ASSUME IInv, BitsWhileBuilding, Next, Returning, result'.kind = "scrubber"
               PROVE  HasEveryRule(result')
    BY DEF vars
  <2>1. CASE Succeed
    BY <1>1, <2>1
  <2>2. CASE RejectRule
    <3>1. PICK n \in Failing(rules[i + 1]) : Return(Error(Checks(rules[i + 1])[n].kind, i + 1))
      BY <2>2 DEF RejectRule
    <3> QED BY <3>1, KindsOfFaults DEF Return, Error, Failing
  <2>3. CASE RejectBuilder \/ RejectSelfMatch \/ RejectAnchors
    BY <2>3 DEF RejectBuilder, RejectSelfMatch, RejectAnchors, Return, Error
  <2>4. CASE ApplyOption \/ AllApplied \/ \E r \in Choices : Add(r)
    BY <2>4 DEF ApplyOption, AllApplied, Add, Returning
  <2>5. CASE StartBuild \/ TakeRule \/ AllTaken \/ PassSelfMatch
    BY <2>5 DEF StartBuild, TakeRule, Taking, AllTaken, PassSelfMatch, Returning
  <2> QED BY <2>1, <2>2, <2>3, <2>4, <2>5 DEF Next
<1> QED BY <1>2, Invariant, BitsOfTheRules, PTL DEF Spec, BuildKeepsEveryRule
=============================================================================
