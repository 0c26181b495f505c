---------------------------- MODULE FullSearch ----------------------------
(***************************************************************************)
(* What eachMatch of scrubber.go promises its callers, with no prefilter   *)
(* and no windows: every rule, in the order the rules were added, reports  *)
(* the secrets its pattern has in the whole input.  A call that collects   *)
(* without a cap gets all of them; Contains, and a capped call, may be     *)
(* told of fewer, and never of anything else.                              *)
(***************************************************************************)
EXTENDS Integers

CONSTANTS
  Inputs,        \* the texts a call may be given
  Rules,         \* rule indices, ordered as they were added
  Relevant(_),   \* the rules that have a say on a text
  Secrets(_,_),  \* the spans a rule redacts in a text
  Capped         \* TRUE if WithMaxMatches set a cap

ASSUME FullSearchAssumption ==
  /\ Rules \subseteq Nat
  /\ \A t \in Inputs :
       /\ Relevant(t) \subseteq Rules
       /\ \A r \in Rules \ Relevant(t) : Secrets(r, t) = {}
  /\ Capped \in BOOLEAN

VARIABLES
  text,     \* the input of the call
  op,       \* "collect" or "contains"
  pending,  \* the rules that have not reported yet
  found,    \* the reports: rule and span
  done

vars == <<text, op, pending, found, done>>

Reports(r, ss) == {[rule |-> r, start |-> s[1], end |-> s[2]] : s \in ss}
Answer == UNION {Reports(r, Secrets(r, text)) : r \in Rules}

Init ==
  /\ text \in Inputs
  /\ op \in {"collect", "contains"}
  /\ pending = Relevant(text)
  /\ found = {}
  /\ done = FALSE

\* What a rule may report: a limited search reports some of its secrets.
AnySecrets(r) == SUBSET Secrets(r, text)
Answers(r) ==
  {ss \in SUBSET Secrets(r, text) : op = "collect" /\ ~Capped => ss = Secrets(r, text)}

Report(r) ==
  /\ ~done
  /\ \A q \in pending : r <= q
  /\ \E ss \in Answers(r) : found' = found \cup Reports(r, ss)
  /\ pending' = pending \ {r}
  /\ UNCHANGED <<text, op, done>>

Finish ==
  /\ ~done
  /\ pending = {} \/ (op = "contains" /\ found # {})
  /\ done' = TRUE
  /\ UNCHANGED <<text, op, pending, found>>

Next == (\E r \in pending : Report(r)) \/ Finish

Spec == Init /\ [][Next]_vars
=============================================================================
