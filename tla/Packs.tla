------------------------------- MODULE Packs -------------------------------
(***************************************************************************)
(* Redacting with the rules of packs.go: the texts the passes start from   *)
(* are what Luhn is asked about.                                           *)
(***************************************************************************)
EXTENDS Settle, Luhn

ASSUME MinDigitsAssumption == MinDigits \in Nat

Given == passes = 0 /\ pending = Relevant(text)

\* packs.go: Luhn reports the Luhn checksum of the digits, whatever separators
\* stand between them and from whichever end a reader counts.
LuhnIsChecksum == Given => (Luhn(text) <=> IsCardNumber(text))

\* What the checksum is for: no number passes with one digit mistaken.
OneWrongDigitFails ==
  Given /\ Luhn(text) =>
    \A i \in 1 .. Len(text) : text[i] \in Digits =>
      \A d \in Digits \ {text[i]} : ~Luhn([text EXCEPT ![i] = d])
=============================================================================
