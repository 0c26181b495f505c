------------------------------- MODULE Luhn -------------------------------
(***************************************************************************)
(* Luhn of packs.go, the validator behind the card number rules: it walks  *)
(* the bytes from the right and doubles every other digit.                 *)
(***************************************************************************)
EXTENDS Integers, Sequences

CONSTANT MinDigits  \* 12: shorter numbers are not card numbers

Separators == {32, 45}   \* ' ' and '-'
Digits == 48 .. 57       \* '0' .. '9'

Start == [sum |-> 0, digits |-> 0, odd |-> FALSE, ok |-> TRUE]

Unreduced(d) == 2 * d
Doubled(d) == IF 2 * d > 9 THEN 2 * d - 9 ELSE 2 * d

Digit(w, d) ==
  [w EXCEPT !.sum = @ + (IF w.odd THEN Doubled(d) ELSE d),
            !.digits = @ + 1,
            !.odd = ~@]

TakenAsPlace(w, c) ==
  CASE c \in Separators -> [w EXCEPT !.odd = ~@]
    [] c \in Digits -> Digit(w, c - 48)
    [] c \notin Separators \cup Digits -> [w EXCEPT !.ok = FALSE]

Taken(w, c) ==
  CASE c \in Separators -> w
    [] c \in Digits -> Digit(w, c - 48)
    [] c \notin Separators \cup Digits -> [w EXCEPT !.ok = FALSE]

\* The early return of a byte that is no digit: what follows does not matter.
Walk(s) ==
  LET from[i \in 1 .. Len(s) + 1] ==
        IF i > Len(s) THEN Start ELSE Taken(from[i + 1], s[i])
  IN  from[1]

Passes(w) == w.ok /\ w.digits >= MinDigits /\ w.sum % 10 = 0
Luhn(s) == Passes(Walk(s))
-----------------------------------------------------------------------------
\* packs.go: "the Luhn checksum, ignoring spaces and dashes".  Counted from the
\* right, the digits in even places weigh the cross sum of their double.
CrossSum(n) == (n \div 10) + (n % 10)

Checksum(number) ==
  LET upTo[k \in 0 .. Len(number)] ==
        IF k = 0 THEN 0
        ELSE LET d == number[k] - 48
             IN  upTo[k - 1] + (IF (Len(number) - k) % 2 = 1 THEN CrossSum(2 * d) ELSE d)
  IN  upTo[Len(number)]

Number(s) ==
  LET upTo[i \in 0 .. Len(s)] ==
        IF i = 0 THEN <<>>
        ELSE IF s[i] \in Separators THEN upTo[i - 1] ELSE Append(upTo[i - 1], s[i])
  IN  upTo[Len(s)]

IsCardNumber(s) ==
  LET number == Number(s)
  IN  /\ \A k \in 1 .. Len(number) : number[k] \in Digits
      /\ Len(number) >= MinDigits
      /\ Checksum(number) % 10 = 0
=============================================================================
