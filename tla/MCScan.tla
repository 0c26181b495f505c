------------------------------ MODULE MCScan ------------------------------
(***************************************************************************)
(* Machines over "a", "b" and one byte that is no letter, built from       *)
(* anchors that are suffixes, prefixes and repetitions of one another,     *)
(* listed twice, shared by rules and spelled with capitals; and every text *)
(* of up to five bytes for them to scan.                                   *)
(***************************************************************************)
EXTENDS Scan

a1 == 97
b1 == 98
A1 == 65
B1 == 66
x1 == 45

MCBytes == {a1, b1, A1, B1, x1}

On(bytes, rule) == [text |-> bytes, rule |-> rule]

\* Without anchors the code builds no machine.  With twelve states to hand out
\* the last list does not fit.
MCAnchorLists == {
  <<>>,
  <<On(<<a1, b1, a1>>, 0), On(<<b1, a1>>, 1), On(<<a1>>, 2)>>,
  <<On(<<a1, a1>>, 0), On(<<a1, a1>>, 0), On(<<a1, a1, a1>>, 1)>>,
  <<On(<<a1, B1>>, 0), On(<<A1, b1>>, 0), On(<<b1>>, 1)>>,
  <<On(<<x1, a1>>, 0), On(<<a1, b1>>, 1), On(<<x1, a1, b1>>, 2)>>,
  <<On(<<b1, x1, b1, b1>>, 0), On(<<x1, b1, x1>>, 1)>>,
  <<On(<<a1, b1, a1, b1, b1, a1>>, 0), On(<<b1, b1, a1, a1>>, 1), On(<<b1, b1>>, 2)>>,
  <<On(<<a1, b1, a1, x1, a1, b1, a1, x1, b1, b1, b1>>, 0), On(<<a1, b1, a1, x1, b1>>, 2)>> }

MCTexts == UNION {[1 .. n -> {a1, b1, B1, x1}] : n \in 0 .. 5}
=============================================================================
