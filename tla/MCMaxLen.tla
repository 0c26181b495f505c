----------------------------- MODULE MCMaxLen -----------------------------
(***************************************************************************)
(* Runes and ranges at the boundaries of the UTF-8 encoding, and folded    *)
(* letters, one with a case partner that is wider than it is.              *)
(***************************************************************************)
EXTENDS MaxLen

\* K has the Kelvin sign (U+212A) for a partner, e has only E.
MCFoldOrbit(r) ==
  CASE r = 75 -> {75, 107, 8490}
    [] r = 69 -> {69, 101}
    [] OTHER -> {r}

PlainRunes == {69, 127, 128, 2048}
WithKelvin == {69, 75}

MCRanges == {<<45, 57>>, <<97, 2047>>, <<2000, 70000>>}
MCRepeats == {<<0, 0>>, <<1, 2>>, <<0, 3>>, <<1, Unlimited>>}
=============================================================================
