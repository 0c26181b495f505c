------------------------- MODULE MCConfirmContract -------------------------
(***************************************************************************)
(* The rule sets of MCConfirm that keep the contract of ConfirmContract:   *)
(* TLC evaluates its assumptions on them before it explores a call.        *)
(***************************************************************************)
EXTENDS MCConfirm, ConfirmContract

ASSUME FitAssumption == AnchorsFit
=============================================================================
