--------------------------- MODULE MCRestoreApply ---------------------------
(* RestoreApply for TLC: one page has two files, two holders one each. *)
EXTENDS RestoreApply

CONSTANTS a, b, c

Owners == <<a, b, a, c>>
=============================================================================
