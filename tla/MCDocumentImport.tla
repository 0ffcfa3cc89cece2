-------------------------- MODULE MCDocumentImport --------------------------
(* DocumentImport for TLC: two files, the first with two images. *)
EXTENDS DocumentImport

CONSTANTS g1, g2

Owners == [g \in Images |-> 1]
=============================================================================
