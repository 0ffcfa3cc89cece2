--------------------------- MODULE MCRestoreUpload ---------------------------
(***************************************************************************)
(* TLC instance of RestoreUpload: two tabs of one administrator and one    *)
(* backup file, with an archive for every run that may start one.          *)
(***************************************************************************)
EXTENDS RestoreUpload

CONSTANTS t1, t2, zip, a1, a2, a3
=============================================================================
