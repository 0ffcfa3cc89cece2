---------------------------- MODULE MCPageAccess ----------------------------
(***************************************************************************)
(* TLC instances of PageAccess.  The pages are one path from a root to a   *)
(* leaf, which is all the rules for a page can tell apart: no other page   *)
(* reaches it.                                                             *)
(***************************************************************************)
EXTENDS PageAccess, TLC

CONSTANTS root, child

Path == [p \in Pages |-> CASE p = root -> {}
                           [] p = child -> {root}
                           [] OTHER -> {root, child}]

\* Users are interchangeable, and groups are interchangeable.
Names == Permutations(Users) \cup Permutations(Groups)
=============================================================================
