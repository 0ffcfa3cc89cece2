---------------------------- MODULE MCPageEditing ----------------------------
(***************************************************************************)
(* TLC instances of PageEditing: two tabs of one user beside another user  *)
(* whose saves reach the same page, and one tab alone.                     *)
(***************************************************************************)
EXTENDS PageEditing, TLC

CONSTANTS ta, tb, oc, ann, bob

TwoUsers == [c \in Tabs \cup Others |-> IF c \in Tabs THEN ann ELSE bob]
OneUser == [t \in Tabs |-> ann]
Twins == Permutations({ta, tb})
=============================================================================
