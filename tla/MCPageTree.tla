----------------------------- MODULE MCPageTree -----------------------------
(* PageTree for TLC: pages, spaces, slugs and requests are interchangeable. *)
EXTENDS PageTree, TLC

Names == Permutations(Pages) \cup Permutations(Spaces)
           \cup Permutations(Slugs) \cup Permutations(Requests)
=============================================================================
