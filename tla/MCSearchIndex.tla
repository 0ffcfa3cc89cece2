--------------------------- MODULE MCSearchIndex ---------------------------
(***************************************************************************)
(* TLC instances of SearchIndex.  Every file of an instance is attached to *)
(* the same page.                                                          *)
(***************************************************************************)
EXTENDS SearchIndex

CONSTANT HoldingPage

HeldByOnePage == [f \in Files |-> HoldingPage]

\* Behaviours with an event for every time it is in the sequence es, at most.
Mix(es) == [k \in Events |-> Cardinality({i \in DOMAIN es : es[i] = k})]

PassBounds == {Mix(<<"edit", "model", "pause", "fault">>), Mix(<<"edit", "model", "lapse">>),
               Mix(<<"edit", "pause", "lapse">>)}

FileBounds == {Mix(<<"edit", "pause">>), Mix(<<"replace", "model", "fault">>),
               Mix(<<"replace", "replace">>)}
=============================================================================
