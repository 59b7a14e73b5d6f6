------------------------ MODULE MCEventSubscription ------------------------
(* Model checking of EventSubscription on small chains. *)
EXTENDS EventSubscription

\* Two events share a ledger, and ledger 3 holds none.
SparseLedgers == <<2, 2, 4, 5>>

\* A ledger with more events than a page, followed by others.
CrowdedLedgers == <<1, 2, 2, 2, 3, 4>>

\* A current node, an old one without cursors, and old and new ones that lag.
SomeNodes == [cursor : BOOLEAN, hides : {{}, {2, 3}}]

OldNode == {[cursor |-> FALSE, hides |-> {}]}
=============================================================================
