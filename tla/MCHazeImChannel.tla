-------------------------- MODULE MCHazeImChannel --------------------------
(***************************************************************************)
(* A contact with two messages, so that one can be acknowledged and the    *)
(* other rescued, and the user's own handle as a contact.                  *)
(***************************************************************************)
EXTENDS HazeImChannel

CONSTANTS alice, me, m1, m2, m3

MCContacts == {alice, me}
MCMessages == {m1, m2, m3}
MCSender == [m \in MCMessages |-> IF m = m3 THEN me ELSE alice]
=============================================================================
