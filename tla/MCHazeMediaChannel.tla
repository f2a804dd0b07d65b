------------------------ MODULE MCHazeMediaChannel ------------------------
(***************************************************************************)
(* One connection, two contacts, so that a channel can be asked to call    *)
(* somebody else, and two requests; or two connections for the media       *)
(* manager they share.                                                     *)
(***************************************************************************)
EXTENDS HazeMediaChannel, TLC

CONSTANTS c1, c2, alice, bob, r1, r2

MCContacts == {alice, bob}
MCRequests == {r1, r2}

\* No definition tells contacts or requests apart.
MCSymmetry == Permutations(MCContacts) \union Permutations(MCRequests)
=============================================================================
