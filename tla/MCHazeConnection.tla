-------------------------- MODULE MCHazeConnection --------------------------
(* Three connection objects: two for the same account, one for another. *)
EXTENDS HazeConnection

CONSTANTS c1, c2, c3, alice, bob

MCConns == {c1, c2, c3}
MCAccounts == {alice, bob}
MCAccountOf == [c \in MCConns |-> IF c = c3 THEN bob ELSE alice]
=============================================================================
