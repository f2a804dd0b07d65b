-------------------------- MODULE MCHazeContactInfo --------------------------
(***************************************************************************)
(* A contact can be in two groups; two connections have a client each,     *)
(* which a call may name twice; a report has three mails.                  *)
(***************************************************************************)
EXTENDS HazeContactData

CONSTANTS alice, nick, icon, c1, c2, k1
=============================================================================
