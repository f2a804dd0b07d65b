------------------------- MODULE MCHazeContactList -------------------------
(***************************************************************************)
(* Two instances: requests to see our presence, where one contact asks     *)
(* twice and two groups are enough; and group edits, with three groups, so *)
(* that a contact can be in two groups neither of which is the fallback    *)
(* group, and a group can be renamed to a name that is free.               *)
(***************************************************************************)
EXTENDS HazeContactList

CONSTANTS alice, queen, buddies_group, friends, family, r1, r2

MCContacts == {alice, queen}

PublishGroups == {buddies_group, friends}
PublishRequests == {r1, r2}
PublishFrom == [r \in PublishRequests |-> alice]

EditedGroups == {buddies_group, friends, family}
NoRequests == {}
NoFrom == [r \in NoRequests |-> alice]
=============================================================================
