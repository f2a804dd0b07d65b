--------------------------- MODULE HazeContactList ---------------------------
(***************************************************************************)
(* The contact list of one connection (src/src/contact-list.c).            *)
(*                                                                         *)
(* The contacts, and the groups they are in, are kept by libpurple, which  *)
(* changes them for the protocol (roster pushes) and for haze.  Every      *)
(* change comes back to haze as a buddy-added or buddy-removed callback,   *)
(* in the middle of the function that made it.  Haze itself only keeps who *)
(* asked to see our presence, and how that was answered.                   *)
(*                                                                         *)
(* D-Bus clients see the list through the change signals of                *)
(* TpBaseContactList: what they have been told is modelled beside what     *)
(* haze would answer if asked (dup_contacts, dup_states).                  *)
(*                                                                         *)
(* A function of the code is an operator on the state s of the list, and   *)
(* an action is one main-loop event.  Loops over sets of contacts are      *)
(* modelled by their joint effect: no iteration reads what another wrote.  *)
(***************************************************************************)
EXTENDS Integers, FiniteSets

CONSTANTS
    Contacts,   \* contact handles
    Groups,     \* group names, normalised
    Fallback,   \* haze_get_fallback_group, "Buddies"
    Requests,   \* requests to see our presence, each made once
    From,       \* the contact who makes a request
    None, Absent

ASSUME FallbackIsAGroup == Fallback \in Groups
ASSUME FromType == From \in [Requests -> Contacts]
ASSUME NoneIsNoRequest == None \notin Requests

VARIABLE list   \* the state of the list, see ListState

vars == list

\* What dup_states returns for a contact.
ContactStates == [sub : {"yes", "no"}, pub : {"ask", "yes", "no", "unknown"}]

ASSUME AbsentIsNoState == Absent \notin ContactStates

ListState ==
    [ status  : {"CONNECTING", "CONNECTED", "DISCONNECTED"},
      online  : BOOLEAN,                     \* the account has a PurpleConnection
      \* libpurple
      groups  : SUBSET Groups,               \* groups on libpurple's list
      buddies : SUBSET (Contacts \X Groups), \* a PurpleBuddy per contact and group
      open    : SUBSET Requests,             \* requests libpurple waits for
      made    : SUBSET Requests,             \* requests made so far
      \* HazeContactListPrivate
      pending : [Contacts -> Requests \union {None}], \* pending_publish_requests
      publishing_to     : SUBSET Contacts,
      not_publishing_to : SUBSET Contacts,
      \* what D-Bus clients were told
      shown   : [Contacts -> ContactStates \union {Absent}],
      members : SUBSET (Contacts \X Groups),
      \* history
      replaced : SUBSET Requests,             \* overwritten by a later request
      ghosts   : SUBSET (Contacts \X Groups), \* still in a group announced as removed
      dropped  : SUBSET Contacts,             \* announced as removed with their last buddy
      aborted  : BOOLEAN ]                    \* an assertion of the code has failed

-----------------------------------------------------------------------------
(* Reading the list *)

\* Who haze_contact_list_dup_group_members finds in a group.  It takes the buddies of every
\* account of the process; here there is one connection, and its buddies are all there are.
InGroup(s, g)  == {h \in Contacts : <<h, g>> \in s.buddies}
GroupsOf(s, h) == {g \in Groups : <<h, g>> \in s.buddies}
OnList(s)      == {h \in Contacts : GroupsOf(s, h) # {}}
Pending(s)     == {h \in Contacts : s.pending[h] # None}

\* haze_contact_list_dup_contacts
DupContacts(s) == s.publishing_to \union OnList(s) \union Pending(s)

\* haze_contact_list_dup_states
DupStates(s, h) ==
    [ sub |-> IF h \in OnList(s) THEN "yes" ELSE "no",
      pub |-> IF h \in Pending(s) THEN "ask"
              ELSE IF h \in s.publishing_to THEN "yes"
              ELSE IF h \in s.not_publishing_to THEN "no" ELSE "unknown" ]

-----------------------------------------------------------------------------
(* Change signals; TpBaseContactList drops them while it has no list to show *)

\* tp_base_contact_list_one_contact_changed, for each of hs
ContactsChanged(s, hs) ==
    IF s.status # "CONNECTED" THEN s
    ELSE [s EXCEPT !.shown =
             [h \in Contacts |-> IF h \in hs THEN DupStates(s, h) ELSE s.shown[h]],
                   !.dropped = @ \ hs]

\* tp_base_contact_list_one_contact_removed, for each of hs
ContactsRemoved(s, hs) ==
    IF s.status # "CONNECTED" THEN s
    ELSE [s EXCEPT !.shown = [h \in Contacts |-> IF h \in hs THEN Absent ELSE s.shown[h]],
                   !.dropped = @ \union hs]

\* tp_base_contact_list_one_contact_groups_changed
GroupsChanged(s, added, removed) ==
    IF s.status # "CONNECTED" THEN s
    ELSE [s EXCEPT !.members = (@ \union added) \ removed]

-----------------------------------------------------------------------------
(* libpurple's list and its callbacks; pairs are of a contact and a group *)

\* purple_blist_add_buddy for each of pairs, and buddy_added_cb.
AddBuddies(s, pairs) ==
    LET added == [s EXCEPT !.groups  = @ \union {p[2] : p \in pairs},
                           !.buddies = @ \union pairs]
    IN  GroupsChanged(ContactsChanged(added, {p[1] : p \in pairs}), pairs, {})

\* Mutant: the loop that looks for the contact's other buddies is gone.
RemoveBuddiesLastOrNot(s, pairs) ==
    LET left == [s EXCEPT !.buddies = @ \ pairs, !.ghosts = @ \ pairs]
    IN  ContactsRemoved(GroupsChanged(left, {}, pairs), {p[1] : p \in pairs})

\* Mutant: the group is announced only for a contact who leaves the list.
RemoveBuddiesQuietly(s, pairs) ==
    LET left == [s EXCEPT !.buddies = @ \ pairs, !.ghosts = @ \ pairs]
        gone == OnList(s) \ OnList(left)
    IN  ContactsRemoved(GroupsChanged(left, {}, (gone \X Groups) \intersect pairs), gone)

\* purple_blist_remove_buddy for each of pairs, and buddy_removed_cb: a contact
\* who is in no other group is announced as removed.
RemoveBuddies(s, pairs) ==
    LET left == [s EXCEPT !.buddies = @ \ pairs, !.ghosts = @ \ pairs]
    IN  ContactsRemoved(GroupsChanged(left, {}, pairs), OnList(s) \ OnList(left))

-----------------------------------------------------------------------------
(* Requests to see our presence *)

\* Mutant: the entry is cleared instead of removed.
RemovePendingKeepsKey(s, hs) ==
    [s EXCEPT !.pending = [h \in Contacts |-> IF h \in hs THEN Absent ELSE s.pending[h]],
              !.aborted = @ \/ \E h \in hs : s.pending[h] = None]

\* remove_pending_publish_request, and its assertion that there was one.
RemovePending(s, hs) ==
    [s EXCEPT !.pending = [h \in Contacts |-> IF h \in hs THEN None ELSE s.pending[h]],
              !.aborted = @ \/ \E h \in hs : s.pending[h] = None]

\* The callbacks of a request, and libpurple, which then forgets the request.
Answered(s, hs) == [s EXCEPT !.open = @ \ {s.pending[h] : h \in hs}]

\* Mutant: the entry stays in the table.
AcceptKeepsEntry(s, hs) ==
    LET asked == hs \intersect Pending(s)
        told  == [Answered(s, asked) EXCEPT !.publishing_to = @ \union asked]
    IN  ContactsChanged(told, asked)

\* Mutant: the change is announced before it is made.
AcceptSignalsFirst(s, hs) ==
    LET asked == hs \intersect Pending(s)
        told  == [Answered(s, asked) EXCEPT !.publishing_to = @ \union asked]
    IN  RemovePending(ContactsChanged(told, asked), asked)

\* haze_contact_list_accept_publish_request for each of hs
Accept(s, hs) ==
    LET asked == hs \intersect Pending(s)
        told  == [Answered(s, asked) EXCEPT !.publishing_to = @ \union asked]
    IN  ContactsChanged(RemovePending(told, asked), asked)

\* Mutant: the request's deny callback is not called.
RejectWithoutDeny(s, hs) ==
    LET asked == hs \intersect Pending(s)
        told  == [s EXCEPT !.not_publishing_to = @ \union asked]
    IN  ContactsChanged(RemovePending(told, asked), asked)

\* haze_contact_list_reject_publish_request for each of hs
Reject(s, hs) ==
    LET asked == hs \intersect Pending(s)
        told  == [Answered(s, asked) EXCEPT !.not_publishing_to = @ \union asked]
    IN  ContactsChanged(RemovePending(told, asked), asked)

\* Mutant: the entry stays in the table.
CloseKeepsEntry(s, requests) ==
    LET hs   == {From[r] : r \in requests}
        told == [s EXCEPT !.open = @ \ requests, !.not_publishing_to = @ \union hs]
    IN  ContactsChanged(told, hs)

\* haze_close_account_request for each of requests: the table must still hold
\* every one of them.
Close(s, requests) ==
    LET hs   == {From[r] : r \in requests}
        told == [s EXCEPT !.open = @ \ requests, !.not_publishing_to = @ \union hs,
                          !.aborted = @ \/ \E r \in requests : s.pending[From[r]] # r]
    IN  ContactsChanged(RemovePending(told, hs), hs)

-----------------------------------------------------------------------------
(* Taking contacts out of a group *)

\* haze_contact_list_prep_remove_from_group: those who would be in no group
Orphans(s, g, hs) == {h \in hs : GroupsOf(s, h) = {g}}

\* ... make it fail if there is nowhere else to put them,
MayRemove(s, g, hs) == g = Fallback => Orphans(s, g, hs) = {}

\* Mutant: orphans are looked for and forgotten.
PrepRemoveForgetsOrphans(s, g, hs) == s

\* ... and are added to the fallback group otherwise.
PrepRemove(s, g, hs) == AddBuddies(s, Orphans(s, g, hs) \X {Fallback})

\* haze_contact_list_remove_many_from_group
RemoveMany(s, g, hs) == RemoveBuddies(s, (hs \X {g}) \intersect s.buddies)

\* haze_contact_list_add_to_group, for each of hs and gs.  The groups are created
\* even if there is nobody to add.
AddToGroups(s, hs, gs) ==
    AddBuddies([s EXCEPT !.groups = @ \union gs], (hs \X gs) \ s.buddies)

-----------------------------------------------------------------------------
(* Main-loop events: the connection *)

Init ==
    list = [ status |-> "CONNECTING", online |-> TRUE,
             groups |-> {}, buddies |-> {}, open |-> {}, made |-> {},
             pending |-> [h \in Contacts |-> None],
             publishing_to |-> {}, not_publishing_to |-> {},
             shown |-> [h \in Contacts |-> Absent], members |-> {},
             replaced |-> {}, ghosts |-> {}, dropped |-> {}, aborted |-> FALSE ]

\* connected_cb: the list is shown from now on, with what is already on it.
ListReceived ==
    /\ list.status = "CONNECTING" /\ list.online
    /\ list' = [list EXCEPT !.status = "CONNECTED",
                            !.members = list.buddies,
                            !.shown = [h \in Contacts |->
                                IF h \in DupContacts(list) THEN DupStates(list, h)
                                ELSE Absent]]

\* The status becomes DISCONNECTED; libpurple may still be online for a while.
Disconnected ==
    /\ list.status # "DISCONNECTED"
    /\ list' = [list EXCEPT !.status = "DISCONNECTED"]

\* libpurple drops the PurpleConnection and closes the account's requests.
GoOffline ==
    /\ list.status = "DISCONNECTED" /\ list.online
    /\ list' = Close([list EXCEPT !.online = FALSE], list.open)

\* purple_accounts_delete removes every buddy.
DeleteAccount ==
    /\ ~list.online
    /\ list' = RemoveBuddies(list, list.buddies)

-----------------------------------------------------------------------------
(* Main-loop events: the protocol *)

\* A roster push adds or removes a contact in a group.
PurpleAddsBuddy(h, g) ==
    /\ list.online /\ <<h, g>> \notin list.buddies
    /\ list' = AddBuddies(list, {<<h, g>>})

PurpleRemovesBuddy(h, g) ==
    /\ list.online /\ <<h, g>> \in list.buddies
    /\ list' = RemoveBuddies(list, {<<h, g>>})

\* Mutant: contacts who are on the list are let in unasked.
RequestAuthorizeTrusts(r) ==
    /\ list.online /\ r \notin list.made
    /\ LET h == From[r]
           s == [list EXCEPT !.open = @ \union {r}, !.made = @ \union {r},
                             !.replaced = @ \union ({list.pending[h]} \ {None}),
                             !.pending[h] = r,
                             !.publishing_to = @ \ {h},
                             !.not_publishing_to = @ \union {h}]
       IN  list' = IF h \in OnList(list) THEN Accept(s, {h}) ELSE ContactsChanged(s, {h})

\* haze_request_authorize.  The table has one entry per contact: an earlier
\* request of the same contact is overwritten, without an answer.
RequestAuthorize(r) ==
    /\ list.online /\ r \notin list.made
    /\ LET h == From[r]
           s == [list EXCEPT !.open = @ \union {r}, !.made = @ \union {r},
                             !.replaced = @ \union ({list.pending[h]} \ {None}),
                             !.pending[h] = r,
                             !.publishing_to = @ \ {h},
                             !.not_publishing_to = @ \union {h}]
       IN  list' = ContactsChanged(s, {h})

-----------------------------------------------------------------------------
(* Main-loop events: requests over D-Bus, for a list that is being shown *)

Shown == list.status = "CONNECTED" /\ list.online

\* haze_contact_list_request_subscription_async.  TpBaseContactList is taken
\* not to ask for a contact on the list, as the assertion in the code does.
RequestSubscription(hs) ==
    /\ Shown /\ hs \intersect OnList(list) = {}
    /\ list' = AddBuddies(list, hs \X {Fallback})

\* haze_contact_list_authorize_publication_async
AuthorizePublication(hs) == Shown /\ list' = Accept(list, hs)

\* haze_contact_list_remove_contacts_async, also for unsubscribe and unpublish
RemoveContacts(hs) ==
    /\ Shown
    /\ list' = Reject(RemoveBuddies(list, (hs \X Groups) \intersect list.buddies), hs)

\* Mutant: groups that are not asked for are left alone (fd.o #49389).
SetContactGroupsOnlyAdds(h, names) ==
    /\ Shown
    /\ list' = AddToGroups(list, {h}, IF names = {} THEN {Fallback} ELSE names)

\* haze_contact_list_set_contact_groups_async
SetContactGroups(h, names) ==
    /\ Shown
    /\ LET gs == IF names = {} THEN {Fallback} ELSE names
           s  == AddToGroups(list, {h}, gs)
       IN  list' = RemoveBuddies(s, ({h} \X (Groups \ gs)) \intersect s.buddies)

\* haze_contact_list_add_to_group_async
AddToGroup(g, hs) == Shown /\ list' = AddToGroups(list, hs, {g})

\* haze_contact_list_remove_from_group_async
RemoveFromGroup(g, hs) ==
    /\ Shown /\ MayRemove(list, g, hs)
    /\ list' = RemoveMany(PrepRemove(list, g, hs), g, hs)

\* haze_contact_list_set_group_members_async
SetGroupMembers(g, hs) ==
    LET outcasts == InGroup(list, g) \ hs IN
    /\ Shown /\ MayRemove(list, g, outcasts)
    /\ list' = RemoveMany(AddToGroups(PrepRemove(list, g, outcasts), hs, {g}), g, outcasts)

\* haze_contact_list_remove_group_async.  purple_blist_remove_group does nothing
\* for a group that has members, and the group is announced as removed anyway.
RemoveGroup(g) ==
    /\ Shown /\ MayRemove(list, g, InGroup(list, g))
    /\ LET s    == PrepRemove(list, g, InGroup(list, g))
           kept == InGroup(s, g) \X {g}
       IN  list' = [s EXCEPT !.groups  = IF kept = {} THEN @ \ {g} ELSE @,
                             !.members = @ \ (Contacts \X {g}),
                             !.ghosts  = @ \union kept]

\* haze_contact_list_rename_group_async
RenameGroup(old, new) ==
    LET renamed(pairs) == {<<p[1], IF p[2] = old THEN new ELSE p[2]>> : p \in pairs} IN
    /\ Shown /\ old \in list.groups /\ new \notin list.groups
    /\ list' = [list EXCEPT !.groups  = (@ \ {old}) \union {new},
                            !.buddies = renamed(@),
                            !.members = renamed(@),
                            !.ghosts  = renamed(@)]

-----------------------------------------------------------------------------
GroupEdit ==
    \/ \E h \in Contacts, names \in SUBSET Groups : SetContactGroups(h, names)
    \/ \E g \in Groups, hs \in SUBSET Contacts :
          AddToGroup(g, hs) \/ RemoveFromGroup(g, hs) \/ SetGroupMembers(g, hs)
    \/ \E g \in Groups : RemoveGroup(g)
    \/ \E old, new \in Groups : RenameGroup(old, new)

Next ==
    /\ ~list.aborted
    /\ \/ ListReceived \/ Disconnected \/ GoOffline \/ DeleteAccount
       \/ \E h \in Contacts, g \in Groups : PurpleAddsBuddy(h, g) \/ PurpleRemovesBuddy(h, g)
       \/ \E r \in Requests : RequestAuthorize(r)
       \/ \E hs \in SUBSET Contacts :
             RequestSubscription(hs) \/ AuthorizePublication(hs) \/ RemoveContacts(hs)
       \/ GroupEdit

Spec == Init /\ [][Next]_vars

-----------------------------------------------------------------------------
(* Properties *)

\* The types of the fields.
TypeOK == list \in ListState

\* The callbacks haze keeps for a request are called at most once: a request in
\* pending_publish_requests is one libpurple still waits for.
PendingIsOpen ==
    \A h \in Contacts :
        list.pending[h] # None =>
            list.pending[h] \in list.open /\ From[list.pending[h]] = h

\* A request stays where the user can answer it until it is answered or closed,
\* unless the same contact asks again.
OpenRequestsAreAnswerable ==
    list.online =>
        \A r \in list.open \ list.replaced : list.pending[From[r]] = r

\* The assertion of remove_pending_publish_request can only fail on a request
\* that a later one of the same contact has overwritten, and nothing is left in
\* the table when the list is destroyed.
OnlyReplacedRequestsAbort ==
    /\ list.aborted => list.replaced # {}
    /\ ~list.online /\ ~list.aborted => Pending(list) = {}

\* The states clients were last told of a contact are the contact's states,
\* whatever mix of answers, roster pushes and group edits came since.
ListedStatesAreTrue ==
    list.status = "CONNECTED" =>
        \A h \in Contacts :
            list.shown[h] # Absent => list.shown[h] = DupStates(list, h)

\* Whoever is on libpurple's list is on the list clients see, and so is everyone
\* else haze_contact_list_dup_contacts returns, for a request or for our presence,
\* unless the last buddy was removed since: buddy_removed_cb looks at neither.
BuddiesAreListed ==
    list.status = "CONNECTED" =>
        \A h \in OnList(list) \union (DupContacts(list) \ list.dropped) :
            list.shown[h] # Absent

\* Clients know every contact's groups, from nothing but the callbacks, except
\* for those left in a group that RemoveGroup announced as removed.
MembershipIsTrue ==
    list.status = "CONNECTED" => list.members = list.buddies \ list.ghosts

\* Nobody drops off the list because groups were edited (fd.o #21294): libpurple
\* has no contacts without a group.
GroupEditsKeepContacts ==
    [][GroupEdit => OnList(list) \subseteq OnList(list')]_vars

\* After an edit of who is in which group that did not fail, the groups are what the client
\* asked for.  RemoveGroup does not keep to it (RemovedGroupsAreEmpty), and what RenameGroup
\* leaves is for MembershipIsTrue.
EditsDoWhatTheySay ==
    [][/\ \A h \in Contacts, names \in SUBSET Groups :
             SetContactGroups(h, names) =>
                 GroupsOf(list', h) = IF names = {} THEN {Fallback} ELSE names
       /\ \A g \in Groups, hs \in SUBSET Contacts :
             /\ AddToGroup(g, hs) => hs \subseteq InGroup(list', g)
             /\ RemoveFromGroup(g, hs) => hs \intersect InGroup(list', g) = {}
             /\ SetGroupMembers(g, hs) => InGroup(list', g) = hs]_vars

\* Our presence is only given by a client, to a contact who asked and whose request
\* libpurple still waits for, and only withdrawn because the contact asked again; and
\* libpurple gets no other answer, as long as it is online, than to the request clients
\* see.  Roster pushes, group edits and the order in which requests come answer nobody.
PresenceIsTheUsersToGive ==
    [][/\ \A h \in list'.publishing_to \ list.publishing_to :
             /\ list.pending[h] \in list.open \ list'.open
             /\ \E hs \in SUBSET Contacts : h \in hs /\ AuthorizePublication(hs)
       /\ \A h \in list.publishing_to \ list'.publishing_to :
             \E r \in list'.open \ list.open : From[r] = h
       /\ \A r \in list.open \ list'.open :
             \/ ~list'.online
             \/ /\ list.pending[From[r]] = r
                /\ \E hs \in SUBSET Contacts :
                      From[r] \in hs /\ (AuthorizePublication(hs) \/ RemoveContacts(hs))]_vars

-----------------------------------------------------------------------------
(* What the code and its documents say, and what the code does not keep *)

\* contact-list.c, remove_pending_publish_request: g_assert (removed).
NeverAborts == ~list.aborted

\* NEWS, fd.o #21294: the contacts of a removed group are "placed in a default
\* group", so they are no longer in the removed one.
RemovedGroupsAreEmpty == list.ghosts = {}
=============================================================================
