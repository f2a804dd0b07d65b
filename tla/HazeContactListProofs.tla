------------------------- MODULE HazeContactListProofs -------------------------
(***************************************************************************)
(* The invariants of HazeContactList, for any contacts, groups and         *)
(* requests.                                                               *)
(*                                                                         *)
(* The invariant has three parts: the requests, libpurple's buddies with   *)
(* the groups clients know, and what clients were told of each contact.    *)
(* Each function of the code is shown to keep them whatever it is called   *)
(* from, so that an event that calls several is only their composition.    *)
(***************************************************************************)
EXTENDS HazeContactList, TLAPS

\* Requests: an entry of the table is a request libpurple waits for; the others it
\* waits for were overwritten; only those can make the assertion fail; and there
\* are no entries when libpurple is gone; and what it waits for was asked.
RequestsOK(s) ==
    /\ \A h \in Contacts :
          s.pending[h] # None => s.pending[h] \in s.open /\ From[s.pending[h]] = h
    /\ s.online => \A r \in s.open \ s.replaced : s.pending[From[r]] = r
    /\ ~s.online => \A h \in Contacts : s.pending[h] = None
    /\ s.aborted => s.replaced # {}
    /\ s.open \subseteq s.made

\* Buddies: libpurple has a group for each, and clients know all but the ghosts,
\* which are buddies still.
BuddiesOK(s) ==
    /\ \A p \in s.buddies : p[2] \in s.groups
    /\ s.ghosts \subseteq s.buddies
    /\ s.status = "CONNECTING" => s.ghosts = {}
    /\ s.status = "CONNECTED" => s.members = s.buddies \ s.ghosts

\* What clients were told of h is true, and is not that h is absent if it matters.
ToldTruth(s, h) ==
    /\ s.shown[h] # Absent => s.shown[h] = DupStates(s, h)
    /\ h \in OnList(s) \union (DupContacts(s) \ s.dropped) => s.shown[h] # Absent

ViewOK(s) == s.status = "CONNECTED" => \A h \in Contacts : ToldTruth(s, h)

\* The inductive invariant, of any state
StateOK(s) == s \in ListState /\ RequestsOK(s) /\ BuddiesOK(s) /\ ViewOK(s)

IInv == StateOK(list)

-----------------------------------------------------------------------------
(* What a state is made of, and what a function leaves alone *)

SameConnection(s, t) == t.status = s.status /\ t.online = s.online

SameBuddies(s, t) == t.groups = s.groups /\ t.buddies = s.buddies /\ t.ghosts = s.ghosts

SameRequests(s, t) ==
    /\ t.open = s.open /\ t.made = s.made /\ t.pending = s.pending
    /\ t.replaced = s.replaced /\ t.aborted = s.aborted

SamePublication(s, t) ==
    t.publishing_to = s.publishing_to /\ t.not_publishing_to = s.not_publishing_to

SameView(s, t) == t.shown = s.shown /\ t.dropped = s.dropped

\* Nobody was answered, and nobody's answer changed.
SameAnswers(s, t) == t.open = s.open /\ t.pending = s.pending /\ t.publishing_to = s.publishing_to

\* What dup_states returns is a state, and so does not say that h is absent.
LEMMA DupStatesType ==
    ASSUME NEW s, NEW h
    PROVE  DupStates(s, h) \in ContactStates /\ DupStates(s, h) # Absent
<1>1. DupStates(s, h) \in ContactStates
    BY DEF DupStates, ContactStates
<1> QED BY <1>1, AbsentIsNoState

\* one_contact_changed: clients are told of hs, in a list that is shown.
LEMMA ContactsChangedFields ==
    ASSUME NEW s \in ListState, NEW hs \in SUBSET Contacts, NEW t, t = ContactsChanged(s, hs)
    PROVE  /\ t \in ListState
           /\ SameConnection(s, t) /\ SameBuddies(s, t) /\ SameRequests(s, t)
           /\ SamePublication(s, t) /\ t.members = s.members
           /\ s.status # "CONNECTED" => SameView(s, t)
           /\ s.status = "CONNECTED" =>
                 /\ t.dropped = s.dropped \ hs
                 /\ \A h \in hs : t.shown[h] = DupStates(s, h)
                 /\ \A h \in Contacts \ hs : t.shown[h] = s.shown[h]
<1>1. CASE s.status # "CONNECTED"
    BY <1>1 DEF ContactsChanged, SameConnection, SameBuddies, SameRequests,
                SamePublication, SameView
<1>2. CASE s.status = "CONNECTED"
    <2> DEFINE told == [h \in Contacts |-> IF h \in hs THEN DupStates(s, h) ELSE s.shown[h]]
               rest == s.dropped \ hs
    <2>1. t = [s EXCEPT !.shown = told, !.dropped = rest]
        BY <1>2 DEF ContactsChanged
    <2>2. told \in [Contacts -> ContactStates \union {Absent}]
        BY DupStatesType DEF ListState
    <2>3. /\ \A h \in hs : told[h] = DupStates(s, h)
          /\ \A h \in Contacts \ hs : told[h] = s.shown[h]
        OBVIOUS
    <2>0. rest \in SUBSET Contacts
        BY DEF ListState
    <2> HIDE DEF told, rest
    <2>4. /\ t \in ListState /\ t.shown = told /\ t.dropped = rest
          /\ t.members = s.members
          /\ t.status = s.status /\ t.online = s.online
          /\ t.groups = s.groups /\ t.buddies = s.buddies /\ t.ghosts = s.ghosts
          /\ t.open = s.open /\ t.made = s.made /\ t.pending = s.pending
          /\ t.replaced = s.replaced /\ t.aborted = s.aborted
          /\ t.publishing_to = s.publishing_to /\ t.not_publishing_to = s.not_publishing_to
        BY <2>0, <2>1, <2>2 DEF ListState
    <2> QED BY <1>2, <2>3, <2>4
               DEF rest, SameConnection, SameBuddies, SameRequests, SamePublication
<1> QED BY <1>1, <1>2

\* one_contact_removed: hs are no longer shown, in a list that is.
LEMMA ContactsRemovedFields ==
    ASSUME NEW s \in ListState, NEW hs \in SUBSET Contacts, NEW t, t = ContactsRemoved(s, hs)
    PROVE  /\ t \in ListState
           /\ SameConnection(s, t) /\ SameBuddies(s, t) /\ SameRequests(s, t)
           /\ SamePublication(s, t) /\ t.members = s.members
           /\ s.status # "CONNECTED" => SameView(s, t)
           /\ s.status = "CONNECTED" =>
                 /\ t.dropped = s.dropped \union hs
                 /\ \A h \in hs : t.shown[h] = Absent
                 /\ \A h \in Contacts \ hs : t.shown[h] = s.shown[h]
<1>1. CASE s.status # "CONNECTED"
    BY <1>1 DEF ContactsRemoved, SameConnection, SameBuddies, SameRequests,
                SamePublication, SameView
<1>2. CASE s.status = "CONNECTED"
    <2> DEFINE told == [h \in Contacts |-> IF h \in hs THEN Absent ELSE s.shown[h]]
               rest == s.dropped \union hs
    <2>1. t = [s EXCEPT !.shown = told, !.dropped = rest]
        BY <1>2 DEF ContactsRemoved
    <2>2. told \in [Contacts -> ContactStates \union {Absent}]
        BY DEF ListState
    <2>3. /\ \A h \in hs : told[h] = Absent
          /\ \A h \in Contacts \ hs : told[h] = s.shown[h]
        OBVIOUS
    <2>0. rest \in SUBSET Contacts
        BY DEF ListState
    <2> HIDE DEF told, rest
    <2>4. /\ t \in ListState /\ t.shown = told /\ t.dropped = rest
          /\ t.members = s.members
          /\ t.status = s.status /\ t.online = s.online
          /\ t.groups = s.groups /\ t.buddies = s.buddies /\ t.ghosts = s.ghosts
          /\ t.open = s.open /\ t.made = s.made /\ t.pending = s.pending
          /\ t.replaced = s.replaced /\ t.aborted = s.aborted
          /\ t.publishing_to = s.publishing_to /\ t.not_publishing_to = s.not_publishing_to
        BY <2>0, <2>1, <2>2 DEF ListState
    <2> QED BY <1>2, <2>3, <2>4
               DEF rest, SameConnection, SameBuddies, SameRequests, SamePublication
<1> QED BY <1>1, <1>2

\* one_contact_groups_changed: clients are told of the groups, in a list that is shown.
LEMMA GroupsChangedFields ==
    ASSUME NEW s \in ListState, NEW added \in SUBSET (Contacts \X Groups),
           NEW removed \in SUBSET (Contacts \X Groups),
           NEW t, t = GroupsChanged(s, added, removed)
    PROVE  /\ t \in ListState
           /\ SameConnection(s, t) /\ SameBuddies(s, t) /\ SameRequests(s, t)
           /\ SamePublication(s, t) /\ SameView(s, t)
           /\ s.status = "CONNECTED" => t.members = (s.members \union added) \ removed
<1>1. CASE s.status # "CONNECTED"
    BY <1>1 DEF GroupsChanged, SameConnection, SameBuddies, SameRequests,
                SamePublication, SameView
<1>2. CASE s.status = "CONNECTED"
    <2>1. t = [s EXCEPT !.members = (@ \union added) \ removed]
        BY <1>2 DEF GroupsChanged
    <2>2. /\ t \in ListState /\ t.members = (s.members \union added) \ removed
          /\ t.shown = s.shown /\ t.dropped = s.dropped
          /\ t.status = s.status /\ t.online = s.online
          /\ t.groups = s.groups /\ t.buddies = s.buddies /\ t.ghosts = s.ghosts
          /\ t.open = s.open /\ t.made = s.made /\ t.pending = s.pending
          /\ t.replaced = s.replaced /\ t.aborted = s.aborted
          /\ t.publishing_to = s.publishing_to /\ t.not_publishing_to = s.not_publishing_to
        BY <2>1 DEF ListState
    <2> QED BY <2>2 DEF SameConnection, SameBuddies, SameRequests, SamePublication, SameView
<1> QED BY <1>1, <1>2

\* The answer for a contact only depends on whether it is on the list and on its
\* request and publication.
SameAnswer(s, t, h) ==
    /\ h \in OnList(t) <=> h \in OnList(s)
    /\ t.pending[h] = s.pending[h]
    /\ h \in t.publishing_to <=> h \in s.publishing_to
    /\ h \in t.not_publishing_to <=> h \in s.not_publishing_to

\* What was true of a contact about whom nothing changed is true.
LEMMA StillTold ==
    ASSUME NEW s, NEW t, NEW h \in Contacts, ToldTruth(s, h), SameAnswer(s, t, h),
           t.shown[h] = s.shown[h], h \in s.dropped => h \in t.dropped
    PROVE  ToldTruth(t, h)
<1>1. DupStates(t, h) = DupStates(s, h)
    BY DEF DupStates, SameAnswer, Pending
<1>2. h \in OnList(t) \union (DupContacts(t) \ t.dropped) =>
          h \in OnList(s) \union (DupContacts(s) \ s.dropped)
    BY DEF SameAnswer, DupContacts, Pending
<1> QED BY <1>1, <1>2 DEF ToldTruth

\* What a contact is told about after the change is true.
LEMMA FreshlyTold ==
    ASSUME NEW t, NEW h \in Contacts, t.shown[h] = DupStates(t, h)
    PROVE  ToldTruth(t, h)
BY DupStatesType DEF ToldTruth

\* A contact who is announced as removed is on no list, and remembered as dropped.
LEMMA ToldOfRemoval ==
    ASSUME NEW t, NEW h \in Contacts, t.shown[h] = Absent, h \in t.dropped, h \notin OnList(t)
    PROVE  ToldTruth(t, h)
BY DEF ToldTruth

-----------------------------------------------------------------------------
(* The callbacks of libpurple's list *)

\* Requests are as right as they were if nothing touched them.
LEMMA RequestsStay ==
    ASSUME NEW s, NEW t, RequestsOK(s), SameRequests(s, t), SameConnection(s, t)
    PROVE  RequestsOK(t)
BY DEF RequestsOK, SameRequests, SameConnection

\* A contact is on the list if it has a buddy in some group.
LEMMA OnListIff ==
    ASSUME NEW s, NEW h \in Contacts
    PROVE  h \in OnList(s) <=> \E g \in Groups : <<h, g>> \in s.buddies
BY DEF OnList, GroupsOf

\* buddy_added_cb, for buddies that are new: clients are told of the contacts, then of
\* their groups.
LEMMA AddBuddiesOK ==
    ASSUME NEW s, StateOK(s), NEW pairs \in SUBSET (Contacts \X Groups),
           pairs \intersect s.buddies = {}, NEW t, t = AddBuddies(s, pairs)
    PROVE  /\ StateOK(t)
           /\ SameConnection(s, t) /\ SameRequests(s, t) /\ SamePublication(s, t)
           /\ t.buddies = s.buddies \union pairs /\ t.ghosts = s.ghosts
           /\ t.groups = s.groups \union {p[2] : p \in pairs}
<1> DEFINE hs     == {p[1] : p \in pairs}
           groups == s.groups \union {p[2] : p \in pairs}
           added  == [s EXCEPT !.groups = groups, !.buddies = @ \union pairs]
           told   == ContactsChanged(added, hs)
           none   == {}
<1>1. s \in ListState /\ RequestsOK(s) /\ BuddiesOK(s) /\ ViewOK(s)
    BY DEF StateOK
<1>2. hs \in SUBSET Contacts /\ groups \in SUBSET Groups /\ none \in SUBSET (Contacts \X Groups)
    <2>1. \A p \in pairs : p[1] \in Contacts /\ p[2] \in Groups
        OBVIOUS
    <2>2. s.groups \subseteq Groups
        BY <1>1 DEF ListState
    <2> QED BY <2>1, <2>2
<1>3. t = GroupsChanged(told, pairs, none)
    BY DEF AddBuddies
<1>4. /\ \A p \in pairs : p[2] \in groups
      /\ s.groups \subseteq groups
      /\ \A h \in Contacts, g \in Groups : <<h, g>> \in pairs => h \in hs
    <2> SUFFICES ASSUME NEW h \in Contacts, NEW g \in Groups, <<h, g>> \in pairs
                 PROVE  h \in hs
        OBVIOUS
    <2>1. <<h, g>>[1] = h
        OBVIOUS
    <2> QED BY <2>1
<1>5. groups = s.groups \union {p[2] : p \in pairs}
    OBVIOUS
<1> HIDE DEF hs, groups, none
<1>6. /\ added \in ListState /\ added.groups = groups /\ added.buddies = s.buddies \union pairs
      /\ added.ghosts = s.ghosts /\ added.members = s.members
      /\ SameConnection(s, added) /\ SameRequests(s, added) /\ SamePublication(s, added)
      /\ SameView(s, added)
    <2>1. /\ added \in ListState /\ added.groups = groups
          /\ added.buddies = s.buddies \union pairs
          /\ added.ghosts = s.ghosts /\ added.members = s.members
          /\ added.status = s.status /\ added.online = s.online
          /\ added.open = s.open /\ added.made = s.made /\ added.pending = s.pending
          /\ added.replaced = s.replaced /\ added.aborted = s.aborted
          /\ added.publishing_to = s.publishing_to
          /\ added.not_publishing_to = s.not_publishing_to
          /\ added.shown = s.shown /\ added.dropped = s.dropped
        BY <1>1, <1>2 DEF ListState
    <2> QED BY <2>1 DEF SameConnection, SameRequests, SamePublication, SameView
<1> HIDE DEF added
<1>7. /\ told \in ListState
      /\ SameConnection(added, told) /\ SameBuddies(added, told) /\ SameRequests(added, told)
      /\ SamePublication(added, told) /\ told.members = added.members
      /\ added.status # "CONNECTED" => SameView(added, told)
      /\ added.status = "CONNECTED" =>
            /\ told.dropped = added.dropped \ hs
            /\ \A h \in hs : told.shown[h] = DupStates(added, h)
            /\ \A h \in Contacts \ hs : told.shown[h] = added.shown[h]
    BY <1>2, <1>6, ContactsChangedFields
<1> HIDE DEF told
<1>8. /\ t \in ListState
      /\ SameConnection(told, t) /\ SameBuddies(told, t) /\ SameRequests(told, t)
      /\ SamePublication(told, t) /\ SameView(told, t)
      /\ told.status = "CONNECTED" => t.members = (told.members \union pairs) \ none
    BY <1>2, <1>3, <1>7, GroupsChangedFields, SMTT(30)
<1>9. /\ SameConnection(s, t) /\ SameRequests(s, t) /\ SamePublication(s, t)
      /\ t.buddies = s.buddies \union pairs /\ t.ghosts = s.ghosts /\ t.groups = groups
    BY <1>6, <1>7, <1>8
       DEF SameConnection, SameRequests, SamePublication, SameBuddies
<1>10. BuddiesOK(t)
    <2>1. s.status = "CONNECTED" => t.members = s.members \union pairs
        BY <1>6, <1>7, <1>8 DEF SameConnection, none
    <2> QED BY <1>1, <1>4, <1>9, <2>1 DEF BuddiesOK, SameConnection
<1>11. ViewOK(t)
    <2> SUFFICES ASSUME t.status = "CONNECTED", NEW h \in Contacts
                 PROVE  ToldTruth(t, h)
        BY DEF ViewOK
    <2>1. /\ s.status = "CONNECTED" /\ added.status = "CONNECTED" /\ ToldTruth(s, h)
        BY <1>1, <1>6, <1>9 DEF SameConnection, ViewOK
    <2>2. CASE h \in hs
        <3>1. t.shown[h] = DupStates(added, h)
            BY <1>7, <1>8, <2>1, <2>2 DEF SameView
        <3>2. DupStates(added, h) = DupStates(t, h)
            <4>1. /\ t.buddies = added.buddies /\ t.pending = added.pending
                  /\ SamePublication(added, t)
                BY <1>6, <1>7, <1>8 DEF SameBuddies, SameRequests, SamePublication
            <4> QED BY <4>1 DEF DupStates, OnList, GroupsOf, Pending, SamePublication
        <3> QED BY <3>1, <3>2, FreshlyTold
    <2>3. CASE h \notin hs
        <3>1. t.shown[h] = s.shown[h] /\ (h \in s.dropped => h \in t.dropped)
            BY <1>6, <1>7, <1>8, <2>1, <2>3 DEF SameView
        <3>2. h \in OnList(t) <=> h \in OnList(s)
            BY <1>4, <1>9, <2>3, OnListIff
        <3>3. SameAnswer(s, t, h)
            BY <1>9, <3>2 DEF SameAnswer, SameRequests, SamePublication
        <3> QED BY <2>1, <3>1, <3>3, StillTold
    <2> QED BY <2>2, <2>3
<1>12. RequestsOK(t)
    BY <1>1, <1>9, RequestsStay
<1> QED BY <1>5, <1>8, <1>9, <1>10, <1>11, <1>12 DEF StateOK

\* buddy_removed_cb: clients are told of the groups, then of the contacts who are in no
\* group any more.
LEMMA RemoveBuddiesOK ==
    ASSUME NEW s, StateOK(s), NEW pairs \in SUBSET (Contacts \X Groups),
           NEW t, t = RemoveBuddies(s, pairs)
    PROVE  /\ StateOK(t)
           /\ SameConnection(s, t) /\ SameRequests(s, t) /\ SamePublication(s, t)
           /\ t.buddies = s.buddies \ pairs /\ t.groups = s.groups
<1> DEFINE left == [s EXCEPT !.buddies = @ \ pairs, !.ghosts = @ \ pairs]
           told == GroupsChanged(left, {}, pairs)
           gone == OnList(s) \ OnList(left)
<1>1. s \in ListState /\ RequestsOK(s) /\ BuddiesOK(s) /\ ViewOK(s)
    BY DEF StateOK
<1>2. gone \in SUBSET Contacts /\ {} \in SUBSET (Contacts \X Groups)
    BY DEF OnList
<1>3. t = ContactsRemoved(told, gone)
    BY DEF RemoveBuddies
<1>4. /\ left \in ListState /\ left.groups = s.groups /\ left.buddies = s.buddies \ pairs
      /\ left.ghosts = s.ghosts \ pairs /\ left.members = s.members
      /\ SameConnection(s, left) /\ SameRequests(s, left) /\ SamePublication(s, left)
      /\ SameView(s, left)
    <2>1. /\ left \in ListState /\ left.groups = s.groups
          /\ left.buddies = s.buddies \ pairs
          /\ left.ghosts = s.ghosts \ pairs /\ left.members = s.members
          /\ left.status = s.status /\ left.online = s.online
          /\ left.open = s.open /\ left.made = s.made /\ left.pending = s.pending
          /\ left.replaced = s.replaced /\ left.aborted = s.aborted
          /\ left.publishing_to = s.publishing_to
          /\ left.not_publishing_to = s.not_publishing_to
          /\ left.shown = s.shown /\ left.dropped = s.dropped
        BY <1>1 DEF ListState
    <2> QED BY <2>1 DEF SameConnection, SameRequests, SamePublication, SameView
<1> HIDE DEF left
<1>5. /\ told \in ListState
      /\ SameConnection(left, told) /\ SameBuddies(left, told) /\ SameRequests(left, told)
      /\ SamePublication(left, told) /\ SameView(left, told)
      /\ left.status = "CONNECTED" => told.members = (left.members \union {}) \ pairs
    BY <1>2, <1>4, GroupsChangedFields
<1> HIDE DEF told
<1>6. \A h \in Contacts : h \in gone <=> h \in OnList(s) /\ h \notin OnList(left)
    OBVIOUS
<1> HIDE DEF gone
<1>7. /\ t \in ListState
      /\ SameConnection(told, t) /\ SameBuddies(told, t) /\ SameRequests(told, t)
      /\ SamePublication(told, t) /\ t.members = told.members
      /\ told.status # "CONNECTED" => SameView(told, t)
      /\ told.status = "CONNECTED" =>
            /\ t.dropped = told.dropped \union gone
            /\ \A h \in gone : t.shown[h] = Absent
            /\ \A h \in Contacts \ gone : t.shown[h] = told.shown[h]
    BY <1>2, <1>3, <1>5, ContactsRemovedFields
<1>8. /\ SameConnection(s, t) /\ SameRequests(s, t) /\ SamePublication(s, t)
      /\ t.buddies = s.buddies \ pairs /\ t.ghosts = s.ghosts \ pairs /\ t.groups = s.groups
    BY <1>4, <1>5, <1>7
       DEF SameConnection, SameRequests, SamePublication, SameBuddies
<1>9. BuddiesOK(t)
    <2>1. s.status = "CONNECTED" => t.members = s.members \ pairs
        BY <1>4, <1>5, <1>7 DEF SameConnection
    <2> QED BY <1>1, <1>8, <2>1 DEF BuddiesOK, SameConnection
<1>10. ViewOK(t)
    <2> SUFFICES ASSUME t.status = "CONNECTED", NEW h \in Contacts
                 PROVE  ToldTruth(t, h)
        BY DEF ViewOK
    <2>1. /\ s.status = "CONNECTED" /\ told.status = "CONNECTED" /\ ToldTruth(s, h)
        BY <1>1, <1>7, <1>8 DEF SameConnection, ViewOK
    <2>2. h \in OnList(t) <=> h \in OnList(left)
        BY <1>5, <1>7 DEF SameBuddies, OnList, GroupsOf
    <2>3. CASE h \in gone
        <3>1. t.shown[h] = Absent /\ h \in t.dropped /\ h \notin OnList(t)
            BY <1>6, <1>7, <2>1, <2>2, <2>3
        <3> QED BY <3>1, ToldOfRemoval
    <2>4. CASE h \notin gone
        <3>1. t.shown[h] = s.shown[h] /\ (h \in s.dropped => h \in t.dropped)
            BY <1>4, <1>5, <1>7, <2>1, <2>4 DEF SameView
        <3>2. h \in OnList(t) <=> h \in OnList(s)
            <4>1. h \in OnList(t) => h \in OnList(s)
                BY <1>8, OnListIff
            <4> QED BY <1>6, <2>2, <2>4, <4>1
        <3>3. SameAnswer(s, t, h)
            BY <1>8, <3>2 DEF SameAnswer, SameRequests, SamePublication
        <3> QED BY <2>1, <3>1, <3>3, StillTold
    <2> QED BY <2>3, <2>4
<1>11. RequestsOK(t)
    BY <1>1, <1>8, RequestsStay
<1> QED BY <1>7, <1>8, <1>9, <1>10, <1>11 DEF StateOK

-----------------------------------------------------------------------------
(* Requests *)

\* A change of what is asked of, or published to, the contacts hs, announced when it is
\* complete.
LEMMA AnnouncedOK ==
    ASSUME NEW s, StateOK(s), NEW hs \in SUBSET Contacts, NEW u \in ListState, RequestsOK(u),
           u.status = s.status, SameBuddies(s, u), u.members = s.members, SameView(s, u),
           \A h \in Contacts \ hs :
              /\ u.pending[h] = s.pending[h]
              /\ h \in u.publishing_to <=> h \in s.publishing_to
              /\ h \in u.not_publishing_to <=> h \in s.not_publishing_to,
           NEW t, t = ContactsChanged(u, hs)
    PROVE  StateOK(t) /\ SameConnection(u, t) /\ SameBuddies(s, t)
<1>1. BuddiesOK(s) /\ ViewOK(s)
    BY DEF StateOK
<1>2. /\ t \in ListState
      /\ SameConnection(u, t) /\ SameBuddies(u, t) /\ SameRequests(u, t)
      /\ SamePublication(u, t) /\ t.members = u.members
      /\ u.status # "CONNECTED" => SameView(u, t)
      /\ u.status = "CONNECTED" =>
            /\ t.dropped = u.dropped \ hs
            /\ \A h \in hs : t.shown[h] = DupStates(u, h)
            /\ \A h \in Contacts \ hs : t.shown[h] = u.shown[h]
    BY ContactsChangedFields
<1>3. RequestsOK(t)
    BY <1>2, RequestsStay
<1>4. SameBuddies(s, t)
    BY <1>2 DEF SameBuddies
<1>5. BuddiesOK(t)
    BY <1>1, <1>2, <1>4 DEF BuddiesOK, SameBuddies, SameConnection
<1>6. ViewOK(t)
    <2> SUFFICES ASSUME t.status = "CONNECTED", NEW h \in Contacts
                 PROVE  ToldTruth(t, h)
        BY DEF ViewOK
    <2>1. s.status = "CONNECTED" /\ u.status = "CONNECTED" /\ ToldTruth(s, h)
        BY <1>1, <1>2 DEF SameConnection, ViewOK
    <2>2. CASE h \in hs
        <3>1. t.shown[h] = DupStates(u, h)
            BY <1>2, <2>1, <2>2
        <3>2. DupStates(u, h) = DupStates(t, h)
            BY <1>2 DEF DupStates, OnList, GroupsOf, Pending, SamePublication, SameBuddies,
                        SameRequests
        <3> QED BY <3>1, <3>2, FreshlyTold
    <2>3. CASE h \notin hs
        <3>1. t.shown[h] = s.shown[h] /\ (h \in s.dropped => h \in t.dropped)
            BY <1>2, <2>1, <2>3 DEF SameView
        <3>2. h \in OnList(t) <=> h \in OnList(s)
            BY <1>4, OnListIff DEF SameBuddies
        <3>3. SameAnswer(s, t, h)
            BY <1>2, <2>3, <3>2 DEF SameAnswer, SameRequests, SamePublication
        <3> QED BY <2>1, <3>1, <3>3, StillTold
    <2> QED BY <2>2, <2>3
<1> QED BY <1>2, <1>3, <1>4, <1>5, <1>6 DEF StateOK

\* remove_pending_publish_request: hs have no entry any more, and the assertion fails if
\* one of them had none before.
LEMMA RemovePendingFields ==
    ASSUME NEW s \in ListState, NEW hs \in SUBSET Contacts, NEW t, t = RemovePending(s, hs)
    PROVE  /\ t \in ListState
           /\ SameConnection(s, t) /\ SameBuddies(s, t) /\ SamePublication(s, t)
           /\ SameView(s, t) /\ t.members = s.members
           /\ t.open = s.open /\ t.made = s.made /\ t.replaced = s.replaced
           /\ \A h \in hs : t.pending[h] = None
           /\ \A h \in Contacts \ hs : t.pending[h] = s.pending[h]
           /\ t.aborted => s.aborted \/ \E h \in hs : s.pending[h] = None
<1> DEFINE kept    == [h \in Contacts |-> IF h \in hs THEN None ELSE s.pending[h]]
           aborted == s.aborted \/ \E h \in hs : s.pending[h] = None
<1>1. t = [s EXCEPT !.pending = kept, !.aborted = aborted]
    BY DEF RemovePending
<1>2. kept \in [Contacts -> Requests \union {None}] /\ aborted \in BOOLEAN
    BY DEF ListState
<1>3. /\ \A h \in hs : kept[h] = None
      /\ \A h \in Contacts \ hs : kept[h] = s.pending[h]
    OBVIOUS
<1>4. aborted => s.aborted \/ \E h \in hs : s.pending[h] = None
    OBVIOUS
<1> HIDE DEF kept, aborted
<1>5. /\ t \in ListState /\ t.pending = kept /\ t.aborted = aborted
      /\ t.status = s.status /\ t.online = s.online
      /\ t.groups = s.groups /\ t.buddies = s.buddies /\ t.ghosts = s.ghosts
      /\ t.open = s.open /\ t.made = s.made /\ t.replaced = s.replaced
      /\ t.publishing_to = s.publishing_to /\ t.not_publishing_to = s.not_publishing_to
      /\ t.shown = s.shown /\ t.dropped = s.dropped /\ t.members = s.members
    BY <1>1, <1>2, ZenonT(60) DEF ListState
<1> QED BY <1>3, <1>4, <1>5 DEF SameConnection, SameBuddies, SamePublication, SameView

\* A request that is answered is closed and leaves the table: with the others nothing
\* happens.
LEMMA AnsweredRequestsOK ==
    ASSUME NEW s \in ListState, RequestsOK(s), NEW asked \in SUBSET Contacts,
           \A h \in asked : s.pending[h] # None,
           NEW t, t.open = s.open \ {s.pending[h] : h \in asked},
           \A h \in asked : t.pending[h] = None,
           \A h \in Contacts \ asked : t.pending[h] = s.pending[h],
           t.online = s.online, t.replaced = s.replaced, t.made = s.made,
           t.aborted => s.aborted
    PROVE  RequestsOK(t)
<1>1. ASSUME NEW h \in Contacts, t.pending[h] # None
      PROVE  t.pending[h] \in t.open /\ From[t.pending[h]] = h
    <2>1. h \notin asked /\ t.pending[h] = s.pending[h]
        BY <1>1
    <2>2. s.pending[h] \in s.open /\ From[s.pending[h]] = h
        BY <1>1, <2>1 DEF RequestsOK
    <2>3. ASSUME NEW k \in asked PROVE s.pending[k] # s.pending[h]
        BY <2>1, <2>2 DEF RequestsOK
    <2> QED BY <2>1, <2>2, <2>3
<1>2. ASSUME t.online, NEW r \in t.open \ t.replaced PROVE t.pending[From[r]] = r
    <2>1. s.pending[From[r]] = r /\ From[r] \in Contacts
        BY <1>2, FromType DEF RequestsOK, ListState
    <2>2. From[r] \notin asked
        BY <2>1
    <2> QED BY <2>1, <2>2
<1> QED BY <1>1, <1>2 DEF RequestsOK

\* accept_publish_request: those of hs who asked are answered.
LEMMA AcceptOK ==
    ASSUME NEW s, StateOK(s), NEW hs \in SUBSET Contacts, NEW t, t = Accept(s, hs)
    PROVE  /\ StateOK(t) /\ SameBuddies(s, t) /\ t.online = s.online
           /\ t.open = s.open \ {s.pending[h] : h \in hs \intersect Pending(s)}
           /\ t.publishing_to = s.publishing_to \union (hs \intersect Pending(s))
<1> DEFINE asked == hs \intersect Pending(s)
           open  == s.open \ {s.pending[h] : h \in asked}
           told  == [Answered(s, asked) EXCEPT !.publishing_to = @ \union asked]
           u     == RemovePending(told, asked)
<1>1. s \in ListState /\ RequestsOK(s)
    BY DEF StateOK
<1>2. asked \in SUBSET Contacts /\ \A h \in asked : s.pending[h] # None
    BY DEF Pending
<1>3. t = ContactsChanged(u, asked)
    BY DEF Accept
<1>4. open \in SUBSET Requests
    BY <1>1 DEF ListState
<1>5. Answered(s, asked) = [s EXCEPT !.open = open]
    BY DEF Answered
<1>6. open = s.open \ {s.pending[h] : h \in asked} /\ asked = hs \intersect Pending(s)
    OBVIOUS
<1> HIDE DEF asked, open
<1>7. /\ told \in ListState /\ told.open = open
      /\ told.publishing_to = s.publishing_to \union asked
      /\ told.not_publishing_to = s.not_publishing_to
      /\ told.status = s.status /\ told.online = s.online
      /\ told.groups = s.groups /\ told.buddies = s.buddies /\ told.ghosts = s.ghosts
      /\ told.made = s.made /\ told.pending = s.pending
      /\ told.replaced = s.replaced /\ told.aborted = s.aborted
      /\ told.shown = s.shown /\ told.dropped = s.dropped /\ told.members = s.members
    BY <1>1, <1>2, <1>4, <1>5 DEF ListState
<1> HIDE DEF told
<1>8. /\ u \in ListState
      /\ SameConnection(told, u) /\ SameBuddies(told, u) /\ SamePublication(told, u)
      /\ SameView(told, u) /\ u.members = told.members
      /\ u.open = told.open /\ u.made = told.made /\ u.replaced = told.replaced
      /\ \A h \in asked : u.pending[h] = None
      /\ \A h \in Contacts \ asked : u.pending[h] = told.pending[h]
      /\ u.aborted => told.aborted \/ \E h \in asked : told.pending[h] = None
    BY <1>2, <1>7, RemovePendingFields
<1> HIDE DEF u
<1>9. RequestsOK(u)
    <2>1. /\ u.open = s.open \ {s.pending[h] : h \in asked}
          /\ \A h \in Contacts \ asked : u.pending[h] = s.pending[h]
          /\ u.online = s.online /\ u.replaced = s.replaced /\ u.made = s.made
          /\ (u.aborted => s.aborted)
        BY <1>2, <1>6, <1>7, <1>8 DEF SameConnection
    <2> QED BY <1>1, <1>2, <1>8, <2>1, AnsweredRequestsOK
<1>10. /\ u.status = s.status /\ SameBuddies(s, u) /\ u.members = s.members /\ SameView(s, u)
       /\ \A h \in Contacts \ asked :
             /\ u.pending[h] = s.pending[h]
             /\ h \in u.publishing_to <=> h \in s.publishing_to
             /\ h \in u.not_publishing_to <=> h \in s.not_publishing_to
    BY <1>7, <1>8 DEF SameConnection, SameBuddies, SameView, SamePublication
<1>11. StateOK(t) /\ SameConnection(u, t) /\ SameBuddies(s, t)
    BY <1>2, <1>3, <1>8, <1>9, <1>10, AnnouncedOK
<1>12. SameRequests(u, t) /\ SamePublication(u, t)
    BY <1>2, <1>3, <1>8, ContactsChangedFields
<1> QED BY <1>6, <1>7, <1>8, <1>11, <1>12 DEF SameConnection, SameRequests, SamePublication

\* reject_publish_request: those of hs who asked are refused.
LEMMA RejectOK ==
    ASSUME NEW s, StateOK(s), NEW hs \in SUBSET Contacts, NEW t, t = Reject(s, hs)
    PROVE  /\ StateOK(t) /\ SameBuddies(s, t) /\ t.online = s.online
           /\ t.open = s.open \ {s.pending[h] : h \in hs \intersect Pending(s)}
           /\ t.publishing_to = s.publishing_to
<1> DEFINE asked == hs \intersect Pending(s)
           open  == s.open \ {s.pending[h] : h \in asked}
           told  == [Answered(s, asked) EXCEPT !.not_publishing_to = @ \union asked]
           u     == RemovePending(told, asked)
<1>1. s \in ListState /\ RequestsOK(s)
    BY DEF StateOK
<1>2. asked \in SUBSET Contacts /\ \A h \in asked : s.pending[h] # None
    BY DEF Pending
<1>3. t = ContactsChanged(u, asked)
    BY DEF Reject
<1>4. open \in SUBSET Requests
    BY <1>1 DEF ListState
<1>5. Answered(s, asked) = [s EXCEPT !.open = open]
    BY DEF Answered
<1>6. open = s.open \ {s.pending[h] : h \in asked} /\ asked = hs \intersect Pending(s)
    OBVIOUS
<1> HIDE DEF asked, open
<1>7. /\ told \in ListState /\ told.open = open
      /\ told.not_publishing_to = s.not_publishing_to \union asked
      /\ told.publishing_to = s.publishing_to
      /\ told.status = s.status /\ told.online = s.online
      /\ told.groups = s.groups /\ told.buddies = s.buddies /\ told.ghosts = s.ghosts
      /\ told.made = s.made /\ told.pending = s.pending
      /\ told.replaced = s.replaced /\ told.aborted = s.aborted
      /\ told.shown = s.shown /\ told.dropped = s.dropped /\ told.members = s.members
    BY <1>1, <1>2, <1>4, <1>5 DEF ListState
<1> HIDE DEF told
<1>8. /\ u \in ListState
      /\ SameConnection(told, u) /\ SameBuddies(told, u) /\ SamePublication(told, u)
      /\ SameView(told, u) /\ u.members = told.members
      /\ u.open = told.open /\ u.made = told.made /\ u.replaced = told.replaced
      /\ \A h \in asked : u.pending[h] = None
      /\ \A h \in Contacts \ asked : u.pending[h] = told.pending[h]
      /\ u.aborted => told.aborted \/ \E h \in asked : told.pending[h] = None
    BY <1>2, <1>7, RemovePendingFields
<1> HIDE DEF u
<1>9. RequestsOK(u)
    <2>1. /\ u.open = s.open \ {s.pending[h] : h \in asked}
          /\ \A h \in Contacts \ asked : u.pending[h] = s.pending[h]
          /\ u.online = s.online /\ u.replaced = s.replaced /\ u.made = s.made
          /\ (u.aborted => s.aborted)
        BY <1>2, <1>6, <1>7, <1>8 DEF SameConnection
    <2> QED BY <1>1, <1>2, <1>8, <2>1, AnsweredRequestsOK
<1>10. /\ u.status = s.status /\ SameBuddies(s, u) /\ u.members = s.members /\ SameView(s, u)
       /\ \A h \in Contacts \ asked :
             /\ u.pending[h] = s.pending[h]
             /\ h \in u.publishing_to <=> h \in s.publishing_to
             /\ h \in u.not_publishing_to <=> h \in s.not_publishing_to
    BY <1>7, <1>8 DEF SameConnection, SameBuddies, SameView, SamePublication
<1>11. StateOK(t) /\ SameConnection(u, t) /\ SameBuddies(s, t)
    BY <1>2, <1>3, <1>8, <1>9, <1>10, AnnouncedOK
<1>12. SameRequests(u, t) /\ SamePublication(u, t)
    BY <1>2, <1>3, <1>8, ContactsChangedFields
<1> QED BY <1>6, <1>7, <1>8, <1>11, <1>12 DEF SameConnection, SameRequests, SamePublication

-----------------------------------------------------------------------------
(* Events of the connection and of the protocol *)

\* At the start nobody has asked for anything, or been told.
LEMMA InitOK == Init => IInv
<1> SUFFICES ASSUME Init PROVE IInv
    OBVIOUS
<1> DEFINE none   == [h \in Contacts |-> None]
           absent == [h \in Contacts |-> Absent]
<1>1. list = [ status |-> "CONNECTING", online |-> TRUE,
               groups |-> {}, buddies |-> {}, open |-> {}, made |-> {},
               pending |-> none, publishing_to |-> {}, not_publishing_to |-> {},
               shown |-> absent, members |-> {},
               replaced |-> {}, ghosts |-> {}, dropped |-> {}, aborted |-> FALSE ]
    BY DEF Init
<1>2. /\ none \in [Contacts -> Requests \union {None}]
      /\ absent \in [Contacts -> ContactStates \union {Absent}]
    OBVIOUS
<1>3. \A h \in Contacts : none[h] = None
    OBVIOUS
<1> HIDE DEF none, absent
<1>4. list \in ListState
    BY <1>1, <1>2 DEF ListState
<1>5. RequestsOK(list)
    BY <1>1, <1>3 DEF RequestsOK
<1>6. BuddiesOK(list) /\ ViewOK(list)
    BY <1>1 DEF BuddiesOK, ViewOK
<1> QED BY <1>4, <1>5, <1>6 DEF IInv, StateOK

\* The list is shown as it is.
LEMMA ListReceivedOK ==
    ASSUME IInv, ListReceived
    PROVE  IInv' /\ SameAnswers(list, list')
<1> DEFINE told == [h \in Contacts |->
                       IF h \in DupContacts(list) THEN DupStates(list, h) ELSE Absent]
<1>1. /\ list \in ListState /\ RequestsOK(list) /\ BuddiesOK(list)
      /\ list.status = "CONNECTING"
      /\ list' = [list EXCEPT !.status = "CONNECTED", !.members = list.buddies,
                              !.shown = told]
    BY DEF ListReceived, IInv, StateOK
<1>2. told \in [Contacts -> ContactStates \union {Absent}]
    BY DupStatesType
<1>3. \A h \in Contacts : /\ h \in DupContacts(list) => told[h] = DupStates(list, h)
                          /\ h \notin DupContacts(list) => told[h] = Absent
    OBVIOUS
<1> HIDE DEF told
<1>4. /\ list' \in ListState /\ list'.status = "CONNECTED" /\ list'.members = list.buddies
      /\ list'.shown = told /\ list'.online = list.online
      /\ list'.groups = list.groups /\ list'.buddies = list.buddies
      /\ list'.ghosts = list.ghosts
      /\ list'.open = list.open /\ list'.made = list.made /\ list'.pending = list.pending
      /\ list'.replaced = list.replaced /\ list'.aborted = list.aborted
      /\ list'.publishing_to = list.publishing_to
      /\ list'.not_publishing_to = list.not_publishing_to
    <2>1. list \in ListState
        BY <1>1
    <2>2. list' = [list EXCEPT !.status = "CONNECTED", !.members = list.buddies,
                               !.shown = told]
        BY <1>1
    <2> QED BY <1>2, <2>1, <2>2 DEF ListState
<1>5. RequestsOK(list')
    BY <1>1, <1>4 DEF RequestsOK
<1>6. BuddiesOK(list')
    BY <1>1, <1>4 DEF BuddiesOK
<1>7. ASSUME NEW h \in Contacts PROVE ToldTruth(list', h)
    <2>1. DupStates(list', h) = DupStates(list, h)
        BY <1>4 DEF DupStates, OnList, GroupsOf, Pending
    <2>2. CASE h \in DupContacts(list)
        <3>1. list'.shown[h] = DupStates(list', h)
            BY <1>3, <1>4, <2>1, <2>2
        <3> QED BY <3>1, FreshlyTold
    <2>3. CASE h \notin DupContacts(list)
        <3>1. list'.shown[h] = Absent
            BY <1>3, <1>4, <2>3
        <3>2. h \notin DupContacts(list')
            BY <1>4, <2>3 DEF DupContacts, OnList, GroupsOf, Pending
        <3>3. h \notin OnList(list')
            BY <3>2 DEF DupContacts
        <3> QED BY <3>1, <3>2, <3>3 DEF ToldTruth
    <2> QED BY <2>2, <2>3
<1> QED BY <1>4, <1>5, <1>6, <1>7 DEF IInv, StateOK, ViewOK, SameAnswers

\* Once the list is not shown, nothing is claimed of what clients know.
LEMMA DisconnectedOK ==
    ASSUME IInv, Disconnected
    PROVE  IInv' /\ SameAnswers(list, list')
<1>1. list \in ListState /\ RequestsOK(list) /\ BuddiesOK(list)
    BY DEF IInv, StateOK
<1>2. /\ list' \in ListState /\ list'.status = "DISCONNECTED" /\ list'.online = list.online
      /\ list'.groups = list.groups /\ list'.buddies = list.buddies
      /\ list'.ghosts = list.ghosts
      /\ list'.open = list.open /\ list'.pending = list.pending /\ list'.made = list.made
      /\ list'.replaced = list.replaced /\ list'.aborted = list.aborted
      /\ list'.publishing_to = list.publishing_to
    <2>1. list \in ListState
        BY <1>1
    <2> QED BY <2>1 DEF Disconnected, ListState
<1>3. RequestsOK(list')
    BY <1>1, <1>2 DEF RequestsOK
<1>4. BuddiesOK(list') /\ ViewOK(list')
    BY <1>1, <1>2 DEF BuddiesOK, ViewOK
<1> QED BY <1>2, <1>3, <1>4 DEF IInv, StateOK, SameAnswers

\* libpurple closes the requests it waits for.  Every entry of the table is one of them;
\* if one of them is not there, it was overwritten.
LEMMA GoOfflineOK ==
    ASSUME IInv, GoOffline
    PROVE  IInv' /\ ~list'.online /\ list'.publishing_to = list.publishing_to
<1> DEFINE s       == [list EXCEPT !.online = FALSE]
           hs      == {From[r] : r \in list.open}
           aborted == list.aborted \/ \E r \in list.open : list.pending[From[r]] # r
           told    == [s EXCEPT !.open = @ \ list.open, !.not_publishing_to = @ \union hs,
                                !.aborted = @ \/ \E r \in list.open : s.pending[From[r]] # r]
           u       == RemovePending(told, hs)
<1>1. /\ list \in ListState /\ RequestsOK(list) /\ BuddiesOK(list)
      /\ list.status = "DISCONNECTED" /\ list.online
    BY DEF GoOffline, IInv, StateOK
<1>2. list' = ContactsChanged(u, hs)
    BY DEF GoOffline, Close
<1>3. \A r \in list.open : From[r] \in Contacts
    BY <1>1, FromType DEF ListState
<1>4. hs \in SUBSET Contacts /\ aborted \in BOOLEAN
    BY <1>1, <1>3 DEF ListState
<1>5. /\ s \in ListState /\ s.online = FALSE /\ s.status = "DISCONNECTED"
      /\ s.aborted = list.aborted /\ s.pending = list.pending /\ s.open = list.open
      /\ s.groups = list.groups /\ s.buddies = list.buddies /\ s.ghosts = list.ghosts
      /\ s.replaced = list.replaced /\ s.publishing_to = list.publishing_to
    BY <1>1 DEF ListState
<1> HIDE DEF s
<1>6. told = [s EXCEPT !.open = @ \ list.open, !.not_publishing_to = @ \union hs,
                       !.aborted = aborted]
    BY <1>5
<1>7. aborted => list.replaced # {}
    <2> SUFFICES ASSUME aborted, list.replaced = {} PROVE FALSE
        OBVIOUS
    <2>1. ~list.aborted
        BY <1>1 DEF RequestsOK
    <2>2. PICK r \in list.open : list.pending[From[r]] # r
        BY <2>1
    <2> QED BY <1>1, <2>2 DEF RequestsOK
<1>8. \A h \in hs : \E r \in list.open : h = From[r]
    OBVIOUS
<1>9. \A r \in list.open : From[r] \in hs
    OBVIOUS
<1> HIDE DEF told, hs, aborted
<1>10. /\ told \in ListState /\ told.open = {} /\ told.pending = list.pending
       /\ told.aborted = aborted /\ told.replaced = list.replaced
       /\ told.status = "DISCONNECTED" /\ told.online = FALSE
       /\ told.groups = list.groups /\ told.buddies = list.buddies
       /\ told.ghosts = list.ghosts /\ told.publishing_to = list.publishing_to
    BY <1>4, <1>5, <1>6 DEF ListState
<1>11. /\ u \in ListState
       /\ SameConnection(told, u) /\ SameBuddies(told, u) /\ SamePublication(told, u)
       /\ SameView(told, u) /\ u.members = told.members
       /\ u.open = told.open /\ u.made = told.made /\ u.replaced = told.replaced
       /\ \A h \in hs : u.pending[h] = None
       /\ \A h \in Contacts \ hs : u.pending[h] = told.pending[h]
       /\ u.aborted => told.aborted \/ \E h \in hs : told.pending[h] = None
    BY <1>4, <1>10, RemovePendingFields
<1> HIDE DEF u
<1>12. ASSUME NEW h \in Contacts PROVE u.pending[h] = None
    <2>1. CASE h \in hs
        BY <1>11, <2>1
    <2>2. CASE h \notin hs
        <3>1. u.pending[h] = list.pending[h]
            BY <1>10, <1>11, <2>2
        <3>2. list.pending[h] = None
            BY <1>1, <1>9, <2>2 DEF RequestsOK
        <3> QED BY <3>1, <3>2
    <2> QED BY <2>1, <2>2
<1>13. u.aborted => u.replaced # {}
    <2> SUFFICES ASSUME u.aborted, list.replaced = {} PROVE FALSE
        BY <1>10, <1>11
    <2>1. PICK h \in hs : list.pending[h] = None
        BY <1>7, <1>10, <1>11
    <2>2. PICK r \in list.open : h = From[r]
        BY <1>8
    <2>3. list.pending[From[r]] = r
        BY <1>1 DEF RequestsOK
    <2>4. r \in Requests
        BY <1>1 DEF ListState
    <2> QED BY <2>1, <2>2, <2>3, <2>4, NoneIsNoRequest
<1>14. RequestsOK(u)
    BY <1>10, <1>11, <1>12, <1>13 DEF RequestsOK, SameConnection
<1>15. list' \in ListState /\ SameConnection(u, list') /\ SameBuddies(u, list')
       /\ SameRequests(u, list') /\ SamePublication(u, list')
    BY <1>2, <1>4, <1>11, ContactsChangedFields
<1>16. RequestsOK(list')
    BY <1>14, <1>15, RequestsStay
<1>17. BuddiesOK(list') /\ ViewOK(list')
    <2>1. list'.status = "DISCONNECTED" /\ SameBuddies(list, list')
        BY <1>10, <1>11, <1>15 DEF SameConnection, SameBuddies
    <2> QED BY <1>1, <2>1 DEF BuddiesOK, ViewOK, SameBuddies
<1>18. ~list'.online /\ list'.publishing_to = list.publishing_to
    BY <1>10, <1>11, <1>15 DEF SameConnection, SamePublication
<1> QED BY <1>15, <1>16, <1>17, <1>18 DEF IInv, StateOK

\* A request is entered in the place of the contact's last one.
LEMMA RequestAuthorizeOK ==
    ASSUME IInv, NEW r \in Requests, RequestAuthorize(r)
    PROVE  /\ IInv' /\ r \notin list.open
           /\ list'.open = list.open \union {r}
           /\ list'.publishing_to = list.publishing_to \ {From[r]}
<1> DEFINE h == From[r]
           old == {list.pending[h]} \ {None}
           s == [list EXCEPT !.open = @ \union {r}, !.made = @ \union {r},
                             !.replaced = @ \union old, !.pending[h] = r,
                             !.publishing_to = @ \ {h},
                             !.not_publishing_to = @ \union {h}]
<1>1. /\ StateOK(list) /\ list \in ListState /\ RequestsOK(list) /\ list.online
      /\ list' = ContactsChanged(s, {h}) /\ r \notin list.made
    BY DEF RequestAuthorize, IInv, StateOK
<1>2. h \in Contacts /\ {h} \in SUBSET Contacts
    BY FromType
<1>3. old \in SUBSET Requests
    BY <1>1, <1>2 DEF ListState
<1>4. list.pending[h] # None => list.pending[h] \in old
    OBVIOUS
<1>5. h = From[r]
    OBVIOUS
<1> HIDE DEF h, old
<1>6. /\ s \in ListState /\ s.pending = [list.pending EXCEPT ![h] = r]
      /\ s.open = list.open \union {r} /\ s.replaced = list.replaced \union old
      /\ s.made = list.made \union {r}
      /\ s.publishing_to = list.publishing_to \ {h}
      /\ s.not_publishing_to = list.not_publishing_to \union {h}
      /\ s.status = list.status /\ s.online = list.online
      /\ s.groups = list.groups /\ s.buddies = list.buddies /\ s.ghosts = list.ghosts
      /\ s.aborted = list.aborted /\ s.members = list.members
      /\ s.shown = list.shown /\ s.dropped = list.dropped
    BY <1>1, <1>2, <1>3 DEF ListState
<1>7. s.pending[h] = r /\ \A k \in Contacts \ {h} : s.pending[k] = list.pending[k]
    BY <1>1, <1>2, <1>6 DEF ListState
<1> HIDE DEF s
<1>8. RequestsOK(s)
    <2>1. ASSUME NEW k \in Contacts, s.pending[k] # None
          PROVE  s.pending[k] \in s.open /\ From[s.pending[k]] = k
        <3>1. CASE k = h
            BY <1>5, <1>6, <1>7, <3>1
        <3>2. CASE k # h
            BY <1>1, <1>6, <1>7, <2>1, <3>2 DEF RequestsOK
        <3> QED BY <3>1, <3>2
    <2>2. ASSUME NEW q \in s.open \ s.replaced PROVE s.pending[From[q]] = q
        <3>1. CASE q = r
            BY <1>5, <1>7, <3>1
        <3>2. CASE q # r
            <4>1. q \in list.open \ list.replaced /\ q \notin old /\ q \in Requests
                BY <1>1, <1>6, <2>2, <3>2 DEF ListState
            <4>2. list.pending[From[q]] = q /\ q # None /\ From[q] \in Contacts
                BY <1>1, <4>1, FromType, NoneIsNoRequest DEF RequestsOK
            <4>3. From[q] # h
                BY <1>4, <4>1, <4>2
            <4> QED BY <1>7, <4>2, <4>3
        <3> QED BY <3>1, <3>2
    <2>3. s.online /\ (s.aborted => s.replaced # {}) /\ s.open \subseteq s.made
        BY <1>1, <1>6 DEF RequestsOK
    <2> QED BY <2>1, <2>2, <2>3 DEF RequestsOK
<1>9. /\ s.status = list.status /\ SameBuddies(list, s) /\ s.members = list.members
      /\ SameView(list, s)
      /\ \A k \in Contacts \ {h} :
            /\ s.pending[k] = list.pending[k]
            /\ k \in s.publishing_to <=> k \in list.publishing_to
            /\ k \in s.not_publishing_to <=> k \in list.not_publishing_to
    BY <1>6, <1>7 DEF SameBuddies, SameView
<1>10. StateOK(list')
    BY <1>1, <1>2, <1>6, <1>8, <1>9, AnnouncedOK
<1>11. list'.open = s.open /\ list'.publishing_to = s.publishing_to
    BY <1>1, <1>2, <1>6, ContactsChangedFields DEF SameRequests, SamePublication
<1>12. r \notin list.open
    BY <1>1 DEF RequestsOK
<1> QED BY <1>5, <1>6, <1>10, <1>11, <1>12 DEF IInv

\* purple_accounts_delete leaves nobody in a group.
LEMMA DeleteAccountOK ==
    ASSUME IInv, DeleteAccount
    PROVE  IInv' /\ SameAnswers(list, list')
<1>1. StateOK(list) /\ list.buddies \in SUBSET (Contacts \X Groups)
    BY DEF IInv, StateOK, ListState
<1>2. list' = RemoveBuddies(list, list.buddies)
    BY DEF DeleteAccount
<1>3. StateOK(list') /\ SameRequests(list, list') /\ SamePublication(list, list')
    BY <1>1, <1>2, RemoveBuddiesOK
<1> QED BY <1>3 DEF IInv, SameAnswers, SameRequests, SamePublication

\* A roster push adds a buddy.
LEMMA PurpleAddsBuddyOK ==
    ASSUME IInv, NEW h \in Contacts, NEW g \in Groups, PurpleAddsBuddy(h, g)
    PROVE  IInv' /\ SameAnswers(list, list')
<1> DEFINE pairs == {<<h, g>>}
<1>1. StateOK(list) /\ list' = AddBuddies(list, pairs)
    BY DEF IInv, PurpleAddsBuddy
<1>2. pairs \in SUBSET (Contacts \X Groups) /\ pairs \intersect list.buddies = {}
    BY DEF PurpleAddsBuddy
<1> HIDE DEF pairs
<1>3. StateOK(list') /\ SameRequests(list, list') /\ SamePublication(list, list')
    BY <1>1, <1>2, AddBuddiesOK
<1> QED BY <1>3 DEF IInv, SameAnswers, SameRequests, SamePublication

\* A roster push removes a buddy.
LEMMA PurpleRemovesBuddyOK ==
    ASSUME IInv, NEW h \in Contacts, NEW g \in Groups, PurpleRemovesBuddy(h, g)
    PROVE  IInv' /\ SameAnswers(list, list')
<1> DEFINE pairs == {<<h, g>>}
<1>1. StateOK(list) /\ list' = RemoveBuddies(list, pairs)
    BY DEF IInv, PurpleRemovesBuddy
<1>2. pairs \in SUBSET (Contacts \X Groups)
    OBVIOUS
<1> HIDE DEF pairs
<1>3. StateOK(list') /\ SameRequests(list, list') /\ SamePublication(list, list')
    BY <1>1, <1>2, RemoveBuddiesOK
<1> QED BY <1>3 DEF IInv, SameAnswers, SameRequests, SamePublication

-----------------------------------------------------------------------------
(* What clients ask for *)

\* Contacts who are not on the list get their first buddy.
LEMMA RequestSubscriptionOK ==
    ASSUME IInv, NEW hs \in SUBSET Contacts, RequestSubscription(hs)
    PROVE  IInv' /\ SameAnswers(list, list')
<1> DEFINE pairs == hs \X {Fallback}
<1>1. /\ StateOK(list) /\ list' = AddBuddies(list, pairs) /\ hs \intersect OnList(list) = {}
      /\ list.buddies \in SUBSET (Contacts \X Groups)
    BY DEF IInv, RequestSubscription, StateOK, ListState
<1>2. pairs \in SUBSET (Contacts \X Groups)
    BY FallbackIsAGroup
<1>3. pairs \intersect list.buddies = {}
    <2> SUFFICES ASSUME NEW h \in hs, <<h, Fallback>> \in list.buddies PROVE FALSE
        OBVIOUS
    <2>1. h \in OnList(list)
        BY FallbackIsAGroup, OnListIff
    <2> QED BY <1>1, <2>1
<1> HIDE DEF pairs
<1>4. StateOK(list') /\ SameRequests(list, list') /\ SamePublication(list, list')
    BY <1>1, <1>2, <1>3, AddBuddiesOK
<1> QED BY <1>4 DEF IInv, SameAnswers, SameRequests, SamePublication

\* Those of hs who asked may see our presence.
LEMMA AuthorizePublicationOK ==
    ASSUME IInv, NEW hs \in SUBSET Contacts, AuthorizePublication(hs)
    PROVE  /\ IInv'
           /\ list'.open = list.open \ {list.pending[h] : h \in hs \intersect Pending(list)}
           /\ list'.publishing_to = list.publishing_to \union (hs \intersect Pending(list))
<1>1. StateOK(list) /\ list' = Accept(list, hs)
    BY DEF IInv, AuthorizePublication
<1>2. /\ StateOK(list')
      /\ list'.open = list.open \ {list.pending[h] : h \in hs \intersect Pending(list)}
      /\ list'.publishing_to = list.publishing_to \union (hs \intersect Pending(list))
    BY <1>1, AcceptOK
<1> QED BY <1>2 DEF IInv

\* Contacts leave libpurple's list first and are refused then.
LEMMA RemoveContactsOK ==
    ASSUME IInv, NEW hs \in SUBSET Contacts, RemoveContacts(hs)
    PROVE  /\ IInv' /\ list'.publishing_to = list.publishing_to
           /\ list'.open = list.open \ {list.pending[h] : h \in hs \intersect Pending(list)}
<1> DEFINE pairs == (hs \X Groups) \intersect list.buddies
           s     == RemoveBuddies(list, pairs)
<1>1. StateOK(list) /\ list' = Reject(s, hs)
    BY DEF IInv, RemoveContacts
<1>2. pairs \in SUBSET (Contacts \X Groups)
    OBVIOUS
<1> HIDE DEF pairs
<1>3. StateOK(s) /\ SameRequests(list, s) /\ SamePublication(list, s)
    BY <1>1, <1>2, RemoveBuddiesOK
<1> HIDE DEF s
<1>4. /\ StateOK(list') /\ list'.publishing_to = s.publishing_to
      /\ list'.open = s.open \ {s.pending[h] : h \in hs \intersect Pending(s)}
    BY <1>1, <1>3, RejectOK
<1>5. Pending(s) = Pending(list) /\ s.pending = list.pending /\ s.open = list.open
    BY <1>3 DEF SameRequests, Pending
<1> QED BY <1>3, <1>4, <1>5 DEF IInv, SamePublication

\* add_to_group: the groups exist, and everyone of hs is in all of them.
LEMMA AddToGroupsOK ==
    ASSUME NEW s, StateOK(s), NEW hs \in SUBSET Contacts, NEW gs \in SUBSET Groups,
           NEW t, t = AddToGroups(s, hs, gs)
    PROVE  StateOK(t) /\ SameAnswers(s, t) /\ t.buddies = s.buddies \union (hs \X gs)
<1> DEFINE pairs == (hs \X gs) \ s.buddies
           u     == [s EXCEPT !.groups = @ \union gs]
<1>1. t = AddBuddies(u, pairs)
    BY DEF AddToGroups
<1>2. s \in ListState /\ RequestsOK(s) /\ BuddiesOK(s) /\ ViewOK(s)
    BY DEF StateOK
<1>3. pairs \in SUBSET (Contacts \X Groups) /\ pairs \intersect s.buddies = {}
    OBVIOUS
<1>4. s.buddies \union pairs = s.buddies \union (hs \X gs)
    OBVIOUS
<1> HIDE DEF pairs
<1>5. /\ u \in ListState /\ u.groups = s.groups \union gs /\ u.buddies = s.buddies
      /\ u.ghosts = s.ghosts /\ u.members = s.members
      /\ u.status = s.status /\ u.online = s.online
      /\ u.open = s.open /\ u.made = s.made /\ u.pending = s.pending
      /\ u.replaced = s.replaced /\ u.aborted = s.aborted
      /\ u.publishing_to = s.publishing_to /\ u.not_publishing_to = s.not_publishing_to
      /\ u.shown = s.shown /\ u.dropped = s.dropped
    BY <1>2 DEF ListState
<1> HIDE DEF u
<1>6. RequestsOK(u) /\ BuddiesOK(u)
    BY <1>2, <1>5 DEF RequestsOK, BuddiesOK
<1>7. ViewOK(u)
    <2> SUFFICES ASSUME u.status = "CONNECTED", NEW h \in Contacts PROVE ToldTruth(u, h)
        BY DEF ViewOK
    <2>1. ToldTruth(s, h)
        BY <1>2, <1>5 DEF ViewOK
    <2>2. SameAnswer(s, u, h)
        BY <1>5, OnListIff DEF SameAnswer
    <2>3. u.shown[h] = s.shown[h] /\ (h \in s.dropped => h \in u.dropped)
        BY <1>5
    <2> QED BY <2>1, <2>2, <2>3, StillTold
<1>8. StateOK(u)
    BY <1>5, <1>6, <1>7 DEF StateOK
<1>9. /\ StateOK(t) /\ t.buddies = u.buddies \union pairs
      /\ SameRequests(u, t) /\ SamePublication(u, t)
    BY <1>1, <1>3, <1>5, <1>8, AddBuddiesOK
<1> QED BY <1>4, <1>5, <1>9 DEF SameAnswers, SameRequests, SamePublication

\* prep_remove_from_group, when it does not fail: those who would be in no group are in
\* the fallback group, which is another group.
LEMMA PrepRemoveOK ==
    ASSUME NEW s, StateOK(s), NEW g \in Groups, NEW hs \in SUBSET Contacts,
           MayRemove(s, g, hs), NEW t, t = PrepRemove(s, g, hs)
    PROVE  /\ StateOK(t)
           /\ t.buddies = s.buddies \union (Orphans(s, g, hs) \X {Fallback})
           /\ SameConnection(s, t) /\ SameAnswers(s, t) /\ t.ghosts = s.ghosts
           /\ Orphans(s, g, hs) # {} => g # Fallback
<1> DEFINE pairs == Orphans(s, g, hs) \X {Fallback}
<1>1. t = AddBuddies(s, pairs)
    BY DEF PrepRemove
<1>2. Orphans(s, g, hs) # {} => g # Fallback
    BY DEF MayRemove
<1>3. /\ pairs \in SUBSET (Contacts \X Groups)
      /\ \A p \in pairs : p[1] \in Orphans(s, g, hs) /\ p = <<p[1], Fallback>>
    BY FallbackIsAGroup DEF Orphans
<1>4. pairs \intersect s.buddies = {}
    <2> SUFFICES ASSUME NEW h \in Orphans(s, g, hs), <<h, Fallback>> \in s.buddies
                 PROVE  FALSE
        BY <1>3
    <2>1. GroupsOf(s, h) = {g} /\ g # Fallback
        BY <1>2 DEF Orphans
    <2>2. Fallback \in GroupsOf(s, h)
        BY FallbackIsAGroup DEF GroupsOf
    <2> QED BY <2>1, <2>2
<1>5. pairs = Orphans(s, g, hs) \X {Fallback}
    OBVIOUS
<1> HIDE DEF pairs
<1>6. /\ StateOK(t) /\ SameConnection(s, t) /\ t.buddies = s.buddies \union pairs
      /\ t.ghosts = s.ghosts /\ SameRequests(s, t) /\ SamePublication(s, t)
    BY <1>1, <1>3, <1>4, AddBuddiesOK
<1> QED BY <1>2, <1>5, <1>6 DEF SameAnswers, SameRequests, SamePublication

\* remove_many_from_group: none of hs is in g.
LEMMA RemoveManyOK ==
    ASSUME NEW s, StateOK(s), NEW g \in Groups, NEW hs \in SUBSET Contacts,
           NEW t, t = RemoveMany(s, g, hs)
    PROVE  StateOK(t) /\ SameAnswers(s, t) /\ t.buddies = s.buddies \ (hs \X {g})
<1> DEFINE pairs == (hs \X {g}) \intersect s.buddies
<1>1. t = RemoveBuddies(s, pairs)
    BY DEF RemoveMany
<1>2. pairs \in SUBSET (Contacts \X Groups)
    OBVIOUS
<1>3. s.buddies \ pairs = s.buddies \ (hs \X {g})
    OBVIOUS
<1> HIDE DEF pairs
<1>4. /\ StateOK(t) /\ t.buddies = s.buddies \ pairs
      /\ SameRequests(s, t) /\ SamePublication(s, t)
    BY <1>1, <1>2, RemoveBuddiesOK
<1> QED BY <1>3, <1>4 DEF SameAnswers, SameRequests, SamePublication

-----------------------------------------------------------------------------
(* Group edits: the invariant, and the buddies they leave *)

\* The groups h is to be in, which are not none.
Wanted(names) == IF names = {} THEN {Fallback} ELSE names

\* h is added to the groups it is to be in before it leaves the others.
LEMMA SetContactGroupsOK ==
    ASSUME IInv, NEW h \in Contacts, NEW names \in SUBSET Groups, SetContactGroups(h, names)
    PROVE  /\ IInv' /\ SameAnswers(list, list')
           /\ list'.buddies = (list.buddies \union ({h} \X Wanted(names)))
                                  \ ({h} \X (Groups \ Wanted(names)))
<1> DEFINE gs    == Wanted(names)
           s     == AddToGroups(list, {h}, gs)
           pairs == ({h} \X (Groups \ gs)) \intersect s.buddies
<1>1. StateOK(list) /\ list' = RemoveBuddies(s, pairs)
    BY DEF IInv, SetContactGroups, Wanted
<1>2. gs \in SUBSET Groups /\ {h} \in SUBSET Contacts
    BY FallbackIsAGroup DEF Wanted
<1>3. gs = Wanted(names)
    OBVIOUS
<1>4. /\ pairs \in SUBSET (Contacts \X Groups)
      /\ s.buddies \ pairs = s.buddies \ ({h} \X (Groups \ gs))
    OBVIOUS
<1> HIDE DEF gs, pairs
<1>5. StateOK(s) /\ SameAnswers(list, s) /\ s.buddies = list.buddies \union ({h} \X gs)
    BY <1>1, <1>2, AddToGroupsOK
<1> HIDE DEF s
<1>6. /\ StateOK(list') /\ list'.buddies = s.buddies \ pairs
      /\ SameRequests(s, list') /\ SamePublication(s, list')
    BY <1>1, <1>4, <1>5, RemoveBuddiesOK
<1>7. SameAnswers(list, list')
    BY <1>5, <1>6 DEF SameAnswers, SameRequests, SamePublication
<1> QED BY <1>3, <1>4, <1>5, <1>6, <1>7 DEF IInv

\* hs are added to g.
LEMMA AddToGroupOK ==
    ASSUME IInv, NEW g \in Groups, NEW hs \in SUBSET Contacts, AddToGroup(g, hs)
    PROVE  /\ IInv' /\ SameAnswers(list, list')
           /\ list'.buddies = list.buddies \union (hs \X {g})
<1> DEFINE gs == {g}
           t  == AddToGroups(list, hs, gs)
<1>1. /\ StateOK(list) /\ t = AddToGroups(list, hs, gs) /\ list' = t
      /\ gs \in SUBSET Groups /\ gs = {g}
    BY DEF IInv, AddToGroup
<1> HIDE DEF gs, t
<1>2. StateOK(t) /\ SameAnswers(list, t) /\ t.buddies = list.buddies \union (hs \X gs)
    <2>1. /\ StateOK(list) /\ t = AddToGroups(list, hs, gs)
          /\ gs \in SUBSET Groups /\ hs \in SUBSET Contacts
        BY <1>1
    <2>2. StateOK(t) /\ SameAnswers(list, t)
        BY <2>1, AddToGroupsOK
    <2>3. t.buddies = list.buddies \union (hs \X gs)
        BY <2>1, AddToGroupsOK
    <2> QED BY <2>2, <2>3
<1> QED BY <1>1, <1>2 DEF IInv

\* hs are taken out of g, those who were nowhere else after they were put in the
\* fallback group.
LEMMA RemoveFromGroupOK ==
    ASSUME IInv, NEW g \in Groups, NEW hs \in SUBSET Contacts, RemoveFromGroup(g, hs)
    PROVE  /\ IInv' /\ SameAnswers(list, list')
           /\ list'.buddies = (list.buddies \union (Orphans(list, g, hs) \X {Fallback}))
                                  \ (hs \X {g})
           /\ Orphans(list, g, hs) # {} => g # Fallback
<1> DEFINE s == PrepRemove(list, g, hs)
<1>1. StateOK(list) /\ MayRemove(list, g, hs) /\ list' = RemoveMany(s, g, hs)
    BY DEF IInv, RemoveFromGroup
<1>2. /\ StateOK(s) /\ SameAnswers(list, s)
      /\ s.buddies = list.buddies \union (Orphans(list, g, hs) \X {Fallback})
      /\ Orphans(list, g, hs) # {} => g # Fallback
    BY <1>1, PrepRemoveOK
<1> HIDE DEF s
<1>3. StateOK(list') /\ SameAnswers(s, list') /\ list'.buddies = s.buddies \ (hs \X {g})
    BY <1>1, <1>2, RemoveManyOK
<1>4. SameAnswers(list, list')
    BY <1>2, <1>3 DEF SameAnswers
<1> QED BY <1>2, <1>3, <1>4 DEF IInv

\* The members of g who are not of hs are taken out of it, and hs are added.
LEMMA SetGroupMembersOK ==
    ASSUME IInv, NEW g \in Groups, NEW hs \in SUBSET Contacts, SetGroupMembers(g, hs),
           NEW outcasts, outcasts = InGroup(list, g) \ hs
    PROVE  /\ IInv' /\ SameAnswers(list, list')
           /\ list'.buddies = (list.buddies \union (Orphans(list, g, outcasts) \X {Fallback})
                                  \union (hs \X {g})) \ (outcasts \X {g})
           /\ Orphans(list, g, outcasts) # {} => g # Fallback
<1> DEFINE s  == PrepRemove(list, g, outcasts)
           gs == {g}
           u  == AddToGroups(s, hs, gs)
<1>1. /\ StateOK(list) /\ MayRemove(list, g, outcasts) /\ list' = RemoveMany(u, g, outcasts)
      /\ outcasts \in SUBSET Contacts /\ gs \in SUBSET Groups /\ gs = {g}
    BY DEF IInv, SetGroupMembers, InGroup
<1> HIDE DEF gs
<1>2. /\ StateOK(s) /\ SameAnswers(list, s)
      /\ s.buddies = list.buddies \union (Orphans(list, g, outcasts) \X {Fallback})
      /\ Orphans(list, g, outcasts) # {} => g # Fallback
    <2>1. s = PrepRemove(list, g, outcasts)
        OBVIOUS
    <2>2. /\ StateOK(list) /\ MayRemove(list, g, outcasts) /\ outcasts \in SUBSET Contacts
        BY <1>1
    <2> HIDE DEF s, u
    <2>3. StateOK(s)
        BY <2>1, <2>2, PrepRemoveOK
    <2>4. s.buddies = list.buddies \union (Orphans(list, g, outcasts) \X {Fallback})
        BY <2>1, <2>2, PrepRemoveOK
    <2>5. SameAnswers(list, s) /\ (Orphans(list, g, outcasts) # {} => g # Fallback)
        BY <2>1, <2>2, PrepRemoveOK
    <2> QED BY <2>3, <2>4, <2>5
<1> HIDE DEF s
<1>3. StateOK(u) /\ SameAnswers(s, u) /\ u.buddies = s.buddies \union (hs \X gs)
    <2>1. StateOK(s) /\ gs \in SUBSET Groups
        BY <1>1, <1>2
    <2> QED BY <2>1, AddToGroupsOK
<1> HIDE DEF u
<1>4. /\ StateOK(list') /\ SameAnswers(u, list')
      /\ list'.buddies = u.buddies \ (outcasts \X {g})
    BY <1>1, <1>3, RemoveManyOK
<1>5. SameAnswers(list, list')
    BY <1>2, <1>3, <1>4 DEF SameAnswers
<1> QED BY <1>1, <1>2, <1>3, <1>4, <1>5 DEF IInv

\* The members of g stay, in the fallback group too if they were nowhere else, while
\* clients are told that the group is gone: from then on they are ghosts.
LEMMA RemoveGroupOK ==
    ASSUME IInv, NEW g \in Groups, RemoveGroup(g)
    PROVE  /\ IInv' /\ SameAnswers(list, list')
           /\ list.buddies \subseteq list'.buddies
<1> DEFINE hs     == InGroup(list, g)
           s      == PrepRemove(list, g, hs)
           kept   == InGroup(s, g) \X {g}
           groups == IF kept = {} THEN s.groups \ {g} ELSE s.groups
<1>1. /\ StateOK(list) /\ MayRemove(list, g, hs)
      /\ list' = [s EXCEPT !.groups = groups, !.members = @ \ (Contacts \X {g}),
                           !.ghosts = @ \union kept]
    BY DEF IInv, RemoveGroup
<1>2. hs \in SUBSET Contacts
    BY DEF InGroup
<1> HIDE DEF hs
<1>3. StateOK(s) /\ SameAnswers(list, s) /\ list.buddies \subseteq s.buddies
    BY <1>1, <1>2, PrepRemoveOK
<1>4. s \in ListState /\ RequestsOK(s) /\ BuddiesOK(s) /\ ViewOK(s)
    BY <1>3 DEF StateOK
<1> HIDE DEF s
<1>5. kept \subseteq s.buddies /\ kept \in SUBSET (Contacts \X Groups)
    BY DEF InGroup
<1>6. \A p \in s.buddies : p[2] = g => p \in kept
    <2> SUFFICES ASSUME NEW p \in s.buddies, p[2] = g PROVE p \in kept
        OBVIOUS
    <2>1. p[1] \in Contacts /\ p = <<p[1], g>>
        BY <1>4 DEF ListState
    <2> QED BY <2>1 DEF InGroup
<1>7. \A p \in kept : p \in Contacts \X {g}
    BY DEF InGroup
<1>8. /\ groups \in SUBSET Groups
      /\ s.groups \ {g} \subseteq groups
      /\ kept # {} => groups = s.groups
    BY <1>4 DEF ListState
<1> HIDE DEF kept, groups
<1>9. /\ list' \in ListState /\ list'.groups = groups /\ list'.buddies = s.buddies
      /\ list'.ghosts = s.ghosts \union kept
      /\ list'.members = s.members \ (Contacts \X {g})
      /\ list'.status = s.status /\ list'.online = s.online
      /\ list'.open = s.open /\ list'.made = s.made /\ list'.pending = s.pending
      /\ list'.replaced = s.replaced /\ list'.aborted = s.aborted
      /\ list'.publishing_to = s.publishing_to
      /\ list'.not_publishing_to = s.not_publishing_to
      /\ list'.shown = s.shown /\ list'.dropped = s.dropped
    <2>1. list' = [s EXCEPT !.groups = groups, !.members = @ \ (Contacts \X {g}),
                            !.ghosts = @ \union kept]
        BY <1>1
    <2> QED BY <1>4, <1>5, <1>8, <2>1 DEF ListState
<1>10. RequestsOK(list')
    BY <1>4, <1>9 DEF RequestsOK
<1>11. BuddiesOK(list')
    <2>1. ASSUME NEW p \in s.buddies PROVE p[2] \in groups
        <3>1. p[2] \in s.groups
            BY <1>4 DEF BuddiesOK
        <3>2. CASE p[2] = g
            BY <1>6, <1>8, <3>1, <3>2
        <3>3. CASE p[2] # g
            BY <1>8, <3>1, <3>3
        <3> QED BY <3>2, <3>3
    <2>2. s.status = "CONNECTED"
        <3>1. SameConnection(list, s)
            BY <1>1, <1>2, PrepRemoveOK DEF s
        <3> QED BY <3>1 DEF SameConnection, RemoveGroup, Shown
    <2>3. s.members = s.buddies \ s.ghosts
        BY <1>4, <2>2 DEF BuddiesOK
    <2>4. s.members \ (Contacts \X {g}) = s.buddies \ (s.ghosts \union kept)
        <3>1. \A p \in s.buddies : p \in Contacts \X {g} <=> p \in kept
            BY <1>6, <1>7
        <3> QED BY <2>3, <3>1
    <2>5. s.ghosts \union kept \subseteq s.buddies
        BY <1>4, <1>5 DEF BuddiesOK
    <2> QED BY <1>9, <2>1, <2>2, <2>4, <2>5 DEF BuddiesOK
<1>12. ViewOK(list')
    <2> SUFFICES ASSUME list'.status = "CONNECTED", NEW h \in Contacts
                 PROVE  ToldTruth(list', h)
        BY DEF ViewOK
    <2>1. ToldTruth(s, h)
        BY <1>4, <1>9 DEF ViewOK
    <2>2. SameAnswer(s, list', h)
        BY <1>9 DEF SameAnswer, OnList, GroupsOf
    <2>3. list'.shown[h] = s.shown[h] /\ (h \in s.dropped => h \in list'.dropped)
        BY <1>9
    <2> QED BY <2>1, <2>2, <2>3, StillTold
<1>13. SameAnswers(list, list')
    BY <1>3, <1>9 DEF SameAnswers
<1> QED BY <1>3, <1>9, <1>10, <1>11, <1>12, <1>13 DEF IInv, StateOK

\* Pairs after their group was renamed.
Renamed(pairs, old, new) == {<<p[1], IF p[2] = old THEN new ELSE p[2]>> : p \in pairs}

\* Who is in which group after a rename.
LEMMA RenamedMembers ==
    ASSUME NEW old \in Groups, NEW new \in Groups, old # new,
           NEW pairs \in SUBSET (Contacts \X Groups)
    PROVE  /\ Renamed(pairs, old, new) \in SUBSET (Contacts \X Groups)
           /\ \A h \in Contacts, g \in Groups :
                 <<h, g>> \in Renamed(pairs, old, new) <=>
                    \/ g = new /\ (<<h, old>> \in pairs \/ <<h, new>> \in pairs)
                    \/ g # new /\ g # old /\ <<h, g>> \in pairs
<1>1. \A p \in pairs : p[1] \in Contacts /\ p[2] \in Groups /\ p = <<p[1], p[2]>>
    OBVIOUS
<1>2. Renamed(pairs, old, new) \in SUBSET (Contacts \X Groups)
    BY <1>1 DEF Renamed
<1>3. ASSUME NEW h \in Contacts, NEW g \in Groups, <<h, g>> \in Renamed(pairs, old, new)
      PROVE  \/ g = new /\ (<<h, old>> \in pairs \/ <<h, new>> \in pairs)
             \/ g # new /\ g # old /\ <<h, g>> \in pairs
    <2>1. PICK p \in pairs : <<h, g>> = <<p[1], IF p[2] = old THEN new ELSE p[2]>>
        BY <1>3 DEF Renamed
    <2>2. p[1] = h /\ p = <<h, p[2]>>
        BY <1>1, <2>1
    <2>3. CASE p[2] = old
        BY <2>1, <2>2, <2>3
    <2>4. CASE p[2] # old
        <3>1. g = p[2]
            BY <2>1, <2>4
        <3> QED BY <2>2, <2>4, <3>1
    <2> QED BY <2>3, <2>4
<1>4. ASSUME NEW h \in Contacts, NEW g \in Groups, <<h, g>> \in pairs
      PROVE  <<h, IF g = old THEN new ELSE g>> \in Renamed(pairs, old, new)
    <2> DEFINE p == <<h, g>>
    <2>1. p[1] = h /\ p[2] = g
        OBVIOUS
    <2>2. <<p[1], IF p[2] = old THEN new ELSE p[2]>> \in Renamed(pairs, old, new)
        BY <1>4 DEF Renamed
    <2> QED BY <2>1, <2>2
<1>5. ASSUME NEW h \in Contacts, NEW g \in Groups
      PROVE  /\ <<h, old>> \in pairs => <<h, new>> \in Renamed(pairs, old, new)
             /\ g # old /\ <<h, g>> \in pairs => <<h, g>> \in Renamed(pairs, old, new)
    BY <1>4
<1>6. ASSUME NEW h \in Contacts, NEW g \in Groups,
             \/ g = new /\ (<<h, old>> \in pairs \/ <<h, new>> \in pairs)
             \/ g # new /\ g # old /\ <<h, g>> \in pairs
      PROVE  <<h, g>> \in Renamed(pairs, old, new)
    BY <1>5, <1>6
<1> QED BY <1>2, <1>3, <1>6

\* Everyone in the old group is in the new one, which was nobody's.
LEMMA RenameGroupOK ==
    ASSUME IInv, NEW old \in Groups, NEW new \in Groups, RenameGroup(old, new)
    PROVE  IInv' /\ SameAnswers(list, list') /\ OnList(list') = OnList(list)
<1> DEFINE R(pairs) == Renamed(pairs, old, new)
           groups   == (list.groups \ {old}) \union {new}
           buddies  == R(list.buddies)
           members  == R(list.members)
           ghosts   == R(list.ghosts)
<1>1. /\ list \in ListState /\ RequestsOK(list) /\ BuddiesOK(list) /\ ViewOK(list)
      /\ list.status = "CONNECTED"
      /\ old \in list.groups /\ new \notin list.groups /\ old # new
      /\ list' = [list EXCEPT !.groups = groups, !.buddies = buddies, !.members = members,
                              !.ghosts = ghosts]
    BY DEF IInv, StateOK, RenameGroup, Renamed, Shown
<1>2. /\ list.buddies \in SUBSET (Contacts \X Groups)
      /\ list.members \in SUBSET (Contacts \X Groups)
      /\ list.ghosts \in SUBSET (Contacts \X Groups)
    BY <1>1 DEF ListState
<1>3. /\ buddies \in SUBSET (Contacts \X Groups)
      /\ \A h \in Contacts, g \in Groups :
            <<h, g>> \in buddies <=>
               \/ g = new /\ (<<h, old>> \in list.buddies \/ <<h, new>> \in list.buddies)
               \/ g # new /\ g # old /\ <<h, g>> \in list.buddies
    BY <1>1, <1>2, RenamedMembers
<1>4. /\ members \in SUBSET (Contacts \X Groups)
      /\ \A h \in Contacts, g \in Groups :
            <<h, g>> \in members <=>
               \/ g = new /\ (<<h, old>> \in list.members \/ <<h, new>> \in list.members)
               \/ g # new /\ g # old /\ <<h, g>> \in list.members
    BY <1>1, <1>2, RenamedMembers
<1>5. /\ ghosts \in SUBSET (Contacts \X Groups)
      /\ \A h \in Contacts, g \in Groups :
            <<h, g>> \in ghosts <=>
               \/ g = new /\ (<<h, old>> \in list.ghosts \/ <<h, new>> \in list.ghosts)
               \/ g # new /\ g # old /\ <<h, g>> \in list.ghosts
    BY <1>1, <1>2, RenamedMembers
<1>6. \A h \in Contacts : <<h, new>> \notin list.buddies
    <2> SUFFICES ASSUME NEW h \in Contacts, <<h, new>> \in list.buddies PROVE FALSE
        OBVIOUS
    <2>1. <<h, new>>[2] \in list.groups
        BY <1>1 DEF BuddiesOK
    <2> QED BY <1>1, <2>1
<1>7. groups \in SUBSET Groups
    BY <1>1 DEF ListState
<1>8. groups = (list.groups \ {old}) \union {new}
    OBVIOUS
<1> HIDE DEF groups, buddies, members, ghosts, R
<1>9. /\ list' \in ListState /\ list'.groups = groups /\ list'.buddies = buddies
      /\ list'.ghosts = ghosts /\ list'.members = members
      /\ list'.status = list.status /\ list'.online = list.online
      /\ list'.open = list.open /\ list'.made = list.made /\ list'.pending = list.pending
      /\ list'.replaced = list.replaced /\ list'.aborted = list.aborted
      /\ list'.publishing_to = list.publishing_to
      /\ list'.not_publishing_to = list.not_publishing_to
      /\ list'.shown = list.shown /\ list'.dropped = list.dropped
    <2>1. list \in ListState
        BY <1>1
    <2>2. list' = [list EXCEPT !.groups = groups, !.buddies = buddies,
                               !.members = members, !.ghosts = ghosts]
        BY <1>1
    <2> QED BY <1>3, <1>4, <1>5, <1>7, <2>1, <2>2 DEF ListState
<1>10. RequestsOK(list')
    BY <1>1, <1>9 DEF RequestsOK
<1>11. BuddiesOK(list')
    <2>1. \A h \in Contacts, g \in Groups : <<h, g>> \in list.buddies => g \in list.groups
        <3> SUFFICES ASSUME NEW h \in Contacts, NEW g \in Groups, <<h, g>> \in list.buddies
                     PROVE  g \in list.groups
            OBVIOUS
        <3>1. <<h, g>>[2] \in list.groups
            BY <1>1 DEF BuddiesOK
        <3> QED BY <3>1
    <2>2. ASSUME NEW p \in buddies PROVE p[2] \in groups
        <3>1. p[1] \in Contacts /\ p[2] \in Groups /\ <<p[1], p[2]>> \in buddies
            BY <1>3
        <3> QED BY <1>3, <1>8, <2>1, <3>1
    <2>3. list.ghosts \subseteq list.buddies /\ list.members = list.buddies \ list.ghosts
        BY <1>1 DEF BuddiesOK
    <2>4. ASSUME NEW h \in Contacts, NEW g \in Groups
          PROVE  /\ <<h, g>> \in ghosts => <<h, g>> \in buddies
                 /\ <<h, g>> \in members <=> <<h, g>> \in buddies /\ <<h, g>> \notin ghosts
        BY <1>3, <1>4, <1>5, <1>6, <2>3
    <2>5. ghosts \subseteq buddies
        BY <1>5, <2>4
    <2>6. members = buddies \ ghosts
        <3>1. ASSUME NEW p \in Contacts \X Groups
              PROVE  p \in members <=> p \in buddies /\ p \notin ghosts
            <4>1. p[1] \in Contacts /\ p[2] \in Groups /\ p = <<p[1], p[2]>>
                OBVIOUS
            <4> QED BY <2>4, <4>1
        <3> QED BY <1>3, <1>4, <3>1
    <2> QED BY <1>1, <1>9, <2>2, <2>5, <2>6 DEF BuddiesOK
<1>12. ASSUME NEW h \in Contacts PROVE h \in OnList(list') <=> h \in OnList(list)
    <2>1. ASSUME NEW g \in Groups, <<h, g>> \in buddies
          PROVE  \E k \in Groups : <<h, k>> \in list.buddies
        BY <1>3, <2>1
    <2>2. ASSUME NEW g \in Groups, <<h, g>> \in list.buddies
          PROVE  \E k \in Groups : <<h, k>> \in buddies
        <3>1. CASE g = old
            BY <1>3, <2>2, <3>1
        <3>2. CASE g # old
            <4>1. g # new
                BY <1>6, <2>2
            <4> QED BY <1>3, <2>2, <3>2, <4>1
        <3> QED BY <3>1, <3>2
    <2> QED BY <1>9, <2>1, <2>2, OnListIff
<1>13. ViewOK(list')
    <2> SUFFICES ASSUME NEW h \in Contacts PROVE ToldTruth(list', h)
        BY DEF ViewOK
    <2>1. ToldTruth(list, h)
        BY <1>1 DEF ViewOK
    <2>2. SameAnswer(list, list', h)
        BY <1>9, <1>12 DEF SameAnswer
    <2>3. list'.shown[h] = list.shown[h] /\ (h \in list.dropped => h \in list'.dropped)
        BY <1>9
    <2> QED BY <2>1, <2>2, <2>3, StillTold
<1>14. OnList(list') = OnList(list)
    BY <1>12 DEF OnList
<1> QED BY <1>9, <1>10, <1>11, <1>13, <1>14 DEF IInv, StateOK, SameAnswers

-----------------------------------------------------------------------------
(* The theorems *)

\* Every step keeps all three parts of the invariant.
LEMMA Invariance == Spec => []IInv
<1>1. IInv /\ [Next]_vars => IInv'
    <2> SUFFICES ASSUME IInv, [Next]_vars PROVE IInv'
        OBVIOUS
    <2>1. CASE ListReceived
        BY <2>1, ListReceivedOK
    <2>2. CASE Disconnected
        BY <2>2, DisconnectedOK
    <2>3. CASE GoOffline
        BY <2>3, GoOfflineOK
    <2>4. CASE DeleteAccount
        BY <2>4, DeleteAccountOK
    <2>5. ASSUME NEW h \in Contacts, NEW g \in Groups, PurpleAddsBuddy(h, g) PROVE IInv'
        BY <2>5, PurpleAddsBuddyOK
    <2>6. ASSUME NEW h \in Contacts, NEW g \in Groups, PurpleRemovesBuddy(h, g) PROVE IInv'
        BY <2>6, PurpleRemovesBuddyOK
    <2>7. ASSUME NEW r \in Requests, RequestAuthorize(r) PROVE IInv'
        BY <2>7, RequestAuthorizeOK
    <2>8. ASSUME NEW hs \in SUBSET Contacts, RequestSubscription(hs) PROVE IInv'
        BY <2>8, RequestSubscriptionOK
    <2>9. ASSUME NEW hs \in SUBSET Contacts, AuthorizePublication(hs) PROVE IInv'
        BY <2>9, AuthorizePublicationOK
    <2>10. ASSUME NEW hs \in SUBSET Contacts, RemoveContacts(hs) PROVE IInv'
        BY <2>10, RemoveContactsOK
    <2>11. CASE GroupEdit
        <3>1. ASSUME NEW h \in Contacts, NEW names \in SUBSET Groups,
                     SetContactGroups(h, names)
              PROVE  IInv'
            BY <3>1, SetContactGroupsOK
        <3>2. ASSUME NEW g \in Groups, NEW hs \in SUBSET Contacts, AddToGroup(g, hs)
              PROVE  IInv'
            BY <3>2, AddToGroupOK
        <3>3. ASSUME NEW g \in Groups, NEW hs \in SUBSET Contacts, RemoveFromGroup(g, hs)
              PROVE  IInv'
            BY <3>3, RemoveFromGroupOK
        <3>4. ASSUME NEW g \in Groups, NEW hs \in SUBSET Contacts, SetGroupMembers(g, hs)
              PROVE  IInv'
            BY <3>4, SetGroupMembersOK
        <3>5. ASSUME NEW g \in Groups, RemoveGroup(g) PROVE IInv'
            BY <3>5, RemoveGroupOK
        <3>6. ASSUME NEW old \in Groups, NEW new \in Groups, RenameGroup(old, new) PROVE IInv'
            BY <3>6, RenameGroupOK
        <3> QED BY <2>11, <3>1, <3>2, <3>3, <3>4, <3>5, <3>6 DEF GroupEdit
    <2>12. CASE UNCHANGED vars
        <3>1. list' = list
            BY <2>12 DEF vars
        <3>2. StateOK(list')
            BY <3>1 DEF IInv
        <3> QED BY <3>2 DEF IInv
    <2> QED BY <2>1, <2>2, <2>3, <2>4, <2>5, <2>6, <2>7, <2>8, <2>9, <2>10, <2>11, <2>12
            DEF Next
<1> QED BY <1>1, InitOK, PTL DEF Spec

\* No field leaves its type.
THEOREM TypeCorrect == Spec => []TypeOK
<1>1. IInv => TypeOK
    BY DEF IInv, StateOK, TypeOK
<1> QED BY <1>1, Invariance, PTL

\* A request in the table is one libpurple waits for: its callbacks are called once.
THEOREM RequestsAreAnsweredOnce == Spec => []PendingIsOpen
<1>1. IInv => PendingIsOpen
    BY DEF IInv, StateOK, RequestsOK, PendingIsOpen
<1> QED BY <1>1, Invariance, PTL

\* A request that libpurple waits for can be answered, unless its contact asked again.
THEOREM RequestsAreAnswerable == Spec => []OpenRequestsAreAnswerable
<1>1. IInv => OpenRequestsAreAnswerable
    BY DEF IInv, StateOK, RequestsOK, OpenRequestsAreAnswerable
<1> QED BY <1>1, Invariance, PTL

\* The assertion holds if no contact asks twice, and the table is empty in the end.
THEOREM AssertionNeedsReplacement == Spec => []OnlyReplacedRequestsAbort
<1>1. IInv => OnlyReplacedRequestsAbort
    BY DEF IInv, StateOK, RequestsOK, OnlyReplacedRequestsAbort, Pending
<1> QED BY <1>1, Invariance, PTL

\* What clients were told of a contact is what they would be told if they asked.
THEOREM StatesAreTrue == Spec => []ListedStatesAreTrue
<1>1. IInv => ListedStatesAreTrue
    BY DEF IInv, StateOK, ViewOK, ToldTruth, ListedStatesAreTrue
<1> QED BY <1>1, Invariance, PTL

\* Clients were told of every contact they would be given if they asked, but for those
\* announced as removed with their last buddy.
THEOREM ContactsAreListed == Spec => []BuddiesAreListed
<1>1. IInv => BuddiesAreListed
    <2> SUFFICES ASSUME IInv, list.status = "CONNECTED",
                        NEW h \in OnList(list) \union (DupContacts(list) \ list.dropped)
                 PROVE  list.shown[h] # Absent
        BY DEF BuddiesAreListed
    <2>1. h \in Contacts
        BY DEF IInv, StateOK, ListState, DupContacts, OnList, Pending
    <2> QED BY <2>1 DEF IInv, StateOK, ViewOK, ToldTruth
<1> QED BY <1>1, Invariance, PTL

\* From the callbacks alone clients know who is in which group, but for the ghosts of
\* removed groups.
THEOREM GroupsAreTrue == Spec => []MembershipIsTrue
<1>1. IInv => MembershipIsTrue
    BY DEF IInv, StateOK, BuddiesOK, MembershipIsTrue
<1> QED BY <1>1, Invariance, PTL

\* A contact who is not alone in the group is in another.
LEMMA NotAnOrphan ==
    ASSUME NEW g \in Groups, NEW hs, NEW h \in hs, h \in Contacts, h \in OnList(list),
           h \notin Orphans(list, g, hs)
    PROVE  \E k \in Groups : k # g /\ <<h, k>> \in list.buddies
<1>1. GroupsOf(list, h) # {g} /\ GroupsOf(list, h) # {}
    BY DEF Orphans, OnList
<1> QED BY <1>1 DEF GroupsOf

\* Everyone on the list is in some group after any edit of the groups: the fallback
\* group, if there is no other.
LEMMA EditKeepsContacts ==
    ASSUME IInv, GroupEdit, NEW h \in Contacts, h \in OnList(list)
    PROVE  h \in OnList(list')
<1>1. PICK k \in Groups : <<h, k>> \in list.buddies
    BY OnListIff
<1>2. ASSUME NEW c \in Contacts, NEW names \in SUBSET Groups, SetContactGroups(c, names)
      PROVE  \E g \in Groups : <<h, g>> \in list'.buddies
    <2>1. list'.buddies = (list.buddies \union ({c} \X Wanted(names)))
                              \ ({c} \X (Groups \ Wanted(names)))
        BY <1>2, SetContactGroupsOK
    <2>2. CASE h = c
        <3>1. PICK g \in Wanted(names) : g \in Groups
            BY FallbackIsAGroup DEF Wanted
        <3>2. <<h, g>> \in list'.buddies
            BY <2>1, <2>2, <3>1
        <3> QED BY <3>1, <3>2
    <2>3. CASE h # c
        <3>1. <<h, k>> \in list'.buddies
            BY <1>1, <2>1, <2>3
        <3> QED BY <3>1
    <2> QED BY <2>2, <2>3
<1>3. ASSUME NEW g \in Groups, NEW hs \in SUBSET Contacts, AddToGroup(g, hs)
      PROVE  \E f \in Groups : <<h, f>> \in list'.buddies
    <2>1. list'.buddies = list.buddies \union (hs \X {g})
        BY <1>3, AddToGroupOK
    <2> QED BY <1>1, <2>1
<1>4. ASSUME NEW g \in Groups, NEW hs \in SUBSET Contacts, RemoveFromGroup(g, hs)
      PROVE  \E f \in Groups : <<h, f>> \in list'.buddies
    <2>1. /\ list'.buddies = (list.buddies \union (Orphans(list, g, hs) \X {Fallback}))
                                 \ (hs \X {g})
          /\ Orphans(list, g, hs) # {} => g # Fallback
        BY <1>4, RemoveFromGroupOK
    <2>2. CASE h \in Orphans(list, g, hs)
        <3>1. <<h, Fallback>> \in list'.buddies
            BY <2>1, <2>2
        <3> QED BY <3>1, FallbackIsAGroup
    <2>3. CASE h \in hs /\ h \notin Orphans(list, g, hs)
        <3>1. PICK f \in Groups : f # g /\ <<h, f>> \in list.buddies
            BY <2>3, NotAnOrphan
        <3> QED BY <2>1, <3>1
    <2>4. CASE h \notin hs
        BY <1>1, <2>1, <2>4
    <2> QED BY <2>2, <2>3, <2>4
<1>5. ASSUME NEW g \in Groups, NEW hs \in SUBSET Contacts, SetGroupMembers(g, hs)
      PROVE  \E f \in Groups : <<h, f>> \in list'.buddies
    <2> DEFINE outcasts == InGroup(list, g) \ hs
    <2>1. /\ list'.buddies = (list.buddies \union (Orphans(list, g, outcasts) \X {Fallback})
                                 \union (hs \X {g})) \ (outcasts \X {g})
          /\ Orphans(list, g, outcasts) # {} => g # Fallback
        BY <1>5, SetGroupMembersOK
    <2> HIDE DEF outcasts
    <2>2. CASE h \in Orphans(list, g, outcasts)
        <3>1. <<h, Fallback>> \in list'.buddies
            BY <2>1, <2>2
        <3> QED BY <3>1, FallbackIsAGroup
    <2>3. CASE h \in outcasts /\ h \notin Orphans(list, g, outcasts)
        <3>1. PICK f \in Groups : f # g /\ <<h, f>> \in list.buddies
            BY <2>3, NotAnOrphan
        <3> QED BY <2>1, <3>1
    <2>4. CASE h \notin outcasts
        BY <1>1, <2>1, <2>4
    <2> QED BY <2>2, <2>3, <2>4
<1>6. ASSUME NEW g \in Groups, RemoveGroup(g)
      PROVE  \E f \in Groups : <<h, f>> \in list'.buddies
    BY <1>1, <1>6, RemoveGroupOK
<1>7. ASSUME NEW old \in Groups, NEW new \in Groups, RenameGroup(old, new)
      PROVE  h \in OnList(list')
    BY <1>7, RenameGroupOK
<1> QED BY <1>2, <1>3, <1>4, <1>5, <1>6, <1>7, OnListIff DEF GroupEdit

\* Nobody drops off the list because groups were edited.
THEOREM NobodyIsLost == Spec => GroupEditsKeepContacts
<1>1. IInv /\ [Next]_vars => [GroupEdit => OnList(list) \subseteq OnList(list')]_vars
    <2> SUFFICES ASSUME IInv, GroupEdit, NEW h \in OnList(list) PROVE h \in OnList(list')
        OBVIOUS
    <2>1. h \in Contacts
        BY DEF OnList
    <2> QED BY <2>1, EditKeepsContacts
<1> QED BY <1>1, Invariance, PTL DEF Spec, GroupEditsKeepContacts

\* The groups are what the client asked for, after every edit that did not fail.
THEOREM EditsAreExact == Spec => EditsDoWhatTheySay
<1> DEFINE Exact ==
       /\ \A h \in Contacts, names \in SUBSET Groups :
             SetContactGroups(h, names) =>
                 GroupsOf(list', h) = IF names = {} THEN {Fallback} ELSE names
       /\ \A g \in Groups, hs \in SUBSET Contacts :
             /\ AddToGroup(g, hs) => hs \subseteq InGroup(list', g)
             /\ RemoveFromGroup(g, hs) => hs \intersect InGroup(list', g) = {}
             /\ SetGroupMembers(g, hs) => InGroup(list', g) = hs
<1>1. ASSUME IInv, NEW h \in Contacts, NEW names \in SUBSET Groups,
             SetContactGroups(h, names)
      PROVE  GroupsOf(list', h) = IF names = {} THEN {Fallback} ELSE names
    <2>1. list'.buddies = (list.buddies \union ({h} \X Wanted(names)))
                              \ ({h} \X (Groups \ Wanted(names)))
        BY <1>1, SetContactGroupsOK
    <2>2. Wanted(names) \subseteq Groups
        BY FallbackIsAGroup DEF Wanted
    <2>3. GroupsOf(list', h) = Wanted(names)
        BY <2>1, <2>2 DEF GroupsOf
    <2> QED BY <2>3 DEF Wanted
<1>2. ASSUME IInv, NEW g \in Groups, NEW hs \in SUBSET Contacts, AddToGroup(g, hs)
      PROVE  hs \subseteq InGroup(list', g)
    <2>1. list'.buddies = list.buddies \union (hs \X {g})
        BY <1>2, AddToGroupOK
    <2> QED BY <2>1 DEF InGroup
<1>3. ASSUME IInv, NEW g \in Groups, NEW hs \in SUBSET Contacts, RemoveFromGroup(g, hs)
      PROVE  hs \intersect InGroup(list', g) = {}
    <2>1. list'.buddies = (list.buddies \union (Orphans(list, g, hs) \X {Fallback}))
                              \ (hs \X {g})
        BY <1>3, RemoveFromGroupOK
    <2> QED BY <2>1 DEF InGroup
<1>4. ASSUME IInv, NEW g \in Groups, NEW hs \in SUBSET Contacts, SetGroupMembers(g, hs)
      PROVE  InGroup(list', g) = hs
    <2> DEFINE outcasts == InGroup(list, g) \ hs
    <2>1. /\ list'.buddies = (list.buddies \union (Orphans(list, g, outcasts) \X {Fallback})
                                 \union (hs \X {g})) \ (outcasts \X {g})
          /\ Orphans(list, g, outcasts) # {} => g # Fallback
        BY <1>4, SetGroupMembersOK
    <2>2. \A h \in Contacts : /\ h \in outcasts => h \notin hs
                              /\ h \notin outcasts => <<h, g>> \notin list.buddies \/ h \in hs
        BY DEF InGroup
    <2> HIDE DEF outcasts
    <2>3. ASSUME NEW h \in Contacts PROVE <<h, g>> \in list'.buddies <=> h \in hs
        <3>1. CASE h \in hs
            BY <2>1, <2>2, <3>1
        <3>2. CASE h \notin hs
            <4>1. <<h, g>> \notin Orphans(list, g, outcasts) \X {Fallback}
                BY <2>1
            <4>2. <<h, g>> \notin hs \X {g}
                BY <3>2
            <4> QED BY <2>1, <2>2, <3>2, <4>1, <4>2
        <3> QED BY <3>1, <3>2
    <2> QED BY <2>3 DEF InGroup
<1>5. IInv /\ [Next]_vars => [Exact]_vars
    BY <1>1, <1>2, <1>3, <1>4
<1> QED BY <1>5, Invariance, PTL DEF Spec, EditsDoWhatTheySay

\* Clients authorise or remove the contacts hs, and those of them who asked are answered.
Answers(hs) == AuthorizePublication(hs) \/ RemoveContacts(hs)

\* Any other event of a connection that stays online answers nobody; one contact may ask.
LEMMA OthersAnswerNobody ==
    ASSUME IInv, Next, \A hs \in SUBSET Contacts : ~Answers(hs)
    PROVE  \/ SameAnswers(list, list')
           \/ ~list'.online /\ list'.publishing_to = list.publishing_to
           \/ \E r \in Requests : /\ r \notin list.open /\ list'.open = list.open \union {r}
                                  /\ list'.publishing_to = list.publishing_to \ {From[r]}
<1>1. CASE ListReceived \/ Disconnected
    BY <1>1, ListReceivedOK, DisconnectedOK
<1>2. CASE GoOffline
    BY <1>2, GoOfflineOK
<1>3. CASE DeleteAccount
    BY <1>3, DeleteAccountOK
<1>4. ASSUME NEW h \in Contacts, NEW g \in Groups,
             PurpleAddsBuddy(h, g) \/ PurpleRemovesBuddy(h, g)
      PROVE  SameAnswers(list, list')
    BY <1>4, PurpleAddsBuddyOK, PurpleRemovesBuddyOK
<1>5. ASSUME NEW r \in Requests, RequestAuthorize(r)
      PROVE  /\ r \notin list.open /\ list'.open = list.open \union {r}
             /\ list'.publishing_to = list.publishing_to \ {From[r]}
    BY <1>5, RequestAuthorizeOK
<1>6. ASSUME NEW hs \in SUBSET Contacts,
             RequestSubscription(hs) \/ AuthorizePublication(hs) \/ RemoveContacts(hs)
      PROVE  SameAnswers(list, list')
    BY <1>6, RequestSubscriptionOK DEF Answers
<1>7. CASE GroupEdit
    <2>1. ASSUME NEW h \in Contacts, NEW names \in SUBSET Groups, SetContactGroups(h, names)
          PROVE  SameAnswers(list, list')
        BY <2>1, SetContactGroupsOK
    <2>2. ASSUME NEW g \in Groups, NEW hs \in SUBSET Contacts, AddToGroup(g, hs)
          PROVE  SameAnswers(list, list')
        BY <2>2, AddToGroupOK
    <2>3. ASSUME NEW g \in Groups, NEW hs \in SUBSET Contacts, RemoveFromGroup(g, hs)
          PROVE  SameAnswers(list, list')
        BY <2>3, RemoveFromGroupOK
    <2>4. ASSUME NEW g \in Groups, NEW hs \in SUBSET Contacts, SetGroupMembers(g, hs)
          PROVE  SameAnswers(list, list')
        BY <2>4, SetGroupMembersOK
    <2>5. ASSUME NEW g \in Groups, RemoveGroup(g) PROVE SameAnswers(list, list')
        BY <2>5, RemoveGroupOK
    <2>6. ASSUME NEW old \in Groups, NEW new \in Groups, RenameGroup(old, new)
          PROVE  SameAnswers(list, list')
        BY <2>6, RenameGroupOK
    <2> QED BY <1>7, <2>1, <2>2, <2>3, <2>4, <2>5, <2>6 DEF GroupEdit
<1> QED BY <1>1, <1>2, <1>3, <1>4, <1>5, <1>6, <1>7 DEF Next

\* What clients answer are the requests in the table, each its own contact's.
LEMMA AnswersAreClients ==
    ASSUME IInv, NEW hs \in SUBSET Contacts, Answers(hs)
    PROVE  /\ \A h \in list'.publishing_to \ list.publishing_to :
                 /\ list.pending[h] \in list.open \ list'.open
                 /\ h \in hs /\ AuthorizePublication(hs)
           /\ list.publishing_to \subseteq list'.publishing_to
           /\ \A r \in list.open \ list'.open : list.pending[From[r]] = r /\ From[r] \in hs
<1> DEFINE asked == hs \intersect Pending(list)
<1>1. /\ list'.open = list.open \ {list.pending[h] : h \in asked}
      /\ \/ list'.publishing_to = list.publishing_to
         \/ /\ AuthorizePublication(hs)
            /\ list'.publishing_to = list.publishing_to \union asked
    BY AuthorizePublicationOK, RemoveContactsOK DEF Answers
<1>2. \A h \in asked : /\ h \in hs /\ list.pending[h] \in list.open
                       /\ From[list.pending[h]] = h
    BY DEF IInv, StateOK, RequestsOK, Pending
<1>3. \A r \in list.open \ list'.open : \E h \in asked : r = list.pending[h]
    BY <1>1
<1>4. \A h \in asked : list.pending[h] \in list.open \ list'.open
    BY <1>1, <1>2
<1> HIDE DEF asked
<1> QED BY <1>1, <1>2, <1>3, <1>4

\* Our presence is given by clients alone, to contacts who wait for it, and withdrawn
\* only because they ask again; nobody but a client answers a request.
THEOREM PresenceIsGivenByClients == Spec => PresenceIsTheUsersToGive
<1> DEFINE Given ==
       /\ \A h \in list'.publishing_to \ list.publishing_to :
             /\ list.pending[h] \in list.open \ list'.open
             /\ \E hs \in SUBSET Contacts : h \in hs /\ AuthorizePublication(hs)
       /\ \A h \in list.publishing_to \ list'.publishing_to :
             \E r \in list'.open \ list.open : From[r] = h
       /\ \A r \in list.open \ list'.open :
             \/ ~list'.online
             \/ /\ list.pending[From[r]] = r
                /\ \E hs \in SUBSET Contacts :
                      From[r] \in hs /\ (AuthorizePublication(hs) \/ RemoveContacts(hs))
<1>1. ASSUME IInv, NEW hs \in SUBSET Contacts, Answers(hs) PROVE Given
    BY <1>1, AnswersAreClients DEF Answers
<1>2. ASSUME IInv, Next, \A hs \in SUBSET Contacts : ~Answers(hs) PROVE Given
    BY <1>2, OthersAnswerNobody DEF SameAnswers
<1>3. IInv /\ [Next]_vars => [Given]_vars
    BY <1>1, <1>2
<1> QED BY <1>3, Invariance, PTL DEF Spec, PresenceIsTheUsersToGive
=============================================================================
