--------------------------- MODULE HazeContactInfo ---------------------------
(***************************************************************************)
(* What clients are told of contacts (src/src/connection-presence.c,       *)
(* connection-aliasing.c, connection-avatars.c): their status, alias and   *)
(* avatar, and our own.                                                    *)
(*                                                                         *)
(* The connection keeps none of it.  Everything is read from libpurple     *)
(* when a client asks, and a change that libpurple signals is passed on.   *)
(* A client that asked once and then follows the signals has a view of     *)
(* each contact; the question is whether it is what asking again would     *)
(* give.                                                                   *)
(*                                                                         *)
(* A contact has a buddy in every group of the buddy list that holds it,   *)
(* each with a status and aliases of its own; the first of them is the one *)
(* that is read (purple_find_buddy).  Groups are places in the buddy list. *)
(* The buddies of a contact share an icon, and the token of an avatar is   *)
(* the icon: its hash tells icons apart.  Status messages are left out.    *)
(*                                                                         *)
(* Where the code reads through a pointer that is NULL the process         *)
(* crashes.                                                                *)
(***************************************************************************)
EXTENDS Naturals, FiniteSets, FiniteSetsExt

CONSTANTS
    Contacts,    \* contact handles
    MaxPlaces,   \* groups that can hold a contact
    Aliases,
    Icons,
    Statuses,    \* the statuses the protocol has, by their primitive
    None

\* status_indices: the presence clients see for each primitive.  There is no entry
\* for the last ones of libpurple, and available is guessed.
TpStatus ==
    [ offline |-> "offline", available |-> "available", unavailable |-> "busy",
      invisible |-> "hidden", away |-> "away", extended_away |-> "xa",
      mobile |-> "available" ]

ASSUME StatusesType == {"available", "offline"} \subseteq Statuses /\ Statuses \subseteq DOMAIN TpStatus
ASSUME MaxPlacesType == MaxPlaces \in Nat \ {0}
ASSUME ContactsFinite == IsFiniteSet(Contacts)

VARIABLE info   \* what libpurple knows, and what clients do, see InfoState

Places == 1 .. MaxPlaces
Self   == "self"
Who    == Contacts \union {Self}
Attrs  == {"status", "alias", "token"}

\* An account that is on its own buddy list is left out.
ASSUME SelfIsNoContact == Self \notin Contacts

\* PurpleBuddy
Buddy ==
    [ status : Statuses, alias : Aliases \union {None}, server_alias : Aliases \union {None} ]

ASSUME NoneIsNothing == None \notin Buddy /\ None \notin Aliases

\* What a client believes; an alias may be the contact's name
View ==
    [ status : {TpStatus[s] : s \in Statuses} \union {"unknown"},
      alias  : Aliases \union Who,
      token  : Icons \union {None} ]

InfoState ==
    [ phase   : {"new", "connecting", "connected", "offline", "aborted", "crashed"},
      \* name: purple_connection_get_display_name, None without a PurpleConnection
      own     : [ status : Statuses, name : Aliases \union {None}, icon : Icons \union {None} ],
      setting : SUBSET Aliases,        \* purple_account_set_public_alias not yet answered
      buddies : [Contacts -> [Places -> Buddy \union {None}]],
      icon    : [Contacts -> Icons \union {None}],
      view    : [Who -> View \union {None}],   \* None: the client has not asked
      \* history: changed since the client was told, by something libpurple does not
      \* signal
      unsure  : SUBSET (Who \X Attrs) ]

\* There is a PurpleConnection.
Online(i) == i.phase \in {"connecting", "connected"}

BuddiesOf(i, h) == {p \in Places : i.buddies[h][p] # None}

-----------------------------------------------------------------------------
(* Reading *)

\* purple_buddy_get_alias, external
AliasOfBuddy(b, h) ==
    IF b.alias # None THEN b.alias ELSE IF b.server_alias # None THEN b.server_alias ELSE h

\* _get_tp_status
GetTpStatus(status) == IF status = None THEN "unknown" ELSE TpStatus[status]

\* _get_contact_statuses
GetStatus(i, w) ==
    IF w = Self THEN GetTpStatus(i.own.status)
    ELSE IF BuddiesOf(i, w) = {} THEN GetTpStatus(None)
    ELSE GetTpStatus(i.buddies[w][Min(BuddiesOf(i, w))].status)

\* Mutant: the account has no name to fall back to.
GetAliasUnnamed(i, w) ==
    IF w = Self THEN i.own.name
    ELSE IF BuddiesOf(i, w) = {} THEN w
    ELSE AliasOfBuddy(i.buddies[w][Min(BuddiesOf(i, w))], w)

\* get_alias
GetAlias(i, w) ==
    IF w = Self THEN IF i.own.name = None THEN Self ELSE i.own.name
    ELSE IF BuddiesOf(i, w) = {} THEN w
    ELSE AliasOfBuddy(i.buddies[w][Min(BuddiesOf(i, w))], w)

\* get_avatar, get_handle_token
GetToken(i, w) ==
    IF w = Self THEN i.own.icon ELSE IF BuddiesOf(i, w) = {} THEN None ELSE i.icon[w]

Get(i, w) == [status |-> GetStatus(i, w), alias |-> GetAlias(i, w), token |-> GetToken(i, w)]

\* A signal: clients that follow the contact believe it.
Tell(i, w, attr, value) ==
    IF i.view[w] = None THEN i
    ELSE [i EXCEPT !.view[w][attr] = value, !.unsure = @ \ {<<w, attr>>}]

\* A change libpurple does not signal
Silently(i, w, attrs) == [i EXCEPT !.unsure = @ \union ({w} \X attrs)]

-----------------------------------------------------------------------------
(* Clients *)

Connected == info.phase = "connected"
Here      == info.phase \in {"new", "connecting", "connected", "offline"}

\* GetContactAttributes: the fill_contact_attributes of all three
Fetch(w) ==
    /\ Connected
    /\ info' = [info EXCEPT !.view[w] = Get(info, w), !.unsure = @ \ ({w} \X Attrs)]

\* haze_connection_get_aliases, request_aliases
AskAlias(w) ==
    /\ Here /\ info.view[w] # None
    /\ info' = Tell(info, w, "alias", GetAlias(info, w))

\* haze_connection_get_known_avatar_tokens: we ourselves are left out while we have
\* no avatar.
AskToken(w) ==
    /\ Here /\ info.view[w] # None
    /\ ~(w = Self /\ GetToken(info, w) = None)
    /\ info' = Tell(info, w, "token", GetToken(info, w))

\* haze_connection_request_avatars: AvatarRetrieved says the token as well.
RequestAvatar(w) ==
    /\ Connected /\ GetToken(info, w) # None
    /\ info' = Tell(info, w, "token", GetToken(info, w))

\* purple_account_set_status_list, and the handler of status_changed,
\* haze_connection_presence_account_status_changed
OwnStatus(i, status) == Tell([i EXCEPT !.own.status = status], Self, "status", GetTpStatus(status))

\* _get_purple_status_id, of the statuses a client may set
PurpleStatus ==
    [ available |-> "available", busy |-> "unavailable", away |-> "away",
      xa |-> "extended_away", hidden |-> "invisible" ]

\* _status_available
StatusAvailable(status) == PurpleStatus[status] \in Statuses

\* _set_own_status, called for statuses that are available, or for none
SetOwnStatus(status) ==
    /\ Connected
    /\ \/ /\ status = None /\ info' = OwnStatus(info, "available")
       \/ /\ status \in DOMAIN PurpleStatus /\ StatusAvailable(status)
          /\ info' = OwnStatus(info, PurpleStatus[status])

\* blist_node_aliased_cb: the alias of the buddy at p, which need not be the first
TellAlias(i, h, p) == Tell(i, h, "alias", AliasOfBuddy(i.buddies[h][p], h))

\* purple_blist_alias_buddy, external: signalled if it is another alias
AliasBuddy(i, h, p, alias) ==
    IF i.buddies[h][p].alias = alias THEN i
    ELSE TellAlias([i EXCEPT !.buddies[h][p].alias = alias], h, p)

\* set_aliases_foreach: only the first buddy of a contact gets the alias, and a
\* contact without one is refused.
SetAlias(i, w, alias) ==
    IF w = Self THEN [i EXCEPT !.setting = @ \union {alias}]
    ELSE IF BuddiesOf(i, w) = {} THEN i
    ELSE AliasBuddy(i, w, Min(BuddiesOf(i, w)), alias)

\* haze_connection_set_aliases does not ask whether there is a connection, and
\* can_alias asserts that there is one, connected or not yet.
SetAliases(aliases) ==
    /\ Here
    /\ info' = IF Online(info)
               THEN FoldSet(LAMBDA w, i : SetAlias(i, w, aliases[w]), info, DOMAIN aliases)
               ELSE [info EXCEPT !.phase = "aborted"]

\* set_alias_success_cb, set_alias_failure_cb: the protocol has set the display name
\* by then.
AliasAnswered(alias, success) ==
    /\ Online(info) /\ alias \in info.setting
    /\ LET answered == [info EXCEPT !.setting = @ \ {alias}]
       IN  info' = IF success
                   THEN Tell([answered EXCEPT !.own.name = alias], Self, "alias", alias)
                   ELSE answered

\* haze_connection_clear_avatar
ClearAvatar ==
    /\ Here
    /\ info' = Tell([info EXCEPT !.own.icon = None], Self, "token", None)

\* haze_connection_set_avatar, for an icon that is small enough or not, and of a type
\* that the protocol lists, that it does not list, or that is left open.  The
\* protocol's limits are read from the connection, and a protocol without icons has
\* no list.
SetAvatar(icon, fits, type, listed) ==
    /\ Here
    /\ \/ /\ ~Online(info)
          /\ info' = [info EXCEPT !.phase = "crashed"]
       \/ /\ Online(info) /\ fits /\ type = "other" /\ ~listed
          /\ info' = [info EXCEPT !.phase = "crashed"]
       \/ /\ Online(info) /\ fits /\ (type = "open" \/ (type = "listed" /\ listed))
          /\ info' = Tell([info EXCEPT !.own.icon = icon], Self, "token", icon)

-----------------------------------------------------------------------------
(* libpurple *)

\* purple_account_connect makes the PurpleConnection.
Start   == info.phase = "new" /\ info' = [info EXCEPT !.phase = "connecting"]
Connect == info.phase = "connecting" /\ info' = [info EXCEPT !.phase = "connected"]

\* The PurpleConnection is destroyed, and with it the display name; no signal says so.
Disconnect ==
    /\ Online(info)
    /\ info' = Silently([info EXCEPT !.phase = "offline", !.setting = {}, !.own.name = None],
                        Self, {"alias"})

\* The contact is added to a group: purple_buddy_new in contact-list.c, or the
\* protocol.  Nothing says that another buddy may be the first now.
BuddyAdded(h, p, server_alias) ==
    /\ Connected /\ info.buddies[h][p] = None
    /\ info' = Silently([info EXCEPT !.buddies[h][p] =
                            [status |-> "offline", alias |-> None, server_alias |-> server_alias]],
                        h, Attrs)

BuddyRemoved(h, p) ==
    /\ Connected /\ info.buddies[h][p] # None
    /\ info' = Silently([info EXCEPT !.buddies[h][p] = None], h, Attrs)

\* The account's status is changed by libpurple, say because it is idle.
OwnStatusChanges(status) == Connected /\ info' = OwnStatus(info, status)

\* The protocol learns our display name, and no signal says so.
DisplayNameChanges(name) ==
    /\ Online(info)
    /\ info' = Silently([info EXCEPT !.own.name = name], Self, {"alias"})

\* Mutant: status_changed_cb passes on the status the contact had.
StatusChangesLate(h, status) ==
    /\ Connected /\ BuddiesOf(info, h) # {}
    /\ info' = [Tell(info, h, "status", GetStatus(info, h)) EXCEPT
                   !.buddies[h] = [p \in Places |->
                        IF p \in BuddiesOf(info, h) THEN [info.buddies[h][p] EXCEPT !.status = status]
                        ELSE None]]

\* status_changed_cb, signed_on_off_cb and update_status: every buddy of the contact
\* gets the status and signals it.
StatusChanges(h, status) ==
    /\ Connected /\ BuddiesOf(info, h) # {}
    /\ info' = Tell([info EXCEPT !.buddies[h] = [p \in Places |->
                        IF p \in BuddiesOf(info, h) THEN [info.buddies[h][p] EXCEPT !.status = status]
                        ELSE None]],
                    h, "status", GetTpStatus(status))

\* The protocol learns an alias for every buddy of the contact; of those it changes,
\* p is the last to signal.
ServerAliasChanges(h, alias, p) ==
    LET changed == {q \in BuddiesOf(info, h) : info.buddies[h][q].server_alias # alias}
    IN  /\ Connected /\ p \in changed
        /\ info' = TellAlias([info EXCEPT !.buddies[h] = [q \in Places |->
                                 IF q \in changed THEN [@[q] EXCEPT !.server_alias = alias]
                                 ELSE @[q]]], h, p)

\* buddy_icon_changed_cb, for the last of the buddies
IconChanges(h, icon) ==
    /\ Connected /\ BuddiesOf(info, h) # {}
    /\ LET changed == [info EXCEPT !.icon[h] = icon]
       IN  info' = Tell(changed, h, "token", GetToken(changed, h))

-----------------------------------------------------------------------------
InfoInit ==
    info = [ phase |-> "new", own |-> [status |-> "available", name |-> None, icon |-> None],
             setting |-> {},
             buddies |-> [h \in Contacts |-> [p \in Places |-> None]],
             icon |-> [h \in Contacts |-> None],
             view |-> [w \in Who |-> None], unsure |-> {} ]

InfoNext ==
    \/ Start \/ Connect \/ Disconnect \/ ClearAvatar
    \/ \E w \in Who : Fetch(w) \/ AskAlias(w) \/ AskToken(w) \/ RequestAvatar(w)
    \/ \E status \in DOMAIN PurpleStatus \union {None} : SetOwnStatus(status)
    \/ \E W \in SUBSET Who : \E aliases \in [W -> Aliases] : SetAliases(aliases)
    \/ \E alias \in Aliases, success \in BOOLEAN : AliasAnswered(alias, success)
    \/ \E icon \in Icons, fits, listed \in BOOLEAN, type \in {"listed", "other", "open"} :
          SetAvatar(icon, fits, type, listed)
    \/ \E status \in Statuses : OwnStatusChanges(status)
    \/ \E name \in Aliases \union {None} : DisplayNameChanges(name)
    \/ \E h \in Contacts :
          \/ \E p \in Places : BuddyRemoved(h, p)
          \/ \E p \in Places, alias \in Aliases \union {None} :
                BuddyAdded(h, p, alias) \/ ServerAliasChanges(h, alias, p)
          \/ \E status \in Statuses : StatusChanges(h, status)
          \/ \E icon \in Icons \union {None} : IconChanges(h, icon)

InfoSpec == InfoInit /\ [][InfoNext]_info

-----------------------------------------------------------------------------
(* Properties *)

InfoTypeOK == info \in InfoState

\* The buddies of the contact do not agree on it.
Disputed(i, w, attr) ==
    /\ w \in Contacts
    /\ \E p, q \in BuddiesOf(i, w) :
          \/ attr = "status" /\ i.buddies[w][p].status # i.buddies[w][q].status
          \/ attr = "alias" /\ AliasOfBuddy(i.buddies[w][p], w) # AliasOfBuddy(i.buddies[w][q], w)

\* A client that asked believes what it would be told if it asked again, unless it
\* cannot know better.
Follows(i, w, attr) ==
    \/ i.view[w] = None \/ <<w, attr>> \in i.unsure \/ Disputed(i, w, attr)
    \/ i.view[w][attr] = Get(i, w)[attr]

\* A client that follows the signals believes what it would be told if it asked
\* again; apart from contacts whose buddies came or went or do not agree, and from a
\* display name that the protocol changed of its own accord or that went with the
\* PurpleConnection.
ClientsFollow == \A w \in Who, attr \in Attrs : Follows(info, w, attr)
=============================================================================
