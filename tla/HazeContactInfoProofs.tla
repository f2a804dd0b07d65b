------------------------- MODULE HazeContactInfoProofs -------------------------
(***************************************************************************)
(* What HazeContactInfo promises, for any contacts, groups and statuses of *)
(* the protocol: a client that follows the signals believes what it would  *)
(* be told if it asked again.  And what HazeMail does, for any number of   *)
(* mails: what clients are told of mails is what was reported.             *)
(*                                                                         *)
(* Every event changes what is read and then tells, or does so silently.   *)
(* So the proof of each is in two halves: what the change leaves as it     *)
(* was, for Carry, and that the signal says what would be read.            *)
(* haze_connection_set_aliases and the report of mails are loops; the      *)
(* lemmas on folds are for them.  At the end the three modules are put     *)
(* together, with what HazeCapabilitiesProofs says of capabilities.        *)
(***************************************************************************)
EXTENDS HazeContactData, HazeCapabilitiesProofs, FoldLemmas

\* The invariant of one state; it is inductive.
Good(i) == i \in InfoState /\ \A w \in Who, attr \in Attrs : Follows(i, w, attr)

-----------------------------------------------------------------------------
(* Reading *)

\* The first of some buddies is one of them.
LEMMA FirstBuddy ==
    ASSUME NEW i, NEW w, BuddiesOf(i, w) # {}
    PROVE  Min(BuddiesOf(i, w)) \in BuddiesOf(i, w) /\ Min(BuddiesOf(i, w)) \in Places
<1>1. BuddiesOf(i, w) \in SUBSET Nat /\ BuddiesOf(i, w) \subseteq Places
  BY MaxPlacesType DEF BuddiesOf, Places
<1>2. Min(BuddiesOf(i, w)) \in BuddiesOf(i, w)
  BY <1>1, LeastNumber DEF Min
<1>. QED BY <1>1, <1>2

\* The alias of a buddy is one, or the name of the contact.
LEMMA AliasType ==
    ASSUME NEW b \in Buddy, NEW h \in Who
    PROVE  AliasOfBuddy(b, h) \in Aliases \union Who
BY DEF AliasOfBuddy, Buddy

\* A buddy of the contact is one.
LEMMA BuddyType ==
    ASSUME NEW i \in InfoState, NEW h \in Contacts, NEW p \in BuddiesOf(i, h)
    PROVE  p \in Places /\ i.buddies[h][p] \in Buddy
BY DEF BuddiesOf, InfoState

\* The statuses clients are told.
LEMMA TpStatusType ==
    ASSUME NEW status \in Statuses \union {None}
    PROVE  GetTpStatus(status) \in {TpStatus[s] : s \in Statuses} \union {"unknown"}
BY DEF GetTpStatus

\* What is read of a contact, or of us, is something a client expects.
LEMMA GetType ==
    ASSUME NEW i \in InfoState, NEW w \in Who
    PROVE  Get(i, w) \in View
<1>1. CASE w = Self
  <2>1. /\ i.own.status \in Statuses /\ i.own.name \in Aliases \union {None}
        /\ i.own.icon \in Icons \union {None}
    BY DEF InfoState
  <2>2. GetStatus(i, w) \in {TpStatus[s] : s \in Statuses} \union {"unknown"}
    BY <1>1, <2>1, TpStatusType DEF GetStatus
  <2>3. GetAlias(i, w) \in Aliases \union Who
    BY <1>1, <2>1 DEF GetAlias, Who
  <2>4. GetToken(i, w) \in Icons \union {None}
    BY <1>1, <2>1 DEF GetToken
  <2>. QED BY <2>2, <2>3, <2>4 DEF Get, View
<1>2. CASE w # Self /\ BuddiesOf(i, w) = {}
  <2>1. GetStatus(i, w) \in {TpStatus[s] : s \in Statuses} \union {"unknown"}
    BY <1>2, TpStatusType DEF GetStatus
  <2>2. GetAlias(i, w) \in Aliases \union Who
    BY <1>2 DEF GetAlias
  <2>3. GetToken(i, w) \in Icons \union {None}
    BY <1>2 DEF GetToken
  <2>. QED BY <2>1, <2>2, <2>3 DEF Get, View
<1>3. CASE w # Self /\ BuddiesOf(i, w) # {}
  <2> DEFINE b == i.buddies[w][Min(BuddiesOf(i, w))]
  <2>1. b \in Buddy /\ w \in Contacts
    BY <1>3, FirstBuddy, BuddyType DEF Who
  <2>2. /\ GetStatus(i, w) = GetTpStatus(b.status) /\ GetAlias(i, w) = AliasOfBuddy(b, w)
        /\ GetToken(i, w) = i.icon[w]
    BY <1>3 DEF GetStatus, GetAlias, GetToken
  <2> HIDE DEF b
  <2>3. b.status \in Statuses /\ i.icon[w] \in Icons \union {None}
    BY <2>1 DEF Buddy, InfoState
  <2>4. GetTpStatus(b.status) \in {TpStatus[s] : s \in Statuses} \union {"unknown"}
    BY <2>3, TpStatusType
  <2>5. AliasOfBuddy(b, w) \in Aliases \union Who
    BY <2>1, AliasType
  <2>. QED BY <2>2, <2>3, <2>4, <2>5 DEF Get, View
<1>. QED BY <1>1, <1>2, <1>3

\* The parts of what is read.
LEMMA GetParts ==
    ASSUME NEW i, NEW w
    PROVE  /\ Get(i, w)["status"] = GetStatus(i, w)
           /\ Get(i, w)["alias"] = GetAlias(i, w)
           /\ Get(i, w)["token"] = GetToken(i, w)
BY DEF Get

\* Nothing of a contact has changed.
LEMMA SameContact ==
    ASSUME NEW i, NEW r, NEW h \in Contacts, r.buddies[h] = i.buddies[h], r.icon[h] = i.icon[h]
    PROVE  /\ Get(r, h) = Get(i, h)
           /\ \A attr : Disputed(r, h, attr) <=> Disputed(i, h, attr)
<1>1. BuddiesOf(r, h) = BuddiesOf(i, h) /\ h # Self
  BY SelfIsNoContact DEF BuddiesOf
<1>2. Get(r, h) = Get(i, h)
  BY <1>1 DEF Get, GetStatus, GetAlias, GetToken
<1>. QED BY <1>1, <1>2 DEF Disputed

\* We are on nobody's list.
LEMMA SelfUndisputed ==
    ASSUME NEW i, NEW attr
    PROVE  ~Disputed(i, Self, attr)
BY SelfIsNoContact DEF Disputed

\* What a client believes stays true when neither it nor what is read changes.
LEMMA Carry ==
    ASSUME NEW i, NEW r, NEW w, NEW attr, Follows(i, w, attr),
           r.view[w] = i.view[w],
           <<w, attr>> \in i.unsure => <<w, attr>> \in r.unsure,
           Disputed(i, w, attr) => Disputed(r, w, attr),
           Get(r, w)[attr] = Get(i, w)[attr]
    PROVE  Follows(r, w, attr)
BY DEF Follows

-----------------------------------------------------------------------------
(* Telling *)

\* The values an attribute can have.
Values(attr) ==
    CASE attr = "status" -> {TpStatus[s] : s \in Statuses} \union {"unknown"}
      [] attr = "alias"  -> Aliases \union Who
      [] attr = "token"  -> Icons \union {None}

\* A signal that says what would be read, or that is about a contact whose buddies do
\* not agree, restores what the change before it has broken.
LEMMA TellGood ==
    ASSUME NEW i \in InfoState, NEW w \in Who, NEW attr \in Attrs, NEW value \in Values(attr),
           value = Get(i, w)[attr] \/ Disputed(i, w, attr),
           \A v \in Who, a \in Attrs : <<v, a>> # <<w, attr>> => Follows(i, v, a)
    PROVE  Good(Tell(i, w, attr, value))
<1>1. CASE i.view[w] = None
  <2>1. Tell(i, w, attr, value) = i
    BY <1>1 DEF Tell
  <2>2. \A a \in Attrs : Follows(i, w, a)
    BY <1>1 DEF Follows
  <2>. QED BY <2>1, <2>2 DEF Good
<1>2. CASE i.view[w] # None
  <2> DEFINE t == Tell(i, w, attr, value)
             seen == [i.view[w] EXCEPT ![attr] = value]
             views == [i.view EXCEPT ![w] = seen]
             left == i.unsure \ {<<w, attr>>}
  <2>1. i.view[w] \in View /\ i.view \in [Who -> View \union {None}] /\ i.unsure \subseteq Who \X Attrs
    BY <1>2 DEF InfoState
  <2>2. /\ seen \in View /\ seen[attr] = value
        /\ \A a \in Attrs : a # attr => seen[a] = i.view[w][a]
    <3>1. CASE attr = "status"
      BY <2>1, <3>1 DEF View, Values, Attrs
    <3>2. CASE attr = "alias"
      BY <2>1, <3>2 DEF View, Values, Attrs
    <3>3. CASE attr = "token"
      BY <2>1, <3>3 DEF View, Values, Attrs
    <3>. QED BY <3>1, <3>2, <3>3 DEF Attrs
  <2>3. t = [i EXCEPT !.view = views, !.unsure = left]
    BY <1>2, <2>1 DEF Tell, InfoState
  <2> HIDE DEF seen
  <2>4. /\ views \in [Who -> View \union {None}] /\ views[w] = seen
        /\ \A v \in Who : v # w => views[v] = i.view[v]
    BY <2>1, <2>2
  <2>5. left \subseteq Who \X Attrs /\ \A p : p # <<w, attr>> => (p \in left <=> p \in i.unsure)
    BY <2>1
  <2> HIDE DEF views, left
  <2>6. /\ t \in InfoState /\ t.view = views /\ t.unsure = left
        /\ t.own = i.own /\ t.buddies = i.buddies /\ t.icon = i.icon
    BY <2>3, <2>4, <2>5, ZenonT(60) DEF InfoState
  <2> HIDE DEF t
  <2>7. \A v \in Who : Get(t, v) = Get(i, v) /\ \A a : Disputed(t, v, a) <=> Disputed(i, v, a)
    BY <2>6 DEF Get, GetStatus, GetAlias, GetToken, Disputed, BuddiesOf
  <2>8. ASSUME NEW v \in Who, NEW a \in Attrs PROVE Follows(t, v, a)
    <3>1. CASE v = w /\ a = attr
      BY <2>2, <2>4, <2>6, <2>7, <3>1 DEF Follows
    <3>2. CASE v = w /\ a # attr
      <4>1. <<v, a>> # <<w, attr>> /\ t.view[v][a] = i.view[v][a]
        BY <2>2, <2>4, <2>6, <3>2
      <4>2. Follows(i, v, a) /\ (<<v, a>> \in i.unsure => <<v, a>> \in t.unsure)
        BY <2>5, <2>6, <4>1
      <4>. QED BY <1>2, <2>7, <3>2, <4>1, <4>2 DEF Follows
    <3>3. CASE v # w
      <4>1. <<v, a>> # <<w, attr>> /\ t.view[v] = i.view[v]
        BY <2>4, <2>6, <3>3
      <4>2. Follows(i, v, a) /\ (<<v, a>> \in i.unsure => <<v, a>> \in t.unsure)
        BY <2>5, <2>6, <4>1
      <4>. QED BY <2>7, <4>1, <4>2, Carry
    <3>. QED BY <3>1, <3>2, <3>3
  <2>. QED BY <2>6, <2>8 DEF Good, t
<1>. QED BY <1>1, <1>2

\* After a change nobody is told of, the client cannot know better.
LEMMA SilentlyGood ==
    ASSUME NEW i \in InfoState, NEW w \in Who, NEW attrs \in SUBSET Attrs,
           \A v \in Who, a \in Attrs : v # w \/ a \notin attrs => Follows(i, v, a)
    PROVE  Good(Silently(i, w, attrs))
<1> DEFINE t == Silently(i, w, attrs)
           more == i.unsure \union ({w} \X attrs)
<1>1. t = [i EXCEPT !.unsure = more]
  BY DEF Silently, InfoState
<1>2. more \subseteq Who \X Attrs /\ i.unsure \subseteq more
  BY DEF InfoState
<1>3. \A a \in attrs : <<w, a>> \in more
  OBVIOUS
<1> HIDE DEF more
<1>4. /\ t \in InfoState /\ t.unsure = more /\ t.view = i.view
      /\ t.own = i.own /\ t.buddies = i.buddies /\ t.icon = i.icon
  BY <1>1, <1>2 DEF InfoState
<1> HIDE DEF t
<1>5. \A v \in Who : Get(t, v) = Get(i, v) /\ \A a : Disputed(t, v, a) <=> Disputed(i, v, a)
  BY <1>4 DEF Get, GetStatus, GetAlias, GetToken, Disputed, BuddiesOf
<1>6. ASSUME NEW v \in Who, NEW a \in Attrs PROVE Follows(t, v, a)
  <2>1. CASE v = w /\ a \in attrs
    BY <1>3, <1>4, <2>1 DEF Follows
  <2>2. CASE ~(v = w /\ a \in attrs)
    <3>1. Follows(i, v, a)
      BY <2>2
    <3>. QED BY <1>2, <1>4, <1>5, <3>1, Carry
  <2>. QED BY <2>1, <2>2
<1>. QED BY <1>4, <1>6 DEF Good, t

\* What a client is told of what is read is true.
LEMMA TellTruth ==
    ASSUME NEW i, Good(i), NEW w \in Who, NEW attr \in Attrs
    PROVE  Good(Tell(i, w, attr, Get(i, w)[attr]))
<1>1. i \in InfoState /\ Get(i, w) \in View
  BY GetType DEF Good
<1>2. Get(i, w)[attr] \in Values(attr)
  <2>1. CASE attr = "status"
    BY <1>1, <2>1 DEF View, Values
  <2>2. CASE attr = "alias"
    BY <1>1, <2>2 DEF View, Values
  <2>3. CASE attr = "token"
    BY <1>1, <2>3 DEF View, Values
  <2>. QED BY <2>1, <2>2, <2>3 DEF Attrs
<1>3. \A v \in Who, a \in Attrs : Follows(i, v, a)
  BY DEF Good
<1>. QED BY <1>1, <1>2, <1>3, TellGood

-----------------------------------------------------------------------------
(* Changes *)

OwnState == [ status : Statuses, name : Aliases \union {None}, icon : Icons \union {None} ]

\* A change of what is known of ourselves.
LEMMA OwnChange ==
    ASSUME NEW i, Good(i), NEW own \in OwnState
    PROVE  LET r == [i EXCEPT !.own = own] IN
           /\ r \in InfoState /\ r.own = own
           /\ \A h \in Contacts, a \in Attrs : Follows(r, h, a)
           /\ own.status = i.own.status => Follows(r, Self, "status")
           /\ own.name = i.own.name => Follows(r, Self, "alias")
           /\ own.icon = i.own.icon => Follows(r, Self, "token")
<1> DEFINE r == [i EXCEPT !.own = own]
<1>1. i \in InfoState /\ \A v \in Who, a \in Attrs : Follows(i, v, a)
  BY DEF Good
<1>2. /\ r \in InfoState /\ r.own = own /\ r.view = i.view /\ r.unsure = i.unsure
      /\ r.buddies = i.buddies /\ r.icon = i.icon
  BY <1>1 DEF InfoState, OwnState
<1> HIDE DEF r
<1>3. ASSUME NEW h \in Contacts, NEW a \in Attrs PROVE Follows(r, h, a)
  <2>1. Get(r, h) = Get(i, h) /\ (Disputed(r, h, a) <=> Disputed(i, h, a))
    BY <1>2, SameContact
  <2>2. Follows(i, h, a)
    BY <1>1 DEF Who
  <2>. QED BY <1>2, <2>1, <2>2, Carry
<1>4. Self \in Who /\ {"status", "alias", "token"} = Attrs
  BY DEF Who, Attrs
<1>5. /\ Get(r, Self)["status"] = GetTpStatus(own.status)
      /\ Get(r, Self)["alias"] = IF own.name = None THEN Self ELSE own.name
      /\ Get(r, Self)["token"] = own.icon
  BY <1>2 DEF Get, GetStatus, GetAlias, GetToken
<1>6. /\ Get(i, Self)["status"] = GetTpStatus(i.own.status)
      /\ Get(i, Self)["alias"] = IF i.own.name = None THEN Self ELSE i.own.name
      /\ Get(i, Self)["token"] = i.own.icon
  BY DEF Get, GetStatus, GetAlias, GetToken
<1>7. \A a \in Attrs : Get(r, Self)[a] = Get(i, Self)[a] => Follows(r, Self, a)
  BY <1>1, <1>2, <1>4, SelfUndisputed, Carry
<1>8. own.status = i.own.status => Follows(r, Self, "status")
  BY <1>4, <1>5, <1>6, <1>7
<1>9. own.name = i.own.name => Follows(r, Self, "alias")
  BY <1>4, <1>5, <1>6, <1>7
<1>10. own.icon = i.own.icon => Follows(r, Self, "token")
  BY <1>4, <1>5, <1>6, <1>7
<1>. QED BY <1>2, <1>3, <1>8, <1>9, <1>10 DEF r

\* The buddies of a contact: which there are, ...
Present(buddies) == {p \in Places : buddies[p] # None}

\* A change of the buddies of a contact.
LEMMA BuddiesChange ==
    ASSUME NEW i, Good(i), NEW h \in Contacts, NEW new \in [Places -> Buddy \union {None}]
    PROVE  LET r == [i EXCEPT !.buddies[h] = new] IN
           /\ r \in InfoState /\ r.buddies[h] = new /\ BuddiesOf(r, h) = Present(new)
           /\ \A v \in Who, a \in Attrs : v # h => Follows(r, v, a)
<1> DEFINE all == [i.buddies EXCEPT ![h] = new]
           r == [i EXCEPT !.buddies[h] = new]
<1>1. i \in InfoState /\ \A v \in Who, a \in Attrs : Follows(i, v, a)
  BY DEF Good
<1>2. /\ all \in [Contacts -> [Places -> Buddy \union {None}]] /\ all[h] = new
      /\ \A v \in Contacts : v # h => all[v] = i.buddies[v]
  BY <1>1 DEF InfoState
<1>3. r = [i EXCEPT !.buddies = all]
  BY <1>1 DEF InfoState
<1> HIDE DEF all
<1>4. /\ r \in InfoState /\ r.buddies = all /\ r.own = i.own /\ r.view = i.view
      /\ r.unsure = i.unsure /\ r.icon = i.icon
  BY <1>1, <1>2, <1>3 DEF InfoState
<1> HIDE DEF r
<1>5. BuddiesOf(r, h) = Present(new)
  BY <1>2, <1>4 DEF BuddiesOf, Present
<1>6. ASSUME NEW v \in Who, NEW a \in Attrs, v # h PROVE Follows(r, v, a)
  <2>1. Follows(i, v, a)
    BY <1>1
  <2>2. CASE v \in Contacts
    <3>1. Get(r, v) = Get(i, v) /\ (Disputed(r, v, a) <=> Disputed(i, v, a))
      BY <1>2, <1>4, <1>6, <2>2, SameContact
    <3>. QED BY <1>4, <2>1, <3>1, Carry
  <2>3. CASE v = Self
    <3>1. Get(r, v) = Get(i, v)
      BY <1>4, <2>3 DEF Get, GetStatus, GetAlias, GetToken
    <3>. QED BY <1>4, <2>1, <2>3, <3>1, SelfUndisputed, Carry
  <2>. QED BY <2>2, <2>3 DEF Who
<1>. QED BY <1>2, <1>4, <1>5, <1>6 DEF r

\* ... and when there are the same, what is read of the first of them.
LEMMA SameBuddies ==
    ASSUME NEW i, Good(i), NEW h \in Contacts, NEW new \in [Places -> Buddy \union {None}],
           Present(new) = BuddiesOf(i, h)
    PROVE  LET r == [i EXCEPT !.buddies[h] = new] IN
           /\ Follows(r, h, "token")
           /\ (\A p \in Present(new) : new[p].status = i.buddies[h][p].status)
                 => Follows(r, h, "status")
           /\ (\A p \in Present(new) : /\ new[p].alias = i.buddies[h][p].alias
                                       /\ new[p].server_alias = i.buddies[h][p].server_alias)
                 => Follows(r, h, "alias")
<1> DEFINE r == [i EXCEPT !.buddies[h] = new]
<1>1. i \in InfoState /\ (\A v \in Who, a \in Attrs : Follows(i, v, a)) /\ h \in Who
  BY DEF Good, Who
<1>2. /\ r.buddies[h] = new /\ BuddiesOf(r, h) = Present(new)
      /\ r.view = i.view /\ r.unsure = i.unsure /\ r.icon = i.icon
  <2>1. r.buddies[h] = new /\ BuddiesOf(r, h) = Present(new)
    BY BuddiesChange
  <2>2. r.view = i.view /\ r.unsure = i.unsure /\ r.icon = i.icon
    BY <1>1 DEF InfoState
  <2>. QED BY <2>1, <2>2
<1> HIDE DEF r
<1>3. h # Self /\ BuddiesOf(r, h) = BuddiesOf(i, h)
  BY <1>2, SelfIsNoContact
<1>4. BuddiesOf(i, h) # {} => Min(BuddiesOf(i, h)) \in BuddiesOf(i, h)
  BY FirstBuddy
<1>5. Follows(r, h, "token")
  <2>1. Get(r, h)["token"] = Get(i, h)["token"]
    BY <1>2, <1>3 DEF Get, GetToken
  <2>2. Disputed(i, h, "token") => Disputed(r, h, "token")
    BY DEF Disputed
  <2>3. Follows(i, h, "token")
    BY <1>1 DEF Attrs
  <2>. QED BY <1>2, <2>1, <2>2, <2>3, Carry
<1>6. ASSUME \A p \in Present(new) : new[p].status = i.buddies[h][p].status
      PROVE  Follows(r, h, "status")
  <2>1. Get(r, h)["status"] = Get(i, h)["status"]
    BY <1>2, <1>3, <1>4, <1>6 DEF Get, GetStatus
  <2>2. Disputed(i, h, "status") => Disputed(r, h, "status")
    BY <1>2, <1>3, <1>6 DEF Disputed
  <2>3. Follows(i, h, "status")
    BY <1>1 DEF Attrs
  <2>. QED BY <1>2, <2>1, <2>2, <2>3, Carry
<1>7. ASSUME \A p \in Present(new) : /\ new[p].alias = i.buddies[h][p].alias
                                     /\ new[p].server_alias = i.buddies[h][p].server_alias
      PROVE  Follows(r, h, "alias")
  <2>0. \A p \in Present(new) : AliasOfBuddy(new[p], h) = AliasOfBuddy(i.buddies[h][p], h)
    BY <1>7 DEF AliasOfBuddy
  <2>1. Get(r, h)["alias"] = Get(i, h)["alias"]
    BY <1>2, <1>3, <1>4, <2>0 DEF Get, GetAlias
  <2>2. Disputed(i, h, "alias") => Disputed(r, h, "alias")
    BY <1>2, <1>3, <2>0 DEF Disputed
  <2>3. Follows(i, h, "alias")
    BY <1>1 DEF Attrs
  <2>. QED BY <1>2, <2>1, <2>2, <2>3, Carry
<1>. QED BY <1>5, <1>6, <1>7 DEF r

-----------------------------------------------------------------------------
(* What clients do *)

\* The connection's phase, and what is being set, are read by nobody.
LEMMA UnreadChange ==
    ASSUME NEW i, Good(i), NEW setting \in SUBSET Aliases,
           NEW phase \in {"new", "connecting", "connected", "offline", "aborted", "crashed"}
    PROVE  Good([i EXCEPT !.phase = phase, !.setting = setting])
<1> DEFINE r == [i EXCEPT !.phase = phase, !.setting = setting]
<1>1. i \in InfoState /\ \A v \in Who, a \in Attrs : Follows(i, v, a)
  BY DEF Good
<1>2. /\ r \in InfoState /\ r.own = i.own /\ r.view = i.view /\ r.unsure = i.unsure
      /\ r.buddies = i.buddies /\ r.icon = i.icon
  BY <1>1 DEF InfoState
<1> HIDE DEF r
<1>3. \A v \in Who : Get(r, v) = Get(i, v) /\ \A a : Disputed(r, v, a) <=> Disputed(i, v, a)
  BY <1>2 DEF Get, GetStatus, GetAlias, GetToken, Disputed, BuddiesOf
<1>4. \A v \in Who, a \in Attrs : Follows(r, v, a)
  BY <1>1, <1>2, <1>3, Carry
<1>. QED BY <1>2, <1>4 DEF Good, r

\* GetContactAttributes
LEMMA FetchGood ==
    ASSUME Good(info), NEW w \in Who, Fetch(w)
    PROVE  Good(info')
<1> DEFINE views == [info.view EXCEPT ![w] = Get(info, w)]
           left == info.unsure \ ({w} \X Attrs)
<1>1. info \in InfoState /\ (\A v \in Who, a \in Attrs : Follows(info, v, a)) /\ Get(info, w) \in View
  BY GetType DEF Good
<1>2. info' = [info EXCEPT !.view = views, !.unsure = left]
  BY <1>1 DEF Fetch, InfoState
<1>3. /\ views \in [Who -> View \union {None}] /\ views[w] = Get(info, w)
      /\ \A v \in Who : v # w => views[v] = info.view[v]
  BY <1>1 DEF InfoState
<1>4. /\ left \subseteq Who \X Attrs
      /\ \A v \in Who, a \in Attrs : v # w => (<<v, a>> \in left <=> <<v, a>> \in info.unsure)
  BY <1>1 DEF InfoState
<1> HIDE DEF views, left
<1> DEFINE t == info'
<1>5. /\ t \in InfoState /\ t.view = views /\ t.unsure = left
      /\ t.own = info.own /\ t.buddies = info.buddies /\ t.icon = info.icon
  BY <1>1, <1>2, <1>3, <1>4 DEF InfoState
<1> HIDE DEF t
<1>6. \A v \in Who : Get(t, v) = Get(info, v) /\ \A a : Disputed(t, v, a) <=> Disputed(info, v, a)
  BY <1>5 DEF Get, GetStatus, GetAlias, GetToken, Disputed, BuddiesOf
<1>7. ASSUME NEW v \in Who, NEW a \in Attrs PROVE Follows(t, v, a)
  <2>1. CASE v = w
    BY <1>3, <1>5, <1>6, <2>1 DEF Follows
  <2>2. CASE v # w
    BY <1>1, <1>3, <1>4, <1>5, <1>6, <2>2, Carry
  <2>. QED BY <2>1, <2>2
<1>8. Good(t)
  BY <1>5, <1>7 DEF Good
<1>. QED BY <1>8 DEF t

\* The three requests for one attribute.
LEMMA AskGood ==
    ASSUME Good(info), NEW w \in Who, AskAlias(w) \/ AskToken(w) \/ RequestAvatar(w)
    PROVE  Good(info')
<1>1. /\ Get(info, w)["alias"] = GetAlias(info, w)
      /\ Get(info, w)["token"] = GetToken(info, w)
  BY DEF Get
<1>2. Good(Tell(info, w, "alias", GetAlias(info, w)))
  BY <1>1, TellTruth DEF Attrs
<1>3. Good(Tell(info, w, "token", GetToken(info, w)))
  BY <1>1, TellTruth DEF Attrs
<1>. QED BY <1>2, <1>3 DEF AskAlias, AskToken, RequestAvatar

\* Our own status, whoever changes it.
LEMMA OwnStatusGood ==
    ASSUME NEW i, Good(i), NEW status \in Statuses
    PROVE  Good(OwnStatus(i, status))
<1> DEFINE own == [i.own EXCEPT !.status = status]
           r == [i EXCEPT !.own = own]
<1>1. /\ own \in OwnState /\ own.status = status
      /\ own.name = i.own.name /\ own.icon = i.own.icon
  BY DEF Good, InfoState, OwnState
<1>2. OwnStatus(i, status) = Tell(r, Self, "status", GetTpStatus(status))
  BY DEF OwnStatus, Good, InfoState
<1> HIDE DEF own
<1>3. /\ r \in InfoState /\ r.own = own
      /\ \A h \in Contacts, a \in Attrs : Follows(r, h, a)
      /\ Follows(r, Self, "alias") /\ Follows(r, Self, "token")
  BY <1>1, OwnChange
<1> HIDE DEF r
<1>4. Get(r, Self)["status"] = GetTpStatus(status)
  BY <1>1, <1>3 DEF Get, GetStatus
<1>5. GetTpStatus(status) \in Values("status")
  BY TpStatusType DEF Values
<1>6. \A v \in Who, a \in Attrs : <<v, a>> # <<Self, "status">> => Follows(r, v, a)
  BY <1>3 DEF Who, Attrs
<1>7. Self \in Who /\ "status" \in Attrs
  BY DEF Who, Attrs
<1>. QED BY <1>2, <1>3, <1>4, <1>5, <1>6, <1>7, TellGood

\* _set_own_status, for the statuses the protocol has.
LEMMA SetOwnStatusGood ==
    ASSUME Good(info), NEW status, SetOwnStatus(status)
    PROVE  Good(info')
<1>1. \/ info' = OwnStatus(info, "available")
      \/ info' = OwnStatus(info, PurpleStatus[status]) /\ PurpleStatus[status] \in Statuses
  BY DEF SetOwnStatus, StatusAvailable
<1>2. "available" \in Statuses
  BY StatusesType
<1>. QED BY <1>1, <1>2, OwnStatusGood

\* What libpurple signals of an alias is true, unless the buddies do not agree.
LEMMA TellAliasGood ==
    ASSUME NEW i \in InfoState, NEW h \in Contacts, NEW p \in BuddiesOf(i, h),
           \A v \in Who, a \in Attrs : <<v, a>> # <<h, "alias">> => Follows(i, v, a)
    PROVE  Good(TellAlias(i, h, p))
<1> DEFINE value == AliasOfBuddy(i.buddies[h][p], h)
           q == Min(BuddiesOf(i, h))
<1>1. h \in Who /\ "alias" \in Attrs /\ h # Self
  BY SelfIsNoContact DEF Who, Attrs
<1>2. value \in Values("alias")
  BY <1>1, BuddyType, AliasType DEF Values
<1>3. q \in BuddiesOf(i, h)
  BY FirstBuddy
<1>4. Get(i, h)["alias"] = AliasOfBuddy(i.buddies[h][q], h)
  BY <1>1 DEF Get, GetAlias
<1>5. value = Get(i, h)["alias"] \/ Disputed(i, h, "alias")
  BY <1>3, <1>4 DEF Disputed
<1>6. TellAlias(i, h, p) = Tell(i, h, "alias", value)
  BY DEF TellAlias
<1> HIDE DEF value, q
<1>. QED BY <1>1, <1>2, <1>5, <1>6, TellGood

\* set_aliases_foreach, for one entry of the table.
LEMMA SetAliasGood ==
    ASSUME NEW i, Good(i), NEW w \in Who, NEW alias \in Aliases
    PROVE  Good(SetAlias(i, w, alias))
<1>0. i \in InfoState
  BY DEF Good
<1>1. CASE w = Self
  <2> DEFINE setting == i.setting \union {alias}
             phase == i.phase
  <2>1. setting \in SUBSET Aliases /\ phase \in {"new", "connecting", "connected", "offline", "aborted", "crashed"}
    BY <1>0 DEF InfoState
  <2>2. SetAlias(i, w, alias) = [i EXCEPT !.phase = phase, !.setting = setting]
    BY <1>0, <1>1 DEF SetAlias, InfoState
  <2> HIDE DEF setting, phase
  <2>3. Good([i EXCEPT !.phase = phase, !.setting = setting])
    BY <2>1, UnreadChange
  <2>. QED BY <2>2, <2>3
<1>2. CASE w # Self /\ BuddiesOf(i, w) = {}
  BY <1>2 DEF SetAlias
<1>3. CASE w # Self /\ BuddiesOf(i, w) # {}
  <2> DEFINE p == Min(BuddiesOf(i, w))
             b == [i.buddies[w][p] EXCEPT !.alias = alias]
             new == [i.buddies[w] EXCEPT ![p] = b]
             r == [i EXCEPT !.buddies[w] = new]
  <2>1. w \in Contacts /\ p \in BuddiesOf(i, w) /\ p \in Places /\ i.buddies[w][p] \in Buddy
    BY <1>0, <1>3, FirstBuddy, BuddyType DEF Who
  <2>2. CASE i.buddies[w][p].alias = alias
    BY <1>3, <2>2 DEF SetAlias, AliasBuddy
  <2>3. CASE i.buddies[w][p].alias # alias
    <3>1. SetAlias(i, w, alias) = TellAlias([i EXCEPT !.buddies[w][p].alias = alias], w, p)
      BY <1>3, <2>3 DEF SetAlias, AliasBuddy
    <3>2. [i EXCEPT !.buddies[w][p].alias = alias] = r
      BY <1>0, <2>1 DEF InfoState
    <3> HIDE DEF p
    <3>3. b \in Buddy /\ b # None /\ b.status = i.buddies[w][p].status
      BY <2>1, NoneIsNothing DEF Buddy
    <3>4. i.buddies[w] \in [Places -> Buddy \union {None}]
      BY <1>0, <2>1 DEF InfoState
    <3> HIDE DEF b
    <3>5. /\ new \in [Places -> Buddy \union {None}]
          /\ new[p] = b /\ \A k \in Places : k # p => new[k] = i.buddies[w][k]
      BY <2>1, <3>3, <3>4
    <3> HIDE DEF new
    <3>6. Present(new) = BuddiesOf(i, w)
      BY <2>1, <3>3, <3>5 DEF Present, BuddiesOf
    <3>7. \A k \in Present(new) : new[k].status = i.buddies[w][k].status
      BY <3>3, <3>5 DEF Present
    <3>8. /\ r \in InfoState /\ BuddiesOf(r, w) = Present(new)
          /\ \A v \in Who, a \in Attrs : v # w => Follows(r, v, a)
      BY <2>1, <3>5, BuddiesChange
    <3>9. Follows(r, w, "token") /\ Follows(r, w, "status")
      BY <2>1, <3>5, <3>6, <3>7, SameBuddies
    <3> HIDE DEF r
    <3>10. \A v \in Who, a \in Attrs : <<v, a>> # <<w, "alias">> => Follows(r, v, a)
      BY <3>8, <3>9 DEF Attrs
    <3>11. p \in BuddiesOf(r, w)
      BY <2>1, <3>6, <3>8
    <3>. QED BY <2>1, <3>1, <3>2, <3>8, <3>10, <3>11, TellAliasGood
  <2>. QED BY <2>2, <2>3
<1>. QED BY <1>1, <1>2, <1>3

\* The loop of haze_connection_set_aliases: what every step keeps, the loop keeps.
LEMMA SetAliasesLoop ==
    ASSUME NEW aliases, IsFiniteSet(DOMAIN aliases), NEW V, NEW base \in V,
           \A w \in DOMAIN aliases, i \in V : SetAlias(i, w, aliases[w]) \in V
    PROVE  FoldSet(LAMBDA w, i : SetAlias(i, w, aliases[w]), base, DOMAIN aliases) \in V
<1> DEFINE S == DOMAIN aliases
           next(s) == CHOOSE x \in s : TRUE
           pick == [s \in (SUBSET S) \ {{}} |-> next(s)]
           op(w, i) == SetAlias(i, w, aliases[w])
           g == [w \in S |-> [i \in V |-> op(w, i)]]
           W == [s \in SUBSET S |-> V]
           IsFold(f) == f = [s \in SUBSET S |->
                                IF s = {} THEN base ELSE op(next(s), f[s \ {next(s)}])]
           fold == CHOOSE f : IsFold(f)
<1>1. FoldSet(LAMBDA w, i : SetAlias(i, w, aliases[w]), base, S) = fold[S]
  BY DEF FoldSet, MapThenFoldSet
<1>2. pick \in Picks(S) /\ IsFiniteSet(S)
  BY DEF Picks
<1>3. \A s \in (SUBSET S) \ {{}} : next(s) = pick[s] /\ pick[s] \in S /\ s \ {pick[s]} \in SUBSET S
  <2>1. \A s \in (SUBSET S) \ {{}} : next(s) = pick[s] /\ next(s) \in s
    OBVIOUS
  <2>. QED BY <2>1
<1>4. \A w \in S : \A i \in V : op(w, i) \in V /\ g[w][i] = op(w, i)
  OBVIOUS
<1>5. \A s \in SUBSET S : W[s] = V
  OBVIOUS
<1> HIDE DEF S, next, pick, op, g, W
<1>6. base \in W[{}]
  BY <1>5
<1>7. \A s \in (SUBSET S) \ {{}} : \A i \in W[s \ {pick[s]}] :
          op(pick[s], i) \in W[s] /\ g[pick[s]][i] = op(pick[s], i)
  BY <1>3, <1>4, <1>5
<1>8. PICK f : FoldsTo(f, S, pick, W, base, g)
  BY <1>2, <1>6, <1>7, FoldExists
<1>9. f = [s \in SUBSET S |-> IF s = {} THEN base ELSE g[pick[s]][f[s \ {pick[s]}]]]
  BY <1>8 DEF FoldsTo
<1>10. \A s \in (SUBSET S) \ {{}} : g[pick[s]][f[s \ {pick[s]}]] = op(next(s), f[s \ {next(s)}])
  <2> SUFFICES ASSUME NEW s \in (SUBSET S) \ {{}}
               PROVE  g[pick[s]][f[s \ {pick[s]}]] = op(next(s), f[s \ {next(s)}])
    OBVIOUS
  <2>1. next(s) = pick[s] /\ s \ {pick[s]} \in SUBSET S
    BY <1>3
  <2>2. f[s \ {pick[s]}] \in W[s \ {pick[s]}]
    BY <1>8, <2>1 DEF FoldsTo
  <2>3. g[pick[s]][f[s \ {pick[s]}]] = op(pick[s], f[s \ {pick[s]}])
    BY <1>7, <2>2
  <2>. QED BY <2>1, <2>3
<1>11. f = [s \in SUBSET S |-> IF s = {} THEN base ELSE op(next(s), f[s \ {next(s)}])]
  BY <1>9, <1>10
<1>12. IsFold(fold)
  BY <1>11
<1> HIDE DEF fold
<1>13. fold[{}] = base /\ \A s \in (SUBSET S) \ {{}} : fold[s] = op(next(s), fold[s \ {next(s)}])
  BY <1>12
<1> HIDE DEF IsFold
<1>14. fold[{}] \in W[{}]
  BY <1>6, <1>13
<1>15. \A s \in (SUBSET S) \ {{}} : fold[s \ {pick[s]}] \in W[s \ {pick[s]}] => fold[s] \in W[s]
  <2> SUFFICES ASSUME NEW s \in (SUBSET S) \ {{}}, fold[s \ {pick[s]}] \in W[s \ {pick[s]}]
               PROVE  fold[s] \in W[s]
    OBVIOUS
  <2>1. op(pick[s], fold[s \ {pick[s]}]) \in W[s]
    BY <1>7
  <2>2. next(s) = pick[s]
    BY <1>3
  <2>. QED BY <1>13, <2>1, <2>2
<1>16. fold[S] \in W[S]
  BY <1>2, <1>14, <1>15, FoldStays
<1>. QED BY <1>1, <1>5, <1>16 DEF S

\* haze_connection_set_aliases
LEMMA SetAliasesGood ==
    ASSUME Good(info), NEW W \in SUBSET Who, NEW aliases \in [W -> Aliases], SetAliases(aliases)
    PROVE  Good(info')
<1>1. CASE Online(info)
  <2> DEFINE V == {i \in InfoState : Good(i)}
  <2>1. info \in V
    BY DEF Good
  <2>2. \A w \in DOMAIN aliases, i \in V : SetAlias(i, w, aliases[w]) \in V
    <3> SUFFICES ASSUME NEW w \in DOMAIN aliases, NEW i \in V
                 PROVE  Good(SetAlias(i, w, aliases[w]))
      BY DEF Good
    <3>1. w \in Who /\ aliases[w] \in Aliases
      OBVIOUS
    <3>. QED BY <3>1, SetAliasGood
  <2>3. IsFiniteSet(DOMAIN aliases)
    <3>1. IsFiniteSet(Who)
      BY ContactsFinite, FS_AddElement DEF Who
    <3>. QED BY <3>1, FS_Subset
  <2>4. info' = FoldSet(LAMBDA w, i : SetAlias(i, w, aliases[w]), info, DOMAIN aliases)
    BY <1>1 DEF SetAliases
  <2> HIDE DEF V
  <2>5. FoldSet(LAMBDA w, i : SetAlias(i, w, aliases[w]), info, DOMAIN aliases) \in V
    BY <2>1, <2>2, <2>3, SetAliasesLoop
  <2>6. info' \in V
    BY <2>4, <2>5
  <2>. QED BY <2>6 DEF V
<1>2. CASE ~Online(info)
  <2> DEFINE setting == info.setting
  <2>1. setting \in SUBSET Aliases
    BY DEF Good, InfoState
  <2>2. info' = [info EXCEPT !.phase = "aborted", !.setting = setting]
    BY <1>2 DEF SetAliases, Good, InfoState
  <2> HIDE DEF setting
  <2>. QED BY <2>1, <2>2, UnreadChange
<1>. QED BY <1>1, <1>2

\* The protocol answers about our alias.
LEMMA AliasAnsweredGood ==
    ASSUME Good(info), NEW alias \in Aliases, NEW success \in BOOLEAN, AliasAnswered(alias, success)
    PROVE  Good(info')
<1> DEFINE setting == info.setting \ {alias}
           phase == info.phase
           answered == [info EXCEPT !.phase = phase, !.setting = setting]
           own == [answered.own EXCEPT !.name = alias]
           r == [answered EXCEPT !.own = own]
<1>1. /\ setting \in SUBSET Aliases /\ info \in InfoState
      /\ phase \in {"new", "connecting", "connected", "offline", "aborted", "crashed"}
  BY DEF Good, InfoState
<1>2. answered = [info EXCEPT !.setting = @ \ {alias}]
  BY <1>1 DEF InfoState
<1> HIDE DEF setting, phase
<1>3. Good(answered)
  BY <1>1, UnreadChange
<1> HIDE DEF answered
<1>4. info' = IF success THEN Tell([answered EXCEPT !.own.name = alias], Self, "alias", alias)
              ELSE answered
  BY <1>2 DEF AliasAnswered
<1>5. [answered EXCEPT !.own.name = alias] = r
  BY <1>3 DEF Good, InfoState
<1>6. /\ own \in OwnState /\ own.name = alias /\ own.status = answered.own.status
      /\ own.icon = answered.own.icon
  BY <1>3 DEF Good, InfoState, OwnState
<1> HIDE DEF own
<1>7. /\ r \in InfoState /\ r.own = own
      /\ \A h \in Contacts, a \in Attrs : Follows(r, h, a)
      /\ Follows(r, Self, "status") /\ Follows(r, Self, "token")
  BY <1>3, <1>6, OwnChange
<1> HIDE DEF r
<1>8. Get(r, Self)["alias"] = alias
  BY <1>6, <1>7, NoneIsNothing DEF Get, GetAlias
<1>9. \A v \in Who, a \in Attrs : <<v, a>> # <<Self, "alias">> => Follows(r, v, a)
  BY <1>7 DEF Who, Attrs
<1>10. /\ Self \in Who /\ "alias" \in Attrs
       /\ Values("alias") = Aliases \union Who
  BY DEF Who, Attrs, Values
<1>11. Good(Tell(r, Self, "alias", alias))
  BY <1>7, <1>8, <1>9, <1>10, TellGood
<1>. QED BY <1>3, <1>4, <1>5, <1>11

\* Connecting, disconnecting, and the ways a client can stop the process.
LEMMA PhaseGood ==
    ASSUME NEW i, Good(i), NEW phase \in {"new", "connecting", "connected", "offline", "aborted", "crashed"}
    PROVE  Good([i EXCEPT !.phase = phase]) /\ Good([i EXCEPT !.phase = phase, !.setting = {}])
<1> DEFINE setting == i.setting
<1>1. setting \in SUBSET Aliases
  BY DEF Good, InfoState
<1>2. [i EXCEPT !.phase = phase] = [i EXCEPT !.phase = phase, !.setting = setting]
  BY DEF Good, InfoState
<1> HIDE DEF setting
<1>3. Good([i EXCEPT !.phase = phase, !.setting = setting])
  BY <1>1, UnreadChange
<1>4. Good([i EXCEPT !.phase = phase, !.setting = {}])
  BY UnreadChange
<1>. QED BY <1>2, <1>3, <1>4

\* Our own avatar, set or cleared.
LEMMA OwnIconGood ==
    ASSUME NEW i, Good(i), NEW icon \in Icons \union {None}
    PROVE  Good(Tell([i EXCEPT !.own.icon = icon], Self, "token", icon))
<1> DEFINE own == [i.own EXCEPT !.icon = icon]
           r == [i EXCEPT !.own = own]
<1>1. /\ own \in OwnState /\ own.icon = icon
      /\ own.name = i.own.name /\ own.status = i.own.status
  BY DEF Good, InfoState, OwnState
<1>2. [i EXCEPT !.own.icon = icon] = r
  BY DEF Good, InfoState
<1> HIDE DEF own
<1>3. /\ r \in InfoState /\ r.own = own
      /\ \A h \in Contacts, a \in Attrs : Follows(r, h, a)
      /\ Follows(r, Self, "status") /\ Follows(r, Self, "alias")
  BY <1>1, OwnChange
<1> HIDE DEF r
<1>4. Get(r, Self)["token"] = icon
  BY <1>1, <1>3 DEF Get, GetToken
<1>5. Values("token") = Icons \union {None}
  BY DEF Values
<1>6. \A v \in Who, a \in Attrs : <<v, a>> # <<Self, "token">> => Follows(r, v, a)
  BY <1>3 DEF Who, Attrs
<1>7. Self \in Who /\ "token" \in Attrs
  BY DEF Who, Attrs
<1>8. Good(Tell(r, Self, "token", icon))
  BY <1>3, <1>4, <1>5, <1>6, <1>7, TellGood
<1>. QED BY <1>2, <1>8

\* haze_connection_clear_avatar and haze_connection_set_avatar
LEMMA AvatarGood ==
    ASSUME Good(info),
           ClearAvatar \/ \E icon \in Icons, fits, listed \in BOOLEAN,
                             type \in {"listed", "other", "open"} : SetAvatar(icon, fits, type, listed)
    PROVE  Good(info')
<1>1. Good(Tell([info EXCEPT !.own.icon = None], Self, "token", None))
  BY OwnIconGood
<1>2. \A icon \in Icons : Good(Tell([info EXCEPT !.own.icon = icon], Self, "token", icon))
  BY OwnIconGood
<1>3. Good([info EXCEPT !.phase = "crashed"])
  BY PhaseGood
<1>. QED BY <1>1, <1>2, <1>3 DEF ClearAvatar, SetAvatar

-----------------------------------------------------------------------------
(* What libpurple does *)

\* Our display name is another one, and no signal says so.
LEMMA NameGood ==
    ASSUME NEW i, Good(i), NEW name \in Aliases \union {None}
    PROVE  Good(Silently([i EXCEPT !.own.name = name], Self, {"alias"}))
<1> DEFINE own == [i.own EXCEPT !.name = name]
           r == [i EXCEPT !.own = own]
<1>1. /\ own \in OwnState /\ own.icon = i.own.icon /\ own.status = i.own.status
  BY DEF Good, InfoState, OwnState
<1>2. [i EXCEPT !.own.name = name] = r
  BY DEF Good, InfoState
<1> HIDE DEF own
<1>3. /\ r \in InfoState
      /\ \A h \in Contacts, a \in Attrs : Follows(r, h, a)
      /\ Follows(r, Self, "status") /\ Follows(r, Self, "token")
  BY <1>1, OwnChange
<1> HIDE DEF r
<1>4. \A v \in Who, a \in Attrs : v # Self \/ a \notin {"alias"} => Follows(r, v, a)
  BY <1>3 DEF Who, Attrs
<1>5. Self \in Who /\ {"alias"} \in SUBSET Attrs
  BY DEF Who, Attrs
<1>6. Good(Silently(r, Self, {"alias"}))
  BY <1>3, <1>4, <1>5, SilentlyGood
<1>. QED BY <1>2, <1>6

\* The protocol changes our display name.
LEMMA DisplayNameGood ==
    ASSUME Good(info), NEW name \in Aliases \union {None}, DisplayNameChanges(name)
    PROVE  Good(info')
BY NameGood DEF DisplayNameChanges

\* The display name goes with the PurpleConnection.
LEMMA DisconnectGood ==
    ASSUME Good(info), Disconnect
    PROVE  Good(info')
<1> DEFINE offline == [info EXCEPT !.phase = "offline", !.setting = {}]
<1>1. Good(offline)
  BY PhaseGood
<1>2. info' = Silently([offline EXCEPT !.own.name = None], Self, {"alias"})
  BY DEF Disconnect
<1> HIDE DEF offline
<1>. QED BY <1>1, <1>2, NameGood

\* A buddy comes or goes.
LEMMA BuddyGood ==
    ASSUME Good(info), NEW h \in Contacts, NEW p \in Places, NEW alias \in Aliases \union {None},
           BuddyAdded(h, p, alias) \/ BuddyRemoved(h, p)
    PROVE  Good(info')
<1>1. PICK b \in Buddy \union {None} : info' = Silently([info EXCEPT !.buddies[h][p] = b], h, Attrs)
  <2>1. [status |-> "offline", alias |-> None, server_alias |-> alias] \in Buddy
    BY StatusesType DEF Buddy
  <2>. QED BY <2>1 DEF BuddyAdded, BuddyRemoved
<1> DEFINE new == [info.buddies[h] EXCEPT ![p] = b]
           r == [info EXCEPT !.buddies[h] = new]
<1>2. new \in [Places -> Buddy \union {None}]
  BY DEF Good, InfoState
<1>3. info' = Silently(r, h, Attrs)
  BY <1>1 DEF Good, InfoState
<1> HIDE DEF new
<1>4. r \in InfoState /\ \A v \in Who, a \in Attrs : v # h => Follows(r, v, a)
  BY <1>2, BuddiesChange
<1> HIDE DEF r
<1>5. \A v \in Who, a \in Attrs : v # h \/ a \notin Attrs => Follows(r, v, a)
  BY <1>4
<1>6. h \in Who /\ Attrs \in SUBSET Attrs
  BY DEF Who
<1>. QED BY <1>3, <1>4, <1>5, <1>6, SilentlyGood

\* status_changed_cb, for all buddies of a contact.
LEMMA StatusGood ==
    ASSUME Good(info), NEW h \in Contacts, NEW status \in Statuses, StatusChanges(h, status)
    PROVE  Good(info')
<1> DEFINE there == BuddiesOf(info, h)
           new == [p \in Places |-> IF p \in there THEN [info.buddies[h][p] EXCEPT !.status = status]
                                    ELSE None]
           r == [info EXCEPT !.buddies[h] = new]
<1>1. info' = Tell(r, h, "status", GetTpStatus(status)) /\ there # {}
  BY DEF StatusChanges
<1>2. info \in InfoState /\ \A p \in there : p \in Places /\ info.buddies[h][p] \in Buddy
  BY BuddyType DEF Good
<1>3. \A p \in there : /\ new[p] \in Buddy /\ new[p].status = status
                       /\ new[p].alias = info.buddies[h][p].alias
                       /\ new[p].server_alias = info.buddies[h][p].server_alias
  BY <1>2 DEF Buddy
<1>4. new \in [Places -> Buddy \union {None}]
  BY <1>3
<1>5. \A p \in Places : p \notin there => new[p] = None
  OBVIOUS
<1> HIDE DEF new
<1>6. Present(new) = there
  BY <1>2, <1>3, <1>5, NoneIsNothing DEF Present
<1>7. /\ r \in InfoState /\ r.buddies[h] = new /\ BuddiesOf(r, h) = there
      /\ \A v \in Who, a \in Attrs : v # h => Follows(r, v, a)
  BY <1>4, <1>6, BuddiesChange
<1>8. Follows(r, h, "token") /\ Follows(r, h, "alias")
  BY <1>3, <1>4, <1>6, SameBuddies
<1> HIDE DEF r
<1>9. \A v \in Who, a \in Attrs : <<v, a>> # <<h, "status">> => Follows(r, v, a)
  BY <1>7, <1>8 DEF Attrs
<1>10. Get(r, h)["status"] = GetTpStatus(status)
  <2>1. Min(BuddiesOf(r, h)) \in there /\ h # Self
    BY <1>1, <1>7, FirstBuddy, SelfIsNoContact
  <2>2. GetStatus(r, h) = GetTpStatus(new[Min(BuddiesOf(r, h))].status)
    BY <1>1, <1>7, <2>1 DEF GetStatus
  <2>3. GetStatus(r, h) = GetTpStatus(status)
    BY <1>3, <2>1, <2>2
  <2>. QED BY <2>3 DEF Get
<1>11. GetTpStatus(status) \in Values("status")
  BY TpStatusType DEF Values
<1>12. h \in Who /\ "status" \in Attrs
  BY DEF Who, Attrs
<1>. QED BY <1>1, <1>7, <1>9, <1>10, <1>11, <1>12, TellGood

\* The protocol learns an alias of a contact.
LEMMA ServerAliasGood ==
    ASSUME Good(info), NEW h \in Contacts, NEW alias \in Aliases \union {None}, NEW p \in Places,
           ServerAliasChanges(h, alias, p)
    PROVE  Good(info')
<1> DEFINE there == BuddiesOf(info, h)
           changed == {q \in there : info.buddies[h][q].server_alias # alias}
           new == [q \in Places |-> IF q \in changed
                                    THEN [info.buddies[h][q] EXCEPT !.server_alias = alias]
                                    ELSE info.buddies[h][q]]
           r == [info EXCEPT !.buddies[h] = new]
<1>1. info' = TellAlias(r, h, p) /\ p \in changed
  BY DEF ServerAliasChanges, Good, InfoState
<1>2. info \in InfoState /\ \A q \in there : q \in Places /\ info.buddies[h][q] \in Buddy
  BY BuddyType DEF Good
<1>3. \A q \in there : new[q] \in Buddy /\ new[q].status = info.buddies[h][q].status
  BY <1>2 DEF Buddy
<1>4. \A q \in Places : q \notin there => new[q] = None
  BY DEF BuddiesOf
<1>5. new \in [Places -> Buddy \union {None}]
  BY <1>3, <1>4
<1>6. p \in there
  BY <1>1
<1> HIDE DEF new, changed
<1>7. Present(new) = there
  BY <1>2, <1>3, <1>4, NoneIsNothing DEF Present
<1>8. /\ r \in InfoState /\ BuddiesOf(r, h) = there
      /\ \A v \in Who, a \in Attrs : v # h => Follows(r, v, a)
  BY <1>5, <1>7, BuddiesChange
<1>9. Follows(r, h, "token") /\ Follows(r, h, "status")
  BY <1>3, <1>5, <1>7, SameBuddies
<1> HIDE DEF r
<1>10. \A v \in Who, a \in Attrs : <<v, a>> # <<h, "alias">> => Follows(r, v, a)
  BY <1>8, <1>9 DEF Attrs
<1>. QED BY <1>1, <1>6, <1>8, <1>10, TellAliasGood

\* buddy_icon_changed_cb
LEMMA IconGood ==
    ASSUME Good(info), NEW h \in Contacts, NEW icon \in Icons \union {None}, IconChanges(h, icon)
    PROVE  Good(info')
<1> DEFINE icons == [info.icon EXCEPT ![h] = icon]
           r == [info EXCEPT !.icon = icons]
<1>1. info' = Tell(r, h, "token", GetToken(r, h))
  BY DEF IconChanges, Good, InfoState
<1>2. info \in InfoState /\ \A v \in Who, a \in Attrs : Follows(info, v, a)
  BY DEF Good
<1>3. icons \in [Contacts -> Icons \union {None}] /\ \A v \in Contacts : v # h => icons[v] = info.icon[v]
  BY <1>2 DEF InfoState
<1> HIDE DEF icons
<1>4. /\ r \in InfoState /\ r.icon = icons /\ r.own = info.own /\ r.view = info.view
      /\ r.unsure = info.unsure /\ r.buddies = info.buddies
  BY <1>2, <1>3 DEF InfoState
<1> HIDE DEF r
<1>5. \A v \in Who, a \in Attrs : Disputed(r, v, a) <=> Disputed(info, v, a)
  BY <1>4 DEF Disputed, BuddiesOf
<1>6. \A v \in Who : /\ Get(r, v)["status"] = Get(info, v)["status"]
                     /\ Get(r, v)["alias"] = Get(info, v)["alias"]
  BY <1>4 DEF Get, GetStatus, GetAlias, BuddiesOf
<1>7. \A v \in Who : v # h => Get(r, v)["token"] = Get(info, v)["token"]
  BY <1>3, <1>4 DEF Get, GetToken, BuddiesOf, Who
<1>8. ASSUME NEW v \in Who, NEW a \in Attrs, <<v, a>> # <<h, "token">>
      PROVE  Follows(r, v, a)
  <2>1. Get(r, v)[a] = Get(info, v)[a]
    BY <1>6, <1>7, <1>8 DEF Attrs
  <2>. QED BY <1>2, <1>4, <1>5, <2>1, Carry
<1>9. h \in Who /\ "token" \in Attrs
  BY DEF Who, Attrs
<1>10. Get(r, h)["token"] = GetToken(r, h)
  BY DEF Get
<1>11. GetToken(r, h) \in Values("token")
  <2>1. Get(r, h) \in View
    BY <1>4, <1>9, GetType
  <2>. QED BY <1>10, <2>1 DEF View, Values
<1>. QED BY <1>1, <1>4, <1>8, <1>9, <1>10, <1>11, TellGood

-----------------------------------------------------------------------------
(* The invariants *)

\* Nobody has asked.
LEMMA InitGood == InfoInit => Good(info)
<1> SUFFICES ASSUME InfoInit PROVE Good(info)
  OBVIOUS
<1>1. info \in InfoState
  BY StatusesType DEF InfoInit, InfoState
<1>2. \A w \in Who : info.view[w] = None
  BY DEF InfoInit
<1>. QED BY <1>1, <1>2 DEF Good, Follows

\* Every event leaves what clients believe as true as it was.
LEMMA StepGood == Good(info) /\ [InfoNext]_info => Good(info')
<1> SUFFICES ASSUME Good(info), [InfoNext]_info PROVE Good(info')
  OBVIOUS
<1>1. CASE Start \/ Connect \/ Disconnect
  <2>1. Good([info EXCEPT !.phase = "connecting"]) /\ Good([info EXCEPT !.phase = "connected"])
    BY PhaseGood
  <2>. QED BY <1>1, <2>1, DisconnectGood DEF Start, Connect
<1>2. ASSUME NEW w \in Who, Fetch(w) \/ AskAlias(w) \/ AskToken(w) \/ RequestAvatar(w)
      PROVE  Good(info')
  BY <1>2, FetchGood, AskGood
<1>3. ASSUME NEW status \in DOMAIN PurpleStatus \union {None}, SetOwnStatus(status)
      PROVE  Good(info')
  BY <1>3, SetOwnStatusGood
<1>4. ASSUME NEW W \in SUBSET Who, NEW aliases \in [W -> Aliases], SetAliases(aliases)
      PROVE  Good(info')
  BY <1>4, SetAliasesGood
<1>5. ASSUME NEW alias \in Aliases, NEW success \in BOOLEAN, AliasAnswered(alias, success)
      PROVE  Good(info')
  BY <1>5, AliasAnsweredGood
<1>6. CASE ClearAvatar \/ \E icon \in Icons, fits, listed \in BOOLEAN,
                             type \in {"listed", "other", "open"} : SetAvatar(icon, fits, type, listed)
  BY <1>6, AvatarGood
<1>7. ASSUME NEW status \in Statuses, OwnStatusChanges(status)
      PROVE  Good(info')
  BY <1>7, OwnStatusGood DEF OwnStatusChanges
<1>8. ASSUME NEW name \in Aliases \union {None}, DisplayNameChanges(name)
      PROVE  Good(info')
  BY <1>8, DisplayNameGood
<1>9. ASSUME NEW h \in Contacts, NEW p \in Places, BuddyRemoved(h, p)
      PROVE  Good(info')
  BY <1>9, BuddyGood
<1>10. ASSUME NEW h \in Contacts, NEW p \in Places, NEW alias \in Aliases \union {None},
              BuddyAdded(h, p, alias) \/ ServerAliasChanges(h, alias, p)
       PROVE  Good(info')
  BY <1>10, BuddyGood, ServerAliasGood
<1>11. ASSUME NEW h \in Contacts, NEW status \in Statuses, StatusChanges(h, status)
       PROVE  Good(info')
  BY <1>11, StatusGood
<1>12. ASSUME NEW h \in Contacts, NEW icon \in Icons \union {None}, IconChanges(h, icon)
       PROVE  Good(info')
  BY <1>12, IconGood
<1>13. CASE UNCHANGED info
  BY <1>13 DEF Good
<1>. QED BY <1>1, <1>2, <1>3, <1>4, <1>5, <1>6, <1>7, <1>8, <1>9, <1>10, <1>11, <1>12, <1>13
         DEF InfoNext

\* What clients believe is always good.
LEMMA AlwaysGood == InfoSpec => []Good(info)
<1>1. InfoInit => Good(info)
  BY InitGood
<1>2. Good(info) /\ [InfoNext]_info => Good(info)'
  BY StepGood
<1>. QED BY <1>1, <1>2, PTL DEF InfoSpec

\* Whatever clients ask and the protocol reports, the state is of its type.
THEOREM InfoTypeCorrect == InfoSpec => []InfoTypeOK
<1>1. Good(info) => InfoTypeOK
  BY DEF Good, InfoTypeOK
<1>. QED BY <1>1, AlwaysGood, PTL

\* A client that follows the signals believes of status, alias and avatar what it would
\* be told if it asked again.
THEOREM InfoFollowed == InfoSpec => []ClientsFollow
<1>1. Good(info) => ClientsFollow
  BY DEF Good, ClientsFollow
<1>. QED BY <1>1, AlwaysGood, PTL

-----------------------------------------------------------------------------
(* Mail notification *)

\* A report that lacks no part.
Complete(report) ==
    \A i \in DOMAIN report.froms :
        0 \notin {report.froms[i], report.tos[i], report.subjects[i], report.urls[i]}

\* What the loop has announced after k rounds.
Announced(told, report, k) ==
    /\ told \in Seq(Wrapped) /\ Len(told) <= k
    /\ \A j \in 1 .. Len(told) : told[j].from = j /\ told[j].to = j /\ told[j].url \in 1 .. j
    /\ Complete(report) => Len(told) = k /\ \A j \in 1 .. Len(told) : told[j].url = j

\* The loop after k rounds, of so many: where it takes the next mail from.
Round(taken, count, report, k) ==
    /\ Announced(taken.mails, report, k)
    /\ taken.at = Len(taken.mails) + 1 /\ taken.url \in 1 .. taken.at
    /\ Complete(report) /\ k < count => taken.url = k + 1

\* The next round; the k-th is run with count + 1 - k left.
LEMMA RoundStep ==
    ASSUME NEW count \in 0 .. MaxMails, NEW report \in Report(count), NEW k \in 1 .. count,
           NEW taken, Round(taken, count, report, k - 1)
    PROVE  Round(Take(report, taken, count + 1 - k), count, report, k)
<1> DEFINE n == Len(taken.mails) + 1
           wrapped == [ from |-> report.froms[taken.at], to |-> report.tos[taken.at],
                        subject |-> report.subjects[1], url |-> report.urls[taken.url] ]
           told == Append(taken.mails, wrapped)
           url == IF count + 1 - k > 1 /\ report.urls[taken.url + 1] # 0 THEN taken.url + 1
                  ELSE taken.url
           lacks == 0 \in {wrapped.from, wrapped.to, wrapped.subject, wrapped.url}
           t == Take(report, taken, count + 1 - k)
<1>1. /\ count \in Nat /\ k \in Nat /\ 1 <= k /\ k <= count /\ count <= MaxMails
  BY MaxMailsType
<1>2. /\ taken.mails \in Seq(Wrapped) /\ Len(taken.mails) <= k - 1
      /\ \A j \in 1 .. Len(taken.mails) :
            taken.mails[j].from = j /\ taken.mails[j].to = j /\ taken.mails[j].url \in 1 .. j
      /\ Complete(report) => /\ Len(taken.mails) = k - 1
                             /\ \A j \in 1 .. Len(taken.mails) : taken.mails[j].url = j
      /\ taken.at = n /\ taken.url \in 1 .. n
      /\ Complete(report) => taken.url = k
  <2>1. k - 1 < count /\ (k - 1) + 1 = k
    BY <1>1
  <2>. QED BY <2>1 DEF Round, Announced
<1>3. /\ Len(taken.mails) \in Nat /\ n \in 1 .. k /\ n \in 1 .. count
      /\ taken.url \in 1 .. count /\ 1 \in 1 .. count
  BY <1>1, <1>2
<1>4. /\ report.froms[n] \in {0, n} /\ report.tos[n] \in {0, n}
      /\ report.subjects[1] \in {0, 1} /\ report.urls[taken.url] \in {0, taken.url}
      /\ DOMAIN report.froms = 1 .. count
  BY <1>1, <1>3 DEF Report
<1>5. t = IF lacks THEN taken ELSE [mails |-> told, at |-> taken.at + 1, url |-> url]
  BY DEF Take
<1>6. CASE lacks
  <2>1. ~Complete(report)
    <3> SUFFICES ASSUME Complete(report) PROVE FALSE
      OBVIOUS
    <3>1. n = k /\ taken.at = k /\ taken.url = k
      BY <1>1, <1>2, <1>3
    <3>2. k \in 1 .. count
      OBVIOUS
    <3>3. /\ report.froms[k] # 0 /\ report.tos[k] # 0 /\ report.urls[k] # 0
          /\ report.subjects[1] # 0
      BY <1>3, <1>4, <3>2 DEF Complete
    <3>. QED BY <1>6, <3>1, <3>3
  <2>2. t = taken
    BY <1>5, <1>6
  <2>3. Len(taken.mails) <= k
    BY <1>1, <1>2
  <2>4. Announced(taken.mails, report, k)
    BY <1>2, <2>1, <2>3 DEF Announced
  <2>. QED BY <1>2, <2>1, <2>2, <2>4 DEF Round
<1>7. CASE ~lacks
  <2>1. /\ wrapped.from = n /\ wrapped.to = n /\ wrapped.subject = 1 /\ wrapped.url = taken.url
    BY <1>2, <1>4, <1>7
  <2>2. wrapped \in Wrapped
    <3>1. n \in Part /\ 1 \in Part /\ taken.url \in Part
      BY <1>1, <1>3, MaxMailsType DEF Part
    <3>. QED BY <2>1, <3>1 DEF Wrapped
  <2>3. t.mails = told /\ t.at = n + 1 /\ t.url = url
    BY <1>2, <1>5, <1>7
  <2> HIDE DEF wrapped, t
  <2>4. /\ told \in Seq(Wrapped) /\ Len(told) = n /\ told[n] = wrapped
        /\ \A j \in 1 .. Len(taken.mails) : told[j] = taken.mails[j]
    BY <1>2, <2>2
  <2> HIDE DEF told
  <2>5. \A j \in 1 .. n : j = n \/ j \in 1 .. Len(taken.mails)
    BY <1>3
  <2>6. \A j \in 1 .. n : told[j].from = j /\ told[j].to = j /\ told[j].url \in 1 .. j
    BY <1>2, <2>1, <2>4, <2>5
  <2>7. url \in {taken.url, taken.url + 1}
    OBVIOUS
  <2>8. ASSUME Complete(report)
        PROVE  n = k /\ (\A j \in 1 .. n : told[j].url = j) /\ (k < count => url = k + 1)
    <3>1. n = k /\ taken.url = k
      BY <1>2, <1>1, <2>8
    <3>2. \A j \in 1 .. n : told[j].url = j
      BY <1>2, <2>1, <2>4, <2>5, <2>8, <3>1
    <3>3. ASSUME k < count PROVE url = k + 1
      <4>1. k + 1 \in 1 .. count /\ count + 1 - k > 1
        BY <1>1, <3>3
      <4>2. report.urls[k + 1] # 0
        BY <1>4, <2>8, <4>1 DEF Complete
      <4>. QED BY <3>1, <4>1, <4>2
    <3>. QED BY <3>1, <3>2, <3>3
  <2> HIDE DEF url, lacks
  <2>9. url \in 1 .. n + 1
    BY <1>2, <1>3, <2>7
  <2>10. n <= k
    BY <1>3
  <2> HIDE DEF n
  <2>11. Announced(told, report, k)
    BY <2>4, <2>6, <2>8, <2>10 DEF Announced
  <2>12. Round(t, count, report, k)
    BY <2>3, <2>4, <2>8, <2>9, <2>11 DEF Round
  <2>. QED BY <2>12 DEF t
<1>. QED BY <1>6, <1>7

\* The last of 1 .. k is k, and without it 1 .. k - 1 are left.
LEMMA LastOfInterval ==
    ASSUME NEW k \in Nat, k # 0
    PROVE  Max(1 .. k) = k /\ (1 .. k) \ {k} = 1 .. k - 1 /\ k - 1 \in Nat
<1>1. k \in 1 .. k /\ \A y \in 1 .. k : k >= y
  OBVIOUS
<1>2. \A x \in 1 .. k : (\A y \in 1 .. k : x >= y) => x = k
  BY <1>1
<1>3. Max(1 .. k) = k
  BY <1>1, <1>2 DEF Max
<1>. QED BY <1>3

\* The loop of haze_connection_mail_notify_emails, all of it.
LEMMA LoopAnnounces ==
    ASSUME NEW count \in 0 .. MaxMails, NEW report \in Report(count)
    PROVE  Announced(FoldLeft(LAMBDA taken, i : Take(report, taken, count + 1 - i),
                              [mails |-> <<>>, at |-> 1, url |-> 1],
                              [i \in 1 .. count |-> i]).mails, report, count)
<1> DEFINE S == 1 .. count
           seq == [i \in 1 .. count |-> i]
           base == [mails |-> <<>>, at |-> 1, url |-> 1]
           op(i, taken) == Take(report, taken, count + 1 - seq[i])
           pick == [s \in (SUBSET S) \ {{}} |-> Max(s)]
           Raw == [ from : {report.froms[n] : n \in Nat}, to : {report.tos[n] : n \in Nat},
                    subject : {report.subjects[n] : n \in Nat}, url : {report.urls[n] : n \in Nat} ]
           V == [mails : Seq(Raw), at : Nat, url : Nat]
           g == [i \in S |-> [taken \in V |-> op(i, taken)]]
           After(s) == {taken \in V : \A k \in 0 .. count : s = 1 .. k => Round(taken, count, report, k)}
           W == [s \in SUBSET S |-> After(s)]
           IsFold(f) == f = [s \in SUBSET S |->
                                IF s = {} THEN base ELSE op(Max(s), f[s \ {Max(s)}])]
           fold == CHOOSE f : IsFold(f)
<1>0. count \in Nat /\ count <= MaxMails
  BY MaxMailsType
<1>1. FoldLeft(LAMBDA taken, i : Take(report, taken, count + 1 - i), base, seq) = fold[S]
  <2>1. DOMAIN seq = S
    OBVIOUS
  <2>. QED BY <2>1 DEF FoldLeft, MapThenFoldSet
<1>2. \A s \in (SUBSET S) \ {{}} : Max(s) \in s
  <2> SUFFICES ASSUME NEW s \in (SUBSET S) \ {{}} PROVE Max(s) \in s
    OBVIOUS
  <2> DEFINE T == {count - x : x \in s}
  <2>1. T \in SUBSET Nat /\ T # {}
    BY <1>0
  <2>2. PICK m \in T : \A n \in T : m <= n
    BY <2>1, LeastNumber
  <2>3. PICK x \in s : m = count - x
    BY <2>2
  <2>4. \A y \in s : x >= y
    BY <1>0, <2>2, <2>3
  <2>. QED BY <2>4 DEF Max
<1>3. pick \in Picks(S) /\ IsFiniteSet(S)
  <2>1. pick \in Picks(S)
    BY <1>2 DEF Picks
  <2>2. 1 \in Int /\ count \in Int
    BY <1>0
  <2>3. IsFiniteSet(1 .. count)
    BY <2>2, FS_Interval
  <2>. QED BY <2>1, <2>3
<1>4. base \in V
  OBVIOUS
<1>5. \A i \in S, taken \in V : op(i, taken) \in V
  <2> SUFFICES ASSUME NEW i \in S, NEW taken \in V PROVE op(i, taken) \in V
    OBVIOUS
  <2> DEFINE wrapped == [ from |-> report.froms[taken.at], to |-> report.tos[taken.at],
                          subject |-> report.subjects[1], url |-> report.urls[taken.url] ]
  <2>1. wrapped \in Raw
    OBVIOUS
  <2> HIDE DEF Raw
  <2>2. Append(taken.mails, wrapped) \in Seq(Raw)
    BY <2>1
  <2>3. taken.at + 1 \in Nat /\ taken.url + 1 \in Nat /\ taken.url \in Nat
    OBVIOUS
  <2>4. op(i, taken) = taken \/ \E u \in {taken.url, taken.url + 1} :
            op(i, taken) = [mails |-> Append(taken.mails, wrapped), at |-> taken.at + 1, url |-> u]
    BY DEF Take
  <2>5. CASE op(i, taken) = taken
    BY <2>5
  <2> HIDE DEF wrapped, op
  <2>6. ASSUME NEW u \in {taken.url, taken.url + 1},
               op(i, taken) = [mails |-> Append(taken.mails, wrapped), at |-> taken.at + 1, url |-> u]
        PROVE  op(i, taken) \in V
    <3>1. u \in Nat
      BY <2>3
    <3>. QED BY <2>2, <2>3, <2>6, <3>1
  <2>. QED BY <2>4, <2>5, <2>6
<1>6. \A i \in S : \A taken : op(i, taken) = Take(report, taken, count + 1 - i)
  OBVIOUS
<1> HIDE DEF V, op, base
<1>7. \A s \in SUBSET S : \A taken : taken \in W[s] <=>
          taken \in V /\ \A k \in 0 .. count : s = 1 .. k => Round(taken, count, report, k)
  OBVIOUS
<1>8. \A s \in (SUBSET S) \ {{}} : Max(s) = pick[s] /\ pick[s] \in S /\ s \ {pick[s]} \in SUBSET S
  <2>1. \A s \in (SUBSET S) \ {{}} : Max(s) = pick[s] /\ Max(s) \in s
    BY <1>2
  <2>. QED BY <2>1
<1>9. \A i \in S : \A taken \in V : g[i][taken] = op(i, taken)
  OBVIOUS
<1> HIDE DEF g, pick, W
<1>10. base \in W[{}]
  <2>1. base.mails = <<>> /\ base.at = 1 /\ base.url = 1
    BY DEF base
  <2> SUFFICES ASSUME NEW k \in 0 .. count, {} = 1 .. k
               PROVE  Round(base, count, report, k)
    BY <1>4, <1>7
  <2>2. k = 0
    BY <1>0
  <2>3. \A i \in DOMAIN report.froms : i >= 1
    BY <1>0 DEF Report
  <2>4. <<>> \in Seq(Wrapped) /\ Len(<<>>) = 0
    OBVIOUS
  <2>5. Announced(<<>>, report, 0)
    BY <2>4 DEF Announced
  <2>. QED BY <2>1, <2>2, <2>4, <2>5 DEF Round
<1>11. ASSUME NEW s \in (SUBSET S) \ {{}}, NEW taken \in W[s \ {pick[s]}]
       PROVE  op(pick[s], taken) \in W[s] /\ g[pick[s]][taken] = op(pick[s], taken)
  <2>1. pick[s] \in S /\ s \ {pick[s]} \in SUBSET S /\ Max(s) = pick[s]
    BY <1>8
  <2>2. taken \in V /\ \A k \in 0 .. count : s \ {pick[s]} = 1 .. k => Round(taken, count, report, k)
    BY <1>7, <2>1
  <2>3. op(pick[s], taken) \in V /\ g[pick[s]][taken] = op(pick[s], taken)
    BY <1>5, <1>9, <2>1, <2>2
  <2>4. ASSUME NEW k \in 0 .. count, s = 1 .. k
        PROVE  Round(op(pick[s], taken), count, report, k)
    <3>1. k \in Nat /\ k # 0 /\ k \in 1 .. count /\ k - 1 \in 0 .. count
      BY <1>0, <2>4
    <3>2. pick[s] = k /\ s \ {pick[s]} = 1 .. k - 1
      BY <2>1, <2>4, <3>1, LastOfInterval
    <3>3. Round(taken, count, report, k - 1)
      BY <2>2, <3>1, <3>2
    <3>4. Round(Take(report, taken, count + 1 - k), count, report, k)
      BY <3>1, <3>3, RoundStep
    <3>5. op(pick[s], taken) = Take(report, taken, count + 1 - pick[s])
      BY <1>6, <2>1
    <3>. QED BY <3>2, <3>4, <3>5
  <2>. QED BY <1>7, <2>3, <2>4
<1> HIDE DEF V, op, base, S, seq
<1>12. PICK f : FoldsTo(f, S, pick, W, base, g)
  BY <1>3, <1>10, <1>11, FoldExists
<1>13. f = [s \in SUBSET S |-> IF s = {} THEN base ELSE g[pick[s]][f[s \ {pick[s]}]]]
  BY <1>12 DEF FoldsTo
<1>14. \A s \in (SUBSET S) \ {{}} : g[pick[s]][f[s \ {pick[s]}]] = op(Max(s), f[s \ {Max(s)}])
  <2> SUFFICES ASSUME NEW s \in (SUBSET S) \ {{}}
               PROVE  g[pick[s]][f[s \ {pick[s]}]] = op(Max(s), f[s \ {Max(s)}])
    OBVIOUS
  <2>1. Max(s) = pick[s] /\ s \ {pick[s]} \in SUBSET S
    BY <1>8
  <2>2. f[s \ {pick[s]}] \in W[s \ {pick[s]}]
    BY <1>12, <2>1 DEF FoldsTo
  <2>3. g[pick[s]][f[s \ {pick[s]}]] = op(pick[s], f[s \ {pick[s]}])
    BY <1>11, <2>2
  <2>. QED BY <2>1, <2>3
<1>15. f = [s \in SUBSET S |-> IF s = {} THEN base ELSE op(Max(s), f[s \ {Max(s)}])]
  BY <1>13, <1>14
<1>16. IsFold(fold)
  BY <1>15
<1> HIDE DEF fold
<1>17. fold[{}] = base /\ \A s \in (SUBSET S) \ {{}} : fold[s] = op(Max(s), fold[s \ {Max(s)}])
  BY <1>16
<1> HIDE DEF IsFold
<1>18. fold[{}] \in W[{}]
  BY <1>10, <1>17
<1>19. \A s \in (SUBSET S) \ {{}} : fold[s \ {pick[s]}] \in W[s \ {pick[s]}] => fold[s] \in W[s]
  <2> SUFFICES ASSUME NEW s \in (SUBSET S) \ {{}}, fold[s \ {pick[s]}] \in W[s \ {pick[s]}]
               PROVE  fold[s] \in W[s]
    OBVIOUS
  <2>1. op(pick[s], fold[s \ {pick[s]}]) \in W[s]
    BY <1>11
  <2>2. Max(s) = pick[s]
    BY <1>8
  <2>. QED BY <1>17, <2>1, <2>2
<1>20. fold[S] \in W[S]
  BY <1>3, <1>18, <1>19, FoldStays
<1>21. Round(fold[S], count, report, count)
  <2>1. S = 1 .. count /\ count \in 0 .. count
    BY <1>0 DEF S
  <2>. QED BY <1>7, <1>20, <2>1
<1>. QED BY <1>1, <1>21 DEF Round, base, seq

\* What has been announced is of the one report; it is inductive.
MailInv ==
    /\ mail.phase \in {"waiting", "told", "ignored", "crashed"}
    /\ \E count \in 0 .. MaxMails :
          /\ mail.reported \in Report(count)
          /\ Announced(mail.announced, mail.reported, count)
    /\ mail = [phase |-> mail.phase, reported |-> mail.reported, announced |-> mail.announced]

\* Nothing is announced before the report.
LEMMA MailInitInv == MailInit => MailInv
<1> SUFFICES ASSUME MailInit PROVE MailInv
  OBVIOUS
<1>1. mail.phase = "waiting" /\ mail.announced = <<>>
  BY DEF MailInit
<1>2. 0 \in 0 .. MaxMails
  BY MaxMailsType
<1>3. mail.reported = [froms |-> <<>>, tos |-> <<>>, subjects |-> <<>>, urls |-> <<>>]
  BY DEF MailInit
<1>4. <<>> \in {a \in [1 .. 0 -> 0 .. 0] : \A i \in 1 .. 0 : a[i] \in {0, i}}
  OBVIOUS
<1>5. mail.reported \in Report(0)
  BY <1>3, <1>4 DEF Report
<1>6. Announced(<<>>, mail.reported, 0)
  BY DEF Announced
<1>7. mail = [phase |-> mail.phase, reported |-> mail.reported, announced |-> mail.announced]
  BY DEF MailInit
<1>. QED BY <1>1, <1>2, <1>5, <1>6, <1>7 DEF MailInv

\* The one report is announced as the loop does, or not at all.
LEMMA MailNextInv == MailInv /\ [MailNext]_mail => MailInv'
<1> SUFFICES ASSUME MailInv, [MailNext]_mail PROVE MailInv'
  OBVIOUS
<1>1. CASE UNCHANGED mail
  BY <1>1 DEF MailInv
<1>2. ASSUME NEW count \in 0 .. MaxMails, NEW ignored \in BOOLEAN, NEW hasTos \in BOOLEAN,
             NEW report \in Report(count), NotifyEmails(count, report, ignored, hasTos)
      PROVE  MailInv'
  <2> DEFINE loop == FoldLeft(LAMBDA taken, i : Take(report, taken, count + 1 - i),
                              [mails |-> <<>>, at |-> 1, url |-> 1],
                              [i \in 1 .. count |-> i]).mails
  <2>1. Announced(loop, report, count)
    BY LoopAnnounces
  <2>2. \/ mail' = [mail EXCEPT !.phase = "ignored"]
        \/ mail' = [mail EXCEPT !.phase = "crashed"]
        \/ mail' = [mail EXCEPT !.phase = "told", !.reported = report, !.announced = loop]
    BY <1>2 DEF NotifyEmails
  <2> HIDE DEF loop
  <2>3. CASE mail' = [mail EXCEPT !.phase = "ignored"] \/ mail' = [mail EXCEPT !.phase = "crashed"]
    <3>1. /\ mail'.phase \in {"ignored", "crashed"}
          /\ mail'.reported = mail.reported /\ mail'.announced = mail.announced
          /\ mail' = [phase |-> mail'.phase, reported |-> mail'.reported, announced |-> mail'.announced]
      BY <2>3 DEF MailInv
    <3>. QED BY <3>1 DEF MailInv
  <2>4. CASE mail' = [mail EXCEPT !.phase = "told", !.reported = report, !.announced = loop]
    <3>1. /\ mail'.phase = "told" /\ mail'.reported = report /\ mail'.announced = loop
          /\ mail' = [phase |-> mail'.phase, reported |-> mail'.reported, announced |-> mail'.announced]
      BY <2>4 DEF MailInv
    <3>. QED BY <2>1, <3>1 DEF MailInv
  <2>. QED BY <2>2, <2>3, <2>4
<1>. QED BY <1>1, <1>2 DEF MailNext

\* What is known of the announced mails follows.
LEMMA MailInvSuffices == MailInv => MailTypeOK /\ MailsAreAnnounced
<1> SUFFICES ASSUME MailInv PROVE MailTypeOK /\ MailsAreAnnounced
  OBVIOUS
<1> DEFINE told == mail.announced
           reported == mail.reported
<1>1. PICK count \in 0 .. MaxMails : reported \in Report(count) /\ Announced(told, reported, count)
  BY DEF MailInv
<1>2. /\ told \in Seq(Wrapped) /\ Len(told) \in Nat /\ DOMAIN told = 1 .. Len(told)
      /\ count \in Nat
  BY <1>1, MaxMailsType DEF Announced
<1>3. MailTypeOK
  <2>1. reported \in UNION {Report(n) : n \in 0 .. MaxMails}
    BY <1>1
  <2>. QED BY <1>2, <2>1 DEF MailTypeOK, MailState, MailInv
<1>4. Len(reported.froms) = count
  <2>1. reported.froms \in [1 .. count -> 0 .. count]
    BY <1>1 DEF Report
  <2>. QED BY <1>2, <2>1
<1> HIDE DEF told, reported
<1>5. \A k \in DOMAIN told : /\ told[k].from = k /\ told[k].to = k /\ told[k].url \in 1 .. k
                             /\ k \in Nat
  <2>1. \A j \in 1 .. Len(told) : told[j].from = j /\ told[j].to = j /\ told[j].url \in 1 .. j
    BY <1>1 DEF Announced
  <2>. QED BY <1>2, <2>1
<1>6. \A k, l \in DOMAIN told : k < l => told[k].from < told[l].from
  BY <1>5
<1>7. Complete(reported) => Len(told) = count /\ \A k \in DOMAIN told : told[k].url = told[k].from
  <2>1. Complete(reported) => Len(told) = count /\ \A j \in 1 .. Len(told) : told[j].url = j
    BY <1>1 DEF Announced
  <2>. QED BY <1>2, <1>5, <2>1
<1>. QED BY <1>3, <1>4, <1>5, <1>6, <1>7 DEF MailsAreAnnounced, Complete, told, reported

\* Every report leaves the state of its type.
THEOREM MailTypeCorrect == MailSpec => []MailTypeOK
BY MailInitInv, MailNextInv, MailInvSuffices, PTL DEF MailSpec

\* The announced mails are mails that were reported, each at most once and in order,
\* and all of them when none lacks a part.
THEOREM MailsAreTrue == MailSpec => []MailsAreAnnounced
BY MailInitInv, MailNextInv, MailInvSuffices, PTL DEF MailSpec

-----------------------------------------------------------------------------
(* The three together *)

All == <<info, caps, mail>>

\* Each module makes its own steps in the main loop, or none.
LEMMA OwnSteps == [Next]_All => [InfoNext]_info /\ [CapsNext]_caps /\ [MailNext]_mail
BY DEF Next, All

\* What the run explores is behaviour of the whole.
THEOREM OneIsAllowed == OneAtATime => Spec
<1>1. [OneNext]_All => [Next]_All
  BY DEF OneNext, Next, All
<1>. QED BY <1>1, PTL DEF OneAtATime, Spec, All

\* Each module makes its own steps in the main loop, as if it were alone.
LEMMA TogetherAsAlone == Spec => InfoSpec /\ CapsSpec /\ MailSpec
<1>1. Init => InfoInit /\ CapsInit /\ MailInit
  BY DEF Init
<1>. QED BY <1>1, OwnSteps, PTL DEF Spec, All, InfoSpec, CapsSpec, MailSpec

\* In whatever order the events of the three come, nothing leaves its type.
THEOREM ContactDataTypeCorrect == Spec => []TypeOK
<1>1. InfoTypeOK /\ CapsTypeOK /\ MailTypeOK => TypeOK
  BY DEF TypeOK
<1>. QED BY <1>1, TogetherAsAlone, InfoTypeCorrect, CapsInvariance, CapsInvSuffices,
            MailTypeCorrect, PTL

\* In whatever order clients ask, the protocol reports and connections come and end, a
\* client that follows the signals believes of the contacts what it would be told if it
\* asked again.
THEOREM FollowersAreRight == Spec => []ContactsAreFollowed
<1>1. ClientsFollow /\ ContactCapsFollow => ContactsAreFollowed
  BY DEF ContactsAreFollowed
<1>. QED BY <1>1, TogetherAsAlone, InfoFollowed, CapsInvariance, CapsInvSuffices, PTL
=============================================================================
