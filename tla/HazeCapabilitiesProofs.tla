------------------------ MODULE HazeCapabilitiesProofs ------------------------
(***************************************************************************)
(* What HazeCapabilities promises, for any number of connections, clients, *)
(* and classes, and any number of clients named in a call.                 *)
(***************************************************************************)
EXTENDS HazeCapabilities, TLAPS

\* client_caps holds no more of a client than it declared in its last call.
HeldIsDeclared(s) ==
    \A conn \in Conns, client \in Clients :
        s.client_caps[conn][client] \subseteq s.declared[conn][client]

\* Clients that were told know what libpurple promises, and nobody is told of a
\* connection that is not there yet.
SelfIsKnown(s) ==
    \A conn \in Conns :
        /\ s.status[conn] = "new" => conn \in s.unaware
        /\ s.status[conn] = "connected" /\ conn \notin s.unaware => s.told_self[conn] = Rcc(s.ui)

ContactsAreKnown(s) ==
    \A conn \in Conns, h \in Handles : s.told[conn][h] = Rcc(s.contact[conn][h])

\* The inductive invariant
CapsGood(s) ==
    /\ s \in CapsState
    /\ s.ui \subseteq s.asked
    /\ HeldIsDeclared(s) /\ SelfIsKnown(s) /\ ContactsAreKnown(s)

CapsInv == CapsGood(caps)

-----------------------------------------------------------------------------
\* What clients are told is a set of media.
LEMMA RccType ==
    ASSUME NEW media \in SUBSET Media
    PROVE  Rcc(media) \in SUBSET Media
BY DEF Rcc, Media

\* The classes of a client are a sequence, so that reading one within its length
\* gives one of them; otherwise nothing is read.
LEMMA FlagsAreDeclared ==
    ASSUME NEW i \in Nat \ {0}, NEW rccs \in Classes
    PROVE  Flags(i, rccs) \subseteq UNION ToSet(rccs) /\ Flags(i, rccs) \subseteq Media
<1>1. PICK k \in 0 .. MaxClasses : rccs \in [1 .. k -> SUBSET Media]
    BY DEF Classes
<1>2. k \in Nat /\ Len(rccs) = k
    BY <1>1, MaxClassesType
<1>3. CASE rccs = <<>> \/ i > Len(rccs)
    BY <1>3 DEF Flags
<1>4. CASE ~(rccs = <<>> \/ i > Len(rccs))
    <2>1. Flags(i, rccs) = rccs[i] /\ i \in 1 .. k /\ DOMAIN rccs = 1 .. k
        BY <1>1, <1>2, <1>4 DEF Flags
    <2>2. rccs[i] \in ToSet(rccs) /\ rccs[i] \subseteq Media
        BY <1>1, <2>1 DEF ToSet
    <2> QED BY <2>1, <2>2
<1> QED BY <1>3, <1>4

\* What a declaration holds, by the place in the call
LEMMA DeclarationType ==
    ASSUME NEW d \in Declarations, NEW i \in DOMAIN d
    PROVE  i \in Nat \ {0} /\ d[i].client \in Clients /\ d[i].rccs \in Classes
<1>1. PICK k \in 0 .. MaxNamed : d \in [1 .. k -> [client : Clients, rccs : Classes]]
    BY DEF Declarations
<1> QED BY <1>1, MaxNamedType

\* The loop of haze_connection_update_capabilities holds no more of a client than it
\* has said, if it did so before.
LEMMA ClientCapsAreDeclared ==
    ASSUME NEW held \in [Clients -> SUBSET Media], NEW declared \in [Clients -> SUBSET Media],
           \A client \in Clients : held[client] \subseteq declared[client],
           NEW d \in Declarations
    PROVE  /\ ClientCaps(held, d) \in [Clients -> SUBSET Media]
           /\ Meant(declared, d) \in [Clients -> SUBSET Media]
           /\ \A client \in Clients : ClientCaps(held, d)[client] \subseteq Meant(declared, d)[client]
<1>1. ASSUME NEW client \in Clients
      PROVE  /\ ClientCaps(held, d)[client] \subseteq Media
             /\ Meant(declared, d)[client] \subseteq Media
             /\ ClientCaps(held, d)[client] \subseteq Meant(declared, d)[client]
    <2> DEFINE said == LastSaid(d, client)
    <2>1. CASE said = {}
        <3>1. ClientCaps(held, d)[client] = held[client] /\ Meant(declared, d)[client] = declared[client]
            BY <2>1 DEF ClientCaps, Meant
        <3> QED BY <3>1
    <2>2. CASE said # {}
        <3>1. ClientCaps(held, d)[client] = UNION {Flags(i, d[i].rccs) : i \in said}
            BY <2>2 DEF ClientCaps
        <3>2. Meant(declared, d)[client] = UNION {UNION ToSet(d[i].rccs) : i \in said}
            BY <2>2 DEF Meant
        <3>3. \A i \in said : i \in DOMAIN d
            BY DEF LastSaid
        <3> HIDE DEF said
        <3>4. \A i \in said : /\ Flags(i, d[i].rccs) \subseteq Media
                              /\ Flags(i, d[i].rccs) \subseteq UNION ToSet(d[i].rccs)
            BY <3>3, DeclarationType, FlagsAreDeclared
        <3>5. \A i \in said : UNION ToSet(d[i].rccs) \subseteq Media
            <4> SUFFICES ASSUME NEW i \in said PROVE UNION ToSet(d[i].rccs) \subseteq Media
                OBVIOUS
            <4>1. PICK k \in 0 .. MaxClasses : d[i].rccs \in [1 .. k -> SUBSET Media]
                BY <3>3, DeclarationType DEF Classes
            <4> QED BY <4>1 DEF ToSet
        <3> QED BY <3>1, <3>2, <3>4, <3>5
    <2> QED BY <2>1, <2>2
<1>2. /\ ClientCaps(held, d) = [client \in Clients |-> ClientCaps(held, d)[client]]
      /\ Meant(declared, d) = [client \in Clients |-> Meant(declared, d)[client]]
    BY DEF ClientCaps, Meant
<1> QED BY <1>1, <1>2

-----------------------------------------------------------------------------
(* The steps *)

\* Before anything was declared nothing is promised.
LEMMA CapsInitInv == CapsInit => CapsInv
BY DEF CapsInit, CapsInv, CapsGood, CapsState, HeldIsDeclared, SelfIsKnown, ContactsAreKnown, Rcc

\* The set changes to something that was asked for, and with it what was held of the
\* connection's clients: they are told what is promised now, and the clients of the other
\* connections know less only when it changed.
LEMMA SetUiCapsGood ==
    ASSUME NEW s, CapsGood(s), NEW conn \in Conns, s.status[conn] = "connected",
           NEW held \in [Clients -> SUBSET Media], NEW declared \in [Clients -> SUBSET Media],
           \A client \in Clients : held[client] \subseteq declared[client],
           NEW asked \in SUBSET Media, NEW new \in SUBSET asked, NEW t,
           t = SetUiCaps([s EXCEPT !.client_caps[conn] = held, !.declared[conn] = declared,
                                   !.asked = asked], conn, new)
    PROVE  CapsGood(t)
<1>1. s \in CapsState /\ Rcc(new) \in SUBSET Media
    BY RccType DEF CapsGood
<1>2. /\ t \in CapsState /\ t.ui = new /\ t.asked = asked
      /\ t.client_caps = [s.client_caps EXCEPT ![conn] = held]
      /\ t.declared = [s.declared EXCEPT ![conn] = declared]
      /\ t.status = s.status /\ t.told = s.told /\ t.contact = s.contact
      /\ t.told_self = [s.told_self EXCEPT ![conn] = IF new = s.ui THEN @ ELSE Rcc(new)]
      /\ t.unaware = IF new = s.ui THEN s.unaware ELSE Conns \ {conn}
    BY <1>1 DEF SetUiCaps, CapsState
<1>3. /\ s.client_caps \in [Conns -> [Clients -> SUBSET Media]]
      /\ s.declared \in [Conns -> [Clients -> SUBSET Media]]
      /\ s.told_self \in [Conns -> SUBSET Media]
    BY <1>1 DEF CapsState
<1>4. HeldIsDeclared(t)
    <2>1. \A c \in Conns, client \in Clients : s.client_caps[c][client] \subseteq s.declared[c][client]
        BY DEF CapsGood, HeldIsDeclared
    <2>2. ASSUME NEW c \in Conns, NEW client \in Clients
          PROVE  t.client_caps[c][client] \subseteq t.declared[c][client]
        <3>1. CASE c = conn
            BY <1>2, <1>3, <3>1
        <3>2. CASE c # conn
            BY <1>2, <1>3, <2>1, <3>2
        <3> QED BY <3>1, <3>2
    <2> QED BY <2>2 DEF HeldIsDeclared
<1>5. SelfIsKnown(t)
    <2>1. \A c \in Conns :
             /\ s.status[c] = "new" => c \in s.unaware
             /\ s.status[c] = "connected" /\ c \notin s.unaware => s.told_self[c] = Rcc(s.ui)
        BY DEF CapsGood, SelfIsKnown
    <2>2. CASE new = s.ui
        <3>1. t.told_self = s.told_self /\ t.unaware = s.unaware
            BY <1>2, <1>3, <2>2
        <3> QED BY <1>2, <2>1, <2>2, <3>1 DEF SelfIsKnown
    <2>3. CASE new # s.ui
        BY <1>2, <1>3, <2>3 DEF SelfIsKnown
    <2> QED BY <2>2, <2>3
<1>6. ContactsAreKnown(t)
    BY <1>2 DEF CapsGood, ContactsAreKnown
<1> QED BY <1>2, <1>4, <1>5, <1>6 DEF CapsGood

\* Advertised capabilities are promised whatever the clients declared.
LEMMA AdvertiseInv ==
    ASSUME CapsInv, NEW conn \in Conns, NEW add \in SUBSET Media, NEW remove \in BOOLEAN,
           AdvertiseCapabilities(conn, add, remove)
    PROVE  CapsInv'
<1> DEFINE new   == IF remove THEN {} ELSE caps.ui \union add
           asked == IF remove THEN {} ELSE caps.asked \union add
           held     == caps.client_caps[conn]
           declared == caps.declared[conn]
<1>1. /\ caps \in CapsState /\ caps.ui \subseteq caps.asked /\ caps.status[conn] = "connected"
      /\ caps' = SetUiCaps([caps EXCEPT !.asked = asked], conn, new)
      /\ \A client \in Clients : held[client] \subseteq declared[client]
    BY DEF AdvertiseCapabilities, MayCall, CapsInv, CapsGood, HeldIsDeclared
<1>2. /\ asked \in SUBSET Media /\ new \in SUBSET asked
      /\ held \in [Clients -> SUBSET Media] /\ declared \in [Clients -> SUBSET Media]
    BY <1>1 DEF CapsState
<1>3. [caps EXCEPT !.asked = asked]
        = [caps EXCEPT !.client_caps[conn] = held, !.declared[conn] = declared, !.asked = asked]
    <2> HIDE DEF asked
    <2> QED BY <1>1 DEF CapsState
<1> HIDE DEF new, asked, held, declared
<1>4. caps' = SetUiCaps([caps EXCEPT !.client_caps[conn] = held, !.declared[conn] = declared,
                                    !.asked = asked], conn, new)
    BY <1>1, <1>3
<1> QED BY <1>1, <1>2, <1>4, SetUiCapsGood DEF CapsInv

\* What is promised after a call is the union of what the connection's clients hold,
\* each of whom has declared it.
LEMMA UpdateInv ==
    ASSUME CapsInv, NEW conn \in Conns, NEW d \in Declarations, UpdateCapabilities(conn, d)
    PROVE  CapsInv'
<1> DEFINE held     == ClientCaps(caps.client_caps[conn], d)
           declared == Meant(caps.declared[conn], d)
<1>1. /\ caps \in CapsState /\ caps.status[conn] = "connected"
      /\ caps.client_caps[conn] \in [Clients -> SUBSET Media]
      /\ caps.declared[conn] \in [Clients -> SUBSET Media]
      /\ \A client \in Clients : caps.client_caps[conn][client] \subseteq caps.declared[conn][client]
    BY DEF UpdateCapabilities, MayCall, CapsInv, CapsGood, HeldIsDeclared, CapsState
<1>2. CASE caps' = [caps EXCEPT !.phase = "crashed"]
    BY <1>1, <1>2 DEF CapsInv, CapsGood, CapsState, HeldIsDeclared, SelfIsKnown, ContactsAreKnown
<1>3. CASE caps' = SetUiCaps([caps EXCEPT !.client_caps[conn] = held, !.declared[conn] = declared,
                                         !.asked = AllOf(declared)], conn, AllOf(held))
    <2>1. /\ held \in [Clients -> SUBSET Media] /\ declared \in [Clients -> SUBSET Media]
          /\ \A client \in Clients : held[client] \subseteq declared[client]
        BY <1>1, ClientCapsAreDeclared
    <2> HIDE DEF held, declared
    <2>2. AllOf(declared) \in SUBSET Media /\ AllOf(held) \in SUBSET AllOf(declared)
        BY <2>1 DEF AllOf
    <2> QED BY <1>1, <1>3, <2>1, <2>2, SetUiCapsGood DEF CapsInv
<1> QED BY <1>2, <1>3 DEF UpdateCapabilities

\* A client that asks is told what libpurple promises.
LEMMA GetContactCapabilitiesInv ==
    ASSUME CapsInv, NEW conn \in Conns, GetContactCapabilities(conn)
    PROVE  CapsInv'
<1> DEFINE say == [h \in Handles |-> Rcc(caps.contact[conn][h])]
<1>1. /\ caps \in CapsState /\ caps.status[conn] = "connected"
      /\ caps' = [caps EXCEPT !.told_self[conn] = Rcc(caps.ui), !.told[conn] = say,
                              !.unaware = @ \ {conn}]
    BY DEF GetContactCapabilities, MayCall, CapsInv, CapsGood
<1>2. /\ caps.ui \in SUBSET Media /\ caps.contact[conn] \in [Handles -> SUBSET Media]
      /\ caps.told_self \in [Conns -> SUBSET Media]
      /\ caps.told \in [Conns -> [Handles -> SUBSET Media]]
    BY <1>1 DEF CapsState
<1>3. Rcc(caps.ui) \in SUBSET Media /\ say \in [Handles -> SUBSET Media]
    BY <1>2, RccType
<1>4. \A h \in Handles : say[h] = Rcc(caps.contact[conn][h])
    OBVIOUS
<1> HIDE DEF say
<1>5. /\ caps' \in CapsState
      /\ caps'.told_self = [caps.told_self EXCEPT ![conn] = Rcc(caps.ui)]
      /\ caps'.told = [caps.told EXCEPT ![conn] = say]
      /\ caps'.unaware = caps.unaware \ {conn}
      /\ caps'.ui = caps.ui /\ caps'.asked = caps.asked /\ caps'.status = caps.status
      /\ caps'.client_caps = caps.client_caps /\ caps'.declared = caps.declared
      /\ caps'.contact = caps.contact
    BY <1>1, <1>3 DEF CapsState
<1>6. SelfIsKnown(caps')
    <2>1. SelfIsKnown(caps)
        BY DEF CapsInv, CapsGood
    <2> QED BY <1>1, <1>2, <1>5, <2>1 DEF SelfIsKnown
<1>7. ContactsAreKnown(caps')
    <2>1. ContactsAreKnown(caps)
        BY DEF CapsInv, CapsGood
    <2> QED BY <1>2, <1>4, <1>5, <2>1 DEF ContactsAreKnown
<1> QED BY <1>5, <1>6, <1>7 DEF CapsInv, CapsGood, HeldIsDeclared

\* A change of a contact's capabilities is told unless nothing changed.
LEMMA ContactCapsChangeInv ==
    ASSUME CapsInv, NEW conn \in Conns, NEW h \in Handles, NEW new \in SUBSET Media,
           ContactCapsChange(conn, h, new)
    PROVE  CapsInv'
<1> DEFINE say == IF new = caps.contact[conn][h] THEN caps.told[conn][h] ELSE Rcc(new)
<1>1. /\ caps \in CapsState /\ ContactsAreKnown(caps)
      /\ caps' = [caps EXCEPT !.contact[conn][h] = new, !.told[conn][h] = say]
    BY DEF ContactCapsChange, CapsInv, CapsGood
<1>2. say = Rcc(new) /\ Rcc(new) \in SUBSET Media
    BY <1>1, RccType DEF ContactsAreKnown
<1> HIDE DEF say
<1>3. /\ caps.contact \in [Conns -> [Handles -> SUBSET Media]]
      /\ caps.told \in [Conns -> [Handles -> SUBSET Media]]
    BY <1>1 DEF CapsState
<1>4. /\ caps' \in CapsState
      /\ caps'.contact = [caps.contact EXCEPT ![conn][h] = new]
      /\ caps'.told = [caps.told EXCEPT ![conn][h] = say]
      /\ caps'.told_self = caps.told_self /\ caps'.unaware = caps.unaware
      /\ caps'.ui = caps.ui /\ caps'.asked = caps.asked /\ caps'.status = caps.status
      /\ caps'.client_caps = caps.client_caps /\ caps'.declared = caps.declared
    BY <1>1, <1>2 DEF CapsState
<1>5. ContactsAreKnown(caps')
    BY <1>1, <1>2, <1>3, <1>4 DEF ContactsAreKnown
<1> QED BY <1>4, <1>5 DEF CapsInv, CapsGood, HeldIsDeclared, SelfIsKnown

\* A connection that comes has told nobody anything.
LEMMA ConnComesInv ==
    ASSUME CapsInv, NEW conn \in Conns, ConnComes(conn)
    PROVE  CapsInv'
<1>1. /\ caps \in CapsState /\ caps.status[conn] = "new"
      /\ caps' = [caps EXCEPT !.status[conn] = "connected"]
      /\ caps.status \in [Conns -> {"new", "connected", "ended"}]
    BY DEF ConnComes, CapsInv, CapsGood, CapsState
<1>2. /\ caps' \in CapsState
      /\ caps'.status = [caps.status EXCEPT ![conn] = "connected"]
      /\ caps'.contact = caps.contact /\ caps'.told = caps.told
      /\ caps'.told_self = caps.told_self /\ caps'.unaware = caps.unaware
      /\ caps'.ui = caps.ui /\ caps'.asked = caps.asked
      /\ caps'.client_caps = caps.client_caps /\ caps'.declared = caps.declared
    BY <1>1 DEF CapsState
<1> QED BY <1>1, <1>2 DEF CapsInv, CapsGood, HeldIsDeclared, SelfIsKnown, ContactsAreKnown

\* A connection that ends takes its table with it, and libpurple keeps what was asked for.
LEMMA ConnEndsInv ==
    ASSUME CapsInv, NEW conn \in Conns, ConnEnds(conn)
    PROVE  CapsInv'
<1> DEFINE nothing == [client \in Clients |-> {}]
           nobody  == [h \in Handles |-> {}]
<1>1. /\ caps \in CapsState
      /\ caps' = [caps EXCEPT !.status[conn] = "ended", !.client_caps[conn] = nothing,
                              !.declared[conn] = nothing, !.contact[conn] = nobody,
                              !.told[conn] = nobody, !.told_self[conn] = {}]
    BY DEF ConnEnds, CapsInv, CapsGood
<1>2. nothing \in [Clients -> SUBSET Media] /\ \A client \in Clients : nothing[client] = {}
    OBVIOUS
<1>3. nobody \in [Handles -> SUBSET Media] /\ \A h \in Handles : nobody[h] = Rcc(nobody[h])
    BY DEF Rcc
<1> HIDE DEF nothing, nobody
<1>4. /\ caps' \in CapsState
      /\ caps'.status = [caps.status EXCEPT ![conn] = "ended"]
      /\ caps'.client_caps = [caps.client_caps EXCEPT ![conn] = nothing]
      /\ caps'.declared = [caps.declared EXCEPT ![conn] = nothing]
      /\ caps'.contact = [caps.contact EXCEPT ![conn] = nobody]
      /\ caps'.told = [caps.told EXCEPT ![conn] = nobody]
      /\ caps'.told_self = [caps.told_self EXCEPT ![conn] = {}]
      /\ caps'.ui = caps.ui /\ caps'.asked = caps.asked /\ caps'.unaware = caps.unaware
    BY <1>1, <1>2, <1>3 DEF CapsState
<1>5. /\ caps.status \in [Conns -> {"new", "connected", "ended"}]
      /\ caps.client_caps \in [Conns -> [Clients -> SUBSET Media]]
      /\ caps.declared \in [Conns -> [Clients -> SUBSET Media]]
      /\ caps.contact \in [Conns -> [Handles -> SUBSET Media]]
      /\ caps.told \in [Conns -> [Handles -> SUBSET Media]]
      /\ caps.told_self \in [Conns -> SUBSET Media]
    BY <1>1 DEF CapsState
<1>6. caps.ui \subseteq caps.asked /\ HeldIsDeclared(caps) /\ SelfIsKnown(caps) /\ ContactsAreKnown(caps)
    BY DEF CapsInv, CapsGood
<1>7. HeldIsDeclared(caps')
    BY <1>2, <1>4, <1>5, <1>6 DEF HeldIsDeclared
<1>8. SelfIsKnown(caps')
    BY <1>4, <1>5, <1>6 DEF SelfIsKnown
<1>9. ContactsAreKnown(caps')
    BY <1>3, <1>4, <1>5, <1>6 DEF ContactsAreKnown
<1> QED BY <1>4, <1>6, <1>7, <1>8, <1>9 DEF CapsInv, CapsGood

\* The invariant holds in every reachable state.
LEMMA CapsInvariance == CapsSpec => []CapsInv
<1>1. CapsInv /\ [CapsNext]_caps => CapsInv'
    <2> SUFFICES ASSUME CapsInv, [CapsNext]_caps PROVE CapsInv'
        OBVIOUS
    <2>1. CASE CapsNext
        BY <2>1, ConnComesInv, ConnEndsInv, AdvertiseInv, UpdateInv,
           GetContactCapabilitiesInv, ContactCapsChangeInv DEF CapsNext
    <2>2. CASE UNCHANGED caps
        BY <2>2 DEF CapsInv
    <2> QED BY <2>1, <2>2
<1> QED BY CapsInitInv, <1>1, PTL DEF CapsSpec

\* The invariant says what the properties ask.
LEMMA CapsInvSuffices == CapsInv => CapsTypeOK /\ CapsAreDeclared /\ ContactCapsFollow
BY DEF CapsInv, CapsGood, CapsTypeOK, CapsAreDeclared, ContactCapsFollow, SelfIsKnown,
       ContactsAreKnown

\* libpurple promises contacts only what the clients of the connection that updated its
\* set last still handle, or what was advertised since, and clients know what is promised
\* unless another connection changed it, however calls of connections that come and end
\* interleave.
THEOREM PromisesAreDeclared == CapsSpec => []CapsAreDeclared
BY CapsInvariance, CapsInvSuffices, PTL
=============================================================================
