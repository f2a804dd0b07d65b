-------------------------- MODULE HazeCapabilities --------------------------
(***************************************************************************)
(* What we and the contacts can do (src/src/connection-capabilities.c).    *)
(*                                                                         *)
(* The clients of a connection say which calls they handle, the            *)
(* connection keeps that by client, and the union goes to libpurple, which *)
(* has one set of capabilities for the whole process: all connections      *)
(* write it and read it, and it outlives them.  Clients see it as the      *)
(* capabilities of self.                                                   *)
(*                                                                         *)
(* A requestable channel class is the set of media it asks for, {} if it   *)
(* is not a class of calls.  Text, which everybody is assumed to handle,   *)
(* is left out, and so are the flags of the older Capabilities interface,  *)
(* which for self are libpurple's bits taken for Telepathy's.              *)
(*                                                                         *)
(* Where the code reads past the end of an array, the process crashes or   *)
(* finds no class there.                                                   *)
(***************************************************************************)
EXTENDS Naturals, Sequences, SequencesExt

CONSTANTS
    Conns,        \* connections of the process
    Handles,      \* of contacts
    Clients,      \* names of clients, on any connection
    MaxClasses,   \* requestable channel classes a client names
    MaxNamed      \* clients one call names

ASSUME MaxClassesType == MaxClasses \in Nat
ASSUME MaxNamedType == MaxNamed \in Nat

VARIABLE caps   \* see CapsState

Media == {"audio", "video"}

CapsState ==
    [ phase       : {"running", "crashed"},
      status      : [Conns -> {"new", "connected", "ended"}],
      ui          : SUBSET Media,                \* purple_media_manager_get_ui_caps
      client_caps : [Conns -> [Clients -> SUBSET Media]],   \* {}: no entry
      contact     : [Conns -> [Handles -> SUBSET Media]],  \* purple_prpl_get_media_caps
      \* ContactCapabilitiesChanged or GetContactCapabilities said last
      told_self   : [Conns -> SUBSET Media],
      told        : [Conns -> [Handles -> SUBSET Media]],
      \* history
      declared    : [Conns -> [Clients -> SUBSET Media]],   \* said last by UpdateCapabilities
      asked       : SUBSET Media,                \* what ui should be by what was said last
      unaware     : SUBSET Conns ]               \* not told since ui was written elsewhere

\* The classes of a client, and what one call of UpdateCapabilities says
Classes      == UNION {[1 .. k -> SUBSET Media] : k \in 0 .. MaxClasses}
Declarations == UNION {[1 .. k -> [client : Clients, rccs : Classes]] : k \in 0 .. MaxNamed}

CapsRunning    == caps.phase = "running"
MayCall(conn)  == CapsRunning /\ caps.status[conn] = "connected"

-----------------------------------------------------------------------------
(* Connections *)

ConnComes(conn) ==
    /\ CapsRunning /\ caps.status[conn] = "new"
    /\ caps' = [caps EXCEPT !.status[conn] = "connected"]

\* The connection is disconnected, and some time later finalized
\* (haze_connection_capabilities_finalize); nothing reads client_caps in between.
\* libpurple keeps its set, and nobody is told of that connection any more.
ConnEnds(conn) ==
    /\ CapsRunning /\ caps.status[conn] # "ended"
    /\ caps' = [caps EXCEPT !.status[conn] = "ended",
                            !.client_caps[conn] = [client \in Clients |-> {}],
                            !.declared[conn] = [client \in Clients |-> {}],
                            !.contact[conn] = [h \in Handles |-> {}],
                            !.told[conn] = [h \in Handles |-> {}],
                            !.told_self[conn] = {}]

-----------------------------------------------------------------------------
(* What clients are told *)

\* haze_connection_get_handle_contact_capabilities: a call with video is one with audio.
Rcc(media) == IF "video" \in media THEN media \union {"audio"} ELSE media

\* haze_connection_get_contact_capabilities, and the contact attributes
GetContactCapabilities(conn) ==
    /\ MayCall(conn)
    /\ caps' = [caps EXCEPT !.told_self[conn] = Rcc(caps.ui),
                            !.told[conn] = [h \in Handles |-> Rcc(caps.contact[conn][h])],
                            !.unaware = @ \ {conn}]

\* caps_changed_cb and _emit_capabilities_changed
ContactCapsChange(conn, h, new) ==
    /\ MayCall(conn)
    /\ caps' = [caps EXCEPT !.contact[conn][h] = new,
                            !.told[conn][h] = IF new = caps.contact[conn][h] THEN @ ELSE Rcc(new)]

\* purple_media_manager_set_ui_caps, and _emit_capabilities_changed for self: nothing
\* is said if libpurple had these capabilities already.
SetUiCaps(s, conn, new) ==
    [s EXCEPT !.ui = new,
              !.told_self[conn] = IF new = s.ui THEN @ ELSE Rcc(new),
              !.unaware = IF new = s.ui THEN @ ELSE Conns \ {conn}]

-----------------------------------------------------------------------------
(* What clients say *)

\* haze_connection_advertise_capabilities
AdvertiseCapabilities(conn, add, remove) ==
    /\ MayCall(conn)
    /\ caps' = SetUiCaps([caps EXCEPT !.asked = IF remove THEN {} ELSE @ \union add],
                         conn, IF remove THEN {} ELSE caps.ui \union add)

\* The places at which a call says something of a client: none, or the last of them,
\* which replaces what was said before.
LastSaid(declarations, client) ==
    {i \in DOMAIN declarations :
        /\ declarations[i].client = client
        /\ \A j \in DOMAIN declarations : declarations[j].client = client => j <= i}

\* The flags of the i-th client (counted from 1): the class at its own place in the
\* call is read as often as it has classes.
Flags(i, rccs) == IF rccs = <<>> \/ i > Len(rccs) THEN {} ELSE rccs[i]

\* Mutant: the entry of a client is not removed before it is looked at.
ClientCapsStay(held, declarations) ==
    [client \in Clients |->
        held[client] \union UNION {Flags(i, declarations[i].rccs) : i \in LastSaid(declarations, client)}]

\* The loop of haze_connection_update_capabilities: the clients that are named replace
\* what was held of them.
ClientCaps(held, declarations) ==
    [client \in Clients |->
        LET said == LastSaid(declarations, client)
        IN  IF said = {} THEN held[client]
            ELSE UNION {Flags(i, declarations[i].rccs) : i \in said}]

PastTheEnd(declarations) ==
    \E i \in DOMAIN declarations : declarations[i].rccs # <<>> /\ i > Len(declarations[i].rccs)

\* What the call means: all classes of a client count.
Meant(declared, declarations) ==
    [client \in Clients |->
        LET said == LastSaid(declarations, client)
        IN  IF said = {} THEN declared[client]
            ELSE UNION {UNION ToSet(declarations[i].rccs) : i \in said}]

AllOf(table) == UNION {table[client] : client \in Clients}

\* haze_connection_update_capabilities
UpdateCapabilities(conn, declarations) ==
    LET clients  == ClientCaps(caps.client_caps[conn], declarations)
        declared == Meant(caps.declared[conn], declarations)
    IN  /\ MayCall(conn)
        /\ \/ PastTheEnd(declarations) /\ caps' = [caps EXCEPT !.phase = "crashed"]
           \/ caps' = SetUiCaps([caps EXCEPT !.client_caps[conn] = clients,
                                             !.declared[conn] = declared,
                                             !.asked = AllOf(declared)],
                                conn, AllOf(clients))

-----------------------------------------------------------------------------
CapsInit ==
    caps = [ phase |-> "running", status |-> [conn \in Conns |-> "new"], ui |-> {},
             client_caps |-> [conn \in Conns |-> [client \in Clients |-> {}]],
             contact |-> [conn \in Conns |-> [h \in Handles |-> {}]],
             told_self |-> [conn \in Conns |-> {}],
             told |-> [conn \in Conns |-> [h \in Handles |-> {}]],
             declared |-> [conn \in Conns |-> [client \in Clients |-> {}]],
             asked |-> {}, unaware |-> Conns ]

CapsNext ==
    \E conn \in Conns :
        \/ ConnComes(conn) \/ ConnEnds(conn) \/ GetContactCapabilities(conn)
        \/ \E h \in Handles, new \in SUBSET Media : ContactCapsChange(conn, h, new)
        \/ \E add \in SUBSET Media, remove \in BOOLEAN : AdvertiseCapabilities(conn, add, remove)
        \/ \E d \in Declarations : UpdateCapabilities(conn, d)

CapsSpec == CapsInit /\ [][CapsNext]_caps

-----------------------------------------------------------------------------
(* Properties *)

CapsTypeOK == caps \in CapsState

\* libpurple promises the contacts nothing but what the clients of the connection that
\* updated its one set last say they handle now, or what was advertised since: not what a
\* client has withdrawn, nor what is left of a connection whose set has been replaced.
\* And a client that asked or was told knows what is promised, through signals alone,
\* unless another connection wrote the set since.
CapsAreDeclared ==
    CapsRunning =>
        /\ caps.ui \subseteq caps.asked
        /\ \A conn \in Conns \ caps.unaware :
              caps.status[conn] = "connected" => caps.told_self[conn] = Rcc(caps.ui)

\* Clients that follow the signals know what libpurple says of the contacts.
ContactCapsFollow ==
    CapsRunning =>
        \A conn \in Conns, h \in Handles :
            caps.status[conn] = "connected" => caps.told[conn][h] = Rcc(caps.contact[conn][h])
=============================================================================
