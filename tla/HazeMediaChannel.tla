--------------------------- MODULE HazeMediaChannel ---------------------------
(***************************************************************************)
(* Calls (src/src/media-channel.c, src/src/media-manager.c): one           *)
(* HazeMediaChannel per call, one HazeMediaManager per connection.         *)
(*                                                                         *)
(* A client asks for a channel, and for streams on a channel; the request  *)
(* is answered when libpurple has added a stream of every type asked for.  *)
(* To find the PurpleMedia of a call it dialled, a channel connects to     *)
(* init-media of libpurple's media manager, which every connection of the  *)
(* process shares and which also announces the calls of others.            *)
(*                                                                         *)
(* A channel holds the PurpleMedia, whose streams, acceptance and end come *)
(* from libpurple (external): a call has streams from the event that makes *)
(* it until it ends, and ends with its last one.  A request asks for a set *)
(* of types; how often it names a type, the states and directions of       *)
(* streams and the wording of errors are left out.                         *)
(*                                                                         *)
(* Where the code reads memory it has freed or never written, lucky says   *)
(* whether the process survives.                                           *)
(***************************************************************************)
EXTENDS Integers, FiniteSets, Sequences, FiniteSetsExt

CONSTANTS
    Conns,        \* connections, of one account each
    Contacts,     \* contact handles
    Requests,     \* D-Bus calls that wait for an answer
    MaxChannels,  \* channels at a time
    MaxCalls,     \* PurpleMedia objects at a time
    MaxStreams,   \* streams that the calls of a moment ever had
    None

Types == {"audio", "video"}

ASSUME BoundsType == {MaxChannels, MaxCalls, MaxStreams} \subseteq Nat \ {0}
ASSUME ConnsFinite == IsFiniteSet(Conns)

VARIABLE mc   \* the state of the calls, see MediaState

vars == mc

ChannelIds == 1 .. MaxChannels
CallIds    == 1 .. MaxCalls

\* HazeMediaChannelPrivate, and the channel's group
Channel ==
    [ conn    : Conns,
      peer    : Contacts,            \* initial_peer
      ours    : BOOLEAN,             \* creator is self_handle
      media   : CallIds \union {None},
      waiting : BOOLEAN,             \* init_media_cb is connected
      pending : SUBSET Requests,     \* pending_stream_requests
      members : SUBSET {"us", "them"},
      invited : BOOLEAN,             \* we are local pending
      shown   : BOOLEAN ]            \* announced by NewChannels

\* PurpleMedia and its HazeMediaBackend
Call ==
    [ conn     : Conns,
      peer     : Contacts,
      path     : ChannelIds \union {None},      \* the backend's object-path
      accepted : SUBSET {"us", "them"},
      streams  : Seq(Types \union {"ended"}) ]  \* by their id

\* PendingStreamRequest: which stream each entry got, 0 while it is NULL
Pending ==
    [ kind : {"channel", "streams"},   \* what its callbacks answer
      got  : [{"audio"} -> Nat] \union [{"video"} -> Nat] \union [Types -> Nat] ]

ASSUME NoneIsNothing ==
    None \notin Nat /\ None \notin Channel /\ None \notin Call /\ None \notin Pending

MediaState ==
    [ phase    : {"running", "aborted", "crashed"},
      up       : SUBSET Conns,         \* whose managers listen to init-media
      listed   : [Conns -> SUBSET ChannelIds],  \* HazeMediaManagerPrivate.channels, in any order
      chans    : [ChannelIds -> Channel \union {None}],
      calls    : [CallIds -> Call \union {None}],
      dials    : [Conns -> [Contacts -> SUBSET Types]],  \* what libpurple is dialling
      dangling : BOOLEAN,              \* init_media_cb of a channel that was freed
      reqs     : [Requests -> Pending \union {None}],
      \* history
      made     : SUBSET Requests,
      answers  : [Requests -> 0 .. 2],
      refused  : SUBSET Requests,      \* answered through the error label
      given_up : SUBSET Requests,      \* pending when a channel closed that had no media
      strays   : SUBSET (Conns \X Contacts) ]  \* dialled for no channel of theirs

Listed(s)       == {n \in ChannelIds : s.chans[n] # None}
Live(s)         == {c \in CallIds : s.calls[c] # None}
FreeChannels(s) == ChannelIds \ Listed(s)
FreeCalls(s)    == CallIds \ Live(s)

\* The process ends, and with it everything but what clients were told.
End(s, phase) ==
    [s EXCEPT !.phase = phase, !.up = {}, !.dangling = FALSE,
              !.listed = [conn \in Conns |-> {}],
              !.chans = [n \in ChannelIds |-> None], !.calls = [c \in CallIds |-> None],
              !.dials = [conn \in Conns |-> [h \in Contacts |-> {}]],
              !.reqs = [r \in Requests |-> None]]

Abort(s) == End(s, "aborted")
Crash(s) == End(s, "crashed")

\* What follows a read of memory that is not there
Survive(s, lucky) == IF lucky THEN s ELSE Crash(s)

StreamsOf(call) == {i \in DOMAIN call.streams : call.streams[i] # "ended"}

-----------------------------------------------------------------------------
(* Answers *)

Answer(s, rs) ==
    [s EXCEPT !.answers = [r \in Requests |-> IF r \in rs THEN @[r] + 1 ELSE @[r]],
              !.reqs    = [r \in Requests |-> IF r \in rs THEN None ELSE @[r]]]

\* Mutant: the channel is not announced when its streams are there.
SucceedUnannounced(s, n, rs) == Answer(s, rs)

\* succeeded_cb: a request for a channel is answered by announcing it.
Succeed(s, n, rs) ==
    [Answer(s, rs) EXCEPT
        !.chans[n].shown = @ \/ \E r \in rs : s.reqs[r].kind = "channel"]

\* Mutant: a request that is answered stays in the list.
SatisfyKeepsRequest(s, n, id, type, lucky) ==
    LET asked  == {r \in s.chans[n].pending : type \in DOMAIN s.reqs[r].got}
        filled == [s EXCEPT !.reqs = [r \in Requests |->
                      IF r \in asked THEN [s.reqs[r] EXCEPT !.got[type] = id] ELSE s.reqs[r]]]
    IN  Succeed(filled, n,
                {r \in asked : \A t \in DOMAIN filled.reqs[r].got : filled.reqs[r].got[t] # 0})

\* media_state_changed_cb for a stream of this type, and
\* pending_stream_request_maybe_satisfy: every request takes the stream; one that
\* has all of its streams is answered with them and freed.  The streams are
\* borrowed: those that ended since are freed memory.  A failed assertion ends the
\* process, so that what it had answered before of the same list is not kept.
Satisfy(s, n, id, type, lucky) ==
    LET asked  == {r \in s.chans[n].pending : type \in DOMAIN s.reqs[r].got}
        filled == [s EXCEPT !.reqs = [r \in Requests |->
                      IF r \in asked THEN [s.reqs[r] EXCEPT !.got[type] = id] ELSE s.reqs[r]]]
        done   == {r \in asked : 0 \notin {filled.reqs[r].got[t] : t \in DOMAIN filled.reqs[r].got}}
        freed  == \E r \in done : \E t \in DOMAIN filled.reqs[r].got :
                      filled.reqs[r].got[t] \notin StreamsOf(s.calls[s.chans[n].media])
        after  == Succeed([filled EXCEPT !.chans[n].pending = @ \ done], n, done)
    IN  IF \E r \in asked : s.reqs[r].got[type] # 0 THEN Abort(s)
        ELSE IF freed THEN Survive(after, lucky)
        ELSE after

-----------------------------------------------------------------------------
(* Channels *)

\* haze_media_channel_constructor: the creator is a member, and a call that comes in
\* (media is not None) invites us.
Constructed(conn, peer, media) ==
    [ conn |-> conn, peer |-> peer, ours |-> media = None, media |-> media,
      waiting |-> FALSE, pending |-> {},
      members |-> IF media = None THEN {"us"} ELSE {"them"},
      invited |-> media # None, shown |-> media # None ]

\* new_media_channel; a call that comes in is announced at once.
NewChannel(s, n, conn, peer, media) ==
    [s EXCEPT !.listed[conn] = @ \union {n}, !.chans[n] = Constructed(conn, peer, media)]

\* Mutant: the backend is not told the object path.
LatchSilently(s, n, c) ==
    [s EXCEPT !.chans[n].media = c, !.chans[n].waiting = FALSE]

\* _latch_to_session, whose object-path a backend takes only once; init_media_cb
\* then disconnects every handler the channel has.
Latch(s, n, c) ==
    IF s.phase # "running" THEN s
    ELSE IF s.calls[c].path # None THEN Abort(s)
    ELSE [s EXCEPT !.chans[n].media = c, !.chans[n].waiting = FALSE, !.calls[c].path = n]

\* Mutant: the manager keeps the channel in its list.
DropKeepsListed(s, n) ==
    [s EXCEPT !.chans[n] = None, !.dangling = @ \/ s.chans[n].waiting]

\* media_channel_closed_cb: the manager's was the last reference.  The handler of
\* init-media outlives the channel.
Drop(s, n) ==
    LET chan == s.chans[n]
    IN  [s EXCEPT !.chans[n] = None,
                  !.listed[chan.conn] = @ \ {n},
                  !.dangling = @ \/ chan.waiting]

\* Mutant: the requests that wait for streams are dropped with the call.
EndCallForgetsRequests(s, c) ==
    LET n == s.calls[c].path
        ended == [s EXCEPT !.calls[c] = None]
    IN  IF n = None THEN ended ELSE Drop(ended, n)

\* media_state_changed_cb for the end of the call: what was waiting for streams
\* fails, and the channel closes, if it is not what is ending the call.
EndCall(s, c) ==
    LET n == s.calls[c].path
        ended == [s EXCEPT !.calls[c] = None]
    IN  IF n = None THEN ended ELSE Drop(Answer(ended, s.chans[n].pending), n)

\* haze_media_channel_close, which hangs up; nobody answers the requests of a
\* channel that has no media yet.
CloseChannel(s, n) ==
    LET chan == s.chans[n]
    IN  IF chan.media # None THEN EndCall(s, chan.media)
        ELSE Drop([s EXCEPT
                      !.reqs     = [r \in Requests |-> IF r \in chan.pending THEN None ELSE @[r]],
                      !.given_up = @ \union chan.pending,
                      !.strays   = IF chan.waiting THEN @ \union {<<chan.conn, chan.peer>>}
                                                   ELSE @], n)

\* haze_media_manager_close_all, in any order: the channels share nothing
CloseAll(s, conn) == FoldSet(LAMBDA n, t : CloseChannel(t, n), s, s.listed[conn])

-----------------------------------------------------------------------------
(* What libpurple makes of a call *)

\* purple_media_add_stream: the backend knows the stream when the channel hears of it.
AddStream(s, c, type, lucky) ==
    LET call  == s.calls[c]
        added == [s EXCEPT !.calls[c].streams = Append(@, type)]
    IN  IF s.phase # "running" THEN s
        ELSE IF call.path = None THEN added
        ELSE Satisfy(added, call.path, Len(call.streams) + 1, type, lucky)

AddStreams(s, c, types, lucky) ==
    FoldSet(LAMBDA type, t : AddStream(t, c, type, lucky), s, types)

Room(s, types) ==
    FoldSet(LAMBDA c, sum : sum + Len(s.calls[c].streams), Cardinality(types), Live(s)) <= MaxStreams

RoomForCall(s, types) == FreeCalls(s) # {} /\ Room(s, types)

NewCall(s, c, conn, peer) ==
    [s EXCEPT !.calls[c] = [conn |-> conn, peer |-> peer, path |-> None,
                            accepted |-> {}, streams |-> <<>>]]

\* A handler of init-media whose channel was freed reads what is left of it.
RunDangling(s, lucky) == IF s.dangling THEN Survive(s, lucky) ELSE s

\* init_media_cb of media-channel.c, for every channel that listens
LatchWaiting(s, c, conn, peer) ==
    FoldSet(LAMBDA n, t : Latch(t, n, c), s,
            {n \in Listed(s) : /\ s.chans[n].waiting
                               /\ s.chans[n].conn = conn /\ s.chans[n].peer = peer})

\* init_media_cb of media-manager.c: the manager of every connection makes a channel.
AnnounceIncoming(s, c, conn, peer) ==
    LET n == CHOOSE free \in FreeChannels(s) : TRUE
    IN  IF s.phase # "running" THEN s ELSE Latch(NewChannel(s, n, conn, peer, c), n, c)

\* The init-media of a call we dialled, and its first streams
OutgoingMedia(s, conn, peer, types, lucky) ==
    LET c    == CHOOSE free \in FreeCalls(s) : TRUE
        made == NewCall([s EXCEPT !.dials[conn][peer] = {}], c, conn, peer)
    IN  AddStreams(RunDangling(LatchWaiting(made, c, conn, peer), lucky), c, types, lucky)

\* The init-media of a call that comes in, and its first streams
IncomingMedia(s, conn, peer, types, lucky) ==
    LET c    == CHOOSE free \in FreeCalls(s) : TRUE
        made == NewCall(s, c, conn, peer)
        told == FoldSet(LAMBDA k, t : AnnounceIncoming(t, c, k, peer), made, s.up)
    IN  AddStreams(RunDangling(LatchWaiting(told, c, conn, peer), lucky), c, types, lucky)

-----------------------------------------------------------------------------
(* Requests for streams *)

\* What purple_prpl_initiate_media may do: refuse, dial and make the call (or add
\* the streams) later, or do so before it returns.
Reactions == {"refuse", "later", "now"}

\* media_channel_request_streams, at its error label: freeing the request answers
\* it, and then it is answered again through what was freed.
Refuse(s, r, lucky) ==
    Survive([s EXCEPT !.answers[r] = @ + 2, !.refused = @ \union {r}], lucky)

\* The same when purple_prpl_initiate_media refused: error is NULL, and logged.
RefuseWithoutError(s, r) ==
    Crash([s EXCEPT !.answers[r] = @ + 1, !.refused = @ \union {r}])

\* pending_stream_request_new, in the list of the channel
Await(s, n, r, kind, types) ==
    [s EXCEPT !.reqs[r] = [kind |-> kind, got |-> [t \in types |-> 0]],
              !.chans[n].pending = @ \union {r}]

\* _haze_media_channel_request_contents on a channel without a call: whoever it
\* dials, it waits for a call with its own peer.
Dial(s, n, peer, types, reaction, lucky) ==
    LET chan    == s.chans[n]
        waiting == [s EXCEPT
                       !.chans[n].waiting = TRUE,
                       !.strays = IF peer = chan.peer THEN @ ELSE @ \union {<<chan.conn, peer>>}]
    IN  IF reaction = "later" THEN [waiting EXCEPT !.dials[chan.conn][peer] = @ \union types]
        ELSE OutgoingMedia(waiting, chan.conn, peer, types, lucky)

\* media_channel_request_streams and _haze_media_channel_request_contents.  The
\* test of the types a contact in a call is capable of is the wrong way round: what
\* the contact can do is refused.
RequestStreamsOn(s, n, r, kind, peer, types, caps, reaction, lucky) ==
    LET chan    == s.chans[n]
        inCall  == chan.media # None
        asked   == [s EXCEPT !.made = @ \union {r}]
        waiting == Await(asked, n, r, kind, types)
        refused == \/ ~ types \subseteq Types
                   \/ inCall /\ ("modify" \notin caps \/ types \subseteq caps)
    IN  IF types = {}
        THEN [Answer(asked, {r}) EXCEPT !.chans[n].shown = @ \/ kind = "channel"]
        ELSE IF inCall /\ peer # chan.peer THEN Answer(asked, {r})
        ELSE CASE refused                          -> Refuse(asked, r, lucky)
               [] ~refused /\ reaction = "refuse"  -> RefuseWithoutError(asked, r)
               [] ~refused /\ reaction # "refuse"  ->
                     IF ~inCall THEN Dial(waiting, n, peer, types, reaction, lucky)
                     ELSE IF reaction = "later" THEN waiting
                     ELSE AddStreams(waiting, chan.media, types, lucky)

-----------------------------------------------------------------------------
(* Main-loop events: D-Bus clients *)

Running == mc.phase = "running"

\* haze_media_manager_requestotron; EnsureChannel returns the oldest channel with
\* the contact, whether or not it was announced.
RequestChannel(r, conn, peer, ensure, types, reaction, lucky) ==
    LET found == \E n \in Listed(mc) : mc.chans[n].conn = conn /\ mc.chans[n].peer = peer
        n     == CHOOSE free \in FreeChannels(mc) : TRUE
    IN  /\ Running /\ conn \in mc.up /\ r \notin mc.made
        /\ \/ /\ ensure /\ found
              /\ mc' = Answer([mc EXCEPT !.made = @ \union {r}], {r})
           \/ /\ ~(ensure /\ found)
              /\ FreeChannels(mc) # {} /\ (reaction = "now" => RoomForCall(mc, types))
              /\ mc' = RequestStreamsOn(NewChannel(mc, n, conn, peer, None), n, r, "channel",
                                        peer, types, {}, reaction, lucky)

\* haze_media_channel_request_streams, for any contact
RequestStreams(r, n, peer, types, caps, reaction, lucky) ==
    /\ Running /\ n \in Listed(mc) /\ r \notin mc.made
    /\ mc.chans[n].media = None => caps = {}   \* nobody asks
    /\ reaction = "now" =>
          Room(mc, types) /\ (mc.chans[n].media = None => RoomForCall(mc, types))
    /\ mc' = RequestStreamsOn(mc, n, r, "streams", peer, types, caps, reaction, lucky)

\* The end of one stream: the backend drops it before the channel hears of it, and
\* a call ends with its last stream.
EndStream(s, c, id) ==
    LET ended == [s EXCEPT !.calls[c].streams[id] = "ended"]
    IN  IF StreamsOf(ended.calls[c]) = {} THEN EndCall(s, c) ELSE ended

\* haze_media_channel_remove_streams: without leave to modify the call the error is
\* written through a pointer that was never set, and without a call the streams are
\* read through one.
RemoveStreams(n, ids, caps, lucky) ==
    LET c == mc.chans[n].media IN
    /\ Running /\ n \in Listed(mc)
    /\ \/ /\ "modify" \notin caps \/ c = None
          /\ ids = {} /\ mc' = Survive(mc, lucky)  \* whatever they are
       \/ /\ "modify" \in caps /\ c # None
          /\ ids \subseteq StreamsOf(mc.calls[c])  \* otherwise refused
          /\ mc' = FoldSet(LAMBDA id, t : EndStream(t, c, id), mc, ids)

\* haze_media_channel_add_member, for ourselves; media_stream_info_cb adds us again
AcceptCall(n) ==
    LET c == mc.chans[n].media IN
    /\ Running /\ n \in Listed(mc) /\ c # None /\ mc.chans[n].invited
    /\ mc' = [mc EXCEPT !.calls[c].accepted = @ \union {"us"},
                        !.chans[n].members = @ \union {"us"},
                        !.chans[n].invited = FALSE]

\* haze_media_channel_remove_member, for ourselves; a reason that makes no sense is
\* refused during a call.
LeaveCall(n, makesSense) ==
    /\ Running /\ n \in Listed(mc)
    /\ mc.chans[n].media # None => makesSense
    /\ mc' = CloseChannel(mc, n)

Close(n) == Running /\ n \in Listed(mc) /\ mc' = CloseChannel(mc, n)

-----------------------------------------------------------------------------
(* Main-loop events: libpurple *)

DialledCallStarts(conn, peer, lucky) ==
    LET types == mc.dials[conn][peer] IN
    /\ Running /\ types # {} /\ RoomForCall(mc, types)
    /\ mc' = OutgoingMedia(mc, conn, peer, types, lucky)

\* The protocol tells the user, but not the channel.
DiallingFails(conn, peer) ==
    /\ Running /\ mc.dials[conn][peer] # {}
    /\ mc' = [mc EXCEPT !.dials[conn][peer] = {}]

CallComesIn(conn, peer, types, lucky) ==
    /\ Running /\ conn \in mc.up /\ types # {}
    /\ RoomForCall(mc, types) /\ Cardinality(FreeChannels(mc)) >= Cardinality(mc.up)
    /\ mc' = IncomingMedia(mc, conn, peer, types, lucky)

StreamComes(c, type, lucky) ==
    /\ Running /\ c \in Live(mc) /\ Room(mc, {type})
    /\ mc' = AddStream(mc, c, type, lucky)

StreamEnds(c, id) ==
    /\ Running /\ c \in Live(mc) /\ id \in StreamsOf(mc.calls[c])
    /\ mc' = EndStream(mc, c, id)

\* media_stream_info_cb, when the contact accepts the call
PeerAccepts(c) ==
    /\ Running /\ c \in Live(mc)
    /\ LET n == mc.calls[c].path
           accepted == [mc EXCEPT !.calls[c].accepted = @ \union {"them"}]
       IN  mc' = IF n = None THEN accepted
                 ELSE [accepted EXCEPT !.chans[n].members = @ \union {"them"}]

\* The contact hangs up or rejects the call, or it fails.
CallEnds(c) == Running /\ c \in Live(mc) /\ mc' = EndCall(mc, c)

\* connection_status_changed_cb; libpurple then ends what calls the account has left.
Disconnect(conn) ==
    LET closed == CloseAll([mc EXCEPT !.up = @ \ {conn}], conn)
        left   == {c \in Live(closed) : closed.calls[c].conn = conn}
    IN  /\ Running /\ conn \in mc.up
        /\ mc' = [FoldSet(LAMBDA c, t : EndCall(t, c), closed, left) EXCEPT
                     !.dials[conn] = [h \in Contacts |-> {}]]

-----------------------------------------------------------------------------
Init ==
    mc = [ phase |-> "running", up |-> Conns,
           listed |-> [conn \in Conns |-> {}],
           chans |-> [n \in ChannelIds |-> None], calls |-> [c \in CallIds |-> None],
           dials |-> [conn \in Conns |-> [h \in Contacts |-> {}]], dangling |-> FALSE,
           reqs |-> [r \in Requests |-> None],
           made |-> {}, answers |-> [r \in Requests |-> 0], refused |-> {},
           given_up |-> {}, strays |-> {} ]

\* What purple_prpl_get_media_caps may say, as far as it decides anything
Caps == {{}, {"modify"}, Types \union {"modify"}}

Next ==
    \/ \E conn \in Conns :
          \/ Disconnect(conn)
          \/ \E peer \in Contacts, lucky \in BOOLEAN :
                \/ DialledCallStarts(conn, peer, lucky) \/ DiallingFails(conn, peer)
                \/ \E types \in SUBSET Types :
                      \/ CallComesIn(conn, peer, types, lucky)
                      \/ \E r \in Requests, ensure \in BOOLEAN, reaction \in Reactions :
                            RequestChannel(r, conn, peer, ensure, types, reaction, lucky)
    \/ \E n \in ChannelIds :
          \/ AcceptCall(n) \/ Close(n)
          \/ \E makesSense \in BOOLEAN : LeaveCall(n, makesSense)
          \/ \E caps \in Caps, lucky \in BOOLEAN :
                \/ \E ids \in SUBSET (1 .. MaxStreams) : RemoveStreams(n, ids, caps, lucky)
                \/ \E r \in Requests, peer \in Contacts, reaction \in Reactions,
                      types \in SUBSET Types \union {{"invalid"}} :
                      RequestStreams(r, n, peer, types, caps, reaction, lucky)
    \/ \E c \in CallIds :
          \/ PeerAccepts(c) \/ CallEnds(c)
          \/ \E id \in 1 .. MaxStreams : StreamEnds(c, id)
          \/ \E type \in Types, lucky \in BOOLEAN : StreamComes(c, type, lucky)

Spec == Init /\ [][Next]_vars

-----------------------------------------------------------------------------
(* Properties *)

\* The types of the fields; the list of every manager is of its own channels.
TypeOK ==
    /\ mc \in MediaState
    /\ \A conn \in Conns :
          mc.listed[conn] = {n \in Listed(mc) : mc.chans[n].conn = conn}

\* pending_stream_requests is walked from three places: a request that is in a list
\* has not been answered, and none is answered twice, except through the error
\* label of media_channel_request_streams, which always does.
RequestsAreAnsweredOnce ==
    /\ \A r \in Requests : mc.answers[r] <= 1 \/ r \in mc.refused
    /\ Running => \A n \in Listed(mc) : \A r \in mc.chans[n].pending :
                      mc.answers[r] = 0 /\ mc.reqs[r] # None

\* A D-Bus call gets its answer, or waits on a channel that still is there, however
\* streams and calls come and go; except when the channel is closed before
\* libpurple has made the call.
NoRequestForgotten ==
    Running => \A r \in mc.made :
        \/ mc.answers[r] > 0 \/ r \in mc.given_up
        \/ \E n \in Listed(mc) : r \in mc.chans[n].pending

\* Every call of libpurple has the channel a client can end it with, and a channel
\* has a call that has not ended; but for the calls dialled for a channel that was
\* closed meanwhile, or to somebody who is not the channel's peer.
CallHasItsChannel ==
    Running =>
        /\ \A c \in Live(mc) :
              IF mc.calls[c].path = None
              THEN <<mc.calls[c].conn, mc.calls[c].peer>> \in mc.strays
              ELSE mc.calls[c].path \in Listed(mc)
        /\ \A n \in Listed(mc) : mc.chans[n].media # None =>
              /\ mc.chans[n].media \in Live(mc)
              /\ mc.calls[mc.chans[n].media].path = n

\* Clients know the channels, or one of them is about to be answered with it; and
\* the group of a call holds its creator and who accepted it, and invites us until
\* we do.
ChannelsTellTheTruth ==
    Running => \A n \in Listed(mc) :
        LET chan == mc.chans[n] IN
        /\ chan.shown \/ \E r \in chan.pending : mc.reqs[r].kind = "channel"
        /\ chan.media # None =>
              LET accepted == mc.calls[chan.media].accepted
              IN  /\ chan.members = accepted \union {IF chan.ours THEN "us" ELSE "them"}
                  /\ chan.invited <=> ~chan.ours /\ "us" \notin accepted

\* The assertions of the media code hold: a backend gets one object path
\* (media-backend.c:138), and an entry of a request one stream (media-channel.c:242).
AssertionsHold == mc.phase # "aborted"
=============================================================================
