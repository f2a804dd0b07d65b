---------------------------- MODULE HazeMediaStream ----------------------------
(***************************************************************************)
(* The streams of a call (src/src/media-backend.c, src/src/media-stream.c, *)
(* and what src/src/media-channel.c shows of their direction): one         *)
(* HazeMediaBackend per call, one HazeMediaStream per session of its       *)
(* PurpleMedia.                                                            *)
(*                                                                         *)
(* A stream stands between libpurple, which gives it the contact's codecs  *)
(* and candidates and takes ours, and a streaming client, which is told by *)
(* signals and answers by method calls.  The two sides do not wait for     *)
(* each other: what libpurple says before the client is ready is kept and  *)
(* passed on later, and of the codecs of a stream the contact made only    *)
(* the intersection with theirs is passed to libpurple.                    *)
(*                                                                         *)
(* Codecs and candidates are names; a list of codecs is the set of them,   *)
(* though the list libpurple gets may name one twice.  A client calls only *)
(* the streams it was told of.  STUN servers, relays and the connection    *)
(* state, which are passed through or only stored, are left out.           *)
(***************************************************************************)
EXTENDS Naturals, FiniteSets

CONSTANTS
    Codecs,
    Candidates,   \* ours and the contact's, by their foundation
    MaxStreams,   \* streams the call ever has
    MaxAtOnce,    \* streams it has at a time
    None

ASSUME BoundsType == {MaxStreams, MaxAtOnce} \subseteq Nat

VARIABLE ms   \* the backend and its streams, see BackendState

vars == ms

StreamIds == 1 .. MaxStreams

\* HazeMediaStream, with what the signals it emits have said so far
Stream ==
    [ created_locally       : BOOLEAN,
      sends                 : BOOLEAN,           \* its session type includes sending
      ready                 : BOOLEAN,
      awaiting_intersection : BOOLEAN,
      pending_local_send    : BOOLEAN,           \* in combined_direction
      local_hold            : BOOLEAN,
      codecs                : SUBSET Codecs,     \* ours, for libpurple
      remote_codecs         : SUBSET Codecs,
      local_candidates      : SUBSET Candidates,
      remote_candidates     : SUBSET Candidates,
      \* the streaming client was told
      announced             : Nat,               \* NewStreamHandler, how often
      told_codecs           : SUBSET Codecs,     \* the last SetRemoteCodecs
      told_candidates       : SUBSET Candidates, \* AddRemoteCandidate
      told_sending          : BOOLEAN,
      told_held             : BOOLEAN,
      \* the clients of the channel were told, by StreamDirectionChanged
      shown_pending         : BOOLEAN,
      \* libpurple has sent to the contact
      sent                  : SUBSET Codecs,
      pairs                 : SUBSET (Candidates \X Candidates),  \* active-candidate-pair
      \* history
      intersected           : SUBSET Codecs ]    \* given by the client as supported

ASSUME NoneIsNoStream == None \notin Stream

\* HazeMediaBackendPrivate
BackendState ==
    [ media          : BOOLEAN,                  \* the call has not ended
      ready          : BOOLEAN,
      next_stream_id : 1 .. MaxStreams + 1,
      streams        : [StreamIds -> Stream \union {None}] ]  \* by their id

Present == {id \in StreamIds : ms.streams[id] # None}

\* haze_media_stream_new and haze_media_stream_constructor; announced is how often
\* the stream was announced.  The channel shows its direction at once.
NewStream(local, sends, announced) ==
    [ created_locally |-> local, sends |-> sends, ready |-> FALSE,
      awaiting_intersection |-> ~local, pending_local_send |-> ~local, local_hold |-> FALSE,
      codecs |-> {}, remote_codecs |-> {}, local_candidates |-> {}, remote_candidates |-> {},
      announced |-> announced, told_codecs |-> {}, told_candidates |-> {},
      told_sending |-> FALSE, told_held |-> FALSE, shown_pending |-> ~local,
      sent |-> {}, pairs |-> {}, intersected |-> {} ]

-----------------------------------------------------------------------------
(* One stream *)

\* g_object_set of combined-direction: stream_direction_changed_cb follows.
SetPendingLocalSend(st, pending) ==
    [st EXCEPT !.pending_local_send = pending, !.shown_pending = pending]

\* Mutant: the new codecs replace those of before.
PassLocalCodecsAnew(st, codecs, read) ==
    [st EXCEPT !.codecs = codecs, !.sent = IF read = {} THEN @ ELSE read]

\* pass_local_codecs: the new codecs are added to those of before, one by one.  Each time
\* codecs-changed is emitted, and the protocol may send what it finds then: read are
\* those of the new codecs it found when it last did so, if it did.
PassLocalCodecs(st, codecs, read) ==
    [st EXCEPT !.codecs = @ \union codecs, !.sent = IF read = {} THEN @ ELSE st.codecs \union read]

\* pass_remote_codecs
PassRemoteCodecs(st) == [st EXCEPT !.told_codecs = st.remote_codecs]

\* pass_remote_candidates, all of them every time
PassRemoteCandidates(st) ==
    [st EXCEPT !.told_candidates = @ \union st.remote_candidates]

\* Mutant: the codecs of a stream the contact made go to libpurple at once.
OfferLocalCodecsToAll(st, codecs, read) == PassLocalCodecs(st, codecs, read)

\* haze_media_stream_set_local_codecs: a stream the contact made waits for the
\* intersection.
OfferLocalCodecs(st, codecs, read) ==
    IF st.created_locally THEN PassLocalCodecs(st, codecs, read) ELSE st

\* haze_media_stream_hold
Hold(st, hold) == [st EXCEPT !.told_held = hold]

\* The first call of Ready: a stream whose session sends starts to, and one that is
\* on hold says so.
BecomeReady(st) ==
    LET ready   == [st EXCEPT !.ready = TRUE]
        sending == [SetPendingLocalSend(ready, FALSE) EXCEPT !.told_sending = TRUE]
        begun   == IF st.sends THEN sending ELSE ready
    IN  IF st.local_hold THEN Hold(begun, TRUE) ELSE begun

\* Mutant: what came before the client was ready is not passed on.
ReadyForgetsCandidates(st, codecs, read) ==
    PassRemoteCodecs(OfferLocalCodecs(IF st.ready THEN st ELSE BecomeReady(st), codecs, read))

\* haze_media_stream_ready
Ready(st, codecs, read) ==
    PassRemoteCandidates(PassRemoteCodecs(
        OfferLocalCodecs(IF st.ready THEN st ELSE BecomeReady(st), codecs, read)))

\* haze_media_stream_supported_codecs: the first time answers the contact, and the
\* others are only advisory.
SupportedCodecs(st, codecs, read) ==
    IF st.awaiting_intersection
    THEN [PassLocalCodecs(st, codecs, read) EXCEPT !.awaiting_intersection = FALSE,
                                                   !.intersected = @ \union codecs]
    ELSE st

\* haze_media_stream_codecs_updated: an error before there are codecs, ignored
\* before the intersection
CodecsUpdated(st, codecs, read) ==
    IF st.codecs = {} \/ st.awaiting_intersection THEN st
    ELSE [PassLocalCodecs(st, codecs, read) EXCEPT !.intersected = @ \union codecs]

\* haze_media_stream_set_remote_codecs
SetRemoteCodecs(st, codecs) ==
    LET set == [st EXCEPT !.remote_codecs = codecs]
    IN  IF st.ready THEN PassRemoteCodecs(set) ELSE set

\* haze_media_stream_add_remote_candidates
AddRemoteCandidates(st, candidates) ==
    LET added == [st EXCEPT !.remote_candidates = @ \union candidates]
    IN  IF st.ready THEN PassRemoteCandidates(added) ELSE added

\* haze_media_stream_new_native_candidate
NewNativeCandidate(st, c) == [st EXCEPT !.local_candidates = @ \union {c}]

\* haze_media_stream_new_active_candidate_pair: a pair libpurple does not know of
\* is not mentioned.
NewActiveCandidatePair(st, l, r) ==
    IF l \in st.local_candidates /\ r \in st.remote_candidates
    THEN [st EXCEPT !.pairs = @ \union {<<l, r>>}]
    ELSE st

\* haze_media_backend_get_codecs
Send(st) == [st EXCEPT !.sent = st.codecs]

\* _emit_new_stream
Announce(st) == [st EXCEPT !.announced = st.announced + 1]

-----------------------------------------------------------------------------
(* Main-loop events: libpurple *)

\* Mutant: the stream is announced whether or not the client is ready.
AddStreamAnnounced(local, sends) ==
    LET id == ms.next_stream_id IN
    /\ ms.media /\ id <= MaxStreams /\ Cardinality(Present) < MaxAtOnce
    /\ ms' = [ms EXCEPT !.next_stream_id = id + 1,
                        !.streams[id] = NewStream(local, sends, 1)]

\* Mutant: the id is not used up.
AddStreamSameId(local, sends) ==
    LET id == ms.next_stream_id IN
    /\ ms.media /\ id <= MaxStreams /\ Cardinality(Present) < MaxAtOnce
    /\ ms' = [ms EXCEPT !.streams[id] = NewStream(local, sends, IF ms.ready THEN 1 ELSE 0)]

\* haze_media_backend_add_stream, and media_state_changed_cb of the channel
AddStream(local, sends) ==
    LET id == ms.next_stream_id IN
    /\ ms.media /\ id <= MaxStreams /\ Cardinality(Present) < MaxAtOnce
    /\ ms' = [ms EXCEPT !.next_stream_id = id + 1,
                        !.streams[id] = NewStream(local, sends, IF ms.ready THEN 1 ELSE 0)]

\* haze_backend_state_changed_cb
StreamEnds(id) ==
    /\ id \in Present
    /\ ms' = [ms EXCEPT !.streams[id] = None]

\* purple_media_end, whoever calls it: the streams end with the call.
MediaEnds ==
    /\ ms.media
    /\ ms' = [ms EXCEPT !.media = FALSE, !.streams = [id \in StreamIds |-> None]]

\* haze_media_backend_error: the call ends, and with it the list of streams whose
\* error was to be emitted.
BackendError == MediaEnds

\* haze_media_backend_set_remote_codecs
RemoteCodecs(id, codecs) ==
    /\ id \in Present
    /\ ms' = [ms EXCEPT !.streams[id] = SetRemoteCodecs(@, codecs)]

\* haze_media_backend_add_remote_candidates
RemoteCandidates(id, candidates) ==
    /\ id \in Present
    /\ ms' = [ms EXCEPT !.streams[id] = AddRemoteCandidates(@, candidates)]

\* The protocol asks haze_media_backend_codecs_ready, of one stream, and sends its
\* codecs.
SendCodecs(id) ==
    /\ id \in Present /\ ms.streams[id].codecs # {}
    /\ ms' = [ms EXCEPT !.streams[id] = Send(@)]

\* The same of all streams at once (a NULL session): each must have codecs.
SendAllCodecs ==
    /\ Present # {} /\ \A id \in Present : ms.streams[id].codecs # {}
    /\ ms' = [ms EXCEPT !.streams = [id \in StreamIds |->
                 IF id \in Present THEN Send(ms.streams[id]) ELSE ms.streams[id]]]

\* media_stream_info_cb, for a session the contact made
Accepted(id) ==
    /\ id \in Present /\ ~ms.streams[id].created_locally
    /\ ms' = [ms EXCEPT !.streams[id] = SetPendingLocalSend(@, FALSE)]

-----------------------------------------------------------------------------
(* Main-loop events: the streaming client *)

\* haze_media_backend_ready
MediaReady ==
    /\ ~ms.ready
    /\ ms' = [ms EXCEPT !.ready = TRUE,
                        !.streams = [id \in StreamIds |->
                            IF id \in Present THEN Announce(ms.streams[id])
                            ELSE ms.streams[id]]]

Known(id) == id \in Present /\ ms.streams[id].announced > 0

StreamReady(id, codecs, read) ==
    /\ Known(id)
    /\ ms' = [ms EXCEPT !.streams[id] = Ready(@, codecs, read)]

SetLocalCodecs(id, codecs, read) ==
    /\ Known(id)
    /\ ms' = [ms EXCEPT !.streams[id] = OfferLocalCodecs(@, codecs, read)]

Intersect(id, codecs, read) ==
    /\ Known(id)
    /\ ms' = [ms EXCEPT !.streams[id] = SupportedCodecs(@, codecs, read)]

UpdateCodecs(id, codecs, read) ==
    /\ Known(id)
    /\ ms' = [ms EXCEPT !.streams[id] = CodecsUpdated(@, codecs, read)]

NativeCandidate(id, c) ==
    /\ Known(id)
    /\ ms' = [ms EXCEPT !.streams[id] = NewNativeCandidate(@, c)]

ActivePair(id, l, r) ==
    /\ Known(id)
    /\ ms' = [ms EXCEPT !.streams[id] = NewActiveCandidatePair(@, l, r)]

\* haze_media_stream_hold_state, haze_media_stream_unhold_failure
HoldState(id, hold) ==
    /\ Known(id)
    /\ ms' = [ms EXCEPT !.streams[id].local_hold = hold]

-----------------------------------------------------------------------------
\* haze_media_backend_init
Init ==
    ms = [ media |-> TRUE, ready |-> FALSE, next_stream_id |-> 1,
           streams |-> [id \in StreamIds |-> None] ]

Next ==
    \/ MediaEnds \/ BackendError \/ MediaReady \/ SendAllCodecs
    \/ \E local, sends \in BOOLEAN : AddStream(local, sends)
    \/ \E id \in StreamIds :
          \/ StreamEnds(id) \/ SendCodecs(id) \/ Accepted(id)
          \/ \E codecs \in SUBSET Codecs :
                \/ RemoteCodecs(id, codecs)
                \/ \E read \in SUBSET codecs :
                      \/ StreamReady(id, codecs, read) \/ SetLocalCodecs(id, codecs, read)
                      \/ Intersect(id, codecs, read) \/ UpdateCodecs(id, codecs, read)
          \/ \E candidates \in SUBSET Candidates : RemoteCandidates(id, candidates)
          \/ \E l, r \in Candidates : NativeCandidate(id, l) \/ ActivePair(id, l, r)
          \/ \E hold \in BOOLEAN : HoldState(id, hold)

Spec == Init /\ [][Next]_vars

-----------------------------------------------------------------------------
(* Properties *)

\* The types of the fields; ids are not used twice, and nothing outlives the call.
TypeOK ==
    /\ ms \in BackendState
    /\ \A id \in Present : id < ms.next_stream_id
    /\ Present # {} => ms.media

\* A stream is announced by haze_media_backend_ready or haze_media_backend_add_stream,
\* whichever comes last: once, and not before the client is ready for it.
StreamsAnnouncedOnce ==
    \A id \in Present : ms.streams[id].announced = IF ms.ready THEN 1 ELSE 0

\* Whatever the order of Ready, codecs, candidates and acceptance: a client that is
\* ready has been told the contact's codecs of now and every candidate, the clients
\* of the channel see the direction the stream has, and a stream that was told to
\* send does not wait for leave to.
ClientsCatchUp ==
    \A id \in Present :
        LET st == ms.streams[id] IN
        /\ st.ready => /\ st.told_codecs = st.remote_codecs
                       /\ st.told_candidates = st.remote_candidates
        /\ ~st.ready => st.told_codecs = {} /\ st.told_candidates = {}
        /\ st.shown_pending = st.pending_local_send
        /\ st.told_sending => ~st.pending_local_send

\* A contact who made a stream is answered with codecs the client found in both
\* lists ("waiting for codec intersection"), never with all of ours; before there
\* is an intersection no codecs are sent.
AnswerIsAnIntersection ==
    \A id \in Present :
        LET st == ms.streams[id] IN
        ~st.created_locally => /\ st.sent \subseteq st.intersected
                               /\ st.awaiting_intersection => st.sent = {}

\* What was said of a stream and is still so
Onward(st, new) ==
    /\ new.created_locally = st.created_locally
    /\ st.sent \subseteq new.sent /\ st.pairs \subseteq new.pairs
    /\ st.told_candidates \subseteq new.told_candidates
    /\ st.told_sending => new.told_sending
    /\ new.shown_pending => st.shown_pending
    /\ new.awaiting_intersection => st.awaiting_intersection

\* What was said stays said, in whatever order the two sides talk: the contact is never
\* sent less than before, however often the client sets, intersects and updates its
\* codecs; a candidate the client was told of is not forgotten; a stream that was
\* accepted, or answered, does not wait for it again; and a stream that ended does not
\* come back under its id.
NothingIsTakenBack ==
    [][\A id \in StreamIds :
          /\ id \in Present /\ id \in Present' => Onward(ms.streams[id], ms'.streams[id])
          /\ id < ms.next_stream_id /\ id \notin Present => id \notin Present']_vars
=============================================================================
