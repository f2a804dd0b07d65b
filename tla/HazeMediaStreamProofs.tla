------------------------ MODULE HazeMediaStreamProofs ------------------------
(***************************************************************************)
(* The invariants of HazeMediaStream, for any number of streams, codecs    *)
(* and candidates.                                                         *)
(*                                                                         *)
(* Every event but the announcement of the streams changes one stream by   *)
(* an operation of media-stream.c, so that the proof has a lemma for each  *)
(* operation and one for putting its result back into the backend.         *)
(***************************************************************************)
EXTENDS HazeMediaStream, TLAPS

\* A client that is ready for a stream has caught up with it (ClientsCatchUp).
CaughtUp(st) ==
    /\ st.ready => /\ st.told_codecs = st.remote_codecs
                   /\ st.told_candidates = st.remote_candidates
    /\ ~st.ready => st.told_codecs = {} /\ st.told_candidates = {}
    /\ st.shown_pending = st.pending_local_send
    /\ st.told_sending => ~st.pending_local_send

\* AnswerIsAnIntersection, and what makes it inductive: it holds of the codecs that
\* are ready to be sent.
AnswersWell(st) ==
    ~st.created_locally => /\ st.codecs \subseteq st.intersected
                           /\ st.sent \subseteq st.intersected
                           /\ st.awaiting_intersection => st.codecs = {} /\ st.sent = {}

\* libpurple sends what is ready to be sent, and nothing is taken out of that.
StreamOK(st) ==
    st \in Stream /\ CaughtUp(st) /\ AnswersWell(st) /\ st.sent \subseteq st.codecs

\* The inductive invariant
IInv ==
    /\ TypeOK
    /\ StreamsAnnouncedOnce
    /\ \A id \in Present : StreamOK(ms.streams[id])

\* What NothingIsTakenBack says of a step
Steady ==
    \A id \in StreamIds :
        /\ id \in Present /\ id \in Present' => Onward(ms.streams[id], ms'.streams[id])
        /\ id < ms.next_stream_id /\ id \notin Present => id \notin Present'

-----------------------------------------------------------------------------
(* The operations on one stream; none takes back what was said of it, or changes *)
(* how often it was announced.                                                   *)

Keeps(st, new) == StreamOK(new) /\ new.announced = st.announced /\ Onward(st, new)

\* haze_media_stream_new makes a stream that satisfies the invariant.
LEMMA NewStreamOK ==
    ASSUME NEW local \in BOOLEAN, NEW sends \in BOOLEAN, NEW n \in Nat
    PROVE  StreamOK(NewStream(local, sends, n)) /\ NewStream(local, sends, n).announced = n
BY DEF NewStream, StreamOK, Stream, CaughtUp, AnswersWell

\* A change of direction is shown at once, and is only ever towards sending.
LEMMA AcceptedOK ==
    ASSUME NEW st, StreamOK(st)
    PROVE  Keeps(st, SetPendingLocalSend(st, FALSE))
BY DEF Keeps, Onward, SetPendingLocalSend, StreamOK, Stream, CaughtUp, AnswersWell

\* Our codecs are ready to be sent at once only on a stream we made.
LEMMA OfferLocalCodecsOK ==
    ASSUME NEW st, StreamOK(st), NEW codecs \in SUBSET Codecs, NEW read \in SUBSET codecs
    PROVE  Keeps(st, OfferLocalCodecs(st, codecs, read))
<1>1. CASE st.created_locally
    BY <1>1 DEF Keeps, Onward, OfferLocalCodecs, PassLocalCodecs, StreamOK, Stream, CaughtUp,
                AnswersWell
<1>2. CASE ~st.created_locally
    BY <1>2 DEF Keeps, Onward, OfferLocalCodecs, StreamOK
<1> QED BY <1>1, <1>2

\* The first intersection is what a stream of the contact is answered with.
LEMMA SupportedCodecsOK ==
    ASSUME NEW st, StreamOK(st), NEW codecs \in SUBSET Codecs, NEW read \in SUBSET codecs
    PROVE  Keeps(st, SupportedCodecs(st, codecs, read))
<1>1. CASE st.awaiting_intersection
    BY <1>1 DEF Keeps, Onward, SupportedCodecs, PassLocalCodecs, StreamOK, Stream, CaughtUp,
                AnswersWell
<1>2. CASE ~st.awaiting_intersection
    BY <1>2 DEF Keeps, Onward, SupportedCodecs, StreamOK
<1> QED BY <1>1, <1>2

\* An update counts only once there has been an intersection.
LEMMA CodecsUpdatedOK ==
    ASSUME NEW st, StreamOK(st), NEW codecs \in SUBSET Codecs, NEW read \in SUBSET codecs
    PROVE  Keeps(st, CodecsUpdated(st, codecs, read))
<1>1. CASE st.codecs = {} \/ st.awaiting_intersection
    BY <1>1 DEF Keeps, Onward, CodecsUpdated, StreamOK
<1>2. CASE ~(st.codecs = {} \/ st.awaiting_intersection)
    BY <1>2 DEF Keeps, Onward, CodecsUpdated, PassLocalCodecs, StreamOK, Stream, CaughtUp,
                AnswersWell
<1> QED BY <1>1, <1>2

\* The contact's codecs reach a client that is ready at once.
LEMMA SetRemoteCodecsOK ==
    ASSUME NEW st, StreamOK(st), NEW codecs \in SUBSET Codecs
    PROVE  Keeps(st, SetRemoteCodecs(st, codecs))
<1>1. CASE st.ready
    BY <1>1 DEF Keeps, Onward, SetRemoteCodecs, PassRemoteCodecs, StreamOK, Stream, CaughtUp,
                AnswersWell
<1>2. CASE ~st.ready
    BY <1>2 DEF Keeps, Onward, SetRemoteCodecs, StreamOK, Stream, CaughtUp, AnswersWell
<1> QED BY <1>1, <1>2

\* The contact's candidates reach a client that is ready at once.
LEMMA AddRemoteCandidatesOK ==
    ASSUME NEW st, StreamOK(st), NEW candidates \in SUBSET Candidates
    PROVE  Keeps(st, AddRemoteCandidates(st, candidates))
BY DEF Keeps, Onward, AddRemoteCandidates, PassRemoteCandidates, StreamOK, Stream,
       CaughtUp, AnswersWell

\* A candidate of ours concerns neither the client nor the codecs.
LEMMA NewNativeCandidateOK ==
    ASSUME NEW st, StreamOK(st), NEW c \in Candidates
    PROVE  Keeps(st, NewNativeCandidate(st, c))
BY DEF Keeps, Onward, NewNativeCandidate, StreamOK, Stream, CaughtUp, AnswersWell

\* Nor does a pair of candidates.
LEMMA NewActiveCandidatePairOK ==
    ASSUME NEW st, StreamOK(st), NEW l \in Candidates, NEW r \in Candidates
    PROVE  Keeps(st, NewActiveCandidatePair(st, l, r))
BY DEF Keeps, Onward, NewActiveCandidatePair, StreamOK, Stream, CaughtUp, AnswersWell

\* Nor does holding the stream.
LEMMA HoldStateOK ==
    ASSUME NEW st, StreamOK(st), NEW hold \in BOOLEAN
    PROVE  Keeps(st, [st EXCEPT !.local_hold = hold])
BY DEF Keeps, Onward, StreamOK, Stream, CaughtUp, AnswersWell

\* What is sent are codecs that were ready.
LEMMA SentOK ==
    ASSUME NEW st, StreamOK(st)
    PROVE  Keeps(st, Send(st))
BY DEF Keeps, Onward, Send, StreamOK, Stream, CaughtUp, AnswersWell

\* The first call of Ready starts the stream; whether the client has caught up is
\* for the rest of the call.
LEMMA BecomeReadyKeeps ==
    ASSUME NEW st, StreamOK(st), ~st.ready
    PROVE  LET begun == BecomeReady(st) IN
           /\ begun \in Stream /\ AnswersWell(begun) /\ begun.ready
           /\ begun.shown_pending = begun.pending_local_send
           /\ begun.told_sending => ~begun.pending_local_send
           /\ begun.announced = st.announced
           /\ begun.sent \subseteq begun.codecs /\ Onward(st, begun)
<1>1. ASSUME NEW b \in Stream, AnswersWell(b), b.sent \subseteq b.codecs, Onward(st, b)
      PROVE  /\ Hold(b, TRUE) \in Stream /\ AnswersWell(Hold(b, TRUE))
             /\ Hold(b, TRUE).sent \subseteq Hold(b, TRUE).codecs
             /\ Onward(st, Hold(b, TRUE))
             /\ Hold(b, TRUE).ready = b.ready /\ Hold(b, TRUE).announced = b.announced
             /\ Hold(b, TRUE).shown_pending = b.shown_pending
             /\ Hold(b, TRUE).pending_local_send = b.pending_local_send
             /\ Hold(b, TRUE).told_sending = b.told_sending
    BY <1>1 DEF Hold, Stream, AnswersWell, Onward
<1> DEFINE ready   == [st EXCEPT !.ready = TRUE]
           sending == [SetPendingLocalSend(ready, FALSE) EXCEPT !.told_sending = TRUE]
           begun   == IF st.sends THEN sending ELSE ready
<1>2. /\ begun \in Stream /\ AnswersWell(begun) /\ begun.ready
      /\ begun.shown_pending = begun.pending_local_send
      /\ begun.told_sending => ~begun.pending_local_send
      /\ begun.announced = st.announced
      /\ begun.sent \subseteq begun.codecs /\ Onward(st, begun)
    BY DEF StreamOK, Stream, CaughtUp, AnswersWell, SetPendingLocalSend, Onward
<1>3. BecomeReady(st) = IF st.local_hold THEN Hold(begun, TRUE) ELSE begun
    BY DEF BecomeReady
<1> HIDE DEF begun
<1>4. CASE st.local_hold
    BY <1>1, <1>2, <1>3, <1>4
<1>5. CASE ~st.local_hold
    BY <1>2, <1>3, <1>5
<1> QED BY <1>4, <1>5

\* After Ready the client knows all there is to know, whatever came before it.
LEMMA ReadyOK ==
    ASSUME NEW st, StreamOK(st), NEW codecs \in SUBSET Codecs, NEW read \in SUBSET codecs
    PROVE  Keeps(st, Ready(st, codecs, read))
<1> DEFINE begun == IF st.ready THEN st ELSE BecomeReady(st)
           offered == OfferLocalCodecs(begun, codecs, read)
<1>1. /\ begun \in Stream /\ AnswersWell(begun) /\ begun.ready
      /\ begun.shown_pending = begun.pending_local_send
      /\ begun.told_sending => ~begun.pending_local_send
      /\ begun.announced = st.announced
      /\ begun.sent \subseteq begun.codecs /\ Onward(st, begun)
    BY BecomeReadyKeeps DEF StreamOK, CaughtUp, Onward
<1>2. st.ready => begun.told_candidates = st.told_candidates
    OBVIOUS
<1> HIDE DEF begun
<1>3. /\ offered \in Stream /\ AnswersWell(offered) /\ offered.ready
      /\ offered.shown_pending = offered.pending_local_send
      /\ offered.told_sending => ~offered.pending_local_send
      /\ offered.announced = st.announced
      /\ offered.told_candidates = begun.told_candidates
      /\ offered.remote_candidates = begun.remote_candidates
      /\ offered.sent \subseteq offered.codecs /\ Onward(st, offered)
    BY <1>1 DEF OfferLocalCodecs, PassLocalCodecs, Stream, AnswersWell, Onward
<1>4. begun.told_candidates \subseteq begun.remote_candidates
    <2>1. CASE st.ready
        BY <2>1 DEF begun, StreamOK, CaughtUp
    <2>2. CASE ~st.ready
        BY <2>2 DEF begun, BecomeReady, Hold, SetPendingLocalSend, StreamOK, Stream, CaughtUp
    <2> QED BY <2>1, <2>2
<1>5. Ready(st, codecs, read) = PassRemoteCandidates(PassRemoteCodecs(offered))
    BY DEF Ready, begun
<1> HIDE DEF offered
<1> DEFINE passed == PassRemoteCandidates(PassRemoteCodecs(offered))
<1>6. StreamOK(passed) /\ passed.announced = st.announced
    BY <1>3, <1>4 DEF StreamOK, Stream, CaughtUp, AnswersWell, PassRemoteCandidates,
                      PassRemoteCodecs
<1>7. Onward(st, passed)
    BY <1>3 DEF Onward, Stream, PassRemoteCandidates, PassRemoteCodecs
<1> QED BY <1>5, <1>6, <1>7 DEF Keeps

-----------------------------------------------------------------------------
(* The backend *)

\* A stream that stays as it was takes nothing back.
LEMMA SaidBefore == \A st : Onward(st, st)
BY DEF Onward

\* Putting the result of an operation on one stream back keeps the invariant.
LEMMA UpdateStream ==
    ASSUME IInv, NEW id \in Present, NEW new, Keeps(ms.streams[id], new),
           ms' = [ms EXCEPT !.streams[id] = new]
    PROVE  IInv' /\ Steady
<1>1. ms \in BackendState /\ ms' \in BackendState
    BY DEF IInv, TypeOK, BackendState, Keeps, StreamOK
<1>2. Present' = Present
    BY <1>1, NoneIsNoStream DEF Present, BackendState, Keeps, StreamOK
<1>3. /\ ms'.ready = ms.ready /\ ms'.media = ms.media
      /\ ms'.next_stream_id = ms.next_stream_id
      /\ \A k \in Present : ms'.streams[k] = IF k = id THEN new ELSE ms.streams[k]
    BY <1>1 DEF BackendState, Present
<1>4. TypeOK'
    BY <1>1, <1>2, <1>3 DEF IInv, TypeOK
<1>5. StreamsAnnouncedOnce'
    BY <1>2, <1>3 DEF IInv, StreamsAnnouncedOnce, Keeps
<1>6. (\A k \in Present : StreamOK(ms.streams[k]))'
    BY <1>2, <1>3 DEF IInv, Keeps
<1>7. Steady
    BY <1>2, <1>3, SaidBefore DEF Steady, Keeps
<1> QED BY <1>4, <1>5, <1>6, <1>7 DEF IInv

\* A backend without streams satisfies the invariant.
LEMMA InitIInv == Init => IInv
<1> SUFFICES ASSUME Init PROVE IInv
    OBVIOUS
<1>1. ms \in BackendState
    BY BoundsType DEF Init, BackendState, StreamIds
<1>2. Present = {}
    BY DEF Init, Present
<1> QED BY <1>1, <1>2 DEF IInv, TypeOK, StreamsAnnouncedOnce

\* A stream is announced at once if the client is ready.
LEMMA AddStreamIInv ==
    ASSUME IInv, NEW local \in BOOLEAN, NEW sends \in BOOLEAN, AddStream(local, sends)
    PROVE  IInv' /\ Steady
<1> DEFINE id  == ms.next_stream_id
           n   == IF ms.ready THEN 1 ELSE 0
           new == NewStream(local, sends, n)
<1>1. StreamOK(new) /\ new.announced = n
    BY NewStreamOK
<1> HIDE DEF new
<1>2. /\ ms \in BackendState /\ ms.media /\ id \in StreamIds
      /\ ms' = [ms EXCEPT !.next_stream_id = id + 1, !.streams[id] = new]
    BY BoundsType DEF IInv, TypeOK, BackendState, AddStream, StreamIds, new
<1>3. ms' \in BackendState
    <2>1. id + 1 \in 1 .. MaxStreams + 1
        BY <1>2, BoundsType DEF StreamIds
    <2>2. new \in Stream
        BY <1>1 DEF StreamOK
    <2> QED BY <1>2, <2>1, <2>2 DEF BackendState
<1>4. /\ ms'.ready = ms.ready /\ ms'.media = ms.media /\ ms'.next_stream_id = id + 1
      /\ \A k \in StreamIds : ms'.streams[k] = IF k = id THEN new ELSE ms.streams[k]
    BY <1>2 DEF BackendState
<1>5. Present' = Present \union {id}
    BY <1>1, <1>2, <1>4, NoneIsNoStream DEF Present, StreamOK
<1>6. TypeOK'
    BY <1>2, <1>3, <1>4, <1>5 DEF IInv, TypeOK, BackendState, Present, StreamIds
<1>7. StreamsAnnouncedOnce'
    BY <1>1, <1>4, <1>5 DEF IInv, StreamsAnnouncedOnce, Present
<1>8. (\A k \in Present : StreamOK(ms.streams[k]))'
    BY <1>1, <1>4, <1>5 DEF IInv, Present
<1>9. Steady
    <2>1. id \notin Present /\ id \in Nat
        BY <1>2 DEF IInv, TypeOK, StreamIds
    <2>2. \A k \in Present : ms'.streams[k] = ms.streams[k]
        BY <1>4, <2>1 DEF Present
    <2>3. \A k \in StreamIds : k < id /\ k \notin Present => k \notin Present'
        BY <1>2, <1>5 DEF StreamIds
    <2>4. \A k \in Present' : k \in Present \/ k = id
        BY <1>5
    <2> QED BY <2>1, <2>2, <2>3, SaidBefore DEF Steady
<1> QED BY <1>6, <1>7, <1>8, <1>9 DEF IInv

\* What is gone leaves the rest as it was.
LEMMA RemovalIInv ==
    ASSUME IInv, NEW gone \in SUBSET StreamIds, NEW media \in BOOLEAN,
           ms' = [ms EXCEPT !.media = media,
                            !.streams = [k \in StreamIds |->
                                            IF k \in gone THEN None ELSE ms.streams[k]]],
           media = ms.media \/ gone = StreamIds
    PROVE  IInv' /\ Steady
<1>1. ms \in BackendState /\ ms' \in BackendState
    BY DEF IInv, TypeOK, BackendState
<1>2. /\ ms'.ready = ms.ready /\ ms'.media = media
      /\ ms'.next_stream_id = ms.next_stream_id
      /\ \A k \in StreamIds : ms'.streams[k] = IF k \in gone THEN None ELSE ms.streams[k]
    BY <1>1 DEF BackendState
<1>3. Present' = Present \ gone
    BY <1>2 DEF Present
<1>4. \A k \in Present' : ms'.streams[k] = ms.streams[k]
    BY <1>2, <1>3 DEF Present
<1>5. IInv'
    BY <1>1, <1>2, <1>3, <1>4 DEF IInv, TypeOK, StreamsAnnouncedOnce, Present
<1>6. Steady
    BY <1>3, <1>4, SaidBefore DEF Steady
<1> QED BY <1>5, <1>6

\* The ends of a stream and of the call
LEMMA EndsIInv ==
    ASSUME IInv
    PROVE  /\ MediaEnds => IInv' /\ Steady
           /\ \A id \in StreamIds : StreamEnds(id) => IInv' /\ Steady
<1>0. ms \in BackendState
    BY DEF IInv, TypeOK
<1>1. ASSUME MediaEnds PROVE IInv' /\ Steady
    <2>1. ms' = [ms EXCEPT !.media = FALSE,
                           !.streams = [k \in StreamIds |->
                               IF k \in StreamIds THEN None ELSE ms.streams[k]]]
        BY <1>1 DEF MediaEnds
    <2> QED BY <2>1, RemovalIInv
<1>2. ASSUME NEW id \in StreamIds, StreamEnds(id) PROVE IInv' /\ Steady
    <2>1. ms' = [ms EXCEPT !.media = ms.media,
                           !.streams = [k \in StreamIds |->
                               IF k \in {id} THEN None ELSE ms.streams[k]]]
        BY <1>0, <1>2 DEF StreamEnds, BackendState
    <2> QED BY <1>0, <2>1, RemovalIInv DEF BackendState
<1> QED BY <1>1, <1>2

\* haze_media_backend_ready announces the streams there are, none of which was.
LEMMA MediaReadyIInv ==
    ASSUME IInv, MediaReady
    PROVE  IInv' /\ Steady
<1>0. ms \in BackendState /\ ~ms.ready
    BY DEF IInv, TypeOK, MediaReady
<1> DEFINE new(k) == Announce(ms.streams[k])
<1>1. \A k \in Present : StreamOK(new(k)) /\ new(k).announced = 1
    <2> SUFFICES ASSUME NEW k \in Present
                 PROVE  StreamOK(new(k)) /\ new(k).announced = 1
        OBVIOUS
    <2>1. StreamOK(ms.streams[k]) /\ ms.streams[k].announced = 0
        BY <1>0 DEF IInv, StreamsAnnouncedOnce
    <2> QED BY <2>1 DEF Announce, StreamOK, Stream, CaughtUp, AnswersWell
<1>2. \A k \in Present : Onward(ms.streams[k], new(k))
    BY DEF IInv, StreamOK, Stream, Announce, Onward
<1>3. ms' = [ms EXCEPT !.ready = TRUE,
                       !.streams = [k \in StreamIds |->
                           IF k \in Present THEN new(k) ELSE ms.streams[k]]]
    BY <1>0 DEF MediaReady, BackendState
<1> HIDE DEF new
<1>4. ms' \in BackendState
    BY <1>0, <1>1, <1>3 DEF BackendState, StreamOK
<1>5. /\ ms'.ready = TRUE /\ ms'.media = ms.media
      /\ ms'.next_stream_id = ms.next_stream_id
      /\ \A k \in StreamIds : ms'.streams[k] = IF k \in Present THEN new(k) ELSE ms.streams[k]
    BY <1>0, <1>3 DEF BackendState
<1>6. Present' = Present
    BY <1>1, <1>5, NoneIsNoStream DEF Present, StreamOK
<1>7. TypeOK'
    BY <1>4, <1>5, <1>6 DEF IInv, TypeOK
<1>8. StreamsAnnouncedOnce'
    BY <1>1, <1>5, <1>6 DEF StreamsAnnouncedOnce, Present
<1>9. (\A k \in Present : StreamOK(ms.streams[k]))'
    BY <1>1, <1>5, <1>6 DEF Present
<1>10. Steady
    BY <1>5, <1>6, <1>2 DEF Steady
<1> QED BY <1>7, <1>8, <1>9, <1>10 DEF IInv

\* The codecs of all streams are sent at once.
LEMMA SendAllCodecsIInv ==
    ASSUME IInv, SendAllCodecs
    PROVE  IInv' /\ Steady
<1>0. ms \in BackendState
    BY DEF IInv, TypeOK
<1> DEFINE new(k) == Send(ms.streams[k])
<1>1. \A k \in Present : Keeps(ms.streams[k], new(k))
    BY SentOK DEF IInv
<1>2. ms' = [ms EXCEPT !.streams = [k \in StreamIds |->
                           IF k \in Present THEN new(k) ELSE ms.streams[k]]]
    BY <1>0 DEF SendAllCodecs, BackendState
<1> HIDE DEF new
<1>3. ms' \in BackendState
    BY <1>0, <1>1, <1>2 DEF BackendState, Keeps, StreamOK
<1>4. /\ ms'.ready = ms.ready /\ ms'.media = ms.media
      /\ ms'.next_stream_id = ms.next_stream_id
      /\ \A k \in StreamIds : ms'.streams[k] = IF k \in Present THEN new(k) ELSE ms.streams[k]
    BY <1>0, <1>2 DEF BackendState
<1>5. Present' = Present
    BY <1>1, <1>4, NoneIsNoStream DEF Present, Keeps, StreamOK
<1>6. TypeOK'
    BY <1>3, <1>4, <1>5 DEF IInv, TypeOK
<1>7. StreamsAnnouncedOnce'
    BY <1>1, <1>4, <1>5 DEF IInv, StreamsAnnouncedOnce, Present, Keeps
<1>8. (\A k \in Present : StreamOK(ms.streams[k]))'
    BY <1>1, <1>4, <1>5 DEF Present, Keeps
<1>9. Steady
    BY <1>1, <1>4, <1>5 DEF Steady, Keeps
<1> QED BY <1>6, <1>7, <1>8, <1>9 DEF IInv

-----------------------------------------------------------------------------
(* Every step *)

\* An event of libpurple that concerns one stream
PurpleStream(id) ==
    \/ SendCodecs(id) \/ Accepted(id)
    \/ \E codecs \in SUBSET Codecs : RemoteCodecs(id, codecs)
    \/ \E candidates \in SUBSET Candidates : RemoteCandidates(id, candidates)

\* What libpurple tells and asks of one stream
LEMMA PurpleStreamIInv ==
    ASSUME IInv, NEW id \in StreamIds, PurpleStream(id)
    PROVE  IInv' /\ Steady
<1>0. id \in Present => StreamOK(ms.streams[id])
    BY DEF IInv
<1>1. CASE SendCodecs(id)
    BY <1>0, <1>1, SentOK, UpdateStream DEF SendCodecs
<1>2. CASE Accepted(id)
    BY <1>0, <1>2, AcceptedOK, UpdateStream DEF Accepted
<1>3. ASSUME NEW codecs \in SUBSET Codecs, RemoteCodecs(id, codecs) PROVE IInv' /\ Steady
    BY <1>0, <1>3, SetRemoteCodecsOK, UpdateStream DEF RemoteCodecs
<1>4. ASSUME NEW candidates \in SUBSET Candidates, RemoteCandidates(id, candidates)
      PROVE  IInv' /\ Steady
    BY <1>0, <1>4, AddRemoteCandidatesOK, UpdateStream DEF RemoteCandidates
<1> QED BY <1>1, <1>2, <1>3, <1>4 DEF PurpleStream

\* A call of the streaming client on one stream
ClientStream(id) ==
    \/ \E codecs \in SUBSET Codecs : \E read \in SUBSET codecs :
          \/ StreamReady(id, codecs, read) \/ SetLocalCodecs(id, codecs, read)
          \/ Intersect(id, codecs, read) \/ UpdateCodecs(id, codecs, read)
    \/ \E l, r \in Candidates : NativeCandidate(id, l) \/ ActivePair(id, l, r)
    \/ \E hold \in BOOLEAN : HoldState(id, hold)

\* What the streaming client says of one stream
LEMMA ClientStreamIInv ==
    ASSUME IInv, NEW id \in StreamIds, ClientStream(id)
    PROVE  IInv' /\ Steady
<1>0. id \in Present => StreamOK(ms.streams[id])
    BY DEF IInv
<1>1. ASSUME NEW codecs \in SUBSET Codecs, NEW read \in SUBSET codecs, StreamReady(id, codecs, read)
      PROVE  IInv' /\ Steady
    BY <1>0, <1>1, ReadyOK, UpdateStream DEF StreamReady, Known
<1>2. ASSUME NEW codecs \in SUBSET Codecs, NEW read \in SUBSET codecs, SetLocalCodecs(id, codecs, read)
      PROVE  IInv' /\ Steady
    BY <1>0, <1>2, OfferLocalCodecsOK, UpdateStream DEF SetLocalCodecs, Known
<1>3. ASSUME NEW codecs \in SUBSET Codecs, NEW read \in SUBSET codecs, Intersect(id, codecs, read)
      PROVE  IInv' /\ Steady
    BY <1>0, <1>3, SupportedCodecsOK, UpdateStream DEF Intersect, Known
<1>4. ASSUME NEW codecs \in SUBSET Codecs, NEW read \in SUBSET codecs, UpdateCodecs(id, codecs, read)
      PROVE  IInv' /\ Steady
    BY <1>0, <1>4, CodecsUpdatedOK, UpdateStream DEF UpdateCodecs, Known
<1>5. ASSUME NEW c \in Candidates, NativeCandidate(id, c) PROVE IInv' /\ Steady
    BY <1>0, <1>5, NewNativeCandidateOK, UpdateStream DEF NativeCandidate, Known
<1>6. ASSUME NEW l \in Candidates, NEW r \in Candidates, ActivePair(id, l, r)
      PROVE  IInv' /\ Steady
    BY <1>0, <1>6, NewActiveCandidatePairOK, UpdateStream DEF ActivePair, Known
<1>7. ASSUME NEW hold \in BOOLEAN, HoldState(id, hold) PROVE IInv' /\ Steady
    <2>1. id \in Present /\ ms \in BackendState
        BY <1>7 DEF HoldState, Known, IInv, TypeOK
    <2>2. ms' = [ms EXCEPT !.streams[id] = [ms.streams[id] EXCEPT !.local_hold = hold]]
        BY <1>7, <2>1 DEF HoldState, BackendState, Present
    <2> QED BY <1>0, <2>1, <2>2, HoldStateOK, UpdateStream
<1> QED BY <1>1, <1>2, <1>3, <1>4, <1>5, <1>6, <1>7 DEF ClientStream

\* Every step keeps the invariant, and takes nothing back.
LEMMA NextIInv == IInv /\ [Next]_vars => IInv' /\ Steady
<1> SUFFICES ASSUME IInv, [Next]_vars PROVE IInv' /\ Steady
    OBVIOUS
<1>1. CASE UNCHANGED vars
    BY <1>1, SaidBefore DEF vars, IInv, TypeOK, StreamsAnnouncedOnce, Present, Steady
<1>2. CASE MediaEnds \/ BackendError
    BY <1>2, EndsIInv DEF BackendError
<1>3. CASE MediaReady
    BY <1>3, MediaReadyIInv
<1>4. CASE SendAllCodecs
    BY <1>4, SendAllCodecsIInv
<1>5. CASE \E local, sends \in BOOLEAN : AddStream(local, sends)
    BY <1>5, AddStreamIInv
<1>6. ASSUME NEW id \in StreamIds, StreamEnds(id) PROVE IInv' /\ Steady
    BY <1>6, EndsIInv
<1>7. ASSUME NEW id \in StreamIds, PurpleStream(id) PROVE IInv' /\ Steady
    BY <1>7, PurpleStreamIInv
<1>8. ASSUME NEW id \in StreamIds, ClientStream(id) PROVE IInv' /\ Steady
    BY <1>8, ClientStreamIInv
<1> QED BY <1>1, <1>2, <1>3, <1>4, <1>5, <1>6, <1>7, <1>8 DEF Next, PurpleStream, ClientStream

-----------------------------------------------------------------------------
(* Theorems *)

\* The invariant holds in every reachable state.
LEMMA Invariance == Spec => []IInv
<1>1. Init => IInv
    BY InitIInv
<1>2. IInv /\ [Next]_vars => IInv'
    BY NextIInv
<1> QED BY <1>1, <1>2, PTL DEF Spec

\* The fields keep their types, ids are not used twice, and no stream outlives its
\* call.
THEOREM StreamTypeCorrect == Spec => []TypeOK
<1>1. IInv => TypeOK
    BY DEF IInv
<1> QED BY <1>1, Invariance, PTL

\* Whether a stream is added before or after the client is ready for the call, it is
\* announced once.
THEOREM Announced == Spec => []StreamsAnnouncedOnce
<1>1. IInv => StreamsAnnouncedOnce
    BY DEF IInv
<1> QED BY <1>1, Invariance, PTL

\* In whatever order Ready, codecs and candidates come, the client that is ready knows
\* those of the contact.
THEOREM CatchUp == Spec => []ClientsCatchUp
<1>1. IInv => ClientsCatchUp
    BY DEF IInv, ClientsCatchUp, StreamOK, CaughtUp
<1> QED BY <1>1, Invariance, PTL

\* A contact's offer is only ever answered with an intersection.
THEOREM Answers == Spec => []AnswerIsAnIntersection
<1>1. IInv => AnswerIsAnIntersection
    BY DEF IInv, AnswerIsAnIntersection, StreamOK, AnswersWell
<1> QED BY <1>1, Invariance, PTL

\* What was sent to the contact, and what the client was told, stays so for as long as
\* the stream lasts, whatever the two sides do next.
THEOREM StaysSaid == Spec => NothingIsTakenBack
<1>1. IInv /\ [Next]_vars => [Steady]_vars
    BY NextIInv
<1>2. Spec => [][Steady]_vars
    BY <1>1, Invariance, PTL DEF Spec
<1> QED BY <1>2 DEF NothingIsTakenBack, Steady
=============================================================================
