------------------------ MODULE HazeMediaChannelProofs ------------------------
(***************************************************************************)
(* The invariants of HazeMediaChannel, for any connections, contacts,      *)
(* requests and bounds.                                                    *)
(*                                                                         *)
(* Requests, channels and calls point at each other, and the invariant     *)
(* says that they do so mutually.  Every function of the code is shown to  *)
(* keep it, but for the call that was just made and may have no channel    *)
(* yet.  Its loops are folds: what is shown of a round is shown of the     *)
(* loop with the lemmas of FoldLemmas.                                     *)
(***************************************************************************)
EXTENDS HazeMediaChannel, FoldLemmas

\* What was answered and asked: nobody is answered twice but through the error label,
\* and only who has asked.
HistoryOK(s) ==
    /\ s.made \in SUBSET Requests /\ s.answers \in [Requests -> 0 .. 2]
    /\ s.refused \in SUBSET Requests /\ s.given_up \in SUBSET Requests
    /\ s.strays \in SUBSET (Conns \X Contacts)
    /\ \A r \in Requests : /\ s.answers[r] <= 1 \/ r \in s.refused
                           /\ r \notin s.made => s.answers[r] = 0

\* A request that was made is answered, given up, or waits.
NotForgotten(s, r) ==
    s.phase = "running" /\ r \in s.made =>
        s.answers[r] > 0 \/ r \in s.given_up \/ \E n \in Listed(s) : r \in s.chans[n].pending

\* What waits on a channel: requests that were made and not answered, and wait on no
\* other; a channel that is not announced has a request for itself among them.
PendingOK(s, n) ==
    /\ \A r \in s.chans[n].pending :
          /\ r \in s.made /\ s.answers[r] = 0 /\ s.reqs[r] # None
          /\ \A k \in Listed(s) : r \in s.chans[k].pending => k = n
    /\ s.chans[n].shown \/ \E r \in s.chans[n].pending : s.reqs[r].kind = "channel"

\* A channel and its call: each is the other's, the group is the call's, and a
\* channel with a call waits for none.
MediaOK(s, n) ==
    LET chan == s.chans[n]
        call == s.calls[chan.media]
    IN  IF chan.media = None
        THEN chan.members = {"us"} /\ chan.ours /\ ~chan.invited
        ELSE /\ chan.media \in Live(s) /\ call.path = n /\ ~chan.waiting
             /\ chan.members = call.accepted \union {IF chan.ours THEN "us" ELSE "them"}
             /\ chan.invited <=> ~chan.ours /\ "us" \notin call.accepted

\* The path of a call is a channel of that call.
CallOK(s, c) ==
    s.calls[c].path # None => s.calls[c].path \in Listed(s) /\ s.chans[s.calls[c].path].media = c

\* A call without a path was dialled for no channel.
FoundOK(s, c) ==
    s.phase = "running" /\ s.calls[c].path = None => <<s.calls[c].conn, s.calls[c].peer>> \in s.strays

\* Somebody waits for a call with the contact, or nobody ever will.
Expected(s, conn, peer) ==
    \/ <<conn, peer>> \in s.strays
    \/ \E n \in Listed(s) : s.chans[n].waiting /\ s.chans[n].conn = conn /\ s.chans[n].peer = peer

\* The lists of the managers are of their channels.
ListsOK(s) == \A conn \in Conns : s.listed[conn] = {n \in Listed(s) : s.chans[n].conn = conn}

\* The invariant while calls are being made, which may have no path yet: of those in C.
OpenOK(s, C) ==
    /\ s \in MediaState /\ HistoryOK(s) /\ ListsOK(s)
    /\ \A r \in Requests : NotForgotten(s, r)
    /\ \A n \in Listed(s) : PendingOK(s, n) /\ MediaOK(s, n)
    /\ \A c \in Live(s) : CallOK(s, c) /\ (c \in C \/ FoundOK(s, c))
    /\ \A conn \in Conns, peer \in Contacts : s.dials[conn][peer] # {} => Expected(s, conn, peer)

StateOK(s) == OpenOK(s, {})

\* The inductive invariant
IInv == StateOK(mc)

-----------------------------------------------------------------------------
(* The end of the process *)

\* The fields of a state, of the right type or not
IsRecord(s) ==
    s = [ phase |-> s.phase, up |-> s.up, listed |-> s.listed, chans |-> s.chans,
          calls |-> s.calls, dials |-> s.dials, dangling |-> s.dangling, reqs |-> s.reqs,
          made |-> s.made, answers |-> s.answers, refused |-> s.refused,
          given_up |-> s.given_up, strays |-> s.strays ]

\* A state has the fields of one.
LEMMA StateIsRecord == \A s \in MediaState : IsRecord(s)
BY DEF MediaState, IsRecord

\* A record whose channels are exchanged still has its fields.
LEMMA ExchangedChannels ==
    ASSUME NEW s, IsRecord(s), NEW chans, NEW t, t = [s EXCEPT !.chans = chans]
    PROVE  IsRecord(t) /\ t.chans = chans
BY DEF IsRecord

\* When the process ends there is nothing left to be wrong, whatever state it was in.
LEMMA EndOK ==
    ASSUME NEW s, IsRecord(s), HistoryOK(s), NEW phase \in {"aborted", "crashed"}, NEW C
    PROVE  OpenOK(End(s, phase), C) /\ End(s, phase).phase = phase
<1> DEFINE t == End(s, phase)
           listed == [conn \in Conns |-> {}]
           chans == [n \in ChannelIds |-> None]
           calls == [c \in CallIds |-> None]
           dials == [conn \in Conns |-> [h \in Contacts |-> {}]]
           reqs == [r \in Requests |-> None]
<1>1. /\ listed \in [Conns -> SUBSET ChannelIds] /\ chans \in [ChannelIds -> Channel \union {None}]
      /\ calls \in [CallIds -> Call \union {None}] /\ dials \in [Conns -> [Contacts -> SUBSET Types]]
      /\ reqs \in [Requests -> Pending \union {None}]
  OBVIOUS
<1>2. /\ \A conn \in Conns : listed[conn] = {} /\ \A peer \in Contacts : dials[conn][peer] = {}
      /\ \A n \in ChannelIds : chans[n] = None
      /\ \A c \in CallIds : calls[c] = None
  OBVIOUS
<1>3. t = [s EXCEPT !.phase = phase, !.up = {}, !.dangling = FALSE, !.listed = listed,
                    !.chans = chans, !.calls = calls, !.dials = dials, !.reqs = reqs]
  BY DEF End
<1> HIDE DEF listed, chans, calls, dials, reqs
<1>4. /\ t.phase = phase /\ t.up = {} /\ t.dangling = FALSE /\ t.listed = listed
      /\ t.chans = chans /\ t.calls = calls /\ t.dials = dials /\ t.reqs = reqs
      /\ t.made = s.made /\ t.answers = s.answers /\ t.refused = s.refused
      /\ t.given_up = s.given_up /\ t.strays = s.strays /\ IsRecord(t)
  BY <1>3 DEF IsRecord
<1> HIDE DEF t
<1>5. t \in MediaState /\ HistoryOK(t)
  BY <1>1, <1>4 DEF MediaState, HistoryOK, IsRecord
<1>6. Listed(t) = {} /\ Live(t) = {}
  BY <1>2, <1>4 DEF Listed, Live
<1>7. ListsOK(t) /\ \A conn \in Conns, peer \in Contacts : t.dials[conn][peer] = {}
  BY <1>2, <1>4, <1>6 DEF ListsOK
<1>8. \A r \in Requests : NotForgotten(t, r)
  BY <1>4 DEF NotForgotten
<1>9. OpenOK(t, C)
  BY <1>5, <1>6, <1>7, <1>8 DEF OpenOK
<1>. QED BY <1>4, <1>9 DEF t

\* Aborting, crashing, and reading memory that is not there
LEMMA AbortOK ==
    ASSUME NEW s, NEW C, s \in MediaState, HistoryOK(s)
    PROVE  /\ OpenOK(Abort(s), C) /\ Abort(s).phase = "aborted"
           /\ OpenOK(Crash(s), C) /\ Crash(s).phase = "crashed"
BY StateIsRecord, EndOK DEF Abort, Crash

\* What follows a read of freed memory is the state it was, or no process.
LEMMA SurviveOK ==
    ASSUME NEW s, NEW C, OpenOK(s, C), NEW lucky \in BOOLEAN
    PROVE  /\ OpenOK(Survive(s, lucky), C)
           /\ Survive(s, lucky).phase = "running" => Survive(s, lucky) = s
BY AbortOK DEF Survive, OpenOK

-----------------------------------------------------------------------------
(* Answers *)

\* From s to t nothing changed but requests and channels.
SameOutside(s, t) ==
    /\ t.phase = s.phase /\ t.up = s.up /\ t.listed = s.listed /\ t.calls = s.calls
    /\ t.dials = s.dials /\ t.made = s.made /\ t.refused = s.refused
    /\ t.given_up = s.given_up /\ t.strays = s.strays

\* The requests rs are answered, ...
LEMMA AnswerIs ==
    ASSUME NEW s \in MediaState, NEW rs \in SUBSET Requests, \A r \in rs : s.answers[r] \in {0, 1}
    PROVE  LET t == Answer(s, rs) IN
           /\ t \in MediaState /\ SameOutside(s, t)
           /\ t.chans = s.chans /\ t.dangling = s.dangling
           /\ \A r \in rs : t.answers[r] = s.answers[r] + 1 /\ t.reqs[r] = None
           /\ \A r \in Requests \ rs : t.answers[r] = s.answers[r] /\ t.reqs[r] = s.reqs[r]
<1> DEFINE t == Answer(s, rs)
           answers == [r \in Requests |-> IF r \in rs THEN s.answers[r] + 1 ELSE s.answers[r]]
           reqs == [r \in Requests |-> IF r \in rs THEN None ELSE s.reqs[r]]
<1>0. s.answers \in [Requests -> 0 .. 2] /\ s.reqs \in [Requests -> Pending \union {None}]
  BY DEF MediaState
<1>1. answers \in [Requests -> 0 .. 2] /\ reqs \in [Requests -> Pending \union {None}]
  BY <1>0
<1>2. /\ \A r \in rs : answers[r] = s.answers[r] + 1 /\ reqs[r] = None
      /\ \A r \in Requests \ rs : answers[r] = s.answers[r] /\ reqs[r] = s.reqs[r]
  OBVIOUS
<1>3. t = [s EXCEPT !.answers = answers, !.reqs = reqs]
  BY DEF Answer, MediaState
<1> HIDE DEF answers, reqs
<1>4. /\ t \in MediaState /\ t.answers = answers /\ t.reqs = reqs
      /\ SameOutside(s, t) /\ t.chans = s.chans /\ t.dangling = s.dangling
  BY <1>1, <1>3 DEF MediaState, SameOutside
<1>. QED BY <1>2, <1>4

\* What a channel has to do with its call
SameLinks(a, b) ==
    /\ b.conn = a.conn /\ b.peer = a.peer /\ b.ours = a.ours /\ b.media = a.media
    /\ b.waiting = a.waiting /\ b.members = a.members /\ b.invited = a.invited

\* ... which leaves the rest as it should be if they waited on the channel n, and n is
\* announced with the request for it.
LEMMA ResolveOK ==
    ASSUME NEW s, NEW C, OpenOK(s, C), NEW n \in Listed(s), NEW D \in SUBSET s.chans[n].pending,
           NEW t \in MediaState, SameOutside(s, t),
           \A r \in D : t.answers[r] = s.answers[r] + 1,
           \A r \in Requests \ D : t.answers[r] = s.answers[r],
           \A r \in Requests \ D : s.reqs[r] # None =>
               t.reqs[r] # None /\ t.reqs[r].kind = s.reqs[r].kind,
           \A k \in ChannelIds \ {n} : t.chans[k] = s.chans[k],
           t.chans[n] # None, SameLinks(s.chans[n], t.chans[n]),
           t.chans[n].pending = s.chans[n].pending \ D,
           t.chans[n].shown <=> s.chans[n].shown \/ \E r \in D : s.reqs[r].kind = "channel"
    PROVE  OpenOK(t, C)
<1>1. /\ s \in MediaState /\ HistoryOK(s) /\ ListsOK(s) /\ n \in ChannelIds
      /\ \A r \in Requests : NotForgotten(s, r)
      /\ \A k \in Listed(s) : PendingOK(s, k) /\ MediaOK(s, k)
      /\ \A c \in Live(s) : CallOK(s, c) /\ (c \in C \/ FoundOK(s, c))
      /\ \A conn \in Conns, peer \in Contacts : s.dials[conn][peer] # {} => Expected(s, conn, peer)
  BY DEF OpenOK, Listed
<1>2. Listed(t) = Listed(s) /\ Live(t) = Live(s)
  BY DEF Listed, Live, SameOutside
<1>3. \A k \in Listed(s) : SameLinks(s.chans[k], t.chans[k]) /\ t.chans[k].pending \subseteq s.chans[k].pending
  BY DEF Listed, SameLinks
<1>4. \A k \in Listed(s) : s.chans[k].pending \subseteq Requests
  BY <1>1 DEF Listed, MediaState, Channel
<1>5. \A r \in D : r \in s.made /\ s.answers[r] = 0 /\ r \in Requests
  BY <1>1, <1>4 DEF PendingOK
<1>6. HistoryOK(t)
  <2>1. t.answers \in [Requests -> 0 .. 2]
    BY DEF MediaState
  <2>2. \A r \in Requests : /\ t.answers[r] <= 1 \/ r \in t.refused
                            /\ r \notin t.made => t.answers[r] = 0
    BY <1>1, <1>5 DEF HistoryOK, SameOutside
  <2>. QED BY <1>1, <2>1, <2>2 DEF HistoryOK, SameOutside
<1>7. ListsOK(t)
  <2>1. \A k \in Listed(s) : t.chans[k].conn = s.chans[k].conn
    BY <1>3 DEF SameLinks
  <2>. QED BY <1>1, <1>2, <2>1 DEF ListsOK, SameOutside
<1>8. ASSUME NEW r \in Requests PROVE NotForgotten(t, r)
  <2>1. CASE r \in D
    BY <1>5, <2>1 DEF NotForgotten
  <2>2. CASE r \notin D
    <3>1. \A k \in Listed(s) : r \in s.chans[k].pending => r \in t.chans[k].pending
      BY <2>2 DEF Listed
    <3>. QED BY <1>1, <1>2, <2>2, <3>1 DEF NotForgotten, SameOutside
  <2>. QED BY <2>1, <2>2
<1>9. ASSUME NEW k \in Listed(s) PROVE PendingOK(t, k)
  <2>1. \A r \in t.chans[k].pending : r \notin D /\ r \in Requests /\ r \in s.chans[k].pending
    <3> SUFFICES ASSUME NEW r \in t.chans[k].pending PROVE r \notin D
      BY <1>3, <1>4
    <3>1. CASE k = n
      BY <3>1
    <3>2. CASE k # n
      BY <1>1, <1>3, <3>2 DEF PendingOK
    <3>. QED BY <3>1, <3>2
  <2>2. \A r \in t.chans[k].pending : /\ r \in t.made /\ t.answers[r] = 0 /\ t.reqs[r] # None
                                      /\ t.reqs[r].kind = s.reqs[r].kind
    BY <1>1, <2>1 DEF PendingOK, SameOutside
  <2>3. \A r \in t.chans[k].pending : \A j \in Listed(t) : r \in t.chans[j].pending => j = k
    BY <1>1, <1>2, <1>3, <2>1 DEF PendingOK
  <2>4. t.chans[k].shown \/ \E r \in t.chans[k].pending : t.reqs[r].kind = "channel"
    <3>1. s.chans[k].shown \/ \E r \in s.chans[k].pending : s.reqs[r].kind = "channel"
      BY <1>1 DEF PendingOK
    <3>2. CASE k = n
      <4>1. CASE t.chans[n].shown
        BY <3>2, <4>1
      <4>2. CASE ~t.chans[n].shown
        <5>1. PICK r \in s.chans[n].pending : s.reqs[r].kind = "channel"
          BY <3>1, <3>2, <4>2
        <5>2. r \in t.chans[n].pending
          BY <4>2, <5>1
        <5>. QED BY <2>2, <3>2, <5>1, <5>2
      <4>. QED BY <4>1, <4>2
    <3>3. CASE k # n
      <4>1. t.chans[k] = s.chans[k]
        BY <3>3 DEF Listed
      <4>. QED BY <2>2, <3>1, <4>1
    <3>. QED BY <3>2, <3>3
  <2>. QED BY <2>2, <2>3, <2>4 DEF PendingOK
<1>10. ASSUME NEW k \in Listed(s) PROVE MediaOK(t, k)
  <2>1. MediaOK(s, k) /\ Live(t) = Live(s) /\ t.calls = s.calls
    BY <1>1, <1>2 DEF SameOutside
  <2>2. SameLinks(s.chans[k], t.chans[k])
    BY <1>3
  <2>3. CASE s.chans[k].media = None
    BY <2>1, <2>2, <2>3 DEF MediaOK, SameLinks
  <2>4. CASE s.chans[k].media # None
    BY <2>1, <2>2, <2>4 DEF MediaOK, SameLinks
  <2>. QED BY <2>3, <2>4
<1>11. ASSUME NEW c \in Live(s) PROVE CallOK(t, c) /\ (c \in C \/ FoundOK(t, c))
  <2>1. CallOK(t, c)
    BY <1>1, <1>2, <1>3 DEF CallOK, SameLinks, SameOutside
  <2>2. c \in C \/ FoundOK(t, c)
    BY <1>1 DEF FoundOK, SameOutside
  <2>. QED BY <2>1, <2>2
<1>12. ASSUME NEW conn \in Conns, NEW peer \in Contacts, t.dials[conn][peer] # {}
       PROVE  Expected(t, conn, peer)
  <2>1. Expected(s, conn, peer)
    BY <1>1, <1>12 DEF SameOutside
  <2>. QED BY <1>2, <1>3, <2>1 DEF Expected, SameLinks, SameOutside
<1>. QED BY <1>2, <1>6, <1>7, <1>8, <1>9, <1>10, <1>11, <1>12 DEF OpenOK

\* A stream for the requests that wait for one of its type.
LEMMA SatisfyOK ==
    ASSUME NEW s, NEW C, OpenOK(s, C), NEW n \in Listed(s), NEW type \in Types,
           NEW id \in Nat, NEW lucky \in BOOLEAN
    PROVE  LET t == Satisfy(s, n, id, type, lucky) IN
           /\ OpenOK(t, C)
           /\ t.phase = "running" => SameOutside(s, t)
<1> DEFINE t == Satisfy(s, n, id, type, lucky)
           chan == s.chans[n]
           asked == {r \in chan.pending : type \in DOMAIN s.reqs[r].got}
           reqs == [r \in Requests |-> IF r \in asked THEN [s.reqs[r] EXCEPT !.got[type] = id]
                                       ELSE s.reqs[r]]
           filled == [s EXCEPT !.reqs = reqs]
           done == {r \in asked : 0 \notin {filled.reqs[r].got[x] : x \in DOMAIN filled.reqs[r].got}}
           left == [filled EXCEPT !.chans[n].pending = @ \ done]
           after == Succeed(left, n, done)
<1>1. /\ s \in MediaState /\ HistoryOK(s) /\ n \in ChannelIds /\ chan \in Channel /\ PendingOK(s, n)
      /\ chan.pending \subseteq Requests
  BY DEF OpenOK, Listed, MediaState, Channel
<1>2. \A r \in asked : r \in Requests /\ s.answers[r] = 0 /\ s.reqs[r] \in Pending
  BY <1>1 DEF PendingOK, MediaState
<1>3. \A r \in asked : /\ [s.reqs[r] EXCEPT !.got[type] = id] \in Pending
                       /\ [s.reqs[r] EXCEPT !.got[type] = id].kind = s.reqs[r].kind
  <2> SUFFICES ASSUME NEW r \in asked
               PROVE  /\ [s.reqs[r] EXCEPT !.got[type] = id] \in Pending
                      /\ [s.reqs[r] EXCEPT !.got[type] = id].kind = s.reqs[r].kind
    OBVIOUS
  <2> DEFINE got == [s.reqs[r].got EXCEPT ![type] = id]
  <2>1. s.reqs[r] \in Pending
    BY <1>2
  <2>2. PICK T \in {{"audio"}, {"video"}, Types} : s.reqs[r].got \in [T -> Nat]
    <3>1. s.reqs[r].got \in [{"audio"} -> Nat] \union [{"video"} -> Nat] \union [Types -> Nat]
      BY <2>1 DEF Pending
    <3> DEFINE f == s.reqs[r].got
    <3> HIDE DEF f
    <3>2. \E T \in {{"audio"}, {"video"}, Types} : f \in [T -> Nat]
      BY <3>1 DEF f
    <3>. QED BY <3>2 DEF f
  <2>3. got \in [T -> Nat]
    BY <2>2
  <2>4. got \in [{"audio"} -> Nat] \union [{"video"} -> Nat] \union [Types -> Nat]
    BY <2>3
  <2>5. [s.reqs[r] EXCEPT !.got[type] = id] = [s.reqs[r] EXCEPT !.got = got]
    BY <2>1 DEF Pending
  <2> HIDE DEF got
  <2>. QED BY <2>1, <2>4, <2>5 DEF Pending
<1>4. reqs \in [Requests -> Pending \union {None}]
  BY <1>1, <1>3 DEF MediaState
<1>5. \A r \in Requests : s.reqs[r] # None => reqs[r] # None /\ reqs[r].kind = s.reqs[r].kind
  <2> SUFFICES ASSUME NEW r \in Requests, s.reqs[r] # None
               PROVE  reqs[r] # None /\ reqs[r].kind = s.reqs[r].kind
    OBVIOUS
  <2>1. CASE r \in asked
    BY <1>3, <2>1, NoneIsNothing
  <2>2. CASE r \notin asked
    BY <2>2
  <2>. QED BY <2>1, <2>2
<1>6. asked \subseteq chan.pending /\ done \subseteq asked
  OBVIOUS
<1> HIDE DEF reqs, asked
<1>7. /\ filled \in MediaState /\ SameOutside(s, filled) /\ filled.reqs = reqs
      /\ filled.chans = s.chans /\ filled.answers = s.answers /\ filled.dangling = s.dangling
  BY <1>1, <1>4 DEF MediaState, SameOutside
<1> HIDE DEF filled
<1> DEFINE rest == [chan EXCEPT !.pending = @ \ done]
<1>8. /\ rest \in Channel /\ SameLinks(chan, rest) /\ rest.pending = chan.pending \ done
      /\ rest.shown = chan.shown
  BY <1>1 DEF Channel, SameLinks
<1> DEFINE chans == [s.chans EXCEPT ![n] = rest]
<1>9. left = [filled EXCEPT !.chans = chans]
  BY <1>7 DEF MediaState
<1> HIDE DEF done, rest
<1>10. /\ chans \in [ChannelIds -> Channel \union {None}] /\ chans[n] = rest
       /\ \A k \in ChannelIds \ {n} : chans[k] = s.chans[k]
  BY <1>1, <1>8 DEF MediaState
<1> HIDE DEF chans
<1>11. /\ left \in MediaState /\ SameOutside(s, left) /\ left.reqs = reqs
       /\ left.chans = chans /\ left.answers = s.answers
  BY <1>7, <1>9, <1>10 DEF MediaState, SameOutside
<1> HIDE DEF left
<1> DEFINE answered == Answer(left, done)
<1>12. /\ answered \in MediaState /\ SameOutside(s, answered) /\ answered.chans = chans
       /\ \A r \in done : answered.answers[r] = s.answers[r] + 1
       /\ \A r \in Requests \ done : answered.answers[r] = s.answers[r] /\ answered.reqs[r] = reqs[r]
  <2>1. done \in SUBSET Requests /\ \A r \in done : left.answers[r] \in {0, 1}
    BY <1>1, <1>2, <1>6, <1>11
  <2>2. LET u == Answer(left, done) IN
        /\ u \in MediaState /\ SameOutside(left, u) /\ u.chans = left.chans
        /\ \A r \in done : u.answers[r] = left.answers[r] + 1
        /\ \A r \in Requests \ done : u.answers[r] = left.answers[r] /\ u.reqs[r] = left.reqs[r]
    BY <1>11, <2>1, AnswerIs
  <2>. QED BY <1>11, <2>2 DEF SameOutside
<1> DEFINE shown == rest.shown \/ \E r \in done : left.reqs[r].kind = "channel"
           final == [rest EXCEPT !.shown = shown]
           finals == [chans EXCEPT ![n] = final]
<1>13. after = [answered EXCEPT !.chans = finals]
  <2>1. after = [answered EXCEPT !.chans[n].shown = @ \/ \E r \in done : left.reqs[r].kind = "channel"]
    BY DEF Succeed
  <2> HIDE DEF answered, after
  <2>. QED BY <1>10, <1>12, <2>1 DEF MediaState
<1> HIDE DEF answered, after
<1>14. /\ final \in Channel /\ SameLinks(chan, final) /\ final.pending = chan.pending \ done
       /\ final.shown <=> chan.shown \/ \E r \in done : s.reqs[r].kind = "channel"
  <2>1. \A r \in done : left.reqs[r].kind = s.reqs[r].kind
    BY <1>1, <1>2, <1>5, <1>6, <1>11, NoneIsNothing
  <2>2. shown \in BOOLEAN /\ (shown <=> chan.shown \/ \E r \in done : s.reqs[r].kind = "channel")
    BY <1>8, <2>1
  <2> HIDE DEF shown
  <2>3. /\ final \in Channel /\ SameLinks(rest, final) /\ final.pending = rest.pending
        /\ final.shown = shown
    BY <1>8, <2>2 DEF Channel, SameLinks
  <2>. QED BY <1>8, <2>2, <2>3 DEF SameLinks
<1> HIDE DEF final
<1>15. /\ finals \in [ChannelIds -> Channel \union {None}] /\ finals[n] = final
       /\ \A k \in ChannelIds \ {n} : finals[k] = s.chans[k]
  BY <1>1, <1>10, <1>14
<1> HIDE DEF finals
<1>16. /\ after \in MediaState /\ SameOutside(s, after) /\ after.chans = finals
       /\ after.answers = answered.answers /\ after.reqs = answered.reqs
  BY <1>12, <1>13, <1>15 DEF MediaState, SameOutside
<1>17. OpenOK(after, C)
  <2>1. done \in SUBSET s.chans[n].pending
    BY <1>6
  <2>2. /\ \A r \in done : after.answers[r] = s.answers[r] + 1
        /\ \A r \in Requests \ done : after.answers[r] = s.answers[r]
        /\ \A r \in Requests \ done : s.reqs[r] # None =>
               after.reqs[r] # None /\ after.reqs[r].kind = s.reqs[r].kind
    BY <1>5, <1>12, <1>16
  <2>3. /\ \A k \in ChannelIds \ {n} : after.chans[k] = s.chans[k]
        /\ after.chans[n] # None /\ SameLinks(s.chans[n], after.chans[n])
        /\ after.chans[n].pending = s.chans[n].pending \ done
        /\ after.chans[n].shown <=> s.chans[n].shown \/ \E r \in done : s.reqs[r].kind = "channel"
    BY <1>14, <1>15, <1>16, NoneIsNothing
  <2>. QED BY <1>16, <2>1, <2>2, <2>3, ResolveOK
<1>18. t = after \/ (\E l \in BOOLEAN : t = Survive(after, l)) \/ t = Abort(s)
  BY DEF Satisfy, after, left, done, filled, asked, reqs
<1>19. \A l \in BOOLEAN : /\ OpenOK(Survive(after, l), C)
                          /\ Survive(after, l).phase = "running" => Survive(after, l) = after
  BY <1>17, SurviveOK
<1>20. OpenOK(Abort(s), C) /\ Abort(s).phase = "aborted"
  BY <1>1, AbortOK
<1> HIDE DEF t
<1>21. OpenOK(t, C) /\ (t.phase = "running" => SameOutside(s, t))
  BY <1>16, <1>17, <1>18, <1>19, <1>20
<1>. QED BY <1>21 DEF t


-----------------------------------------------------------------------------
(* Streams *)

\* From s to t nothing changed but streams.
SameButStreams(s, t) ==
    /\ t.phase = s.phase /\ t.up = s.up /\ t.listed = s.listed /\ t.chans = s.chans
    /\ t.dials = s.dials /\ t.dangling = s.dangling /\ t.reqs = s.reqs /\ t.made = s.made
    /\ t.answers = s.answers /\ t.refused = s.refused
    /\ t.given_up = s.given_up /\ t.strays = s.strays /\ Live(t) = Live(s)
    /\ \A c \in Live(s) : /\ t.calls[c].conn = s.calls[c].conn /\ t.calls[c].peer = s.calls[c].peer
                          /\ t.calls[c].path = s.calls[c].path
                          /\ t.calls[c].accepted = s.calls[c].accepted

\* The invariant does not depend on the streams of a call.
LEMMA StreamsOK ==
    ASSUME NEW s, NEW C, OpenOK(s, C), NEW c \in Live(s), NEW streams \in Seq(Types \union {"ended"})
    PROVE  LET t == [s EXCEPT !.calls[c].streams = streams] IN
           /\ OpenOK(t, C) /\ SameButStreams(s, t) /\ t.calls[c].streams = streams
           /\ \A d \in CallIds \ {c} : t.calls[d] = s.calls[d]
<1> DEFINE t == [s EXCEPT !.calls[c].streams = streams]
           call == [s.calls[c] EXCEPT !.streams = streams]
           calls == [s.calls EXCEPT ![c] = call]
<1>1. /\ s \in MediaState /\ HistoryOK(s) /\ ListsOK(s) /\ c \in CallIds
      /\ \A r \in Requests : NotForgotten(s, r)
      /\ \A n \in Listed(s) : PendingOK(s, n) /\ MediaOK(s, n)
      /\ \A d \in Live(s) : CallOK(s, d) /\ (d \in C \/ FoundOK(s, d))
      /\ \A conn \in Conns, peer \in Contacts : s.dials[conn][peer] # {} => Expected(s, conn, peer)
  BY DEF OpenOK, Live
<1>2. /\ s.calls \in [CallIds -> Call \union {None}] /\ s.calls[c] \in Call
  BY <1>1 DEF MediaState, Live
<1>3. /\ call \in Call /\ call.conn = s.calls[c].conn /\ call.peer = s.calls[c].peer
      /\ call.path = s.calls[c].path /\ call.accepted = s.calls[c].accepted
      /\ call.streams = streams
  BY <1>2 DEF Call
<1>4. t = [s EXCEPT !.calls = calls]
  BY <1>1, <1>2 DEF MediaState
<1> HIDE DEF call
<1>5. /\ calls \in [CallIds -> Call \union {None}] /\ calls[c] = call
      /\ \A d \in CallIds \ {c} : calls[d] = s.calls[d]
  BY <1>1, <1>2, <1>3
<1> HIDE DEF calls
<1>6. /\ t \in MediaState /\ t.calls = calls /\ t.phase = s.phase /\ t.up = s.up
      /\ t.listed = s.listed /\ t.chans = s.chans
      /\ t.dials = s.dials /\ t.dangling = s.dangling /\ t.reqs = s.reqs /\ t.made = s.made
      /\ t.answers = s.answers /\ t.refused = s.refused
      /\ t.given_up = s.given_up /\ t.strays = s.strays
  BY <1>1, <1>4, <1>5 DEF MediaState
<1> HIDE DEF t
<1>7. call # None /\ s.calls[c] # None
  BY <1>2, <1>3, NoneIsNothing
<1>8. Live(t) = Live(s) /\ Listed(t) = Listed(s)
  BY <1>5, <1>6, <1>7 DEF Live, Listed
<1>9. \A d \in Live(s) : /\ t.calls[d].conn = s.calls[d].conn /\ t.calls[d].peer = s.calls[d].peer
                         /\ t.calls[d].path = s.calls[d].path
                         /\ t.calls[d].accepted = s.calls[d].accepted
  BY <1>3, <1>5, <1>6 DEF Live
<1>10. SameButStreams(s, t)
  BY <1>6, <1>8, <1>9 DEF SameButStreams
<1>11. HistoryOK(t) /\ ListsOK(t) /\ \A r \in Requests : NotForgotten(t, r)
  BY <1>1, <1>6, <1>8 DEF HistoryOK, ListsOK, NotForgotten
<1>12. \A n \in Listed(t) : PendingOK(t, n)
  BY <1>1, <1>6, <1>8 DEF PendingOK
<1>13. \A n \in Listed(t) : MediaOK(t, n)
  BY <1>1, <1>6, <1>8, <1>9 DEF MediaOK
<1>14. \A d \in Live(t) : CallOK(t, d) /\ (d \in C \/ FoundOK(t, d))
  BY <1>1, <1>6, <1>8, <1>9 DEF CallOK, FoundOK
<1>15. \A conn \in Conns, peer \in Contacts : t.dials[conn][peer] # {} => Expected(t, conn, peer)
  BY <1>1, <1>6, <1>8 DEF Expected
<1>16. OpenOK(t, C)
  BY <1>6, <1>11, <1>12, <1>13, <1>14, <1>15 DEF OpenOK
<1>. QED BY <1>5, <1>6, <1>3, <1>10, <1>16 DEF t

\* A call gets a stream, and is still there if the process is.
LEMMA AddStreamOK ==
    ASSUME NEW s, NEW C, OpenOK(s, C), NEW c, s.phase = "running" => c \in Live(s),
           NEW type \in Types, NEW lucky \in BOOLEAN
    PROVE  LET t == AddStream(s, c, type, lucky) IN
           OpenOK(t, C) /\ (t.phase = "running" => c \in Live(t))
<1> DEFINE t == AddStream(s, c, type, lucky)
<1>1. CASE s.phase # "running"
  BY <1>1 DEF AddStream
<1>2. CASE s.phase = "running"
  <2>1. c \in Live(s) /\ s \in MediaState /\ CallOK(s, c)
    BY <1>2 DEF OpenOK
  <2> DEFINE call == s.calls[c]
             streams == Append(call.streams, type)
             added == [s EXCEPT !.calls[c].streams = streams]
  <2>2. call \in Call /\ call.streams \in Seq(Types \union {"ended"})
    BY <2>1 DEF MediaState, Live, Call
  <2>3. streams \in Seq(Types \union {"ended"}) /\ Len(call.streams) + 1 \in Nat
    BY <2>2
  <2>4. t = IF call.path = None THEN added
            ELSE Satisfy(added, call.path, Len(call.streams) + 1, type, lucky)
    <3>1. added = [s EXCEPT !.calls[c].streams = Append(@, type)]
      BY <2>1 DEF MediaState, Live
    <3>. QED BY <1>2, <3>1 DEF AddStream
  <2> HIDE DEF streams
  <2>5. OpenOK(added, C) /\ SameButStreams(s, added)
    BY <2>1, <2>3, StreamsOK
  <2> HIDE DEF added, t
  <2>6. c \in Live(added)
    BY <2>1, <2>5 DEF SameButStreams
  <2>7. CASE call.path = None
    BY <2>4, <2>5, <2>6, <2>7 DEF t
  <2>8. CASE call.path # None
    <3> DEFINE n == call.path
               id == Len(call.streams) + 1
    <3>1. n \in Listed(added)
      BY <2>1, <2>5, <2>8 DEF CallOK, SameButStreams, Listed
    <3>2. id \in Nat
      BY <2>3
    <3> HIDE DEF n, id
    <3>3. LET u == Satisfy(added, n, id, type, lucky) IN
          /\ OpenOK(u, C)
          /\ u.phase = "running" => SameOutside(added, u)
      BY <2>5, <3>1, <3>2, SatisfyOK
    <3>4. t = Satisfy(added, n, id, type, lucky)
      BY <2>4, <2>8 DEF n, id
    <3>5. OpenOK(t, C) /\ (t.phase = "running" => SameOutside(added, t))
      BY <3>3, <3>4
    <3>. QED BY <2>6, <3>5 DEF SameOutside, Live, t
  <2>. QED BY <2>7, <2>8
<1>. QED BY <1>1, <1>2

\* A call gets its streams.
LEMMA AddStreamsOK ==
    ASSUME NEW s, StateOK(s), NEW c, s.phase = "running" => c \in Live(s),
           NEW types \in SUBSET Types, NEW lucky \in BOOLEAN
    PROVE  StateOK(AddStreams(s, c, types, lucky))
<1> DEFINE V == {t \in MediaState : StateOK(t) /\ (t.phase = "running" => c \in Live(t))}
           W == [x \in SUBSET types |-> V]
           op(type, t) == AddStream(t, c, type, lucky)
           g == [type \in types |-> [t \in V |-> op(type, t)]]
           IsFold(f) == f = [x \in SUBSET types |->
                                IF x = {} THEN s ELSE op(NextOf(x), f[x \ {NextOf(x)}])]
           fold == CHOOSE f : IsFold(f)
<1>1. AddStreams(s, c, types, lucky) = fold[types]
  BY DEF AddStreams, FoldSet, MapThenFoldSet, NextOf
<1>2. IsFiniteSet(types)
  <2>1. IsFiniteSet(Types)
    <3>1. IsFiniteSet({"audio"}) /\ Types = {"audio"} \union {"video"}
      BY FS_Singleton DEF Types
    <3>. QED BY <3>1, FS_AddElement
  <2>. QED BY <2>1, FS_Subset
<1>3. \A type \in types : \A t \in V : op(type, t) \in V
  <2> SUFFICES ASSUME NEW type \in types, NEW t \in V PROVE op(type, t) \in V
    OBVIOUS
  <2>1. type \in Types /\ OpenOK(t, {}) /\ (t.phase = "running" => c \in Live(t))
    BY DEF StateOK
  <2>2. LET u == AddStream(t, c, type, lucky) IN
        OpenOK(u, {}) /\ (u.phase = "running" => c \in Live(u))
    BY <2>1, AddStreamOK
  <2>. QED BY <2>2 DEF StateOK, OpenOK
<1>4. \A type \in types : \A t \in V : g[type][t] = op(type, t)
  OBVIOUS
<1>5. \A x \in SUBSET types : W[x] = V
  OBVIOUS
<1>6. s \in V /\ \A t \in V : StateOK(t)
  BY DEF StateOK, OpenOK
<1> HIDE DEF V, W, op, g
<1>7. s \in W[{}] /\ \A x \in SUBSET types : \A type \in types \ x : \A t \in W[x] :
          g[type][t] \in W[x \union {type}]
  BY <1>3, <1>4, <1>5, <1>6
<1>8. PICK f : IsFoldOf(f, types, s, g) /\ \A x \in SUBSET types : f[x] \in W[x]
  BY <1>2, <1>7, LoopExists
<1>9. \A x \in (SUBSET types) \ {{}} : NextOf(x) \in types /\ x \ {NextOf(x)} \in SUBSET types
  BY DEF NextOf
<1>10. IsFold(f)
  <2>1. \A x \in (SUBSET types) \ {{}} :
            g[NextOf(x)][f[x \ {NextOf(x)}]] = op(NextOf(x), f[x \ {NextOf(x)}])
    BY <1>4, <1>5, <1>8, <1>9
  <2>2. f = [x \in SUBSET types |-> IF x = {} THEN s ELSE g[NextOf(x)][f[x \ {NextOf(x)}]]]
    BY <1>8 DEF IsFoldOf
  <2>. QED BY <2>1, <2>2
<1>11. IsFold(fold)
  BY <1>10
<1> HIDE DEF fold
<1>12. fold[{}] = s /\ \A x \in (SUBSET types) \ {{}} : fold[x] = op(NextOf(x), fold[x \ {NextOf(x)}])
  BY <1>11
<1> HIDE DEF IsFold
<1>13. \A x \in SUBSET types : \A type \in types \ x :
           type = NextOf(x \union {type}) /\ fold[x] \in W[x] => fold[x \union {type}] \in W[x \union {type}]
  <2> SUFFICES ASSUME NEW x \in SUBSET types, NEW type \in types \ x,
                      type = NextOf(x \union {type}), fold[x] \in W[x]
               PROVE  fold[x \union {type}] \in W[x \union {type}]
    OBVIOUS
  <2> DEFINE y == x \union {type}
  <2>1. y \in (SUBSET types) \ {{}} /\ y \ {type} = x /\ NextOf(y) = type
    OBVIOUS
  <2> HIDE DEF y
  <2>2. fold[y] = op(type, fold[x])
    BY <1>12, <2>1
  <2>3. op(type, fold[x]) \in W[y]
    BY <1>3, <1>5, <2>1
  <2>. QED BY <2>2, <2>3 DEF y
<1>14. fold[types] \in W[types]
  BY <1>2, <1>7, <1>12, <1>13, LoopStays
<1>. QED BY <1>1, <1>5, <1>6, <1>14

-----------------------------------------------------------------------------
(* Calls find their channels *)

\* A channel and a call that had no path become each other's; the channel may be new.
LEMMA LinkOK ==
    ASSUME NEW s, NEW c, OpenOK(s, {c}), c \in Live(s),
           s.calls[c].path = None, s.calls[c].accepted = {},
           NEW n \in ChannelIds, NEW t \in MediaState,
           t.phase = s.phase, t.dials = s.dials, t.reqs = s.reqs, t.made = s.made,
           t.answers = s.answers, t.refused = s.refused, t.given_up = s.given_up,
           t.strays = s.strays, ListsOK(t), Live(t) = Live(s),
           \A d \in CallIds \ {c} : t.calls[d] = s.calls[d],
           t.calls[c].path = n, t.calls[c].accepted = {},
           \A k \in ChannelIds \ {n} : t.chans[k] = s.chans[k],
           t.chans[n] # None, t.chans[n].media = c, ~t.chans[n].waiting,
           t.chans[n].members = {IF t.chans[n].ours THEN "us" ELSE "them"},
           t.chans[n].invited <=> ~t.chans[n].ours,
           n \notin Listed(s) => t.chans[n].pending = {} /\ t.chans[n].shown,
           n \in Listed(s) => /\ s.chans[n].media = None
                              /\ t.chans[n].pending = s.chans[n].pending
                              /\ t.chans[n].shown = s.chans[n].shown
                              /\ s.dials[s.chans[n].conn][s.chans[n].peer] = {}
    PROVE  OpenOK(t, {c})
<1>1. /\ s \in MediaState /\ HistoryOK(s) /\ c \in CallIds
      /\ \A r \in Requests : NotForgotten(s, r)
      /\ \A k \in Listed(s) : PendingOK(s, k) /\ MediaOK(s, k)
      /\ \A d \in Live(s) : CallOK(s, d) /\ (d \in {c} \/ FoundOK(s, d))
      /\ \A conn \in Conns, peer \in Contacts : s.dials[conn][peer] # {} => Expected(s, conn, peer)
  BY DEF OpenOK, Live
<1>2. Listed(t) = Listed(s) \union {n} /\ c # None /\ n # None
  BY <1>1, NoneIsNothing DEF Listed, CallIds, ChannelIds
<1>3. HistoryOK(t)
  BY <1>1 DEF HistoryOK
<1>4. ASSUME NEW r \in Requests PROVE NotForgotten(t, r)
  <2>1. \A k \in Listed(s) : t.chans[k].pending = s.chans[k].pending
    BY DEF Listed
  <2>. QED BY <1>1, <1>2, <2>1 DEF NotForgotten
<1>5. \A k \in Listed(t) \ {n} : t.chans[k] = s.chans[k] /\ k \in Listed(s)
  BY <1>2 DEF Listed
<1>6. \A k \in Listed(t), r \in Requests : r \in t.chans[k].pending => k \in Listed(s) /\ r \in s.chans[k].pending
  BY <1>2, <1>5
<1>7. \A k \in Listed(t) : t.chans[k].pending \subseteq Requests
  BY <1>2 DEF MediaState, Channel, Listed
<1>8. ASSUME NEW k \in Listed(t) PROVE PendingOK(t, k)
  <2>1. CASE k \in Listed(s)
    <3>1. t.chans[k].pending = s.chans[k].pending /\ t.chans[k].shown = s.chans[k].shown
      BY <1>5, <2>1
    <3>. QED BY <1>1, <1>6, <1>7, <2>1, <3>1 DEF PendingOK
  <2>2. CASE k \notin Listed(s)
    <3>1. k = n
      BY <1>2, <2>2
    <3>. QED BY <2>2, <3>1 DEF PendingOK
  <2>. QED BY <2>1, <2>2
<1>9. ASSUME NEW k \in Listed(t) PROVE MediaOK(t, k)
  <2>1. CASE k = n
    BY <2>1, <1>2 DEF MediaOK
  <2>2. CASE k # n
    <3>1. t.chans[k] = s.chans[k] /\ k \in Listed(s) /\ MediaOK(s, k)
      BY <1>1, <1>5, <2>2
    <3>2. s.chans[k].media # None => /\ s.chans[k].media \in CallIds \ {c}
                                     /\ t.calls[s.chans[k].media] = s.calls[s.chans[k].media]
      <4>1. s.chans[k].media # None => s.chans[k].media \in Live(s) /\ s.calls[s.chans[k].media].path = k
        BY <3>1 DEF MediaOK
      <4>2. k # None
        BY <1>2, <3>1, NoneIsNothing DEF Listed, ChannelIds
      <4>. QED BY <4>1, <4>2 DEF Live
    <3>. QED BY <3>1, <3>2 DEF MediaOK
  <2>. QED BY <2>1, <2>2
<1>10. ASSUME NEW d \in Live(t) PROVE CallOK(t, d) /\ (d \in {c} \/ FoundOK(t, d))
  <2>1. CASE d = c
    BY <1>2, <2>1 DEF CallOK
  <2>2. CASE d # c
    <3>1. t.calls[d] = s.calls[d] /\ CallOK(s, d) /\ FoundOK(s, d)
      BY <1>1, <2>2 DEF Live
    <3>2. s.calls[d].path # None =>
             /\ s.calls[d].path \in Listed(s) /\ s.chans[s.calls[d].path].media = d
      BY <3>1 DEF CallOK
    <3>3. s.calls[d].path # None => s.calls[d].path # n
      <4>1. d # None
        BY NoneIsNothing DEF Live, CallIds
      <4>. QED BY <3>2, <4>1
    <3>4. CallOK(t, d)
      BY <1>2, <1>5, <3>1, <3>2, <3>3 DEF CallOK
    <3>5. FoundOK(t, d)
      BY <3>1 DEF FoundOK
    <3>. QED BY <3>4, <3>5
  <2>. QED BY <2>1, <2>2
<1>11. ASSUME NEW conn \in Conns, NEW peer \in Contacts, t.dials[conn][peer] # {}
       PROVE  Expected(t, conn, peer)
  <2>1. Expected(s, conn, peer) /\ s.dials[conn][peer] # {}
    BY <1>1, <1>11
  <2>2. \A k \in Listed(s) : s.chans[k].conn = conn /\ s.chans[k].peer = peer =>
            k # n /\ t.chans[k] = s.chans[k] /\ k \in Listed(t)
    BY <1>2, <1>5, <2>1
  <2>. QED BY <2>1, <2>2 DEF Expected
<1>. QED BY <1>3, <1>4, <1>8, <1>9, <1>10, <1>11 DEF OpenOK

\* A channel and a call that had no path get each other, ...
LEMMA LatchIs ==
    ASSUME NEW s \in MediaState, ListsOK(s), s.phase = "running", NEW c \in Live(s),
           s.calls[c].path = None, NEW n \in Listed(s)
    PROVE  LET t == Latch(s, n, c) IN
           /\ t \in MediaState /\ ListsOK(t) /\ Live(t) = Live(s) /\ Listed(t) = Listed(s)
           /\ t.phase = s.phase /\ t.dials = s.dials /\ t.reqs = s.reqs /\ t.made = s.made
           /\ t.answers = s.answers /\ t.refused = s.refused /\ t.given_up = s.given_up
           /\ t.strays = s.strays
           /\ \A d \in CallIds \ {c} : t.calls[d] = s.calls[d]
           /\ \A k \in ChannelIds \ {n} : t.chans[k] = s.chans[k]
           /\ t.calls[c].path = n /\ t.calls[c].accepted = s.calls[c].accepted
           /\ t.chans[n] # None /\ t.chans[n].media = c /\ ~t.chans[n].waiting
           /\ t.chans[n].ours = s.chans[n].ours /\ t.chans[n].members = s.chans[n].members
           /\ t.chans[n].invited = s.chans[n].invited
           /\ t.chans[n].pending = s.chans[n].pending /\ t.chans[n].shown = s.chans[n].shown
<1> DEFINE t == Latch(s, n, c)
           chan == [s.chans[n] EXCEPT !.media = c, !.waiting = FALSE]
           call == [s.calls[c] EXCEPT !.path = n]
           chans == [s.chans EXCEPT ![n] = chan]
           calls == [s.calls EXCEPT ![c] = call]
<1>1. c \in CallIds /\ n \in ChannelIds
  BY DEF Live, Listed
<1>2. s.chans[n] \in Channel /\ s.calls[c] \in Call
  BY <1>1 DEF MediaState, Listed, Live
<1>3. t = [s EXCEPT !.chans = chans, !.calls = calls]
  <2> DEFINE m == [s.chans[n] EXCEPT !.media = c]
             ch == [s.chans EXCEPT ![n] = m]
  <2>1. t = [s EXCEPT !.chans[n].media = c, !.chans[n].waiting = FALSE, !.calls[c].path = n]
    BY DEF Latch
  <2>2. ch[n] = m /\ chan = [m EXCEPT !.waiting = FALSE]
    BY <1>1, <1>2 DEF MediaState, Channel
  <2> HIDE DEF m, chan
  <2>3. [ch EXCEPT ![n].waiting = FALSE] = chans
    BY <2>2
  <2>4. t = [s EXCEPT !.chans = [ch EXCEPT ![n].waiting = FALSE], !.calls = calls]
    BY <1>1, <2>1 DEF MediaState, m
  <2>. QED BY <2>3, <2>4
<1>4. /\ chan \in Channel /\ chan.conn = s.chans[n].conn
      /\ chan.ours = s.chans[n].ours /\ chan.media = c /\ ~chan.waiting
      /\ chan.members = s.chans[n].members /\ chan.invited = s.chans[n].invited
      /\ chan.pending = s.chans[n].pending /\ chan.shown = s.chans[n].shown
  BY <1>1, <1>2 DEF Channel
<1>5. /\ call \in Call /\ call.path = n /\ call.accepted = s.calls[c].accepted
  BY <1>1, <1>2 DEF Call
<1> HIDE DEF chan, call
<1>6. /\ chans \in [ChannelIds -> Channel \union {None}] /\ chans[n] = chan
      /\ \A k \in ChannelIds \ {n} : chans[k] = s.chans[k]
      /\ calls \in [CallIds -> Call \union {None}] /\ calls[c] = call
      /\ \A d \in CallIds \ {c} : calls[d] = s.calls[d]
  BY <1>1, <1>4, <1>5 DEF MediaState
<1> HIDE DEF chans, calls
<1>7. /\ t \in MediaState /\ t.chans = chans /\ t.calls = calls
      /\ t.phase = s.phase /\ t.dials = s.dials /\ t.reqs = s.reqs /\ t.made = s.made
      /\ t.answers = s.answers /\ t.refused = s.refused /\ t.given_up = s.given_up
      /\ t.strays = s.strays /\ t.listed = s.listed
  BY <1>3, <1>6, ZenonT(60) DEF MediaState
<1> HIDE DEF t
<1>8. chan # None /\ call # None /\ n # None
  BY <1>1, <1>4, <1>5, NoneIsNothing DEF ChannelIds
<1>9. Live(t) = Live(s) /\ Listed(t) = Listed(s)
  BY <1>6, <1>7, <1>8 DEF Live, Listed
<1>10. ListsOK(t)
  <2>1. \A k \in Listed(s) : t.chans[k].conn = s.chans[k].conn
    BY <1>4, <1>6, <1>7 DEF Listed
  <2>. QED BY <1>7, <1>9, <2>1 DEF ListsOK
<1>. QED BY <1>4, <1>5, <1>6, <1>7, <1>8, <1>9, <1>10 DEF t

\* A call, and a channel without one that nobody is dialling for any more
MayLatch(s, n, c) ==
    s.phase = "running" =>
        /\ c \in Live(s) /\ n \in Listed(s) /\ s.chans[n].media = None
        /\ s.calls[c].path = None => /\ s.calls[c].accepted = {}
                                     /\ s.dials[s.chans[n].conn][s.chans[n].peer] = {}

\* ... which is what a channel waits for; the process aborts if the call has one.
LEMMA LatchOK ==
    ASSUME NEW s, NEW c, NEW n, OpenOK(s, {c}), MayLatch(s, n, c)
    PROVE  LET t == Latch(s, n, c) IN
           /\ OpenOK(t, {c})
           /\ t.phase = "running" =>
                 /\ c \in Live(t) /\ t.calls[c].path # None /\ s.calls[c].path = None
                 /\ t.dials = s.dials /\ t.strays = s.strays
                 /\ \A k \in ChannelIds \ {n} : t.chans[k] = s.chans[k]
<1> DEFINE t == Latch(s, n, c)
<1>1. s \in MediaState /\ HistoryOK(s) /\ ListsOK(s)
  BY DEF OpenOK
<1>2. CASE s.phase # "running"
  BY <1>2 DEF Latch
<1>3. CASE s.phase = "running" /\ s.calls[c].path # None
  <2>1. t = Abort(s)
    BY <1>3 DEF Latch
  <2>. QED BY <1>1, <2>1, AbortOK
<1>4. CASE s.phase = "running" /\ s.calls[c].path = None
  <2>1. /\ c \in Live(s) /\ n \in Listed(s) /\ s.chans[n].media = None /\ MediaOK(s, n)
        /\ s.calls[c].accepted = {} /\ s.dials[s.chans[n].conn][s.chans[n].peer] = {}
        /\ c \in CallIds /\ n \in ChannelIds
    BY <1>4 DEF Live, Listed, OpenOK, MayLatch
  <2>2. LET u == Latch(s, n, c) IN
        /\ u \in MediaState /\ ListsOK(u) /\ Live(u) = Live(s) /\ Listed(u) = Listed(s)
        /\ u.phase = s.phase /\ u.dials = s.dials /\ u.reqs = s.reqs /\ u.made = s.made
        /\ u.answers = s.answers /\ u.refused = s.refused /\ u.given_up = s.given_up
        /\ u.strays = s.strays
        /\ \A d \in CallIds \ {c} : u.calls[d] = s.calls[d]
        /\ \A k \in ChannelIds \ {n} : u.chans[k] = s.chans[k]
        /\ u.calls[c].path = n /\ u.calls[c].accepted = s.calls[c].accepted
        /\ u.chans[n] # None /\ u.chans[n].media = c /\ ~u.chans[n].waiting
        /\ u.chans[n].ours = s.chans[n].ours /\ u.chans[n].members = s.chans[n].members
        /\ u.chans[n].invited = s.chans[n].invited
        /\ u.chans[n].pending = s.chans[n].pending /\ u.chans[n].shown = s.chans[n].shown
    BY <1>1, <1>4, <2>1, LatchIs
  <2> HIDE DEF t
  <2>3. t = Latch(s, n, c) /\ n # None
    BY <2>1, NoneIsNothing DEF t, ChannelIds
  <2>4. OpenOK(t, {c})
    <3>1. /\ \A d \in CallIds \ {c} : t.calls[d] = s.calls[d]
          /\ t.calls[c].path = n /\ t.calls[c].accepted = {}
          /\ \A k \in ChannelIds \ {n} : t.chans[k] = s.chans[k]
          /\ t.chans[n] # None /\ t.chans[n].media = c /\ ~t.chans[n].waiting
          /\ n \notin Listed(s) => t.chans[n].pending = {} /\ t.chans[n].shown
          /\ n \in Listed(s) => /\ s.chans[n].media = None
                                /\ t.chans[n].pending = s.chans[n].pending
                                /\ t.chans[n].shown = s.chans[n].shown
                                /\ s.dials[s.chans[n].conn][s.chans[n].peer] = {}
      BY <2>1, <2>2, <2>3
    <3>2. /\ t \in MediaState /\ ListsOK(t) /\ Live(t) = Live(s)
          /\ t.phase = s.phase /\ t.dials = s.dials /\ t.reqs = s.reqs /\ t.made = s.made
          /\ t.answers = s.answers /\ t.refused = s.refused /\ t.given_up = s.given_up
          /\ t.strays = s.strays
      BY <2>2, <2>3
    <3>3. /\ t.chans[n].members = {IF t.chans[n].ours THEN "us" ELSE "them"}
          /\ t.chans[n].invited <=> ~t.chans[n].ours
      BY <2>1, <2>2, <2>3 DEF MediaOK
    <3>. QED BY <1>4, <2>1, <3>1, <3>2, <3>3, LinkOK
  <2>5. /\ c \in Live(t) /\ t.calls[c].path # None /\ s.calls[c].path = None
        /\ t.dials = s.dials /\ t.strays = s.strays
        /\ \A k \in ChannelIds \ {n} : t.chans[k] = s.chans[k]
    BY <1>4, <2>1, <2>2, <2>3
  <2>. QED BY <2>4, <2>5 DEF t
<1>. QED BY <1>2, <1>3, <1>4

\* A channel that is made is constructed for the connection that lists it.
LEMMA NewChannelIs ==
    ASSUME NEW s \in MediaState, ListsOK(s), NEW n \in FreeChannels(s), NEW conn \in Conns,
           NEW peer \in Contacts, NEW media \in CallIds \union {None}
    PROVE  LET t == NewChannel(s, n, conn, peer, media) IN
           /\ t \in MediaState /\ ListsOK(t) /\ Listed(t) = Listed(s) \union {n}
           /\ t.phase = s.phase /\ t.dials = s.dials /\ t.reqs = s.reqs /\ t.made = s.made
           /\ t.answers = s.answers /\ t.refused = s.refused /\ t.given_up = s.given_up
           /\ t.strays = s.strays /\ t.calls = s.calls /\ t.up = s.up /\ t.dangling = s.dangling
           /\ t.chans[n] = Constructed(conn, peer, media)
           /\ \A k \in ChannelIds \ {n} : t.chans[k] = s.chans[k]
<1> DEFINE t == NewChannel(s, n, conn, peer, media)
           chan == Constructed(conn, peer, media)
           listed == [s.listed EXCEPT ![conn] = @ \union {n}]
           chans == [s.chans EXCEPT ![n] = chan]
<1>1. n \in ChannelIds /\ n \notin Listed(s)
  BY DEF FreeChannels
<1>2. chan \in Channel /\ chan.conn = conn
  BY DEF Constructed, Channel
<1>3. t = [s EXCEPT !.listed = listed, !.chans = chans]
  BY DEF NewChannel
<1> HIDE DEF chan
<1>4. /\ listed \in [Conns -> SUBSET ChannelIds] /\ listed[conn] = s.listed[conn] \union {n}
      /\ \A k \in Conns \ {conn} : listed[k] = s.listed[k]
      /\ chans \in [ChannelIds -> Channel \union {None}] /\ chans[n] = chan
      /\ \A k \in ChannelIds \ {n} : chans[k] = s.chans[k]
  BY <1>1, <1>2 DEF MediaState
<1> HIDE DEF listed, chans
<1>5. /\ t \in MediaState /\ t.listed = listed /\ t.chans = chans
      /\ t.phase = s.phase /\ t.dials = s.dials /\ t.reqs = s.reqs /\ t.made = s.made
      /\ t.answers = s.answers /\ t.refused = s.refused /\ t.given_up = s.given_up
      /\ t.strays = s.strays /\ t.calls = s.calls /\ t.up = s.up /\ t.dangling = s.dangling
  BY <1>3, <1>4 DEF MediaState
<1> HIDE DEF t
<1>6. Listed(t) = Listed(s) \union {n}
  BY <1>1, <1>2, <1>4, <1>5, NoneIsNothing DEF Listed
<1>7. ASSUME NEW k \in Conns PROVE t.listed[k] = {m \in Listed(t) : t.chans[m].conn = k}
  <2>1. \A m \in Listed(s) : t.chans[m] = s.chans[m]
    BY <1>1, <1>4, <1>5 DEF Listed
  <2>2. s.listed[k] = {m \in Listed(s) : t.chans[m].conn = k}
    BY <2>1 DEF ListsOK
  <2>3. t.chans[n].conn = conn
    BY <1>2, <1>4, <1>5
  <2>. QED BY <1>4, <1>5, <1>6, <2>2, <2>3
<1>. QED BY <1>4, <1>5, <1>6, <1>7 DEF ListsOK, t, chan

\* Whatever channel is made, the process can still end.
LEMMA NewChannelRecord ==
    ASSUME NEW s \in MediaState, HistoryOK(s), NEW n, NEW conn, NEW peer, NEW media
    PROVE  LET t == NewChannel(s, n, conn, peer, media) IN
           IsRecord(t) /\ HistoryOK(t) /\ t.phase = s.phase /\ t.calls = s.calls
<1> DEFINE t == NewChannel(s, n, conn, peer, media)
           listed == [s.listed EXCEPT ![conn] = @ \union {n}]
           chans == [s.chans EXCEPT ![n] = Constructed(conn, peer, media)]
<1>1. t = [s EXCEPT !.listed = listed, !.chans = chans]
  BY DEF NewChannel
<1> HIDE DEF listed, chans
<1>2. /\ IsRecord(t) /\ t.phase = s.phase /\ t.calls = s.calls /\ t.made = s.made
      /\ t.answers = s.answers /\ t.refused = s.refused /\ t.given_up = s.given_up
      /\ t.strays = s.strays
  BY <1>1 DEF IsRecord, MediaState
<1> HIDE DEF t
<1>. QED BY <1>2 DEF HistoryOK, t

\* A manager hears of a call: the first makes a channel for it, the next aborts.
LEMMA AnnounceOK ==
    ASSUME NEW s, NEW c, OpenOK(s, {c}), NEW conn \in Conns, NEW peer \in Contacts,
           s.phase = "running" => c \in Live(s),
           s.phase = "running" /\ s.calls[c].path = None =>
               s.calls[c].accepted = {} /\ FreeChannels(s) # {}
    PROVE  LET t == AnnounceIncoming(s, c, conn, peer) IN
           /\ OpenOK(t, {c})
           /\ t.phase = "running" => c \in Live(t) /\ t.calls[c].path # None
<1> DEFINE t == AnnounceIncoming(s, c, conn, peer)
           n == CHOOSE free \in FreeChannels(s) : TRUE
           u == NewChannel(s, n, conn, peer, c)
<1>1. s \in MediaState /\ HistoryOK(s) /\ ListsOK(s)
  BY DEF OpenOK
<1>2. CASE s.phase # "running"
  BY <1>2 DEF AnnounceIncoming
<1>3. CASE s.phase = "running" /\ s.calls[c].path # None
  <2> HIDE DEF n
  <2>1. IsRecord(u) /\ HistoryOK(u) /\ u.phase = s.phase /\ u.calls = s.calls
    BY <1>1, NewChannelRecord
  <2>2. t = Latch(u, n, c)
    BY <1>3 DEF AnnounceIncoming, n
  <2> HIDE DEF t, u
  <2>3. t = End(u, "aborted")
    BY <1>3, <2>1, <2>2 DEF Latch, Abort
  <2>4. OpenOK(t, {c}) /\ t.phase = "aborted"
    BY <2>1, <2>3, EndOK
  <2>. QED BY <2>4 DEF t
<1>4. CASE s.phase = "running" /\ s.calls[c].path = None
  <2>1. n \in FreeChannels(s) /\ c \in Live(s) /\ c \in CallIds /\ s.calls[c].accepted = {}
    BY <1>4 DEF Live
  <2>2. t = Latch(u, n, c)
    BY <1>4 DEF AnnounceIncoming
  <2> HIDE DEF n
  <2>3. n \in ChannelIds /\ n \notin Listed(s) /\ n # None /\ c # None
    BY <2>1, NoneIsNothing DEF FreeChannels, ChannelIds, CallIds
  <2>4. LET v == NewChannel(s, n, conn, peer, c) IN
        /\ v \in MediaState /\ ListsOK(v) /\ Listed(v) = Listed(s) \union {n}
        /\ v.phase = s.phase /\ v.dials = s.dials /\ v.reqs = s.reqs /\ v.made = s.made
        /\ v.answers = s.answers /\ v.refused = s.refused /\ v.given_up = s.given_up
        /\ v.strays = s.strays /\ v.calls = s.calls
        /\ v.chans[n] = Constructed(conn, peer, c)
        /\ \A k \in ChannelIds \ {n} : v.chans[k] = s.chans[k]
    BY <1>1, <2>1, NewChannelIs
  <2>5. /\ u \in MediaState /\ ListsOK(u) /\ Listed(u) = Listed(s) \union {n}
        /\ u.phase = s.phase /\ u.dials = s.dials /\ u.reqs = s.reqs /\ u.made = s.made
        /\ u.answers = s.answers /\ u.refused = s.refused /\ u.given_up = s.given_up
        /\ u.strays = s.strays /\ u.calls = s.calls
        /\ u.chans[n] = Constructed(conn, peer, c)
        /\ \A k \in ChannelIds \ {n} : u.chans[k] = s.chans[k]
    BY <2>4
  <2> HIDE DEF u
  <2>6. Live(u) = Live(s) /\ c \in Live(u) /\ u.calls[c].path = None /\ n \in Listed(u) /\ u.phase = "running"
    BY <1>4, <2>1, <2>5 DEF Live
  <2>7. LET v == Latch(u, n, c) IN
        /\ v \in MediaState /\ ListsOK(v) /\ Live(v) = Live(u) /\ Listed(v) = Listed(u)
        /\ v.phase = u.phase /\ v.dials = u.dials /\ v.reqs = u.reqs /\ v.made = u.made
        /\ v.answers = u.answers /\ v.refused = u.refused /\ v.given_up = u.given_up
        /\ v.strays = u.strays
        /\ \A d \in CallIds \ {c} : v.calls[d] = u.calls[d]
        /\ \A k \in ChannelIds \ {n} : v.chans[k] = u.chans[k]
        /\ v.calls[c].path = n /\ v.calls[c].accepted = u.calls[c].accepted
        /\ v.chans[n] # None /\ v.chans[n].media = c /\ ~v.chans[n].waiting
        /\ v.chans[n].ours = u.chans[n].ours /\ v.chans[n].members = u.chans[n].members
        /\ v.chans[n].invited = u.chans[n].invited
        /\ v.chans[n].pending = u.chans[n].pending /\ v.chans[n].shown = u.chans[n].shown
    BY <2>5, <2>6, LatchIs
  <2> HIDE DEF t
  <2>8. /\ ~u.chans[n].ours /\ u.chans[n].members = {"them"} /\ u.chans[n].invited
        /\ u.chans[n].pending = {} /\ u.chans[n].shown
    <3>1. u.chans[n] = Constructed(conn, peer, c) /\ c # None
      BY <2>3, <2>5
    <3>2. Constructed(conn, peer, c).members = {"them"} /\ Constructed(conn, peer, c).pending = {}
      BY <3>1 DEF Constructed
    <3>3. ~Constructed(conn, peer, c).ours
      BY <3>1 DEF Constructed
    <3>4. Constructed(conn, peer, c).invited /\ Constructed(conn, peer, c).shown
      BY <3>1 DEF Constructed
    <3>. QED BY <3>1, <3>2, <3>3, <3>4
  <2>9. OpenOK(t, {c})
    <3>1. /\ \A d \in CallIds \ {c} : t.calls[d] = s.calls[d]
          /\ t.calls[c].path = n /\ t.calls[c].accepted = {}
          /\ \A k \in ChannelIds \ {n} : t.chans[k] = s.chans[k]
          /\ t.chans[n] # None /\ t.chans[n].media = c /\ ~t.chans[n].waiting
          /\ t.chans[n].members = {IF t.chans[n].ours THEN "us" ELSE "them"}
          /\ t.chans[n].invited <=> ~t.chans[n].ours
          /\ n \notin Listed(s) => t.chans[n].pending = {} /\ t.chans[n].shown
      BY <2>1, <2>2, <2>5, <2>7, <2>8
    <3>2. /\ t \in MediaState /\ ListsOK(t) /\ Live(t) = Live(s)
          /\ t.phase = s.phase /\ t.dials = s.dials /\ t.reqs = s.reqs /\ t.made = s.made
          /\ t.answers = s.answers /\ t.refused = s.refused /\ t.given_up = s.given_up
          /\ t.strays = s.strays
      BY <2>2, <2>5, <2>6, <2>7
    <3>3. n \in Listed(s) => /\ s.chans[n].media = None
                             /\ t.chans[n].pending = s.chans[n].pending
                             /\ t.chans[n].shown = s.chans[n].shown
                             /\ s.dials[s.chans[n].conn][s.chans[n].peer] = {}
      BY <2>3
    <3>. QED BY <1>4, <2>1, <2>3, <3>1, <3>2, <3>3, LinkOK
  <2>10. c \in Live(t) /\ t.calls[c].path # None
    BY <2>2, <2>3, <2>6, <2>7
  <2>. QED BY <2>9, <2>10 DEF t
<1>. QED BY <1>2, <1>3, <1>4

\* A call, and channels for a contact that nobody is dialling any more
MayLatchAll(s, c, conn, peer) ==
    s.phase = "running" =>
        /\ c \in Live(s)
        /\ s.calls[c].path = None => s.calls[c].accepted = {} /\ s.dials[conn][peer] = {}

\* Every channel that waits for a call with the contact gets the call: it has a channel
\* then, if one waits for it.
LEMMA LatchWaitingOK ==
    ASSUME NEW s, NEW c, NEW conn, NEW peer, OpenOK(s, {c}), MayLatchAll(s, c, conn, peer)
    PROVE  LET t == LatchWaiting(s, c, conn, peer)
               L == {n \in Listed(s) : /\ s.chans[n].waiting
                                       /\ s.chans[n].conn = conn /\ s.chans[n].peer = peer}
           IN  /\ OpenOK(t, {c})
               /\ t.phase = "running" =>
                     /\ c \in Live(t) /\ t.strays = s.strays /\ s.phase = "running"
                     /\ s.calls[c].path # None \/ L # {} => t.calls[c].path # None
                     /\ L = {} => t = s
<1> DEFINE L == {n \in Listed(s) : /\ s.chans[n].waiting
                                   /\ s.chans[n].conn = conn /\ s.chans[n].peer = peer}
           P(t, x) == /\ OpenOK(t, {c})
                      /\ t.phase = "running" =>
                            /\ c \in Live(t) /\ t.strays = s.strays /\ t.dials = s.dials
                            /\ s.phase = "running"
                            /\ t.calls[c].path = None => t.calls[c].accepted = {} /\ t.dials[conn][peer] = {}
                            /\ s.calls[c].path # None \/ x # {} => t.calls[c].path # None
                            /\ \A k \in L \ x : t.chans[k] = s.chans[k]
           W == [x \in SUBSET L |-> {t \in MediaState : P(t, x)}]
           op(n, t) == Latch(t, n, c)
           g == [n \in L |-> [t \in MediaState |-> op(n, t)]]
           IsFold(f) == f = [x \in SUBSET L |->
                                IF x = {} THEN s ELSE op(NextOf(x), f[x \ {NextOf(x)}])]
           fold == CHOOSE f : IsFold(f)
<1>1. LatchWaiting(s, c, conn, peer) = fold[L]
  BY DEF LatchWaiting, FoldSet, MapThenFoldSet, NextOf
<1>2. IsFiniteSet(L)
  <2>1. L \subseteq ChannelIds /\ IsFiniteSet(ChannelIds)
    BY BoundsType, FS_Interval DEF Listed, ChannelIds
  <2>. QED BY <2>1, FS_Subset
<1>3. \A x \in SUBSET L : \A n \in L \ x : \A t \in MediaState :
          P(t, x) => op(n, t) \in MediaState /\ P(op(n, t), x \union {n})
  <2> SUFFICES ASSUME NEW x \in SUBSET L, NEW n \in L \ x, NEW t \in MediaState, P(t, x)
               PROVE  op(n, t) \in MediaState /\ P(op(n, t), x \union {n})
    OBVIOUS
  <2> DEFINE u == Latch(t, n, c)
  <2>1. CASE t.phase # "running"
    <3>1. u = t
      BY <2>1 DEF Latch
    <3>. QED BY <2>1, <3>1
  <2>2. CASE t.phase = "running"
    <3>1. /\ n \in Listed(s) /\ n \in ChannelIds /\ t.chans[n] = s.chans[n]
          /\ s.chans[n].conn = conn /\ s.chans[n].peer = peer /\ s.chans[n].waiting
      BY <2>2 DEF Listed
    <3>2. s.chans[n].media = None
      BY <3>1 DEF OpenOK, MediaOK
    <3>3. n \in Listed(t)
      BY <3>1 DEF Listed
    <3>4. MayLatch(t, n, c)
      BY <2>2, <3>1, <3>2, <3>3 DEF MayLatch
    <3>5. OpenOK(t, {c})
      OBVIOUS
    <3> HIDE DEF P, L, u
    <3>6. LET v == Latch(t, n, c) IN
          /\ OpenOK(v, {c})
          /\ v.phase = "running" =>
                /\ c \in Live(v) /\ v.calls[c].path # None /\ t.calls[c].path = None
                /\ v.dials = t.dials /\ v.strays = t.strays
                /\ \A k \in ChannelIds \ {n} : v.chans[k] = t.chans[k]
      BY <3>4, <3>5, LatchOK
    <3>7. /\ OpenOK(u, {c})
          /\ u.phase = "running" =>
                /\ c \in Live(u) /\ u.calls[c].path # None
                /\ u.dials = t.dials /\ u.strays = t.strays
                /\ \A k \in ChannelIds \ {n} : u.chans[k] = t.chans[k]
      BY <3>6 DEF u
    <3>8. /\ t.strays = s.strays /\ t.dials = s.dials /\ s.phase = "running"
          /\ \A k \in L \ x : t.chans[k] = s.chans[k]
      BY <2>2 DEF P
    <3>9. L \subseteq ChannelIds
      BY DEF L, Listed
    <3>10. P(u, x \union {n})
      BY <3>7, <3>8, <3>9 DEF P
    <3>. QED BY <3>7, <3>10 DEF u, OpenOK
  <2>. QED BY <2>1, <2>2
<1>4. s \in MediaState /\ P(s, {})
  BY DEF OpenOK, MayLatchAll
<1> HIDE DEF P, op, fold
<1>5. \A x \in SUBSET L : \A n \in L \ x : \A t \in W[x] :
          op(n, t) \in W[x \union {n}] /\ g[n][t] \in W[x \union {n}] /\ g[n][t] = op(n, t)
  BY <1>3
<1>6. /\ s \in W[{}] /\ \A t \in W[L] : P(t, L)
      /\ \A x \in SUBSET L : W[x] \subseteq MediaState
      /\ \A n \in L : \A t \in MediaState : g[n][t] = op(n, t)
  BY <1>4
<1> HIDE DEF W, g
<1>7. PICK f : IsFoldOf(f, L, s, g) /\ \A x \in SUBSET L : f[x] \in W[x]
  BY <1>2, <1>5, <1>6, LoopExists
<1>8. \A x \in (SUBSET L) \ {{}} : /\ x \ {NextOf(x)} \in SUBSET L
                                    /\ NextOf(x) \in L \ (x \ {NextOf(x)})
  BY DEF NextOf
<1>9. IsFold(f)
  <2>1. \A x \in (SUBSET L) \ {{}} :
            g[NextOf(x)][f[x \ {NextOf(x)}]] = op(NextOf(x), f[x \ {NextOf(x)}])
    <3> SUFFICES ASSUME NEW x \in (SUBSET L) \ {{}}
                 PROVE  g[NextOf(x)][f[x \ {NextOf(x)}]] = op(NextOf(x), f[x \ {NextOf(x)}])
      OBVIOUS
    <3> DEFINE n == NextOf(x)
               y == x \ {n}
    <3>1. y \in SUBSET L /\ n \in L \ y
      BY <1>8
    <3> HIDE DEF n, y
    <3>2. f[y] \in MediaState /\ n \in L
      BY <1>6, <1>7, <3>1
    <3>3. g[n][f[y]] = op(n, f[y])
      BY <1>6, <3>2
    <3>. QED BY <3>3 DEF n, y
  <2>2. f = [x \in SUBSET L |-> IF x = {} THEN s ELSE g[NextOf(x)][f[x \ {NextOf(x)}]]]
    BY <1>7 DEF IsFoldOf
  <2>. QED BY <2>1, <2>2
<1>10. IsFold(fold)
  BY <1>9 DEF fold
<1>11. /\ fold[{}] = s
       /\ \A x \in (SUBSET L) \ {{}} : fold[x] = op(NextOf(x), fold[x \ {NextOf(x)}])
  BY <1>10
<1> HIDE DEF IsFold
<1>12. \A x \in SUBSET L : \A n \in L \ x :
           n = NextOf(x \union {n}) /\ fold[x] \in W[x] => fold[x \union {n}] \in W[x \union {n}]
  <2> SUFFICES ASSUME NEW x \in SUBSET L, NEW n \in L \ x,
                      n = NextOf(x \union {n}), fold[x] \in W[x]
               PROVE  fold[x \union {n}] \in W[x \union {n}]
    OBVIOUS
  <2> DEFINE y == x \union {n}
  <2>1. y \in (SUBSET L) \ {{}} /\ y \ {n} = x /\ NextOf(y) = n
    OBVIOUS
  <2>2. op(n, fold[x]) \in W[y]
    BY <1>5
  <2> HIDE DEF y
  <2>3. fold[y] = op(n, fold[x])
    BY <1>11, <2>1
  <2>4. fold[y] \in W[y]
    BY <2>2, <2>3
  <2>. QED BY <2>4 DEF y
<1>13. P(fold[L], L)
  <2>1. fold[L] \in W[L]
    BY <1>2, <1>6, <1>11, <1>12, LoopStays
  <2>. QED BY <1>6, <2>1
<1>14. L = {} => fold[L] = s
  BY <1>11
<1>. QED BY <1>1, <1>13, <1>14 DEF P

\* What is dialled may change, if there is a channel for it or never will be.
LEMMA DialsOK ==
    ASSUME NEW s, NEW C, OpenOK(s, C), NEW dials \in [Conns -> [Contacts -> SUBSET Types]],
           \A conn \in Conns, peer \in Contacts : dials[conn][peer] # {} => Expected(s, conn, peer)
    PROVE  LET t == [s EXCEPT !.dials = dials] IN
           /\ OpenOK(t, C) /\ t.phase = s.phase /\ t.up = s.up /\ t.dials = dials
           /\ t.chans = s.chans /\ t.calls = s.calls /\ t.strays = s.strays /\ t.dangling = s.dangling
<1> DEFINE t == [s EXCEPT !.dials = dials]
<1>1. /\ s \in MediaState /\ HistoryOK(s) /\ ListsOK(s)
      /\ \A r \in Requests : NotForgotten(s, r)
      /\ \A n \in Listed(s) : PendingOK(s, n) /\ MediaOK(s, n)
      /\ \A d \in Live(s) : CallOK(s, d) /\ (d \in C \/ FoundOK(s, d))
  BY DEF OpenOK
<1>2. /\ t \in MediaState /\ t.phase = s.phase /\ t.up = s.up /\ t.dials = dials
      /\ t.chans = s.chans /\ t.calls = s.calls /\ t.strays = s.strays /\ t.dangling = s.dangling
      /\ t.listed = s.listed /\ t.reqs = s.reqs /\ t.made = s.made /\ t.answers = s.answers
      /\ t.refused = s.refused /\ t.given_up = s.given_up
  BY <1>1 DEF MediaState
<1> HIDE DEF t
<1>3. Live(t) = Live(s) /\ Listed(t) = Listed(s)
  BY <1>2 DEF Live, Listed
<1>4. HistoryOK(t) /\ ListsOK(t) /\ \A r \in Requests : NotForgotten(t, r)
  BY <1>1, <1>2, <1>3 DEF HistoryOK, ListsOK, NotForgotten
<1>5. \A n \in Listed(t) : PendingOK(t, n)
  BY <1>1, <1>2, <1>3 DEF PendingOK
<1>6. \A n \in Listed(t) : MediaOK(t, n)
  BY <1>1, <1>2, <1>3 DEF MediaOK
<1>7. \A d \in Live(t) : CallOK(t, d) /\ (d \in C \/ FoundOK(t, d))
  BY <1>1, <1>2, <1>3 DEF CallOK, FoundOK
<1>8. \A conn \in Conns, peer \in Contacts : t.dials[conn][peer] # {} => Expected(t, conn, peer)
  BY <1>2, <1>3 DEF Expected
<1>9. OpenOK(t, C)
  BY <1>2, <1>4, <1>5, <1>6, <1>7, <1>8 DEF OpenOK
<1>. QED BY <1>2, <1>9 DEF t

\* From s to t the call c was made, which has no path and is open.
CallMade(s, t, c, conn, peer) ==
    /\ OpenOK(t, {c}) /\ c \in Live(t) /\ t.phase = s.phase /\ t.up = s.up
    /\ t.dials = s.dials /\ t.chans = s.chans /\ t.strays = s.strays
    /\ t.calls[c].path = None /\ t.calls[c].accepted = {}
    /\ t.calls[c].conn = conn /\ t.calls[c].peer = peer

\* A call that was just made has no channel.
LEMMA NewCallOK ==
    ASSUME NEW s, StateOK(s), NEW c \in FreeCalls(s), NEW conn \in Conns, NEW peer \in Contacts
    PROVE  CallMade(s, NewCall(s, c, conn, peer), c, conn, peer)
<1> DEFINE t == NewCall(s, c, conn, peer)
           call == [conn |-> conn, peer |-> peer, path |-> None, accepted |-> {}, streams |-> <<>>]
           calls == [s.calls EXCEPT ![c] = call]
<1>1. /\ s \in MediaState /\ HistoryOK(s) /\ ListsOK(s)
      /\ \A r \in Requests : NotForgotten(s, r)
      /\ \A n \in Listed(s) : PendingOK(s, n) /\ MediaOK(s, n)
      /\ \A d \in Live(s) : CallOK(s, d) /\ FoundOK(s, d)
      /\ \A k \in Conns, h \in Contacts : s.dials[k][h] # {} => Expected(s, k, h)
  BY DEF StateOK, OpenOK
<1>2. c \in CallIds /\ c \notin Live(s)
  BY DEF FreeCalls
<1>3. call \in Call
  BY DEF Call
<1>4. /\ call.path = None /\ call.accepted = {} /\ call.conn = conn /\ call.peer = peer
      /\ call # None
  BY <1>3, NoneIsNothing
<1>5. t = [s EXCEPT !.calls = calls]
  BY DEF NewCall
<1> HIDE DEF call
<1>6. /\ calls \in [CallIds -> Call \union {None}] /\ calls[c] = call
      /\ \A d \in CallIds \ {c} : calls[d] = s.calls[d]
  BY <1>1, <1>2, <1>3 DEF MediaState
<1> HIDE DEF calls
<1>7. /\ t \in MediaState /\ t.calls = calls /\ t.phase = s.phase /\ t.up = s.up
      /\ t.listed = s.listed /\ t.chans = s.chans
      /\ t.dials = s.dials /\ t.dangling = s.dangling /\ t.reqs = s.reqs /\ t.made = s.made
      /\ t.answers = s.answers /\ t.refused = s.refused
      /\ t.given_up = s.given_up /\ t.strays = s.strays
  BY <1>1, <1>5, <1>6 DEF MediaState
<1> HIDE DEF t
<1>8. Listed(t) = Listed(s) /\ Live(t) = Live(s) \union {c}
  BY <1>2, <1>4, <1>6, <1>7 DEF Listed, Live
<1>9. HistoryOK(t) /\ ListsOK(t) /\ \A r \in Requests : NotForgotten(t, r)
  BY <1>1, <1>7, <1>8 DEF HistoryOK, ListsOK, NotForgotten
<1>10. \A n \in Listed(t) : PendingOK(t, n)
  BY <1>1, <1>7, <1>8 DEF PendingOK
<1>11. \A d \in Live(s) : d # c /\ t.calls[d] = s.calls[d]
  BY <1>2, <1>6, <1>7 DEF Live
<1>12. ASSUME NEW n \in Listed(t) PROVE MediaOK(t, n)
  <2>1. MediaOK(s, n) /\ t.chans[n] = s.chans[n]
    BY <1>1, <1>7, <1>8
  <2>2. s.chans[n].media # None => /\ s.chans[n].media \in Live(s)
                                  /\ t.calls[s.chans[n].media] = s.calls[s.chans[n].media]
    BY <1>11, <2>1 DEF MediaOK
  <2>. QED BY <1>8, <2>1, <2>2 DEF MediaOK
<1>13. ASSUME NEW d \in Live(t) PROVE CallOK(t, d) /\ (d \in {c} \/ FoundOK(t, d))
  <2>1. CASE d = c
    BY <1>4, <1>6, <1>7, <2>1 DEF CallOK
  <2>2. CASE d # c
    <3>1. CallOK(s, d) /\ FoundOK(s, d) /\ t.calls[d] = s.calls[d]
      BY <1>1, <1>8, <1>11, <2>2
    <3>. QED BY <1>7, <1>8, <3>1 DEF CallOK, FoundOK
  <2>. QED BY <2>1, <2>2
<1>14. \A k \in Conns, h \in Contacts : t.dials[k][h] # {} => Expected(t, k, h)
  BY <1>1, <1>7, <1>8 DEF Expected
<1>15. OpenOK(t, {c})
  BY <1>7, <1>9, <1>10, <1>12, <1>13, <1>14 DEF OpenOK
<1>. QED BY <1>4, <1>6, <1>7, <1>8, <1>15 DEF t, CallMade

\* A call with a path, or of one that was dialled for no channel, is no longer open.
LEMMA FoundClosed ==
    ASSUME NEW s, NEW c, OpenOK(s, {c}), s.phase = "running" => FoundOK(s, c)
    PROVE  StateOK(s)
<1>1. FoundOK(s, c)
  BY DEF FoundOK
<1>. QED BY <1>1 DEF OpenOK, StateOK

\* A handler of a channel that was freed is run, and the call gets its streams.
LEMMA GetsStreamsOK ==
    ASSUME NEW s, NEW c, OpenOK(s, {c}), s.phase = "running" => c \in Live(s) /\ FoundOK(s, c),
           NEW types \in SUBSET Types, NEW lucky \in BOOLEAN
    PROVE  StateOK(AddStreams(RunDangling(s, lucky), c, types, lucky))
<1> DEFINE t == RunDangling(s, lucky)
<1>1. OpenOK(s, {})
  BY FoundClosed DEF StateOK
<1>2. OpenOK(Survive(s, lucky), {}) /\ (Survive(s, lucky).phase = "running" => Survive(s, lucky) = s)
  BY <1>1, SurviveOK
<1>3. t = s \/ t = Survive(s, lucky)
  BY DEF RunDangling
<1> HIDE DEF t
<1>4. StateOK(t) /\ (t.phase = "running" => c \in Live(t))
  BY <1>1, <1>2, <1>3 DEF StateOK
<1>. QED BY <1>4, AddStreamsOK DEF t

\* A call that was dialled finds the channel that waits for it.
LEMMA OutgoingMediaOK ==
    ASSUME NEW s, StateOK(s), s.phase = "running", NEW conn \in Conns, NEW peer \in Contacts,
           NEW types \in SUBSET Types, NEW lucky \in BOOLEAN,
           Expected(s, conn, peer), FreeCalls(s) # {}
    PROVE  StateOK(OutgoingMedia(s, conn, peer, types, lucky))
<1> DEFINE c == CHOOSE free \in FreeCalls(s) : TRUE
           dials == [s.dials EXCEPT ![conn][peer] = {}]
           u == [s EXCEPT !.dials = dials]
           made == NewCall(u, c, conn, peer)
           L == {n \in Listed(made) : /\ made.chans[n].waiting
                                      /\ made.chans[n].conn = conn /\ made.chans[n].peer = peer}
           t == LatchWaiting(made, c, conn, peer)
<1>1. /\ s \in MediaState /\ OpenOK(s, {})
      /\ \A k \in Conns, h \in Contacts : s.dials[k][h] # {} => Expected(s, k, h)
  BY DEF StateOK, OpenOK
<1>2. /\ dials \in [Conns -> [Contacts -> SUBSET Types]] /\ dials[conn][peer] = {}
      /\ \A k \in Conns, h \in Contacts : dials[k][h] # {} => Expected(s, k, h)
  BY <1>1 DEF MediaState
<1>3. u = [s EXCEPT !.dials[conn][peer] = {}]
  BY <1>1 DEF MediaState
<1>4. OutgoingMedia(s, conn, peer, types, lucky) = AddStreams(RunDangling(t, lucky), c, types, lucky)
  BY <1>3 DEF OutgoingMedia
<1>5. c \in FreeCalls(s)
  OBVIOUS
<1> HIDE DEF c, dials
<1>6. /\ OpenOK(u, {}) /\ u.phase = s.phase /\ u.dials = dials
      /\ u.chans = s.chans /\ u.calls = s.calls /\ u.strays = s.strays
  BY <1>1, <1>2, DialsOK
<1> HIDE DEF u
<1>7. c \in FreeCalls(u) /\ StateOK(u)
  BY <1>5, <1>6 DEF FreeCalls, Live, StateOK
<1>8. CallMade(u, made, c, conn, peer)
  BY <1>7, NewCallOK
<1> HIDE DEF made
<1>9. MayLatchAll(made, c, conn, peer)
  BY <1>2, <1>6, <1>8 DEF MayLatchAll, CallMade
<1>10. /\ OpenOK(t, {c})
       /\ t.phase = "running" =>
             /\ c \in Live(t) /\ t.strays = made.strays /\ made.phase = "running"
             /\ made.calls[c].path # None \/ L # {} => t.calls[c].path # None
             /\ L = {} => t = made
  <2>1. OpenOK(made, {c})
    BY <1>8 DEF CallMade
  <2>. QED BY <1>9, <2>1, LatchWaitingOK
<1>11. L = {} => <<conn, peer>> \in made.strays
  BY <1>6, <1>8 DEF Expected, Listed, CallMade
<1> HIDE DEF L, t
<1>12. t.phase = "running" => c \in Live(t) /\ FoundOK(t, c)
  BY <1>8, <1>10, <1>11 DEF FoundOK, CallMade
<1>13. StateOK(AddStreams(RunDangling(t, lucky), c, types, lucky))
  BY <1>10, <1>12, GetsStreamsOK
<1>. QED BY <1>4, <1>13

\* The managers hear of a call: then it has a channel, or there is no process.
LEMMA AnnounceAllOK ==
    ASSUME NEW s, NEW c, OpenOK(s, {c}), NEW peer \in Contacts, NEW up \in SUBSET Conns,
           s.phase = "running" => /\ c \in Live(s) /\ s.calls[c].path = None
                                  /\ s.calls[c].accepted = {} /\ FreeChannels(s) # {}
    PROVE  LET t == FoldSet(LAMBDA k, u : AnnounceIncoming(u, c, k, peer), s, up) IN
           /\ OpenOK(t, {c})
           /\ t.phase = "running" /\ up # {} => c \in Live(t) /\ t.calls[c].path # None
<1> DEFINE P(t, x) == /\ OpenOK(t, {c})
                      /\ t.phase = "running" =>
                            /\ c \in Live(t)
                            /\ x # {} => t.calls[c].path # None
                            /\ x = {} => /\ t.calls[c].path = None /\ t.calls[c].accepted = {}
                                         /\ FreeChannels(t) # {}
           W == [x \in SUBSET up |-> {t \in MediaState : P(t, x)}]
           op(k, t) == AnnounceIncoming(t, c, k, peer)
           g == [k \in up |-> [t \in MediaState |-> op(k, t)]]
           IsFold(f) == f = [x \in SUBSET up |->
                                IF x = {} THEN s ELSE op(NextOf(x), f[x \ {NextOf(x)}])]
           fold == CHOOSE f : IsFold(f)
<1>1. FoldSet(LAMBDA k, u : AnnounceIncoming(u, c, k, peer), s, up) = fold[up]
  BY DEF FoldSet, MapThenFoldSet, NextOf
<1>2. IsFiniteSet(up)
  BY ConnsFinite, FS_Subset
<1>3. \A x \in SUBSET up : \A k \in up \ x : \A t \in MediaState :
          P(t, x) => op(k, t) \in MediaState /\ P(op(k, t), x \union {k})
  <2> SUFFICES ASSUME NEW x \in SUBSET up, NEW k \in up \ x, NEW t \in MediaState, P(t, x)
               PROVE  op(k, t) \in MediaState /\ P(op(k, t), x \union {k})
    OBVIOUS
  <2> DEFINE u == AnnounceIncoming(t, c, k, peer)
  <2>1. /\ OpenOK(t, {c}) /\ k \in Conns
        /\ t.phase = "running" => c \in Live(t)
        /\ t.phase = "running" /\ t.calls[c].path = None => t.calls[c].accepted = {} /\ FreeChannels(t) # {}
    OBVIOUS
  <2>2. LET v == AnnounceIncoming(t, c, k, peer) IN
        /\ OpenOK(v, {c})
        /\ v.phase = "running" => c \in Live(v) /\ v.calls[c].path # None
    BY <2>1, AnnounceOK
  <2>3. /\ OpenOK(u, {c}) /\ x \union {k} # {}
        /\ u.phase = "running" => c \in Live(u) /\ u.calls[c].path # None
    BY <2>2
  <2> HIDE DEF u
  <2>4. P(u, x \union {k})
    BY <2>3
  <2>. QED BY <2>3, <2>4 DEF u, OpenOK
<1>4. s \in MediaState /\ P(s, {})
  BY DEF OpenOK
<1> HIDE DEF P, op, fold
<1>5. \A x \in SUBSET up : \A k \in up \ x : \A t \in W[x] :
          op(k, t) \in W[x \union {k}] /\ g[k][t] \in W[x \union {k}] /\ g[k][t] = op(k, t)
  BY <1>3
<1>6. /\ s \in W[{}] /\ \A t \in W[up] : P(t, up)
      /\ \A x \in SUBSET up : W[x] \subseteq MediaState
      /\ \A k \in up : \A t \in MediaState : g[k][t] = op(k, t)
  BY <1>4
<1> HIDE DEF W, g
<1>7. PICK f : IsFoldOf(f, up, s, g) /\ \A x \in SUBSET up : f[x] \in W[x]
  BY <1>2, <1>5, <1>6, LoopExists
<1>8. \A x \in (SUBSET up) \ {{}} : /\ x \ {NextOf(x)} \in SUBSET up
                                    /\ NextOf(x) \in up \ (x \ {NextOf(x)})
  BY DEF NextOf
<1>9. IsFold(f)
  <2>1. \A x \in (SUBSET up) \ {{}} :
            g[NextOf(x)][f[x \ {NextOf(x)}]] = op(NextOf(x), f[x \ {NextOf(x)}])
    <3> SUFFICES ASSUME NEW x \in (SUBSET up) \ {{}}
                 PROVE  g[NextOf(x)][f[x \ {NextOf(x)}]] = op(NextOf(x), f[x \ {NextOf(x)}])
      OBVIOUS
    <3> DEFINE k == NextOf(x)
               y == x \ {k}
    <3>1. y \in SUBSET up /\ k \in up \ y
      BY <1>8
    <3> HIDE DEF k, y
    <3>2. f[y] \in MediaState /\ k \in up
      BY <1>6, <1>7, <3>1
    <3>3. g[k][f[y]] = op(k, f[y])
      BY <1>6, <3>2
    <3>. QED BY <3>3 DEF k, y
  <2>2. f = [x \in SUBSET up |-> IF x = {} THEN s ELSE g[NextOf(x)][f[x \ {NextOf(x)}]]]
    BY <1>7 DEF IsFoldOf
  <2>. QED BY <2>1, <2>2
<1>10. IsFold(fold)
  BY <1>9 DEF fold
<1>11. /\ fold[{}] = s
       /\ \A x \in (SUBSET up) \ {{}} : fold[x] = op(NextOf(x), fold[x \ {NextOf(x)}])
  BY <1>10
<1> HIDE DEF IsFold
<1>12. \A x \in SUBSET up : \A k \in up \ x :
           k = NextOf(x \union {k}) /\ fold[x] \in W[x] => fold[x \union {k}] \in W[x \union {k}]
  <2> SUFFICES ASSUME NEW x \in SUBSET up, NEW k \in up \ x,
                      k = NextOf(x \union {k}), fold[x] \in W[x]
               PROVE  fold[x \union {k}] \in W[x \union {k}]
    OBVIOUS
  <2> DEFINE y == x \union {k}
  <2>1. y \in (SUBSET up) \ {{}} /\ y \ {k} = x /\ NextOf(y) = k
    OBVIOUS
  <2>2. op(k, fold[x]) \in W[y]
    BY <1>5
  <2> HIDE DEF y
  <2>3. fold[y] = op(k, fold[x])
    BY <1>11, <2>1
  <2>4. fold[y] \in W[y]
    BY <2>2, <2>3
  <2>. QED BY <2>4 DEF y
<1>13. P(fold[up], up)
  <2>1. fold[up] \in W[up]
    BY <1>2, <1>6, <1>11, <1>12, LoopStays
  <2>. QED BY <1>6, <2>1
<1>. QED BY <1>1, <1>13 DEF P

\* A call that comes in gets a channel, from the first manager that hears of it.
LEMMA IncomingMediaOK ==
    ASSUME NEW s, StateOK(s), s.phase = "running", NEW conn \in Conns, NEW peer \in Contacts,
           NEW types \in SUBSET Types, NEW lucky \in BOOLEAN, conn \in s.up,
           FreeCalls(s) # {}, FreeChannels(s) # {}
    PROVE  StateOK(IncomingMedia(s, conn, peer, types, lucky))
<1> DEFINE c == CHOOSE free \in FreeCalls(s) : TRUE
           made == NewCall(s, c, conn, peer)
           told == FoldSet(LAMBDA k, u : AnnounceIncoming(u, c, k, peer), made, s.up)
           t == LatchWaiting(told, c, conn, peer)
<1>1. IncomingMedia(s, conn, peer, types, lucky) = AddStreams(RunDangling(t, lucky), c, types, lucky)
  BY DEF IncomingMedia
<1>2. c \in FreeCalls(s) /\ s.up \in SUBSET Conns
  BY DEF StateOK, OpenOK, MediaState
<1> HIDE DEF c, made, told, t
<1>3. CallMade(s, made, c, conn, peer)
  BY <1>2, NewCallOK DEF made
<1>4. /\ OpenOK(made, {c})
      /\ made.phase = "running" => /\ c \in Live(made) /\ made.calls[c].path = None
                                   /\ made.calls[c].accepted = {} /\ FreeChannels(made) # {}
  BY <1>3 DEF CallMade, FreeChannels, Listed
<1>5. OpenOK(told, {c}) /\ (told.phase = "running" => c \in Live(told) /\ told.calls[c].path # None)
  BY <1>2, <1>4, AnnounceAllOK DEF told
<1>6. MayLatchAll(told, c, conn, peer)
  BY <1>5 DEF MayLatchAll
<1>7. OpenOK(t, {c}) /\ (t.phase = "running" => c \in Live(t) /\ t.calls[c].path # None)
  BY <1>5, <1>6, LatchWaitingOK DEF t
<1>8. t.phase = "running" => c \in Live(t) /\ FoundOK(t, c)
  BY <1>7 DEF FoundOK
<1>9. StateOK(AddStreams(RunDangling(t, lucky), c, types, lucky))
  BY <1>7, <1>8, GetsStreamsOK
<1>. QED BY <1>1, <1>9

-----------------------------------------------------------------------------
(* Requests for streams *)

\* The invariant, but for the channel n to be announced.
AlmostOK(s, n) ==
    /\ s \in MediaState /\ HistoryOK(s) /\ ListsOK(s) /\ n \in Listed(s)
    /\ \A r \in Requests : NotForgotten(s, r)
    /\ \A k \in Listed(s) \ {n} : PendingOK(s, k)
    /\ \A r \in s.chans[n].pending :
          /\ r \in s.made /\ s.answers[r] = 0 /\ s.reqs[r] # None
          /\ \A k \in Listed(s) : r \in s.chans[k].pending => k = n
    /\ \A k \in Listed(s) : MediaOK(s, k)
    /\ \A c \in Live(s) : CallOK(s, c) /\ FoundOK(s, c)
    /\ \A conn \in Conns, peer \in Contacts : s.dials[conn][peer] # {} => Expected(s, conn, peer)

\* A channel that is there
LEMMA ListedAlmost ==
    ASSUME NEW s, StateOK(s), NEW n \in Listed(s)
    PROVE  AlmostOK(s, n)
BY DEF StateOK, OpenOK, AlmostOK, PendingOK

\* A channel that was just made
LEMMA NewAlmost ==
    ASSUME NEW s, StateOK(s), NEW n \in FreeChannels(s), NEW conn \in Conns, NEW peer \in Contacts
    PROVE  LET t == NewChannel(s, n, conn, peer, None) IN
           /\ AlmostOK(t, n) /\ t.chans[n] = Constructed(conn, peer, None)
           /\ t.phase = s.phase /\ t.made = s.made /\ t.calls = s.calls
<1> DEFINE t == NewChannel(s, n, conn, peer, None)
           chan == Constructed(conn, peer, None)
<1>1. /\ s \in MediaState /\ HistoryOK(s) /\ ListsOK(s)
      /\ \A r \in Requests : NotForgotten(s, r)
      /\ \A k \in Listed(s) : PendingOK(s, k) /\ MediaOK(s, k)
      /\ \A d \in Live(s) : CallOK(s, d) /\ FoundOK(s, d)
      /\ \A k \in Conns, h \in Contacts : s.dials[k][h] # {} => Expected(s, k, h)
  BY DEF StateOK, OpenOK
<1>2. /\ t \in MediaState /\ ListsOK(t) /\ Listed(t) = Listed(s) \union {n}
      /\ t.phase = s.phase /\ t.dials = s.dials /\ t.reqs = s.reqs /\ t.made = s.made
      /\ t.answers = s.answers /\ t.refused = s.refused /\ t.given_up = s.given_up
      /\ t.strays = s.strays /\ t.calls = s.calls
      /\ t.chans[n] = chan /\ \A k \in ChannelIds \ {n} : t.chans[k] = s.chans[k]
  BY <1>1, NewChannelIs
<1>3. n \in ChannelIds /\ n \notin Listed(s)
  BY DEF FreeChannels
<1>4. chan.media = None /\ chan.pending = {} /\ chan.members = {"us"} /\ chan.ours /\ ~chan.invited
  BY DEF Constructed
<1> HIDE DEF t, chan
<1>5. \A k \in Listed(s) : k # n /\ t.chans[k] = s.chans[k]
  BY <1>2, <1>3 DEF Listed
<1>6. HistoryOK(t) /\ Live(t) = Live(s)
  BY <1>1, <1>2 DEF HistoryOK, Live
<1>7. \A r \in Requests : NotForgotten(t, r)
  BY <1>1, <1>2, <1>5 DEF NotForgotten
<1>8. ASSUME NEW k \in Listed(t) \ {n} PROVE PendingOK(t, k)
  <2>1. PendingOK(s, k) /\ k \in Listed(s) /\ t.chans[k] = s.chans[k]
    BY <1>1, <1>2, <1>5
  <2>. QED BY <1>2, <1>4, <1>5, <2>1 DEF PendingOK
<1>9. ASSUME NEW k \in Listed(t) PROVE MediaOK(t, k)
  <2>1. CASE k = n
    BY <1>2, <1>4, <2>1 DEF MediaOK
  <2>2. CASE k # n
    BY <1>1, <1>2, <1>5, <1>6, <2>2 DEF MediaOK
  <2>. QED BY <2>1, <2>2
<1>10. \A d \in Live(t) : CallOK(t, d) /\ FoundOK(t, d)
  BY <1>1, <1>2, <1>5, <1>6 DEF CallOK, FoundOK
<1>11. \A k \in Conns, h \in Contacts : t.dials[k][h] # {} => Expected(t, k, h)
  BY <1>1, <1>2, <1>5 DEF Expected
<1>12. AlmostOK(t, n)
  BY <1>2, <1>4, <1>6, <1>7, <1>8, <1>9, <1>10, <1>11 DEF AlmostOK
<1>. QED BY <1>2, <1>12 DEF t, chan

\* From s to t a request was made on the channel n, and nothing was dialled yet.
Requested(s, t, n, r) ==
    /\ t \in MediaState /\ t.phase = s.phase /\ t.up = s.up /\ t.listed = s.listed
    /\ t.calls = s.calls /\ t.dials = s.dials /\ t.given_up = s.given_up
    /\ t.made = s.made \union {r} /\ s.refused \subseteq t.refused /\ s.strays \subseteq t.strays
    /\ \A q \in Requests \ {r} : t.answers[q] = s.answers[q] /\ t.reqs[q] = s.reqs[q]
    /\ \A k \in ChannelIds \ {n} : t.chans[k] = s.chans[k]
    /\ t.chans[n] # None /\ t.chans[n].conn = s.chans[n].conn /\ t.chans[n].peer = s.chans[n].peer
    /\ t.chans[n].ours = s.chans[n].ours /\ t.chans[n].media = s.chans[n].media
    /\ t.chans[n].members = s.chans[n].members /\ t.chans[n].invited = s.chans[n].invited
    /\ s.chans[n].waiting => t.chans[n].waiting
    /\ s.chans[n].media # None => t.chans[n].waiting = s.chans[n].waiting
    /\ s.chans[n].shown => t.chans[n].shown

\* It was answered at once, ...
LEMMA AnsweredOK ==
    ASSUME NEW s, NEW n, AlmostOK(s, n), NEW r \in Requests \ s.made, NEW t, Requested(s, t, n, r),
           t.chans[n].pending = s.chans[n].pending, t.chans[n].shown \/ PendingOK(s, n),
           t.answers[r] = 1 \/ (t.answers[r] = 2 /\ r \in t.refused)
    PROVE  StateOK(t)
<1>1. /\ s \in MediaState /\ HistoryOK(s) /\ ListsOK(s) /\ n \in Listed(s) /\ n \in ChannelIds
      /\ \A q \in Requests : NotForgotten(s, q)
      /\ \A k \in Listed(s) \ {n} : PendingOK(s, k)
      /\ \A q \in s.chans[n].pending :
            /\ q \in s.made /\ s.answers[q] = 0 /\ s.reqs[q] # None
            /\ \A k \in Listed(s) : q \in s.chans[k].pending => k = n
      /\ \A k \in Listed(s) : MediaOK(s, k)
      /\ \A c \in Live(s) : CallOK(s, c) /\ FoundOK(s, c)
      /\ \A conn \in Conns, peer \in Contacts : s.dials[conn][peer] # {} => Expected(s, conn, peer)
  BY DEF AlmostOK, Listed
<1>2. Listed(t) = Listed(s) /\ Live(t) = Live(s)
  BY <1>1 DEF Requested, Listed, Live
<1>3. \A k \in Listed(s) : /\ t.chans[k].pending = s.chans[k].pending
                           /\ t.chans[k].conn = s.chans[k].conn /\ t.chans[k].peer = s.chans[k].peer
                           /\ t.chans[k].ours = s.chans[k].ours /\ t.chans[k].media = s.chans[k].media
                           /\ t.chans[k].members = s.chans[k].members
                           /\ t.chans[k].invited = s.chans[k].invited
                           /\ s.chans[k].waiting => t.chans[k].waiting
                           /\ s.chans[k].media # None => t.chans[k].waiting = s.chans[k].waiting
  BY DEF Requested, Listed
<1>4. \A k \in Listed(s) : s.chans[k].pending \subseteq Requests
  BY <1>1 DEF Listed, MediaState, Channel
<1>5. \A k \in Listed(s), q \in Requests :
          q \in s.chans[k].pending => q # r /\ q \in s.made /\ s.answers[q] = 0 /\ s.reqs[q] # None
  BY <1>1 DEF PendingOK
<1>6. HistoryOK(t)
  <2>1. /\ t.made \in SUBSET Requests /\ t.answers \in [Requests -> 0 .. 2]
        /\ t.refused \in SUBSET Requests /\ t.given_up \in SUBSET Requests
        /\ t.strays \in SUBSET (Conns \X Contacts)
    BY DEF Requested, MediaState
  <2>2. ASSUME NEW q \in Requests
        PROVE  /\ t.answers[q] <= 1 \/ q \in t.refused
               /\ q \notin t.made => t.answers[q] = 0
    <3>1. CASE q = r
      BY <3>1 DEF Requested
    <3>2. CASE q # r
      <4>1. t.answers[q] = s.answers[q]
        BY <3>2 DEF Requested
      <4>. QED BY <1>1, <3>2, <4>1 DEF HistoryOK, Requested
    <3>. QED BY <3>1, <3>2
  <2>. QED BY <2>1, <2>2 DEF HistoryOK
<1>7. ListsOK(t)
  BY <1>1, <1>2, <1>3 DEF ListsOK, Requested
<1>8. ASSUME NEW q \in Requests PROVE NotForgotten(t, q)
  <2>1. CASE q = r
    BY <2>1 DEF NotForgotten
  <2>2. CASE q # r
    <3>1. t.answers[q] = s.answers[q] /\ (q \in t.made => q \in s.made) /\ t.given_up = s.given_up /\ t.phase = s.phase
      BY <2>2 DEF Requested
    <3>. QED BY <1>1, <1>2, <1>3, <3>1 DEF NotForgotten
  <2>. QED BY <2>1, <2>2
<1>9. ASSUME NEW k \in Listed(t) PROVE PendingOK(t, k)
  <2>1. \A q \in t.chans[k].pending : /\ q \in t.made /\ t.answers[q] = 0 /\ t.reqs[q] # None
                                      /\ t.reqs[q] = s.reqs[q]
    <3> SUFFICES ASSUME NEW q \in t.chans[k].pending
                 PROVE  /\ q \in t.made /\ t.answers[q] = 0 /\ t.reqs[q] # None
                        /\ t.reqs[q] = s.reqs[q]
      OBVIOUS
    <3>1. k \in Listed(s) /\ q \in s.chans[k].pending /\ q \in Requests
      BY <1>2, <1>3, <1>4
    <3>2. q # r /\ q \in s.made /\ s.answers[q] = 0 /\ s.reqs[q] # None
      BY <1>5, <3>1
    <3>. QED BY <3>1, <3>2 DEF Requested
  <2>2. \A q \in t.chans[k].pending : \A j \in Listed(t) : q \in t.chans[j].pending => j = k
    BY <1>1, <1>2, <1>3 DEF PendingOK
  <2>3. t.chans[k].shown \/ \E q \in t.chans[k].pending : t.reqs[q].kind = "channel"
    <3>1. CASE t.chans[k].shown
      BY <3>1
    <3>2. CASE ~t.chans[k].shown
      <4>1. PendingOK(s, k)
        BY <1>1, <1>2, <3>2
      <4>2. ~s.chans[k].shown
        BY <1>2, <3>2 DEF Requested, Listed
      <4>3. PICK q \in s.chans[k].pending : s.reqs[q].kind = "channel"
        BY <4>1, <4>2 DEF PendingOK
      <4>4. q \in t.chans[k].pending
        BY <1>2, <1>3
      <4>. QED BY <2>1, <4>3, <4>4
    <3>. QED BY <3>1, <3>2
  <2>. QED BY <2>1, <2>2, <2>3 DEF PendingOK
<1>10. ASSUME NEW k \in Listed(t) PROVE MediaOK(t, k)
  <2>1. MediaOK(s, k) /\ Live(t) = Live(s) /\ t.calls = s.calls
    BY <1>1, <1>2 DEF Requested
  <2>2. /\ t.chans[k].ours = s.chans[k].ours /\ t.chans[k].media = s.chans[k].media
        /\ t.chans[k].members = s.chans[k].members /\ t.chans[k].invited = s.chans[k].invited
        /\ s.chans[k].media # None => t.chans[k].waiting = s.chans[k].waiting
    BY <1>2, <1>3
  <2>3. CASE s.chans[k].media = None
    BY <2>1, <2>2, <2>3 DEF MediaOK
  <2>4. CASE s.chans[k].media # None
    BY <2>1, <2>2, <2>4 DEF MediaOK
  <2>. QED BY <2>3, <2>4
<1>11. \A c \in Live(t) : CallOK(t, c) /\ FoundOK(t, c)
  BY <1>1, <1>2, <1>3, SMTT(30) DEF CallOK, FoundOK, Requested
<1>12. \A conn \in Conns, peer \in Contacts : t.dials[conn][peer] # {} => Expected(t, conn, peer)
  BY <1>1, <1>2, <1>3 DEF Expected, Requested
<1>. QED BY <1>6, <1>7, <1>8, <1>9, <1>10, <1>11, <1>12 DEF StateOK, OpenOK, Requested

\* ... or waits on the channel.
LEMMA AwaitedOK ==
    ASSUME NEW s, NEW n, AlmostOK(s, n), NEW r \in Requests \ s.made, NEW t, Requested(s, t, n, r),
           t.chans[n].pending = s.chans[n].pending \union {r}, t.answers[r] = 0, t.reqs[r] # None,
           PendingOK(s, n) \/ t.reqs[r].kind = "channel"
    PROVE  StateOK(t)
<1>1. /\ s \in MediaState /\ HistoryOK(s) /\ ListsOK(s) /\ n \in Listed(s) /\ n \in ChannelIds
      /\ \A q \in Requests : NotForgotten(s, q)
      /\ \A k \in Listed(s) \ {n} : PendingOK(s, k)
      /\ \A q \in s.chans[n].pending :
            /\ q \in s.made /\ s.answers[q] = 0 /\ s.reqs[q] # None
            /\ \A k \in Listed(s) : q \in s.chans[k].pending => k = n
      /\ \A k \in Listed(s) : MediaOK(s, k)
      /\ \A c \in Live(s) : CallOK(s, c) /\ FoundOK(s, c)
      /\ \A conn \in Conns, peer \in Contacts : s.dials[conn][peer] # {} => Expected(s, conn, peer)
  BY DEF AlmostOK, Listed
<1>2. Listed(t) = Listed(s) /\ Live(t) = Live(s)
  BY <1>1 DEF Requested, Listed, Live
<1>3. \A k \in Listed(s) : /\ t.chans[k].conn = s.chans[k].conn /\ t.chans[k].peer = s.chans[k].peer
                           /\ t.chans[k].ours = s.chans[k].ours /\ t.chans[k].media = s.chans[k].media
                           /\ t.chans[k].members = s.chans[k].members
                           /\ t.chans[k].invited = s.chans[k].invited
                           /\ s.chans[k].waiting => t.chans[k].waiting
                           /\ s.chans[k].media # None => t.chans[k].waiting = s.chans[k].waiting
                           /\ s.chans[k].shown => t.chans[k].shown
  BY DEF Requested, Listed
<1>4. \A k \in Listed(s) : s.chans[k].pending \subseteq Requests
  BY <1>1 DEF Listed, MediaState, Channel
<1>5. \A k \in Listed(s), q \in Requests :
          q \in s.chans[k].pending => q # r /\ q \in s.made /\ s.answers[q] = 0 /\ s.reqs[q] # None
  BY <1>1 DEF PendingOK
<1>6. \A k \in Listed(s), q \in Requests :
          q \in t.chans[k].pending <=> q \in s.chans[k].pending \/ (k = n /\ q = r)
  BY <1>1 DEF Requested, Listed
<1>7. HistoryOK(t)
  <2>1. /\ t.made \in SUBSET Requests /\ t.answers \in [Requests -> 0 .. 2]
        /\ t.refused \in SUBSET Requests /\ t.given_up \in SUBSET Requests
        /\ t.strays \in SUBSET (Conns \X Contacts)
    BY DEF Requested, MediaState
  <2>2. ASSUME NEW q \in Requests
        PROVE  /\ t.answers[q] <= 1 \/ q \in t.refused
               /\ q \notin t.made => t.answers[q] = 0
    <3>1. CASE q = r
      BY <3>1
    <3>2. CASE q # r
      <4>1. t.answers[q] = s.answers[q]
        BY <3>2 DEF Requested
      <4>. QED BY <1>1, <3>2, <4>1 DEF HistoryOK, Requested
    <3>. QED BY <3>1, <3>2
  <2>. QED BY <2>1, <2>2 DEF HistoryOK
<1>8. ListsOK(t)
  BY <1>1, <1>2, <1>3 DEF ListsOK, Requested
<1>9. ASSUME NEW q \in Requests PROVE NotForgotten(t, q)
  <2>1. CASE q = r
    BY <1>1, <1>2, <1>6, <2>1 DEF NotForgotten
  <2>2. CASE q # r
    <3>1. t.answers[q] = s.answers[q] /\ (q \in t.made => q \in s.made) /\ t.given_up = s.given_up /\ t.phase = s.phase
      BY <2>2 DEF Requested
    <3>. QED BY <1>1, <1>2, <1>6, <3>1 DEF NotForgotten
  <2>. QED BY <2>1, <2>2
<1>10. \A k \in Listed(t) : t.chans[k].pending \subseteq Requests
  BY DEF Requested, Listed, MediaState, Channel
<1>11. ASSUME NEW k \in Listed(t) PROVE PendingOK(t, k)
  <2>1. \A q \in t.chans[k].pending : /\ q \in Requests
                                      /\ q \in t.made /\ t.answers[q] = 0 /\ t.reqs[q] # None
    <3> SUFFICES ASSUME NEW q \in t.chans[k].pending
                 PROVE  q \in Requests /\ q \in t.made /\ t.answers[q] = 0 /\ t.reqs[q] # None
      OBVIOUS
    <3>1. q \in Requests /\ k \in Listed(s)
      BY <1>2, <1>10
    <3>2. CASE q = r
      BY <3>2 DEF Requested
    <3>3. CASE q # r
      <4>1. q \in s.made /\ s.answers[q] = 0 /\ s.reqs[q] # None
        BY <1>5, <1>6, <3>1, <3>3
      <4>. QED BY <3>1, <3>3, <4>1 DEF Requested
    <3>. QED BY <3>2, <3>3
  <2>2. \A q \in t.chans[k].pending : \A j \in Listed(t) : q \in t.chans[j].pending => j = k
    <3> SUFFICES ASSUME NEW q \in t.chans[k].pending, NEW j \in Listed(t), q \in t.chans[j].pending
                 PROVE  j = k
      OBVIOUS
    <3>1. q \in Requests /\ k \in Listed(s) /\ j \in Listed(s)
      BY <1>2, <1>10
    <3>2. CASE q = r
      BY <1>5, <1>6, <3>1, <3>2
    <3>3. CASE q # r
      <4>1. q \in s.chans[k].pending /\ q \in s.chans[j].pending
        BY <1>6, <3>1, <3>3
      <4>. QED BY <1>1, <3>1, <4>1 DEF PendingOK
    <3>. QED BY <3>2, <3>3
  <2>3. t.chans[k].shown \/ \E q \in t.chans[k].pending : t.reqs[q].kind = "channel"
    <3>1. CASE PendingOK(s, k)
      <4>1. CASE s.chans[k].shown
        BY <1>2, <1>3, <4>1
      <4>2. CASE ~s.chans[k].shown
        <5>1. PICK q \in s.chans[k].pending : s.reqs[q].kind = "channel"
          BY <3>1, <4>2 DEF PendingOK
        <5>2. q \in Requests /\ q # r
          BY <1>2, <1>4, <1>5
        <5>3. q \in t.chans[k].pending /\ t.reqs[q] = s.reqs[q]
          BY <1>2, <1>6, <5>2 DEF Requested
        <5>. QED BY <5>1, <5>3
      <4>. QED BY <4>1, <4>2
    <3>2. CASE ~PendingOK(s, k)
      <4>1. k = n /\ t.reqs[r].kind = "channel"
        BY <1>1, <1>2, <3>2
      <4>. QED BY <1>2, <1>6, <4>1
    <3>. QED BY <3>1, <3>2
  <2>. QED BY <2>1, <2>2, <2>3 DEF PendingOK
<1>12. ASSUME NEW k \in Listed(t) PROVE MediaOK(t, k)
  <2>1. MediaOK(s, k) /\ Live(t) = Live(s) /\ t.calls = s.calls
    BY <1>1, <1>2 DEF Requested
  <2>2. /\ t.chans[k].ours = s.chans[k].ours /\ t.chans[k].media = s.chans[k].media
        /\ t.chans[k].members = s.chans[k].members /\ t.chans[k].invited = s.chans[k].invited
        /\ s.chans[k].media # None => t.chans[k].waiting = s.chans[k].waiting
    BY <1>2, <1>3
  <2>3. CASE s.chans[k].media = None
    BY <2>1, <2>2, <2>3 DEF MediaOK
  <2>4. CASE s.chans[k].media # None
    BY <2>1, <2>2, <2>4 DEF MediaOK
  <2>. QED BY <2>3, <2>4
<1>13. \A c \in Live(t) : CallOK(t, c) /\ FoundOK(t, c)
  BY <1>1, <1>2, <1>3, SMTT(30) DEF CallOK, FoundOK, Requested
<1>14. \A conn \in Conns, peer \in Contacts : t.dials[conn][peer] # {} => Expected(t, conn, peer)
  BY <1>1, <1>2, <1>3 DEF Expected, Requested
<1>. QED BY <1>7, <1>8, <1>9, <1>11, <1>12, <1>13, <1>14 DEF StateOK, OpenOK, Requested

\* The fields of a channel are of their types.
LEMMA ChannelType ==
    ASSUME NEW s \in MediaState, NEW n \in Listed(s)
    PROVE  /\ s.chans[n] \in Channel /\ n \in ChannelIds
           /\ s.chans[n].pending \subseteq Requests /\ s.chans[n].shown \in BOOLEAN
           /\ s.chans[n].waiting \in BOOLEAN
           /\ s.chans[n].conn \in Conns /\ s.chans[n].peer \in Contacts
<1>1. n \in ChannelIds /\ s.chans[n] \in Channel
  BY DEF Listed, MediaState
<1>. QED BY <1>1 DEF Channel

\* A request that is answered at once was made, and changes nothing, ...
LEMMA AnswerRequested ==
    ASSUME NEW s, NEW n, AlmostOK(s, n), NEW r \in Requests \ s.made
    PROVE  LET t == Answer([s EXCEPT !.made = @ \union {r}], {r}) IN
           Requested(s, t, n, r) /\ t.chans = s.chans /\ t.answers[r] = 1
<1> DEFINE made == s.made \union {r}
           asked == [s EXCEPT !.made = made]
           t == Answer(asked, {r})
<1>1. /\ s \in MediaState /\ n \in Listed(s) /\ s.answers[r] = 0 /\ s.made \subseteq Requests
  BY DEF AlmostOK, HistoryOK
<1>2. asked = [s EXCEPT !.made = @ \union {r}]
  OBVIOUS
<1>3. made \subseteq Requests
  BY <1>1
<1> HIDE DEF made
<1>4. /\ asked \in MediaState /\ asked.made = made /\ asked.phase = s.phase /\ asked.up = s.up
      /\ asked.listed = s.listed /\ asked.chans = s.chans /\ asked.calls = s.calls
      /\ asked.dials = s.dials /\ asked.reqs = s.reqs /\ asked.answers = s.answers
      /\ asked.refused = s.refused /\ asked.given_up = s.given_up /\ asked.strays = s.strays
  BY <1>1, <1>3 DEF MediaState
<1> HIDE DEF asked
<1>5. {r} \in SUBSET Requests /\ \A q \in {r} : asked.answers[q] \in {0, 1}
  BY <1>1, <1>4
<1> DEFINE rs == {r}
<1>6. r \in rs /\ \A q \in Requests \ {r} : q \in Requests \ rs
  OBVIOUS
<1>7. rs \in SUBSET Requests /\ \A q \in rs : asked.answers[q] \in {0, 1}
  BY <1>5
<1>8. t = Answer(asked, rs)
  OBVIOUS
<1> HIDE DEF rs, t
<1>9. LET u == Answer(asked, rs) IN
      /\ u \in MediaState /\ SameOutside(asked, u) /\ u.chans = asked.chans
      /\ \A q \in rs : u.answers[q] = asked.answers[q] + 1
      /\ \A q \in Requests \ rs : u.answers[q] = asked.answers[q] /\ u.reqs[q] = asked.reqs[q]
  BY <1>4, <1>7, AnswerIs
<1>10. /\ t \in MediaState /\ SameOutside(asked, t) /\ t.chans = s.chans /\ t.answers[r] = 1
       /\ \A q \in Requests \ {r} : t.answers[q] = s.answers[q] /\ t.reqs[q] = s.reqs[q]
  BY <1>1, <1>4, <1>6, <1>8, <1>9
<1>11. s.chans[n] # None
  BY <1>1 DEF Listed
<1>12. Requested(s, t, n, r)
  BY <1>4, <1>10, <1>11 DEF Requested, SameOutside, made
<1>. QED BY <1>2, <1>10, <1>12 DEF t

\* ... but that the channel may be announced.
LEMMA ShownRequested ==
    ASSUME NEW s, NEW n, NEW r, NEW t, Requested(s, t, n, r), n \in Listed(s), s \in MediaState,
           t.chans = s.chans, NEW b \in BOOLEAN
    PROVE  LET u == [t EXCEPT !.chans[n].shown = @ \/ b] IN
           /\ Requested(s, u, n, r) /\ u.answers = t.answers
           /\ u.chans[n].pending = s.chans[n].pending
           /\ (u.chans[n].shown <=> s.chans[n].shown \/ b)
<1> DEFINE u == [t EXCEPT !.chans[n].shown = @ \/ b]
           shown == s.chans[n].shown \/ b
           chan == [s.chans[n] EXCEPT !.shown = shown]
           chans == [t.chans EXCEPT ![n] = chan]
<1>1. /\ s.chans[n] \in Channel /\ n \in ChannelIds /\ s.chans[n].shown \in BOOLEAN
      /\ t \in MediaState
  BY ChannelType DEF Requested
<1>2. u = [t EXCEPT !.chans = chans]
  BY <1>1 DEF MediaState
<1>3. shown \in BOOLEAN
  BY <1>1
<1>4. (s.chans[n].shown => shown) /\ (shown <=> s.chans[n].shown \/ b)
  OBVIOUS
<1> HIDE DEF shown
<1>5. /\ chan \in Channel /\ chan.shown = shown /\ chan.conn = s.chans[n].conn
      /\ chan.peer = s.chans[n].peer /\ chan.ours = s.chans[n].ours
      /\ chan.media = s.chans[n].media /\ chan.members = s.chans[n].members
      /\ chan.invited = s.chans[n].invited /\ chan.pending = s.chans[n].pending
      /\ chan.waiting = s.chans[n].waiting
  BY <1>1, <1>3 DEF Channel
<1> HIDE DEF chan
<1>6. /\ chans \in [ChannelIds -> Channel \union {None}] /\ chans[n] = chan
      /\ \A k \in ChannelIds \ {n} : chans[k] = t.chans[k]
  BY <1>1, <1>5 DEF MediaState
<1> HIDE DEF chans
<1>7. /\ u \in MediaState /\ u.chans = chans /\ u.phase = t.phase /\ u.up = t.up
      /\ u.listed = t.listed /\ u.calls = t.calls /\ u.dials = t.dials /\ u.reqs = t.reqs
      /\ u.answers = t.answers /\ u.refused = t.refused /\ u.given_up = t.given_up
      /\ u.strays = t.strays /\ u.made = t.made
  BY <1>1, <1>2, <1>6 DEF MediaState
<1> HIDE DEF u
<1>8. chan # None
  BY <1>5, NoneIsNothing
<1>9. Requested(s, u, n, r)
  BY <1>4, <1>5, <1>6, <1>7, <1>8 DEF Requested
<1>. QED BY <1>4, <1>5, <1>6, <1>7, <1>9 DEF u

\* A request that is refused was answered twice, if that can be survived.
LEMMA RefuseOK ==
    ASSUME NEW s, NEW n, AlmostOK(s, n), NEW r \in Requests \ s.made, NEW lucky \in BOOLEAN
    PROVE  LET asked == [s EXCEPT !.made = @ \union {r}] IN
           /\ PendingOK(s, n) => StateOK(Refuse(asked, r, lucky))
           /\ StateOK(RefuseWithoutError(asked, r))
<1> DEFINE asked == [s EXCEPT !.made = @ \union {r}]
           made == s.made \union {r}
           refused == s.refused \union {r}
           twice == [s.answers EXCEPT ![r] = 2]
           once == [s.answers EXCEPT ![r] = 1]
           t == [s EXCEPT !.made = made, !.answers = twice, !.refused = refused]
           u == [s EXCEPT !.made = made, !.answers = once, !.refused = refused]
<1>1. /\ s \in MediaState /\ n \in Listed(s) /\ s.answers[r] = 0 /\ s.made \subseteq Requests
      /\ s.refused \subseteq Requests /\ s.answers \in [Requests -> 0 .. 2] /\ HistoryOK(s)
  BY DEF AlmostOK, HistoryOK
<1>2. /\ Refuse(asked, r, lucky) = Survive(t, lucky)
      /\ RefuseWithoutError(asked, r) = Crash(u)
  <2>1. /\ [asked EXCEPT !.answers[r] = @ + 2, !.refused = @ \union {r}] = t
        /\ [asked EXCEPT !.answers[r] = @ + 1, !.refused = @ \union {r}] = u
    <3>1. s.answers[r] + 2 = 2 /\ s.answers[r] + 1 = 1
      BY <1>1
    <3>2. /\ asked.answers = s.answers /\ asked.refused = s.refused
      BY <1>1 DEF MediaState
    <3>0. asked = [s EXCEPT !.made = made]
      OBVIOUS
    <3> HIDE DEF made, refused, twice, once, asked
    <3>3. [asked EXCEPT !.answers = twice, !.refused = refused] = t
      BY <1>1, <3>0 DEF MediaState
    <3>4. [asked EXCEPT !.answers = once, !.refused = refused] = u
      BY <1>1, <3>0 DEF MediaState
    <3> HIDE DEF asked, t, u
    <3>5. [asked EXCEPT !.answers[r] = @ + 2, !.refused = @ \union {r}]
            = [asked EXCEPT !.answers = twice, !.refused = refused]
      BY <3>1, <3>2 DEF refused, twice, once
    <3>6. [asked EXCEPT !.answers[r] = @ + 1, !.refused = @ \union {r}]
            = [asked EXCEPT !.answers = once, !.refused = refused]
      BY <3>1, <3>2 DEF refused, twice, once
    <3>. QED BY <3>3, <3>4, <3>5, <3>6
  <2> HIDE DEF asked, t, u
  <2>. QED BY <2>1 DEF Refuse, RefuseWithoutError
<1>3. /\ made \in SUBSET Requests /\ refused \in SUBSET Requests
      /\ twice \in [Requests -> 0 .. 2] /\ twice[r] = 2
      /\ once \in [Requests -> 0 .. 2] /\ once[r] = 1
      /\ \A q \in Requests \ {r} : twice[q] = s.answers[q] /\ once[q] = s.answers[q]
  BY <1>1
<1>4. r \in refused /\ s.refused \subseteq refused
  OBVIOUS
<1>5. made = s.made \union {r}
  OBVIOUS
<1> HIDE DEF made, refused, twice, once, asked
<1>6. /\ t \in MediaState /\ t.made = made /\ t.answers = twice /\ t.refused = refused
      /\ t.phase = s.phase /\ t.up = s.up /\ t.listed = s.listed /\ t.chans = s.chans
      /\ t.calls = s.calls /\ t.dials = s.dials /\ t.reqs = s.reqs
      /\ t.given_up = s.given_up /\ t.strays = s.strays
  BY <1>1, <1>3 DEF MediaState
<1>7. /\ u \in MediaState /\ u.made = made /\ u.answers = once /\ u.refused = refused
      /\ u.given_up = s.given_up /\ u.strays = s.strays
  BY <1>1, <1>3 DEF MediaState
<1> HIDE DEF t, u
<1>8. Requested(s, t, n, r)
  <2>1. s.chans[n] # None
    BY <1>1 DEF Listed
  <2>. QED BY <1>3, <1>4, <1>5, <1>6, <2>1 DEF Requested
<1>9. ASSUME PendingOK(s, n) PROVE StateOK(t)
  <2>1. t.chans[n].pending = s.chans[n].pending /\ t.answers[r] = 2 /\ r \in t.refused
    BY <1>3, <1>4, <1>6
  <2>. QED BY <1>8, <1>9, <2>1, AnsweredOK
<1>10. HistoryOK(u)
  <2>1. /\ u.made \in SUBSET Requests /\ u.answers \in [Requests -> 0 .. 2]
        /\ u.refused \in SUBSET Requests /\ u.given_up \in SUBSET Requests
        /\ u.strays \in SUBSET (Conns \X Contacts)
    BY <1>7 DEF MediaState
  <2>2. ASSUME NEW q \in Requests
        PROVE  /\ u.answers[q] <= 1 \/ q \in u.refused
               /\ q \notin u.made => u.answers[q] = 0
    <3>1. CASE q = r
      BY <1>3, <1>5, <1>7, <3>1
    <3>2. CASE q # r
      <4>1. u.answers[q] = s.answers[q]
        BY <1>3, <1>7, <3>2
      <4>. QED BY <1>1, <1>4, <1>5, <1>7, <3>2, <4>1 DEF HistoryOK
    <3>. QED BY <3>1, <3>2
  <2>. QED BY <2>1, <2>2 DEF HistoryOK
<1>11. OpenOK(Crash(u), {}) /\ (PendingOK(s, n) => OpenOK(Survive(t, lucky), {}))
  <2>1. OpenOK(Crash(u), {})
    BY <1>7, <1>10, AbortOK
  <2>2. ASSUME PendingOK(s, n) PROVE OpenOK(Survive(t, lucky), {})
    <3>1. OpenOK(t, {})
      BY <1>9, <2>2 DEF StateOK
    <3>. QED BY <3>1, SurviveOK
  <2>. QED BY <2>1, <2>2
<1>. QED BY <1>2, <1>11 DEF StateOK, asked

\* A request that is made and waits on a channel, ...
Awaiting(s, n, r, kind, types) == Await([s EXCEPT !.made = @ \union {r}], n, r, kind, types)

\* ... which may listen for a call from now on, with somebody else than its peer.
Listening(s, n, waiting, strays) == [s EXCEPT !.chans[n].waiting = waiting, !.strays = strays]

\* From s to t that happened.
Listens(s, t, n, waiting, strays) ==
    /\ StateOK(t) /\ t.phase = s.phase /\ t.calls = s.calls /\ t.strays = strays
    /\ t.dials = s.dials /\ n \in Listed(t) /\ t.chans[n].waiting = waiting
    /\ t.chans[n].conn = s.chans[n].conn /\ t.chans[n].peer = s.chans[n].peer

\* It leaves everything as it should be.
LEMMA AwaitIs ==
    ASSUME NEW s, NEW n, AlmostOK(s, n), NEW r \in Requests \ s.made,
           NEW kind \in {"channel", "streams"}, NEW types \in SUBSET Types, types # {},
           NEW waiting \in BOOLEAN, NEW strays \in SUBSET (Conns \X Contacts),
           s.chans[n].waiting => waiting, s.strays \subseteq strays,
           s.chans[n].media # None => waiting = s.chans[n].waiting,
           PendingOK(s, n) \/ kind = "channel"
    PROVE  Listens(s, Listening(Awaiting(s, n, r, kind, types), n, waiting, strays),
                   n, waiting, strays)
<1> DEFINE asked == [s EXCEPT !.made = @ \union {r}]
           t == [Await(asked, n, r, kind, types) EXCEPT !.chans[n].waiting = waiting, !.strays = strays]
           made == s.made \union {r}
           req == [kind |-> kind, got |-> [x \in types |-> 0]]
           reqs == [s.reqs EXCEPT ![r] = req]
           pending == s.chans[n].pending \union {r}
           chan == [s.chans[n] EXCEPT !.pending = pending, !.waiting = waiting]
           chans == [s.chans EXCEPT ![n] = chan]
<1>1. /\ s \in MediaState /\ n \in Listed(s) /\ n \in ChannelIds /\ s.answers[r] = 0
      /\ s.made \subseteq Requests /\ s.chans[n] \in Channel /\ s.chans[n].pending \subseteq Requests
  BY ChannelType DEF AlmostOK, HistoryOK
<1>2. t = [s EXCEPT !.made = made, !.reqs = reqs, !.chans = chans, !.strays = strays]
  <2> DEFINE m == [s.chans[n] EXCEPT !.pending = pending]
             ch == [s.chans EXCEPT ![n] = m]
  <2>1. Await(asked, n, r, kind, types) = [s EXCEPT !.made = made, !.reqs = reqs, !.chans = ch]
    BY <1>1 DEF Await, MediaState
  <2>2. ch[n] = m /\ chan = [m EXCEPT !.waiting = waiting]
    BY <1>1, ZenonT(60) DEF MediaState, Channel
  <2>3. [ch EXCEPT ![n].waiting = waiting] = chans
    <3> HIDE DEF m, chan
    <3>. QED BY <2>2
  <2> HIDE DEF m, ch, chan, chans, made, reqs, asked
  <2>4. t = [s EXCEPT !.made = made, !.reqs = reqs, !.chans = [ch EXCEPT ![n].waiting = waiting], !.strays = strays]
    BY <1>1, <2>1 DEF MediaState
  <2>. QED BY <2>3, <2>4
<1>3. req \in Pending /\ req.kind = kind
  <2> DEFINE got == [x \in types |-> 0]
  <2>1. got \in [types -> Nat]
    OBVIOUS
  <2>2. types \in {{"audio"}, {"video"}, Types}
    BY DEF Types
  <2>3. got \in [{"audio"} -> Nat] \union [{"video"} -> Nat] \union [Types -> Nat]
    BY <2>1, <2>2
  <2> HIDE DEF got
  <2>. QED BY <2>3 DEF Pending, got
<1>4. pending \subseteq Requests
  BY <1>1
<1> HIDE DEF req, pending
<1>5. /\ chan \in Channel /\ chan.shown = s.chans[n].shown /\ chan.conn = s.chans[n].conn
      /\ chan.peer = s.chans[n].peer /\ chan.ours = s.chans[n].ours
      /\ chan.media = s.chans[n].media /\ chan.members = s.chans[n].members
      /\ chan.invited = s.chans[n].invited /\ chan.pending = pending
      /\ chan.waiting = waiting
  BY <1>1, <1>4 DEF Channel
<1> HIDE DEF chan
<1>6. /\ chans \in [ChannelIds -> Channel \union {None}] /\ chans[n] = chan
      /\ \A k \in ChannelIds \ {n} : chans[k] = s.chans[k]
      /\ reqs \in [Requests -> Pending \union {None}] /\ reqs[r] = req
      /\ \A q \in Requests \ {r} : reqs[q] = s.reqs[q]
      /\ made \in SUBSET Requests
  BY <1>1, <1>3, <1>5 DEF MediaState
<1>7. made = s.made \union {r} /\ pending = s.chans[n].pending \union {r}
  BY DEF pending
<1> HIDE DEF chans, reqs, made, t
<1>8. /\ t \in MediaState /\ t.made = made /\ t.reqs = reqs /\ t.chans = chans /\ t.strays = strays
      /\ t.phase = s.phase /\ t.up = s.up /\ t.listed = s.listed
      /\ t.calls = s.calls /\ t.dials = s.dials /\ t.answers = s.answers
      /\ t.refused = s.refused /\ t.given_up = s.given_up
  BY <1>1, <1>2, <1>6 DEF MediaState
<1>9. chan # None /\ req # None
  BY <1>3, <1>5, NoneIsNothing
<1>10. Requested(s, t, n, r)
  BY <1>5, <1>6, <1>7, <1>8, <1>9 DEF Requested
<1>11. StateOK(t)
  <2>1. /\ t.chans[n].pending = s.chans[n].pending \union {r} /\ t.answers[r] = 0
        /\ t.reqs[r] # None /\ (PendingOK(s, n) \/ t.reqs[r].kind = "channel")
    BY <1>1, <1>3, <1>5, <1>6, <1>7, <1>8, <1>9
  <2>. QED BY <1>10, <2>1, AwaitedOK
<1>12. n \in Listed(t)
  BY <1>1, <1>6, <1>8, <1>9 DEF Listed
<1>. QED BY <1>5, <1>6, <1>8, <1>11, <1>12 DEF t, asked, Listens, Listening, Awaiting

\* From s to v the channel listens for the same calls.
SameChannel(s, v, n) ==
    /\ v.chans[n].conn = s.chans[n].conn /\ v.chans[n].peer = s.chans[n].peer
    /\ v.strays = s.strays /\ Listening(v, n, s.chans[n].waiting, s.strays) = v

\* Waiting on a channel changes nothing else of it.
LEMMA AwaitChannel ==
    ASSUME NEW s, NEW n, AlmostOK(s, n), NEW r \in Requests \ s.made,
           NEW kind \in {"channel", "streams"}, NEW types \in SUBSET Types
    PROVE  SameChannel(s, Awaiting(s, n, r, kind, types), n)
<1> DEFINE asked == [s EXCEPT !.made = @ \union {r}]
           v == Await(asked, n, r, kind, types)
           made == s.made \union {r}
           reqs == [s.reqs EXCEPT ![r] = [kind |-> kind, got |-> [x \in types |-> 0]]]
           pending == s.chans[n].pending \union {r}
           chan == [s.chans[n] EXCEPT !.pending = pending]
           chans == [s.chans EXCEPT ![n] = chan]
<1>1. /\ s \in MediaState /\ n \in Listed(s) /\ n \in ChannelIds
      /\ s.chans[n] \in Channel /\ s.chans[n].pending \subseteq Requests
  BY ChannelType DEF AlmostOK
<1>2. v = [s EXCEPT !.made = made, !.reqs = reqs, !.chans = chans]
  BY <1>1 DEF Await, MediaState
<1>3. pending \subseteq Requests
  BY <1>1
<1> HIDE DEF pending
<1>4. /\ chan \in Channel /\ chan.conn = s.chans[n].conn /\ chan.peer = s.chans[n].peer
      /\ [chan EXCEPT !.waiting = s.chans[n].waiting] = chan
  BY <1>1, <1>3 DEF Channel
<1> HIDE DEF chan
<1>5. chans[n] = chan /\ [chans EXCEPT ![n].waiting = s.chans[n].waiting] = chans
  BY <1>1, <1>4 DEF MediaState
<1> HIDE DEF chans, made, reqs, v
<1>6. /\ v.chans = chans /\ v.strays = s.strays
      /\ [v EXCEPT !.chans = chans, !.strays = s.strays] = v
  BY <1>1, <1>2 DEF MediaState
<1>7. [v EXCEPT !.chans[n].waiting = s.chans[n].waiting, !.strays = s.strays] = v
  BY <1>5, <1>6
<1>. QED BY <1>4, <1>5, <1>6, <1>7 DEF v, SameChannel, Awaiting, Listening

\* Dialling makes the channel wait, or the call is there before the function returns.
LEMMA DialOK ==
    ASSUME NEW s, NEW n, AlmostOK(s, n), s.phase = "running", NEW r \in Requests \ s.made,
           NEW kind \in {"channel", "streams"}, NEW types \in SUBSET Types, types # {},
           NEW peer \in Contacts, NEW reaction \in Reactions, NEW lucky \in BOOLEAN,
           s.chans[n].media = None, PendingOK(s, n) \/ kind = "channel",
           reaction = "later" \/ FreeCalls(s) # {}
    PROVE  StateOK(Dial(Awaiting(s, n, r, kind, types), n, peer, types, reaction, lucky))
<1> DEFINE v == Awaiting(s, n, r, kind, types)
           conn == s.chans[n].conn
           strays == IF peer = s.chans[n].peer THEN s.strays ELSE s.strays \union {<<conn, peer>>}
           w == [v EXCEPT !.chans[n].waiting = TRUE, !.strays = strays]
           d == Dial(v, n, peer, types, reaction, lucky)
<1>1. /\ v.chans[n].conn = conn /\ v.chans[n].peer = s.chans[n].peer /\ v.strays = s.strays
  BY AwaitChannel DEF SameChannel
<1>2. s \in MediaState /\ conn \in Conns /\ strays \in SUBSET (Conns \X Contacts) /\ s.strays \subseteq strays
  <2>1. s \in MediaState /\ n \in Listed(s)
    BY DEF AlmostOK
  <2>2. conn \in Conns /\ s.strays \in SUBSET (Conns \X Contacts)
    BY <2>1, ChannelType DEF MediaState
  <2>. QED BY <2>1, <2>2
<1>3. peer # s.chans[n].peer => <<conn, peer>> \in strays
  OBVIOUS
<1>4. /\ StateOK(w) /\ w.phase = s.phase /\ w.calls = s.calls /\ w.strays = strays
      /\ w.dials = s.dials /\ n \in Listed(w) /\ w.chans[n].waiting
      /\ w.chans[n].conn = conn /\ w.chans[n].peer = s.chans[n].peer
  <2> DEFINE yes == TRUE
  <2>1. yes \in BOOLEAN /\ yes
    OBVIOUS
  <2>2. w = [v EXCEPT !.chans[n].waiting = yes, !.strays = strays]
    OBVIOUS
  <2> HIDE DEF strays, v, w, d
  <2>a. /\ strays \in SUBSET (Conns \X Contacts) /\ s.strays \subseteq strays
        /\ s.chans[n].waiting => yes
        /\ s.chans[n].media # None => yes = s.chans[n].waiting
    BY <1>2
  <2> HIDE DEF yes
  <2>3. Listens(s, Listening(Awaiting(s, n, r, kind, types), n, yes, strays), n, yes, strays)
    <3>1. /\ AlmostOK(s, n) /\ r \in Requests \ s.made /\ kind \in {"channel", "streams"}
          /\ types \in SUBSET Types /\ types # {} /\ yes \in BOOLEAN
          /\ PendingOK(s, n) \/ kind = "channel"
      BY <2>1
    <3>. QED BY <3>1, <2>a, AwaitIs
  <2>4. Listens(s, w, n, yes, strays)
    BY <2>2, <2>3 DEF Listening, v
  <2> HIDE DEF w
  <2>. QED BY <2>1, <2>4 DEF Listens
<1>5. d = IF reaction = "later" THEN [w EXCEPT !.dials[conn][peer] = @ \union types]
          ELSE OutgoingMedia(w, conn, peer, types, lucky)
  <2>1. w = [v EXCEPT !.chans[n].waiting = TRUE,
                      !.strays = IF peer = v.chans[n].peer THEN @
                                 ELSE @ \union {<<v.chans[n].conn, peer>>}]
    BY <1>1
  <2>2. d = IF reaction = "later" THEN [w EXCEPT !.dials[v.chans[n].conn][peer] = @ \union types]
            ELSE OutgoingMedia(w, v.chans[n].conn, peer, types, lucky)
    <3> HIDE DEF v, w
    <3>. QED BY <2>1 DEF Dial
  <2>. QED BY <1>1, <2>2
<1> HIDE DEF v, w, strays, d
<1>6. Expected(w, conn, peer)
  BY <1>3, <1>4 DEF Expected
<1>7. CASE reaction = "later"
  <2> DEFINE dials == [w.dials EXCEPT ![conn][peer] = @ \union types]
  <2>1. /\ w \in MediaState /\ OpenOK(w, {})
        /\ \A k \in Conns, h \in Contacts : w.dials[k][h] # {} => Expected(w, k, h)
    BY <1>4 DEF StateOK, OpenOK
  <2> HIDE DEF conn
  <2>2. w.dials \in [Conns -> [Contacts -> SUBSET Types]]
    BY <2>1 DEF MediaState
  <2>3. /\ dials \in [Conns -> [Contacts -> SUBSET Types]]
        /\ \A k \in Conns, h \in Contacts : k # conn \/ h # peer => dials[k][h] = w.dials[k][h]
    BY <1>2, <2>2
  <2>4. \A k \in Conns, h \in Contacts : dials[k][h] # {} => Expected(w, k, h)
    BY <1>6, <2>1, <2>3
  <2>5. d = [w EXCEPT !.dials = dials]
    BY <1>5, <1>7, <2>1 DEF MediaState
  <2> HIDE DEF dials
  <2>6. OpenOK(d, {})
    BY <2>1, <2>3, <2>4, <2>5, DialsOK
  <2>. QED BY <2>6 DEF StateOK, d, v
<1>8. CASE reaction # "later"
  <2>1. FreeCalls(w) # {}
    BY <1>4, <1>8 DEF FreeCalls, Live
  <2>2. StateOK(OutgoingMedia(w, conn, peer, types, lucky))
    BY <1>2, <1>4, <1>6, <2>1, OutgoingMediaOK
  <2>. QED BY <1>5, <1>8, <2>2 DEF d, v
<1>. QED BY <1>7, <1>8

\* media_channel_request_streams
LEMMA RequestStreamsOnOK ==
    ASSUME NEW s, NEW n, AlmostOK(s, n), s.phase = "running", NEW r \in Requests \ s.made,
           NEW kind \in {"channel", "streams"}, NEW types \in SUBSET Types \union {{"invalid"}},
           NEW peer \in Contacts, NEW caps, NEW reaction \in Reactions, NEW lucky \in BOOLEAN,
           \/ kind = "channel" /\ s.chans[n].media = None /\ types \in SUBSET Types
           \/ PendingOK(s, n),
           reaction = "now" /\ s.chans[n].media = None => FreeCalls(s) # {}
    PROVE  StateOK(RequestStreamsOn(s, n, r, kind, peer, types, caps, reaction, lucky))
<1> DEFINE t == RequestStreamsOn(s, n, r, kind, peer, types, caps, reaction, lucky)
           asked == [s EXCEPT !.made = @ \union {r}]
           answered == Answer(asked, {r})
           waiting == Awaiting(s, n, r, kind, types)
           inCall == s.chans[n].media # None
           refused == \/ ~ types \subseteq Types
                      \/ inCall /\ ("modify" \notin caps \/ types \subseteq caps)
<1>1. s \in MediaState /\ n \in Listed(s)
  BY DEF AlmostOK
<1>2. Requested(s, answered, n, r) /\ answered.chans = s.chans /\ answered.answers[r] = 1
  BY AnswerRequested
<1>3. CASE types = {}
  <2> DEFINE b == kind = "channel"
             u == [answered EXCEPT !.chans[n].shown = @ \/ b]
  <2>1. t = u
    BY <1>3 DEF RequestStreamsOn
  <2>2. b \in BOOLEAN /\ (b \/ PendingOK(s, n))
    OBVIOUS
  <2> HIDE DEF b, answered
  <2>3. /\ Requested(s, u, n, r) /\ u.answers = answered.answers
        /\ u.chans[n].pending = s.chans[n].pending
        /\ (u.chans[n].shown <=> s.chans[n].shown \/ b)
    BY <1>1, <1>2, <2>2, ShownRequested
  <2> HIDE DEF u
  <2>4. /\ u.chans[n].shown \/ PendingOK(s, n)
        /\ u.answers[r] = 1
    BY <1>2, <2>2, <2>3
  <2>5. StateOK(u)
    BY <2>3, <2>4, AnsweredOK
  <2>. QED BY <2>1, <2>5
<1>4. CASE types # {} /\ inCall /\ peer # s.chans[n].peer
  <2>1. t = answered
    BY <1>4 DEF RequestStreamsOn
  <2>2. PendingOK(s, n)
    BY <1>4
  <2> HIDE DEF answered
  <2>3. answered.chans[n].pending = s.chans[n].pending
    BY <1>2
  <2>4. StateOK(answered)
    BY <1>2, <2>2, <2>3, AnsweredOK
  <2>. QED BY <2>1, <2>4
<1>5. CASE types # {} /\ ~(inCall /\ peer # s.chans[n].peer) /\ refused
  <2>1. t = Refuse(asked, r, lucky)
    <3> HIDE DEF asked, waiting
    <3>. QED BY <1>5 DEF RequestStreamsOn, asked, waiting
  <2>2. PendingOK(s, n)
    BY <1>5
  <2>3. StateOK(Refuse(asked, r, lucky))
    BY <2>2, RefuseOK
  <2>. QED BY <2>1, <2>3
<1>6. CASE /\ types # {} /\ ~(inCall /\ peer # s.chans[n].peer) /\ ~refused
           /\ reaction = "refuse"
  <2>1. t = RefuseWithoutError(asked, r)
    BY <1>6 DEF RequestStreamsOn
  <2>2. StateOK(RefuseWithoutError(asked, r))
    BY RefuseOK
  <2>. QED BY <2>1, <2>2
<1>7. CASE /\ types # {} /\ ~(inCall /\ peer # s.chans[n].peer) /\ ~refused
           /\ reaction # "refuse"
  <2>1. t = IF ~inCall THEN Dial(waiting, n, peer, types, reaction, lucky)
            ELSE IF reaction = "later" THEN waiting
            ELSE AddStreams(waiting, s.chans[n].media, types, lucky)
    BY <1>7 DEF RequestStreamsOn, Awaiting
  <2>2. types \in SUBSET Types /\ types # {} /\ (PendingOK(s, n) \/ kind = "channel")
    BY <1>7
  <2>3. CASE ~inCall
    <3>1. s.chans[n].media = None /\ (reaction = "later" \/ FreeCalls(s) # {})
      BY <1>7, <2>3 DEF Reactions
    <3>2. StateOK(Dial(waiting, n, peer, types, reaction, lucky))
      BY <2>2, <3>1, DialOK
    <3>. QED BY <2>1, <2>3, <3>2
  <2>4. CASE inCall
    <3> DEFINE listening == s.chans[n].waiting
    <3>1. SameChannel(s, waiting, n)
      BY <2>2, AwaitChannel
    <3>2. /\ listening \in BOOLEAN /\ s.strays \in SUBSET (Conns \X Contacts)
          /\ (s.chans[n].waiting => listening) /\ s.strays \subseteq s.strays
          /\ s.chans[n].media # None => listening = s.chans[n].waiting
      BY <1>1, ChannelType DEF MediaState
    <3> HIDE DEF listening, waiting, t
    <3>3. Listens(s, Listening(Awaiting(s, n, r, kind, types), n, listening, s.strays),
                  n, listening, s.strays)
      BY <2>2, <3>2, AwaitIs
    <3>4. StateOK(waiting) /\ waiting.calls = s.calls
      BY <3>1, <3>3 DEF waiting, listening, Listens, SameChannel
    <3>5. s.chans[n].media \in Live(waiting)
      BY <1>1, <2>4, <3>4 DEF AlmostOK, MediaOK, Live
    <3>6. StateOK(AddStreams(waiting, s.chans[n].media, types, lucky))
      BY <2>2, <3>4, <3>5, AddStreamsOK
    <3>. QED BY <2>1, <2>4, <3>4, <3>6 DEF t
  <2>. QED BY <2>3, <2>4
<1>. QED BY <1>3, <1>4, <1>5, <1>6, <1>7

-----------------------------------------------------------------------------
(* Calls and channels end *)

\* A channel is dropped with its call, if it has one, and what waited on it is
\* answered or given up.
LEMMA RemoveOK ==
    ASSUME NEW s, StateOK(s), NEW n \in Listed(s), NEW t \in MediaState,
           t.phase = s.phase, t.dials = s.dials, t.made = s.made, t.refused = s.refused,
           ListsOK(t), Listed(t) = Listed(s) \ {n}, Live(t) = Live(s) \ {s.chans[n].media},
           \A k \in Listed(t) : t.chans[k] = s.chans[k],
           \A d \in Live(t) : t.calls[d] = s.calls[d],
           s.strays \subseteq t.strays, s.given_up \subseteq t.given_up,
           s.chans[n].waiting => <<s.chans[n].conn, s.chans[n].peer>> \in t.strays,
           \A r \in Requests \ s.chans[n].pending :
               t.answers[r] = s.answers[r] /\ t.reqs[r] = s.reqs[r],
           \A r \in s.chans[n].pending :
               \/ t.answers[r] = s.answers[r] + 1
               \/ t.answers[r] = s.answers[r] /\ r \in t.given_up
    PROVE  StateOK(t)
<1>1. /\ s \in MediaState /\ HistoryOK(s) /\ ListsOK(s) /\ n \in ChannelIds
      /\ \A r \in Requests : NotForgotten(s, r)
      /\ \A k \in Listed(s) : PendingOK(s, k) /\ MediaOK(s, k)
      /\ \A d \in Live(s) : CallOK(s, d) /\ FoundOK(s, d)
      /\ \A k \in Conns, h \in Contacts : s.dials[k][h] # {} => Expected(s, k, h)
  BY DEF StateOK, OpenOK, Listed
<1>2. \A r \in s.chans[n].pending : r \in Requests /\ r \in s.made /\ s.answers[r] = 0
  BY <1>1, ChannelType DEF PendingOK
<1>3. HistoryOK(t)
  <2>1. /\ t.made \in SUBSET Requests /\ t.answers \in [Requests -> 0 .. 2]
        /\ t.refused \in SUBSET Requests /\ t.given_up \in SUBSET Requests
        /\ t.strays \in SUBSET (Conns \X Contacts)
    BY DEF MediaState
  <2>2. \A r \in Requests : /\ t.answers[r] <= 1 \/ r \in t.refused
                            /\ r \notin t.made => t.answers[r] = 0
    BY <1>1, <1>2 DEF HistoryOK
  <2>. QED BY <2>1, <2>2 DEF HistoryOK
<1>4. ASSUME NEW r \in Requests PROVE NotForgotten(t, r)
  <2>1. CASE r \in s.chans[n].pending
    BY <1>2, <2>1 DEF NotForgotten
  <2>2. CASE r \notin s.chans[n].pending
    BY <1>1, <2>2 DEF NotForgotten
  <2>. QED BY <2>1, <2>2
<1>5. ASSUME NEW k \in Listed(t) PROVE PendingOK(t, k)
  <2>1. k \in Listed(s) /\ k # n /\ t.chans[k] = s.chans[k] /\ PendingOK(s, k)
    BY <1>1
  <2>2. \A r \in s.chans[k].pending : r \in Requests /\ r \notin s.chans[n].pending
    BY <1>1, <2>1, ChannelType DEF PendingOK
  <2>. QED BY <2>1, <2>2 DEF PendingOK
<1>6. \A k \in Listed(t) : s.chans[k].media # None => s.chans[k].media # s.chans[n].media
  BY <1>1 DEF MediaOK
<1>7. ASSUME NEW k \in Listed(t) PROVE MediaOK(t, k)
  <2>1. k \in Listed(s) /\ t.chans[k] = s.chans[k] /\ MediaOK(s, k)
    BY <1>1
  <2>2. s.chans[k].media # None => /\ s.chans[k].media \in Live(t)
                                  /\ t.calls[s.chans[k].media] = s.calls[s.chans[k].media]
    BY <1>6, <2>1 DEF MediaOK
  <2>. QED BY <2>1, <2>2 DEF MediaOK
<1>8. ASSUME NEW d \in Live(t) PROVE CallOK(t, d) /\ FoundOK(t, d)
  <2>1. d \in Live(s) /\ d # s.chans[n].media /\ t.calls[d] = s.calls[d] /\ CallOK(s, d) /\ FoundOK(s, d)
    BY <1>1
  <2>. QED BY <2>1 DEF CallOK, FoundOK
<1>9. ASSUME NEW conn \in Conns, NEW peer \in Contacts, t.dials[conn][peer] # {}
      PROVE  Expected(t, conn, peer)
  <2>1. Expected(s, conn, peer)
    BY <1>1, <1>9
  <2>. QED BY <2>1 DEF Expected
<1>. QED BY <1>3, <1>4, <1>5, <1>7, <1>8, <1>9 DEF StateOK, OpenOK

\* From s to t a channel was dropped, or a call ended, with what belongs to it.
Closed(s, t, n) == StateOK(t) /\ t.phase = s.phase /\ Listed(t) = Listed(s) \ {n}
Ended(s, t, c) ==
    /\ StateOK(t) /\ t.phase = s.phase /\ Live(t) = Live(s) \ {c}
    /\ \A d \in Live(t) : t.calls[d] = s.calls[d]

\* A call without a channel ends.
LEMMA ForgetCall ==
    ASSUME NEW s, StateOK(s), NEW c \in Live(s), s.calls[c].path = None
    PROVE  Ended(s, [s EXCEPT !.calls[c] = None], c)
<1> DEFINE t == [s EXCEPT !.calls[c] = None]
           calls == [s.calls EXCEPT ![c] = None]
<1>1. /\ s \in MediaState /\ HistoryOK(s) /\ ListsOK(s) /\ c \in CallIds
      /\ \A r \in Requests : NotForgotten(s, r)
      /\ \A k \in Listed(s) : PendingOK(s, k) /\ MediaOK(s, k)
      /\ \A d \in Live(s) : CallOK(s, d) /\ FoundOK(s, d)
      /\ \A k \in Conns, h \in Contacts : s.dials[k][h] # {} => Expected(s, k, h)
  BY DEF StateOK, OpenOK, Live
<1>2. t = [s EXCEPT !.calls = calls]
  OBVIOUS
<1>3. /\ calls \in [CallIds -> Call \union {None}] /\ calls[c] = None
      /\ \A d \in CallIds \ {c} : calls[d] = s.calls[d]
  BY <1>1 DEF MediaState
<1> HIDE DEF calls, t
<1>4. /\ t \in MediaState /\ t.calls = calls /\ t.phase = s.phase /\ t.up = s.up
      /\ t.listed = s.listed /\ t.chans = s.chans
      /\ t.dials = s.dials /\ t.dangling = s.dangling /\ t.reqs = s.reqs /\ t.made = s.made
      /\ t.answers = s.answers /\ t.refused = s.refused
      /\ t.given_up = s.given_up /\ t.strays = s.strays
  BY <1>1, <1>2, <1>3 DEF MediaState
<1>5. /\ Listed(t) = Listed(s) /\ Live(t) = Live(s) \ {c}
      /\ \A d \in Live(t) : t.calls[d] = s.calls[d]
  BY <1>1, <1>3, <1>4 DEF Listed, Live
<1>6. HistoryOK(t) /\ ListsOK(t) /\ \A r \in Requests : NotForgotten(t, r)
  BY <1>1, <1>4, <1>5 DEF HistoryOK, ListsOK, NotForgotten
<1>7. \A n \in Listed(t) : PendingOK(t, n)
  BY <1>1, <1>4, <1>5 DEF PendingOK
<1>8. ASSUME NEW n \in Listed(t) PROVE MediaOK(t, n)
  <2>1. MediaOK(s, n) /\ t.chans[n] = s.chans[n] /\ n # None
    BY <1>1, <1>4, <1>5, NoneIsNothing DEF Listed, ChannelIds
  <2>2. s.chans[n].media # None => /\ s.chans[n].media \in Live(t)
                                  /\ t.calls[s.chans[n].media] = s.calls[s.chans[n].media]
    BY <1>5, <2>1 DEF MediaOK
  <2>. QED BY <2>1, <2>2 DEF MediaOK
<1>9. \A d \in Live(t) : CallOK(t, d) /\ FoundOK(t, d)
  BY <1>1, <1>4, <1>5 DEF CallOK, FoundOK
<1>10. \A k \in Conns, h \in Contacts : t.dials[k][h] # {} => Expected(t, k, h)
  BY <1>1, <1>4, <1>5 DEF Expected
<1>11. StateOK(t)
  BY <1>4, <1>6, <1>7, <1>8, <1>9, <1>10 DEF StateOK, OpenOK
<1>. QED BY <1>4, <1>5, <1>11 DEF t, Ended

\* What Drop does, whatever the calls are
LEMMA DropIs ==
    ASSUME NEW s \in MediaState, ListsOK(s), NEW n \in Listed(s)
    PROVE  LET t == Drop(s, n) IN
           /\ t \in MediaState /\ ListsOK(t) /\ Listed(t) = Listed(s) \ {n}
           /\ \A k \in Listed(t) : t.chans[k] = s.chans[k]
           /\ t.calls = s.calls /\ t.phase = s.phase /\ t.dials = s.dials /\ t.made = s.made
           /\ t.refused = s.refused /\ t.answers = s.answers /\ t.reqs = s.reqs
           /\ t.strays = s.strays /\ t.given_up = s.given_up
<1> DEFINE t == Drop(s, n)
           conn == s.chans[n].conn
           chans == [s.chans EXCEPT ![n] = None]
           listed == [s.listed EXCEPT ![conn] = @ \ {n}]
           dangling == s.dangling \/ s.chans[n].waiting
<1>1. n \in ChannelIds /\ conn \in Conns /\ s.chans[n].waiting \in BOOLEAN
  BY ChannelType
<1>2. t = [s EXCEPT !.chans = chans, !.listed = listed, !.dangling = dangling]
  BY DEF Drop
<1>3. dangling \in BOOLEAN
  BY <1>1 DEF MediaState
<1> HIDE DEF dangling
<1>4. s.listed \in [Conns -> SUBSET ChannelIds] /\ s.chans \in [ChannelIds -> Channel \union {None}]
  BY DEF MediaState
<1> HIDE DEF conn
<1>5. /\ chans \in [ChannelIds -> Channel \union {None}] /\ chans[n] = None
      /\ \A k \in ChannelIds \ {n} : chans[k] = s.chans[k]
      /\ listed \in [Conns -> SUBSET ChannelIds] /\ listed[conn] = s.listed[conn] \ {n}
      /\ \A k \in Conns \ {conn} : listed[k] = s.listed[k]
  BY <1>1, <1>4
<1> HIDE DEF chans, listed, t
<1>6. /\ t \in MediaState /\ t.chans = chans /\ t.listed = listed
      /\ t.calls = s.calls /\ t.phase = s.phase /\ t.dials = s.dials /\ t.made = s.made
      /\ t.refused = s.refused /\ t.answers = s.answers /\ t.reqs = s.reqs
      /\ t.strays = s.strays /\ t.given_up = s.given_up
  BY <1>2, <1>3, <1>5 DEF MediaState
<1>7. Listed(t) = Listed(s) \ {n} /\ \A k \in Listed(t) : t.chans[k] = s.chans[k]
  BY <1>5, <1>6 DEF Listed
<1>8. ASSUME NEW k \in Conns PROVE t.listed[k] = {m \in Listed(t) : t.chans[m].conn = k}
  <2>1. s.listed[k] = {m \in Listed(s) : s.chans[m].conn = k}
    BY DEF ListsOK
  <2>2. CASE k = conn
    BY <1>5, <1>6, <1>7, <2>1, <2>2
  <2>3. CASE k # conn
    <3>1. n \notin s.listed[k]
      BY <2>1, <2>3 DEF conn
    <3>. QED BY <1>5, <1>6, <1>7, <2>1, <2>3, <3>1
  <2>. QED BY <2>2, <2>3
<1>. QED BY <1>6, <1>7, <1>8 DEF ListsOK, t

\* A call ends, and its channel with it.
LEMMA EndCallOK ==
    ASSUME NEW s, StateOK(s), NEW c \in Live(s)
    PROVE  /\ Ended(s, EndCall(s, c), c)
           /\ s.calls[c].path # None => Closed(s, EndCall(s, c), s.calls[c].path)
<1> DEFINE t == EndCall(s, c)
           n == s.calls[c].path
           ended == [s EXCEPT !.calls[c] = None]
<1>1. /\ s \in MediaState /\ HistoryOK(s) /\ ListsOK(s) /\ c \in CallIds /\ CallOK(s, c)
  BY DEF StateOK, OpenOK, Live
<1>2. CASE n = None
  <2>1. t = ended
    BY <1>2 DEF EndCall
  <2>2. Ended(s, ended, c)
    BY <1>2, ForgetCall
  <2>. QED BY <1>2, <2>1, <2>2
<1>3. CASE n # None
  <2> DEFINE pending == s.chans[n].pending
             answered == Answer(ended, pending)
             calls == [s.calls EXCEPT ![c] = None]
  <2>1. n \in Listed(s) /\ s.chans[n].media = c /\ PendingOK(s, n)
    BY <1>1, <1>3 DEF CallOK, StateOK, OpenOK
  <2>2. t = Drop(answered, n)
    <3>1. ended.chans = s.chans
      BY <1>1 DEF MediaState
    <3>. QED BY <1>3, <3>1 DEF EndCall
  <2>3. ended = [s EXCEPT !.calls = calls]
    OBVIOUS
  <2>4. /\ calls \in [CallIds -> Call \union {None}] /\ calls[c] = None
        /\ \A d \in CallIds \ {c} : calls[d] = s.calls[d]
    BY <1>1 DEF MediaState
  <2> HIDE DEF n, calls, ended, t
  <2>5. /\ ended \in MediaState /\ ended.calls = calls /\ ended.phase = s.phase
        /\ ended.listed = s.listed /\ ended.chans = s.chans /\ ended.dials = s.dials
        /\ ended.reqs = s.reqs /\ ended.made = s.made /\ ended.answers = s.answers
        /\ ended.refused = s.refused /\ ended.given_up = s.given_up /\ ended.strays = s.strays
    BY <1>1, <2>3, <2>4 DEF MediaState
  <2>6. \A r \in pending : r \in Requests /\ s.answers[r] = 0
    BY <1>1, <2>1, ChannelType DEF PendingOK
  <2>7. pending \in SUBSET Requests /\ \A r \in pending : ended.answers[r] \in {0, 1}
    BY <2>5, <2>6
  <2> HIDE DEF pending, answered
  <2>8. LET u == Answer(ended, pending) IN
        /\ u \in MediaState /\ SameOutside(ended, u) /\ u.chans = ended.chans
        /\ \A r \in pending : u.answers[r] = ended.answers[r] + 1
        /\ \A r \in Requests \ pending : u.answers[r] = ended.answers[r] /\ u.reqs[r] = ended.reqs[r]
    BY <2>5, <2>7, AnswerIs
  <2>9. /\ answered \in MediaState /\ answered.calls = calls /\ answered.phase = s.phase
        /\ answered.listed = s.listed /\ answered.chans = s.chans /\ answered.dials = s.dials
        /\ answered.made = s.made /\ answered.refused = s.refused
        /\ answered.given_up = s.given_up /\ answered.strays = s.strays
        /\ \A r \in pending : answered.answers[r] = s.answers[r] + 1
        /\ \A r \in Requests \ pending :
               answered.answers[r] = s.answers[r] /\ answered.reqs[r] = s.reqs[r]
    BY <2>5, <2>8 DEF SameOutside, answered
  <2>10. Listed(answered) = Listed(s) /\ ListsOK(answered) /\ Live(answered) = Live(s) \ {c}
    BY <1>1, <2>4, <2>9 DEF Listed, ListsOK, Live
  <2>11. LET u == Drop(answered, n) IN
         /\ u \in MediaState /\ ListsOK(u) /\ Listed(u) = Listed(answered) \ {n}
         /\ \A k \in Listed(u) : u.chans[k] = answered.chans[k]
         /\ u.calls = answered.calls /\ u.phase = answered.phase /\ u.dials = answered.dials
         /\ u.made = answered.made
         /\ u.refused = answered.refused /\ u.answers = answered.answers /\ u.reqs = answered.reqs
         /\ u.strays = answered.strays /\ u.given_up = answered.given_up
    BY <2>1, <2>9, <2>10, DropIs
  <2>12. /\ t \in MediaState /\ ListsOK(t) /\ Listed(t) = Listed(s) \ {n}
         /\ \A k \in Listed(t) : t.chans[k] = s.chans[k]
         /\ t.calls = calls /\ t.phase = s.phase /\ t.dials = s.dials /\ t.made = s.made
         /\ t.refused = s.refused /\ t.answers = answered.answers /\ t.reqs = answered.reqs
         /\ t.strays = s.strays /\ t.given_up = s.given_up
    BY <2>2, <2>9, <2>10, <2>11
  <2>13. Live(t) = Live(s) \ {c} /\ \A d \in Live(t) : t.calls[d] = s.calls[d]
    BY <1>1, <2>4, <2>12 DEF Live
  <2>14. StateOK(t)
    <3>1. /\ Live(t) = Live(s) \ {s.chans[n].media}
          /\ s.strays \subseteq t.strays /\ s.given_up \subseteq t.given_up
          /\ s.chans[n].waiting => <<s.chans[n].conn, s.chans[n].peer>> \in t.strays
      <4>1. ~s.chans[n].waiting
        <5>1. MediaOK(s, n) /\ c # None
          BY <1>1, <2>1, NoneIsNothing DEF StateOK, OpenOK, CallIds
        <5>. QED BY <2>1, <5>1 DEF MediaOK
      <4>. QED BY <2>1, <2>12, <2>13, <4>1
    <3>2. /\ \A r \in Requests \ s.chans[n].pending :
                 t.answers[r] = s.answers[r] /\ t.reqs[r] = s.reqs[r]
          /\ \A r \in s.chans[n].pending :
                 \/ t.answers[r] = s.answers[r] + 1
                 \/ t.answers[r] = s.answers[r] /\ r \in t.given_up
      BY <2>9, <2>12 DEF pending
    <3>. QED BY <2>1, <2>12, <2>13, <3>1, <3>2, RemoveOK
  <2>. QED BY <2>12, <2>13, <2>14 DEF Ended, Closed, n, t
<1>. QED BY <1>2, <1>3

\* A channel is closed, whether or not it has a call.
LEMMA CloseChannelOK ==
    ASSUME NEW s, StateOK(s), NEW n \in Listed(s)
    PROVE  Closed(s, CloseChannel(s, n), n)
<1> DEFINE t == CloseChannel(s, n)
           chan == s.chans[n]
           c == chan.media
<1>1. /\ s \in MediaState /\ HistoryOK(s) /\ ListsOK(s) /\ PendingOK(s, n) /\ MediaOK(s, n)
      /\ chan.pending \subseteq Requests /\ chan.conn \in Conns /\ chan.peer \in Contacts
  BY ChannelType DEF StateOK, OpenOK
<1>2. CASE c # None
  <2>1. c \in Live(s) /\ s.calls[c].path = n /\ n # None
    BY <1>1, <1>2, NoneIsNothing DEF MediaOK, Listed, ChannelIds
  <2>2. t = EndCall(s, c)
    BY <1>2 DEF CloseChannel
  <2> HIDE DEF c, t
  <2>3. s.calls[c].path # None => Closed(s, EndCall(s, c), s.calls[c].path)
    BY <2>1, EndCallOK
  <2>. QED BY <2>1, <2>2, <2>3 DEF t
<1>3. CASE c = None
  <2> DEFINE reqs == [r \in Requests |-> IF r \in chan.pending THEN None ELSE s.reqs[r]]
             given == s.given_up \union chan.pending
             strays == IF chan.waiting THEN s.strays \union {<<chan.conn, chan.peer>>} ELSE s.strays
             left == [s EXCEPT !.reqs = reqs, !.given_up = given, !.strays = strays]
  <2>1. t = Drop(left, n)
    <3>1. left = [s EXCEPT !.reqs     = [r \in Requests |-> IF r \in chan.pending THEN None ELSE @[r]],
                           !.given_up = @ \union chan.pending,
                           !.strays   = IF chan.waiting THEN @ \union {<<chan.conn, chan.peer>>} ELSE @]
      BY <1>1 DEF MediaState
    <3> HIDE DEF left
    <3>. QED BY <1>3, <3>1 DEF CloseChannel
  <2>2. /\ reqs \in [Requests -> Pending \union {None}]
        /\ \A r \in Requests \ chan.pending : reqs[r] = s.reqs[r]
    BY <1>1 DEF MediaState
  <2>3. /\ given \in SUBSET Requests /\ strays \in SUBSET (Conns \X Contacts)
    BY <1>1 DEF HistoryOK
  <2>4. /\ chan.pending \subseteq given /\ s.given_up \subseteq given /\ s.strays \subseteq strays
        /\ chan.waiting => <<chan.conn, chan.peer>> \in strays
    OBVIOUS
  <2> HIDE DEF reqs, given, strays, left, t
  <2>5. /\ left \in MediaState /\ left.reqs = reqs /\ left.given_up = given /\ left.strays = strays
        /\ left.calls = s.calls /\ left.phase = s.phase
        /\ left.listed = s.listed /\ left.chans = s.chans /\ left.dials = s.dials
        /\ left.made = s.made /\ left.answers = s.answers /\ left.refused = s.refused
    BY <1>1, <2>2, <2>3 DEF MediaState, left
  <2>6. Listed(left) = Listed(s) /\ ListsOK(left)
    BY <1>1, <2>5 DEF Listed, ListsOK
  <2>7. LET u == Drop(left, n) IN
        /\ u \in MediaState /\ ListsOK(u) /\ Listed(u) = Listed(left) \ {n}
        /\ \A k \in Listed(u) : u.chans[k] = left.chans[k]
        /\ u.calls = left.calls /\ u.phase = left.phase /\ u.dials = left.dials
        /\ u.made = left.made
        /\ u.refused = left.refused /\ u.answers = left.answers /\ u.reqs = left.reqs
        /\ u.strays = left.strays /\ u.given_up = left.given_up
    BY <2>5, <2>6, DropIs
  <2>8. /\ t \in MediaState /\ ListsOK(t) /\ Listed(t) = Listed(s) \ {n}
        /\ \A k \in Listed(t) : t.chans[k] = s.chans[k]
        /\ t.calls = s.calls /\ t.phase = s.phase /\ t.dials = s.dials /\ t.made = s.made
        /\ t.refused = s.refused /\ t.answers = s.answers /\ t.reqs = reqs
        /\ t.strays = strays /\ t.given_up = given
    BY <2>1, <2>5, <2>6, <2>7
  <2>9. None \notin Live(s)
    BY NoneIsNothing DEF Live, CallIds
  <2>10. Live(t) = Live(s) \ {s.chans[n].media} /\ \A d \in Live(t) : t.calls[d] = s.calls[d]
    BY <1>3, <2>8, <2>9 DEF Live
  <2>11. StateOK(t)
    <3>1. /\ s.strays \subseteq t.strays /\ s.given_up \subseteq t.given_up
          /\ s.chans[n].waiting => <<s.chans[n].conn, s.chans[n].peer>> \in t.strays
          /\ \A r \in Requests \ s.chans[n].pending :
                 t.answers[r] = s.answers[r] /\ t.reqs[r] = s.reqs[r]
          /\ \A r \in s.chans[n].pending :
                 \/ t.answers[r] = s.answers[r] + 1
                 \/ t.answers[r] = s.answers[r] /\ r \in t.given_up
      BY <2>2, <2>4, <2>8
    <3>. QED BY <2>8, <2>10, <3>1, RemoveOK
  <2>. QED BY <2>8, <2>11 DEF Closed, t
<1>. QED BY <1>2, <1>3

\* The manager closes all of its channels.
LEMMA CloseAllOK ==
    ASSUME NEW s, StateOK(s), NEW conn \in Conns
    PROVE  StateOK(CloseAll(s, conn)) /\ CloseAll(s, conn).phase = s.phase
<1> DEFINE S == s.listed[conn]
           P(t, x) == /\ StateOK(t) /\ t.phase = s.phase
                      /\ S \ x \subseteq Listed(t)
           W == [x \in SUBSET S |-> {t \in MediaState : P(t, x)}]
           op(n, t) == CloseChannel(t, n)
           g == [n \in S |-> [t \in MediaState |-> op(n, t)]]
           IsFold(f) == f = [x \in SUBSET S |->
                                IF x = {} THEN s ELSE op(NextOf(x), f[x \ {NextOf(x)}])]
           fold == CHOOSE f : IsFold(f)
<1>1. CloseAll(s, conn) = fold[S]
  BY DEF CloseAll, FoldSet, MapThenFoldSet, NextOf
<1>2. IsFiniteSet(S)
  <2>1. S \subseteq ChannelIds
    BY DEF StateOK, OpenOK, ListsOK, Listed
  <2>2. IsFiniteSet(ChannelIds)
    BY BoundsType, FS_Interval DEF ChannelIds
  <2>. QED BY <2>1, <2>2, FS_Subset
<1>3. \A x \in SUBSET S : \A n \in S \ x : \A t \in MediaState :
          P(t, x) => op(n, t) \in MediaState /\ P(op(n, t), x \union {n})
  <2> SUFFICES ASSUME NEW x \in SUBSET S, NEW n \in S \ x, NEW t \in MediaState, P(t, x)
               PROVE  op(n, t) \in MediaState /\ P(op(n, t), x \union {n})
    OBVIOUS
  <2>1. StateOK(t) /\ n \in Listed(t)
    OBVIOUS
  <2>2. Closed(t, CloseChannel(t, n), n)
    BY <2>1, CloseChannelOK
  <2>3. op(n, t) = CloseChannel(t, n) /\ S \ x \subseteq Listed(t) /\ t.phase = s.phase
    OBVIOUS
  <2> HIDE DEF op, S
  <2>. QED BY <2>2, <2>3 DEF Closed, StateOK, OpenOK
<1>4. s \in MediaState /\ P(s, {})
  BY DEF StateOK, OpenOK, ListsOK
<1> HIDE DEF P, op, fold
<1>5. \A x \in SUBSET S : \A n \in S \ x : \A t \in W[x] :
          op(n, t) \in W[x \union {n}] /\ g[n][t] \in W[x \union {n}] /\ g[n][t] = op(n, t)
  BY <1>3
<1>6. /\ s \in W[{}] /\ \A t \in W[S] : P(t, S)
      /\ \A x \in SUBSET S : W[x] \subseteq MediaState
      /\ \A n \in S : \A t \in MediaState : g[n][t] = op(n, t)
  BY <1>4
<1> HIDE DEF W, g
<1>7. PICK f : IsFoldOf(f, S, s, g) /\ \A x \in SUBSET S : f[x] \in W[x]
  BY <1>2, <1>5, <1>6, LoopExists
<1>8. \A x \in (SUBSET S) \ {{}} : /\ x \ {NextOf(x)} \in SUBSET S
                                    /\ NextOf(x) \in S \ (x \ {NextOf(x)})
  BY DEF NextOf
<1>9. IsFold(f)
  <2>1. \A x \in (SUBSET S) \ {{}} :
            g[NextOf(x)][f[x \ {NextOf(x)}]] = op(NextOf(x), f[x \ {NextOf(x)}])
    <3> SUFFICES ASSUME NEW x \in (SUBSET S) \ {{}}
                 PROVE  g[NextOf(x)][f[x \ {NextOf(x)}]] = op(NextOf(x), f[x \ {NextOf(x)}])
      OBVIOUS
    <3> DEFINE n == NextOf(x)
               y == x \ {n}
    <3>1. y \in SUBSET S /\ n \in S \ y
      BY <1>8
    <3> HIDE DEF n, y
    <3>2. f[y] \in MediaState /\ n \in S
      BY <1>6, <1>7, <3>1
    <3>3. g[n][f[y]] = op(n, f[y])
      BY <1>6, <3>2
    <3>. QED BY <3>3 DEF n, y
  <2>2. f = [x \in SUBSET S |-> IF x = {} THEN s ELSE g[NextOf(x)][f[x \ {NextOf(x)}]]]
    BY <1>7 DEF IsFoldOf
  <2>. QED BY <2>1, <2>2
<1>10. IsFold(fold)
  BY <1>9 DEF fold
<1>11. /\ fold[{}] = s
       /\ \A x \in (SUBSET S) \ {{}} : fold[x] = op(NextOf(x), fold[x \ {NextOf(x)}])
  BY <1>10
<1> HIDE DEF IsFold
<1>12. \A x \in SUBSET S : \A n \in S \ x :
           n = NextOf(x \union {n}) /\ fold[x] \in W[x] => fold[x \union {n}] \in W[x \union {n}]
  <2> SUFFICES ASSUME NEW x \in SUBSET S, NEW n \in S \ x,
                      n = NextOf(x \union {n}), fold[x] \in W[x]
               PROVE  fold[x \union {n}] \in W[x \union {n}]
    OBVIOUS
  <2> DEFINE y == x \union {n}
  <2>1. y \in (SUBSET S) \ {{}} /\ y \ {n} = x /\ NextOf(y) = n
    OBVIOUS
  <2>2. op(n, fold[x]) \in W[y]
    BY <1>5
  <2> HIDE DEF y
  <2>3. fold[y] = op(n, fold[x])
    BY <1>11, <2>1
  <2>4. fold[y] \in W[y]
    BY <2>2, <2>3
  <2>. QED BY <2>4 DEF y
<1>13. P(fold[S], S)
  <2>1. fold[S] \in W[S]
    BY <1>2, <1>6, <1>11, <1>12, LoopStays
  <2>. QED BY <1>6, <2>1
<1>. QED BY <1>1, <1>13 DEF P

\* The calls of S end, one after the other.
EndCalls(s, S) == FoldSet(LAMBDA c, t : EndCall(t, c), s, S)

\* libpurple ends some of its calls.
LEMMA EndCallsOK ==
    ASSUME NEW s, StateOK(s), NEW S \in SUBSET Live(s)
    PROVE  StateOK(EndCalls(s, S))
<1> DEFINE P(t, x) == StateOK(t) /\ S \ x \subseteq Live(t)
           W == [x \in SUBSET S |-> {t \in MediaState : P(t, x)}]
           op(c, t) == EndCall(t, c)
           g == [c \in S |-> [t \in MediaState |-> op(c, t)]]
           IsFold(f) == f = [x \in SUBSET S |->
                                IF x = {} THEN s ELSE op(NextOf(x), f[x \ {NextOf(x)}])]
           fold == CHOOSE f : IsFold(f)
<1>1. EndCalls(s, S) = fold[S]
  BY DEF EndCalls, FoldSet, MapThenFoldSet, NextOf
<1>2. IsFiniteSet(S)
  <2>1. S \subseteq CallIds /\ IsFiniteSet(CallIds)
    BY BoundsType, FS_Interval DEF Live, CallIds
  <2>. QED BY <2>1, FS_Subset
<1>3. \A x \in SUBSET S : \A c \in S \ x : \A t \in MediaState :
          P(t, x) => op(c, t) \in MediaState /\ P(op(c, t), x \union {c})
  <2> SUFFICES ASSUME NEW x \in SUBSET S, NEW c \in S \ x, NEW t \in MediaState, P(t, x)
               PROVE  op(c, t) \in MediaState /\ P(op(c, t), x \union {c})
    OBVIOUS
  <2>1. StateOK(t) /\ c \in Live(t)
    OBVIOUS
  <2>2. Ended(t, EndCall(t, c), c)
    BY <2>1, EndCallOK
  <2>3. op(c, t) = EndCall(t, c) /\ S \ x \subseteq Live(t)
    OBVIOUS
  <2> HIDE DEF op
  <2>. QED BY <2>2, <2>3 DEF Ended, StateOK, OpenOK
<1>4. s \in MediaState /\ P(s, {})
  BY DEF StateOK, OpenOK
<1> HIDE DEF P, op, fold
<1>5. \A x \in SUBSET S : \A c \in S \ x : \A t \in W[x] :
          op(c, t) \in W[x \union {c}] /\ g[c][t] \in W[x \union {c}] /\ g[c][t] = op(c, t)
  BY <1>3
<1>6. /\ s \in W[{}] /\ \A t \in W[S] : P(t, S)
      /\ \A x \in SUBSET S : W[x] \subseteq MediaState
      /\ \A c \in S : \A t \in MediaState : g[c][t] = op(c, t)
  BY <1>4
<1> HIDE DEF W, g
<1>7. PICK f : IsFoldOf(f, S, s, g) /\ \A x \in SUBSET S : f[x] \in W[x]
  BY <1>2, <1>5, <1>6, LoopExists
<1>8. \A x \in (SUBSET S) \ {{}} : /\ x \ {NextOf(x)} \in SUBSET S
                                    /\ NextOf(x) \in S \ (x \ {NextOf(x)})
  BY DEF NextOf
<1>9. IsFold(f)
  <2>1. \A x \in (SUBSET S) \ {{}} :
            g[NextOf(x)][f[x \ {NextOf(x)}]] = op(NextOf(x), f[x \ {NextOf(x)}])
    <3> SUFFICES ASSUME NEW x \in (SUBSET S) \ {{}}
                 PROVE  g[NextOf(x)][f[x \ {NextOf(x)}]] = op(NextOf(x), f[x \ {NextOf(x)}])
      OBVIOUS
    <3> DEFINE c == NextOf(x)
               y == x \ {c}
    <3>1. y \in SUBSET S /\ c \in S \ y
      BY <1>8
    <3> HIDE DEF c, y
    <3>2. f[y] \in MediaState /\ c \in S
      BY <1>6, <1>7, <3>1
    <3>3. g[c][f[y]] = op(c, f[y])
      BY <1>6, <3>2
    <3>. QED BY <3>3 DEF c, y
  <2>2. f = [x \in SUBSET S |-> IF x = {} THEN s ELSE g[NextOf(x)][f[x \ {NextOf(x)}]]]
    BY <1>7 DEF IsFoldOf
  <2>. QED BY <2>1, <2>2
<1>10. IsFold(fold)
  BY <1>9 DEF fold
<1>11. /\ fold[{}] = s
       /\ \A x \in (SUBSET S) \ {{}} : fold[x] = op(NextOf(x), fold[x \ {NextOf(x)}])
  BY <1>10
<1> HIDE DEF IsFold
<1>12. \A x \in SUBSET S : \A c \in S \ x :
           c = NextOf(x \union {c}) /\ fold[x] \in W[x] => fold[x \union {c}] \in W[x \union {c}]
  <2> SUFFICES ASSUME NEW x \in SUBSET S, NEW c \in S \ x,
                      c = NextOf(x \union {c}), fold[x] \in W[x]
               PROVE  fold[x \union {c}] \in W[x \union {c}]
    OBVIOUS
  <2> DEFINE y == x \union {c}
  <2>1. y \in (SUBSET S) \ {{}} /\ y \ {c} = x /\ NextOf(y) = c
    OBVIOUS
  <2>2. op(c, fold[x]) \in W[y]
    BY <1>5
  <2> HIDE DEF y
  <2>3. fold[y] = op(c, fold[x])
    BY <1>11, <2>1
  <2>4. fold[y] \in W[y]
    BY <2>2, <2>3
  <2>. QED BY <2>4 DEF y
<1>13. P(fold[S], S)
  <2>1. fold[S] \in W[S]
    BY <1>2, <1>6, <1>11, <1>12, LoopStays
  <2>. QED BY <1>6, <2>1
<1>. QED BY <1>1, <1>13 DEF P

\* A stream ends, and the call with it if it was the last.
LEMMA EndStreamOK ==
    ASSUME NEW s, StateOK(s), NEW c \in Live(s), NEW id \in StreamsOf(s.calls[c])
    PROVE  LET t == EndStream(s, c, id)
               rest == StreamsOf(s.calls[c]) \ {id}
           IN  /\ StateOK(t)
               /\ rest # {} => c \in Live(t) /\ StreamsOf(t.calls[c]) = rest
<1> DEFINE t == EndStream(s, c, id)
           rest == StreamsOf(s.calls[c]) \ {id}
           streams == [s.calls[c].streams EXCEPT ![id] = "ended"]
           ended == [s EXCEPT !.calls[c].streams = streams]
<1>1. /\ s \in MediaState /\ OpenOK(s, {}) /\ c \in CallIds /\ s.calls[c] \in Call
      /\ s.calls[c].streams \in Seq(Types \union {"ended"}) /\ id \in DOMAIN s.calls[c].streams
  BY DEF StateOK, OpenOK, MediaState, Live, Call, StreamsOf
<1>2. /\ streams \in Seq(Types \union {"ended"}) /\ DOMAIN streams = DOMAIN s.calls[c].streams
      /\ \A i \in DOMAIN streams : streams[i] = IF i = id THEN "ended" ELSE s.calls[c].streams[i]
  BY <1>1
<1>3. ended = [s EXCEPT !.calls[c].streams[id] = "ended"]
  BY <1>1 DEF MediaState
<1> HIDE DEF streams
<1> HIDE DEF t, rest
<1>4. /\ OpenOK(ended, {}) /\ SameButStreams(s, ended) /\ ended.calls[c].streams = streams
  <2>1. streams \in Seq(Types \union {"ended"}) /\ OpenOK(s, {}) /\ c \in Live(s)
    BY <1>1, <1>2
  <2>. QED BY <2>1, StreamsOK
<1> HIDE DEF ended
<1>5. StreamsOf(ended.calls[c]) = rest
  BY <1>2, <1>4 DEF StreamsOf, rest
<1>6. t = IF rest = {} THEN EndCall(s, c) ELSE ended
  BY <1>3, <1>5 DEF EndStream, t
<1>7. StateOK(EndCall(s, c)) /\ StateOK(ended) /\ c \in Live(ended)
  <2>1. Ended(s, EndCall(s, c), c)
    BY EndCallOK
  <2>. QED BY <1>4, <2>1 DEF Ended, StateOK, SameButStreams
<1>. QED BY <1>5, <1>6, <1>7 DEF t, rest

\* haze_media_channel_remove_streams ends one stream after the other.
EndStreams(s, c, ids) == FoldSet(LAMBDA id, t : EndStream(t, c, id), s, ids)

\* A client removes streams of a call.
LEMMA RemoveStreamsOK ==
    ASSUME NEW s, StateOK(s), NEW c \in Live(s), NEW ids \in SUBSET StreamsOf(s.calls[c])
    PROVE  StateOK(EndStreams(s, c, ids))
<1> DEFINE P(t, x) == /\ StateOK(t)
                      /\ x # ids => c \in Live(t) /\ StreamsOf(t.calls[c]) = StreamsOf(s.calls[c]) \ x
           W == [x \in SUBSET ids |-> {t \in MediaState : P(t, x)}]
           op(id, t) == EndStream(t, c, id)
           g == [id \in ids |-> [t \in MediaState |-> op(id, t)]]
           IsFold(f) == f = [x \in SUBSET ids |->
                                IF x = {} THEN s ELSE op(NextOf(x), f[x \ {NextOf(x)}])]
           fold == CHOOSE f : IsFold(f)
<1>1. EndStreams(s, c, ids) = fold[ids]
  BY DEF EndStreams, FoldSet, MapThenFoldSet, NextOf
<1>2. IsFiniteSet(ids)
  <2>1. s.calls[c].streams \in Seq(Types \union {"ended"})
    BY DEF StateOK, OpenOK, MediaState, Live, Call
  <2>2. /\ DOMAIN s.calls[c].streams = 1 .. Len(s.calls[c].streams)
        /\ Len(s.calls[c].streams) \in Int
    BY <2>1
  <2>3. IsFiniteSet(DOMAIN s.calls[c].streams)
    BY <2>2, FS_Interval
  <2>4. ids \subseteq DOMAIN s.calls[c].streams
    BY DEF StreamsOf
  <2>. QED BY <2>3, <2>4, FS_Subset
<1>3. \A x \in SUBSET ids : \A id \in ids \ x : \A t \in MediaState :
          P(t, x) => op(id, t) \in MediaState /\ P(op(id, t), x \union {id})
  <2> SUFFICES ASSUME NEW x \in SUBSET ids, NEW id \in ids \ x, NEW t \in MediaState, P(t, x)
               PROVE  op(id, t) \in MediaState /\ P(op(id, t), x \union {id})
    OBVIOUS
  <2> DEFINE u == EndStream(t, c, id)
             rest == StreamsOf(t.calls[c]) \ {id}
  <2>1. StateOK(t) /\ c \in Live(t) /\ StreamsOf(t.calls[c]) = StreamsOf(s.calls[c]) \ x
    OBVIOUS
  <2>2. id \in StreamsOf(t.calls[c])
    BY <2>1
  <2>3. StateOK(u) /\ (rest # {} => c \in Live(u) /\ StreamsOf(u.calls[c]) = rest)
    BY <2>1, <2>2, EndStreamOK
  <2>4. rest = StreamsOf(s.calls[c]) \ (x \union {id})
    BY <2>1
  <2>5. x \union {id} # ids => rest # {}
    BY <2>4
  <2> HIDE DEF u, rest
  <2>6. P(u, x \union {id})
    BY <2>3, <2>4, <2>5
  <2>. QED BY <2>3, <2>6 DEF u, StateOK, OpenOK
<1>4. s \in MediaState /\ P(s, {})
  BY DEF StateOK, OpenOK
<1> HIDE DEF P, op, fold
<1>5. \A x \in SUBSET ids : \A id \in ids \ x : \A t \in W[x] :
          op(id, t) \in W[x \union {id}] /\ g[id][t] \in W[x \union {id}] /\ g[id][t] = op(id, t)
  BY <1>3
<1>6. /\ s \in W[{}] /\ \A t \in W[ids] : P(t, ids)
      /\ \A x \in SUBSET ids : W[x] \subseteq MediaState
      /\ \A id \in ids : \A t \in MediaState : g[id][t] = op(id, t)
  BY <1>4
<1> HIDE DEF W, g
<1>7. PICK f : IsFoldOf(f, ids, s, g) /\ \A x \in SUBSET ids : f[x] \in W[x]
  BY <1>2, <1>5, <1>6, LoopExists
<1>8. \A x \in (SUBSET ids) \ {{}} : /\ x \ {NextOf(x)} \in SUBSET ids
                                    /\ NextOf(x) \in ids \ (x \ {NextOf(x)})
  BY DEF NextOf
<1>9. IsFold(f)
  <2>1. \A x \in (SUBSET ids) \ {{}} :
            g[NextOf(x)][f[x \ {NextOf(x)}]] = op(NextOf(x), f[x \ {NextOf(x)}])
    <3> SUFFICES ASSUME NEW x \in (SUBSET ids) \ {{}}
                 PROVE  g[NextOf(x)][f[x \ {NextOf(x)}]] = op(NextOf(x), f[x \ {NextOf(x)}])
      OBVIOUS
    <3> DEFINE id == NextOf(x)
               y == x \ {id}
    <3>1. y \in SUBSET ids /\ id \in ids \ y
      BY <1>8
    <3> HIDE DEF id, y
    <3>2. f[y] \in MediaState /\ id \in ids
      BY <1>6, <1>7, <3>1
    <3>3. g[id][f[y]] = op(id, f[y])
      BY <1>6, <3>2
    <3>. QED BY <3>3 DEF id, y
  <2>2. f = [x \in SUBSET ids |-> IF x = {} THEN s ELSE g[NextOf(x)][f[x \ {NextOf(x)}]]]
    BY <1>7 DEF IsFoldOf
  <2>. QED BY <2>1, <2>2
<1>10. IsFold(fold)
  BY <1>9 DEF fold
<1>11. /\ fold[{}] = s
       /\ \A x \in (SUBSET ids) \ {{}} : fold[x] = op(NextOf(x), fold[x \ {NextOf(x)}])
  BY <1>10
<1> HIDE DEF IsFold
<1>12. \A x \in SUBSET ids : \A id \in ids \ x :
           id = NextOf(x \union {id}) /\ fold[x] \in W[x] => fold[x \union {id}] \in W[x \union {id}]
  <2> SUFFICES ASSUME NEW x \in SUBSET ids, NEW id \in ids \ x,
                      id = NextOf(x \union {id}), fold[x] \in W[x]
               PROVE  fold[x \union {id}] \in W[x \union {id}]
    OBVIOUS
  <2> DEFINE y == x \union {id}
  <2>1. y \in (SUBSET ids) \ {{}} /\ y \ {id} = x /\ NextOf(y) = id
    OBVIOUS
  <2>2. op(id, fold[x]) \in W[y]
    BY <1>5
  <2> HIDE DEF y
  <2>3. fold[y] = op(id, fold[x])
    BY <1>11, <2>1
  <2>4. fold[y] \in W[y]
    BY <2>2, <2>3
  <2>. QED BY <2>4 DEF y
<1>13. P(fold[ids], ids)
  <2>1. fold[ids] \in W[ids]
    BY <1>2, <1>6, <1>11, <1>12, LoopStays
  <2>. QED BY <1>6, <2>1
<1>. QED BY <1>1, <1>13 DEF P

-----------------------------------------------------------------------------
(* Who is in the call *)

\* From s to t, who accepted the call c, and the group of its channel says so.
Accepted(s, t, c, who) ==
    /\ t \in MediaState /\ t.phase = s.phase /\ t.listed = s.listed /\ t.dials = s.dials
    /\ t.reqs = s.reqs /\ t.made = s.made /\ t.answers = s.answers
    /\ t.refused = s.refused /\ t.given_up = s.given_up /\ t.strays = s.strays
    /\ Live(t) = Live(s) /\ Listed(t) = Listed(s)
    /\ \A d \in CallIds \ {c} : t.calls[d] = s.calls[d]
    /\ t.calls[c].path = s.calls[c].path /\ t.calls[c].conn = s.calls[c].conn
    /\ t.calls[c].peer = s.calls[c].peer
    /\ t.calls[c].accepted = s.calls[c].accepted \union {who}
    /\ \A k \in ChannelIds : k # s.calls[c].path => t.chans[k] = s.chans[k]
    /\ \A k \in Listed(s) : k = s.calls[c].path =>
          /\ t.chans[k].conn = s.chans[k].conn /\ t.chans[k].peer = s.chans[k].peer
          /\ t.chans[k].ours = s.chans[k].ours /\ t.chans[k].media = s.chans[k].media
          /\ t.chans[k].waiting = s.chans[k].waiting /\ t.chans[k].pending = s.chans[k].pending
          /\ t.chans[k].shown = s.chans[k].shown
          /\ t.chans[k].members = s.chans[k].members \union {who}
          /\ t.chans[k].invited <=> s.chans[k].invited /\ who # "us"

\* Somebody accepts a call.
LEMMA AcceptedOK ==
    ASSUME NEW s, StateOK(s), NEW c \in Live(s), NEW who \in {"us", "them"}, NEW t, Accepted(s, t, c, who)
    PROVE  StateOK(t)
<1>1. /\ s \in MediaState /\ HistoryOK(s) /\ ListsOK(s) /\ c \in CallIds
      /\ \A r \in Requests : NotForgotten(s, r)
      /\ \A k \in Listed(s) : PendingOK(s, k) /\ MediaOK(s, k)
      /\ \A d \in Live(s) : CallOK(s, d) /\ FoundOK(s, d)
      /\ \A k \in Conns, h \in Contacts : s.dials[k][h] # {} => Expected(s, k, h)
  BY DEF StateOK, OpenOK, Live
<1>2. \A k \in Listed(s) :
          /\ t.chans[k].conn = s.chans[k].conn /\ t.chans[k].peer = s.chans[k].peer
          /\ t.chans[k].ours = s.chans[k].ours /\ t.chans[k].media = s.chans[k].media
          /\ t.chans[k].waiting = s.chans[k].waiting /\ t.chans[k].pending = s.chans[k].pending
          /\ t.chans[k].shown = s.chans[k].shown
  BY DEF Accepted, Listed
<1>3. HistoryOK(t) /\ ListsOK(t)
  BY <1>1, <1>2 DEF HistoryOK, ListsOK, Accepted
<1>4. \A r \in Requests : NotForgotten(t, r)
  BY <1>1, <1>2 DEF NotForgotten, Accepted
<1>5. \A k \in Listed(t) : PendingOK(t, k)
  BY <1>1, <1>2 DEF PendingOK, Accepted
<1>6. ASSUME NEW k \in Listed(t) PROVE MediaOK(t, k)
  <2>1. k \in Listed(s) /\ MediaOK(s, k) /\ k # None /\ k \in ChannelIds
    BY <1>1, NoneIsNothing DEF Accepted, Listed, ChannelIds
  <2>2. CASE k = s.calls[c].path
    <3>1. s.chans[k].media = c /\ c # None
      BY <1>1, <2>1, <2>2, NoneIsNothing DEF CallOK, CallIds
    <3>2. /\ s.chans[k].media \in Live(s) /\ s.calls[c].path = k /\ ~s.chans[k].waiting
          /\ s.chans[k].members = s.calls[c].accepted \union {IF s.chans[k].ours THEN "us" ELSE "them"}
          /\ s.chans[k].invited <=> ~s.chans[k].ours /\ "us" \notin s.calls[c].accepted
      BY <2>1, <2>2, <3>1 DEF MediaOK
    <3>3. /\ t.chans[k].ours = s.chans[k].ours /\ t.chans[k].media = c
          /\ t.chans[k].waiting = s.chans[k].waiting
          /\ t.chans[k].members = s.chans[k].members \union {who}
          /\ t.chans[k].invited <=> s.chans[k].invited /\ who # "us"
          /\ t.calls[c].path = k /\ t.calls[c].accepted = s.calls[c].accepted \union {who}
          /\ Live(t) = Live(s)
      BY <2>1, <2>2, <3>1 DEF Accepted
    <3>4. t.chans[k].members = t.calls[c].accepted \union {IF t.chans[k].ours THEN "us" ELSE "them"}
      BY <3>2, <3>3
    <3>5. t.chans[k].invited <=> ~t.chans[k].ours /\ "us" \notin t.calls[c].accepted
      <4>1. "us" \notin t.calls[c].accepted <=> "us" \notin s.calls[c].accepted /\ who # "us"
        BY <3>3
      <4>. QED BY <3>2, <3>3, <4>1, Zenon
    <3>6. t.chans[k].media # None /\ t.chans[k].media \in Live(t) /\ ~t.chans[k].waiting
      BY <3>1, <3>2, <3>3
    <3>. QED BY <3>3, <3>4, <3>5, <3>6 DEF MediaOK
  <2>3. CASE k # s.calls[c].path
    <3>1. t.chans[k] = s.chans[k]
      BY <2>1, <2>3 DEF Accepted
    <3>2. s.chans[k].media # None =>
             /\ s.chans[k].media \in Live(s) /\ t.calls[s.chans[k].media] = s.calls[s.chans[k].media]
      BY <2>1, <2>3 DEF MediaOK, Accepted, Live
    <3>. QED BY <2>1, <3>1, <3>2 DEF MediaOK, Accepted
  <2>. QED BY <2>2, <2>3
<1>7. ASSUME NEW d \in Live(t) PROVE CallOK(t, d) /\ FoundOK(t, d)
  <2>1. /\ d \in Live(s) /\ t.calls[d].path = s.calls[d].path
        /\ t.calls[d].conn = s.calls[d].conn /\ t.calls[d].peer = s.calls[d].peer
    BY DEF Accepted, Live
  <2>. QED BY <1>1, <1>2, <2>1 DEF CallOK, FoundOK, Accepted
<1>8. \A k \in Conns, h \in Contacts : t.dials[k][h] # {} => Expected(t, k, h)
  BY <1>1, <1>2 DEF Expected, Accepted
<1>. QED BY <1>3, <1>4, <1>5, <1>6, <1>7, <1>8 DEF StateOK, OpenOK, Accepted

-----------------------------------------------------------------------------
(* The steps *)

\* A manager stops listening to init-media.
LEMMA UpOK ==
    ASSUME NEW s, StateOK(s), NEW up \in SUBSET Conns
    PROVE  LET t == [s EXCEPT !.up = up] IN
           /\ StateOK(t) /\ t.phase = s.phase
<1> DEFINE t == [s EXCEPT !.up = up]
<1>1. s \in MediaState /\ HistoryOK(s) /\ ListsOK(s) /\ IsRecord(s)
  BY StateIsRecord DEF StateOK, OpenOK
<1>2. /\ t.phase = s.phase /\ t.up = up /\ t.dangling = s.dangling /\ t.listed = s.listed
      /\ t.chans = s.chans /\ t.calls = s.calls /\ t.dials = s.dials /\ t.reqs = s.reqs
      /\ t.made = s.made /\ t.answers = s.answers /\ t.refused = s.refused
      /\ t.given_up = s.given_up /\ t.strays = s.strays /\ IsRecord(t)
  BY <1>1 DEF IsRecord
<1> HIDE DEF t
<1>3. t \in MediaState
  BY <1>1, <1>2 DEF MediaState, IsRecord
<1>4. Listed(t) = Listed(s) /\ Live(t) = Live(s) /\ HistoryOK(t) /\ ListsOK(t)
  BY <1>1, <1>2 DEF Listed, Live, HistoryOK, ListsOK
<1>5. \A r \in Requests : NotForgotten(t, r)
  BY <1>2, <1>4 DEF StateOK, OpenOK, NotForgotten
<1>6. \A n \in Listed(t) : PendingOK(t, n) /\ MediaOK(t, n)
  BY <1>2, <1>4 DEF StateOK, OpenOK, PendingOK, MediaOK
<1>7. \A c \in Live(t) : CallOK(t, c) /\ FoundOK(t, c)
  BY <1>2, <1>4 DEF StateOK, OpenOK, CallOK, FoundOK
<1>8. \A k \in Conns, h \in Contacts : t.dials[k][h] # {} => Expected(t, k, h)
  BY <1>2, <1>4 DEF StateOK, OpenOK, Expected
<1>. QED BY <1>2, <1>3, <1>4, <1>5, <1>6, <1>7, <1>8 DEF StateOK, OpenOK, t

\* A client asks for a channel: an old one answers it, or a new one.
LEMMA RequestChannelStep ==
    ASSUME IInv, NEW r \in Requests, NEW conn \in Conns, NEW peer \in Contacts, NEW ensure \in BOOLEAN,
           NEW types \in SUBSET Types, NEW reaction \in Reactions, NEW lucky \in BOOLEAN,
           RequestChannel(r, conn, peer, ensure, types, reaction, lucky)
    PROVE  IInv'
<1> DEFINE found == \E k \in Listed(mc) : mc.chans[k].conn = conn /\ mc.chans[k].peer = peer
           n == CHOOSE free \in FreeChannels(mc) : TRUE
           new == NewChannel(mc, n, conn, peer, None)
           old == Answer([mc EXCEPT !.made = @ \union {r}], {r})
<1>1. StateOK(mc) /\ mc.phase = "running" /\ r \in Requests \ mc.made
  BY DEF IInv, RequestChannel, Running
<1>2. CASE ensure /\ found /\ mc' = old
  <2>1. PICK k \in Listed(mc) : mc.chans[k].conn = conn /\ mc.chans[k].peer = peer
    BY <1>2
  <2> HIDE DEF n, new
  <2>2. AlmostOK(mc, k)
    BY <1>1, <2>1, ListedAlmost
  <2>3. Requested(mc, old, k, r) /\ old.chans = mc.chans /\ old.answers[r] = 1
    BY <1>1, <2>2, AnswerRequested
  <2>4. PendingOK(mc, k)
    BY <1>1, <2>1 DEF StateOK, OpenOK
  <2> HIDE DEF old
  <2>5. StateOK(old)
    BY <1>1, <2>2, <2>3, <2>4, AnsweredOK
  <2>. QED BY <1>2, <2>5 DEF IInv
<1>3. CASE /\ FreeChannels(mc) # {} /\ (reaction = "now" => RoomForCall(mc, types))
           /\ mc' = RequestStreamsOn(new, n, r, "channel", peer, types, {}, reaction, lucky)
  <2>1. n \in FreeChannels(mc)
    BY <1>3
  <2> HIDE DEF n, old
  <2>2. /\ AlmostOK(new, n) /\ new.chans[n] = Constructed(conn, peer, None)
        /\ new.phase = mc.phase /\ new.made = mc.made /\ new.calls = mc.calls
    BY <1>1, <2>1, NewAlmost
  <2> HIDE DEF new
  <2>3. new.phase = "running" /\ r \in Requests \ new.made /\ new.chans[n].media = None
    BY <1>1, <2>2 DEF Constructed
  <2>4. reaction = "now" => FreeCalls(new) # {}
    BY <1>3, <2>2 DEF RoomForCall, FreeCalls, Live
  <2>5. types \in SUBSET Types \union {{"invalid"}} /\ "channel" \in {"channel", "streams"}
    OBVIOUS
  <2>6. StateOK(RequestStreamsOn(new, n, r, "channel", peer, types, {}, reaction, lucky))
    BY <2>2, <2>3, <2>4, <2>5, RequestStreamsOnOK
  <2>. QED BY <1>3, <2>6 DEF IInv
<1>. QED BY <1>2, <1>3 DEF RequestChannel

\* A client asks for streams on a channel.
LEMMA RequestStreamsStep ==
    ASSUME IInv, NEW r \in Requests, NEW n \in ChannelIds, NEW peer \in Contacts,
           NEW types \in SUBSET Types \union {{"invalid"}}, NEW caps, NEW reaction \in Reactions,
           NEW lucky \in BOOLEAN, RequestStreams(r, n, peer, types, caps, reaction, lucky)
    PROVE  IInv'
<1>1. /\ StateOK(mc) /\ mc.phase = "running" /\ r \in Requests \ mc.made /\ n \in Listed(mc)
      /\ mc' = RequestStreamsOn(mc, n, r, "streams", peer, types, caps, reaction, lucky)
      /\ reaction = "now" /\ mc.chans[n].media = None => FreeCalls(mc) # {}
  BY DEF IInv, RequestStreams, Running, RoomForCall
<1>2. AlmostOK(mc, n) /\ PendingOK(mc, n)
  BY <1>1, ListedAlmost DEF StateOK, OpenOK
<1>3. "streams" \in {"channel", "streams"}
  OBVIOUS
<1>4. StateOK(RequestStreamsOn(mc, n, r, "streams", peer, types, caps, reaction, lucky))
  BY <1>1, <1>2, <1>3, RequestStreamsOnOK
<1>. QED BY <1>1, <1>4 DEF IInv

\* A client removes streams, or tries to.
LEMMA RemoveStreamsStep ==
    ASSUME IInv, NEW n \in ChannelIds, NEW ids, NEW caps, NEW lucky \in BOOLEAN,
           RemoveStreams(n, ids, caps, lucky)
    PROVE  IInv'
<1> DEFINE c == mc.chans[n].media
<1>1. StateOK(mc) /\ OpenOK(mc, {}) /\ n \in Listed(mc)
  BY DEF IInv, RemoveStreams, StateOK
<1>2. CASE mc' = Survive(mc, lucky)
  <2>1. OpenOK(Survive(mc, lucky), {})
    BY <1>1, SurviveOK
  <2>. QED BY <1>2, <2>1 DEF IInv, StateOK
<1>3. CASE /\ c # None /\ ids \subseteq StreamsOf(mc.calls[c])
           /\ mc' = FoldSet(LAMBDA id, t : EndStream(t, c, id), mc, ids)
  <2>1. c \in Live(mc) /\ ids \in SUBSET StreamsOf(mc.calls[c])
    BY <1>1, <1>3 DEF StateOK, OpenOK, MediaOK
  <2> HIDE DEF c
  <2>2. StateOK(EndStreams(mc, c, ids))
    BY <1>1, <2>1, RemoveStreamsOK
  <2>3. mc' = EndStreams(mc, c, ids)
    BY <1>3 DEF EndStreams
  <2>. QED BY <2>2, <2>3 DEF IInv
<1>. QED BY <1>2, <1>3 DEF RemoveStreams

\* Somebody accepts the call, and the group of its channel says so.
Accept(s, c, who, invited) ==
    LET n == s.calls[c].path
        accepted == [s EXCEPT !.calls[c].accepted = @ \union {who}]
    IN  IF n = None THEN accepted
        ELSE [accepted EXCEPT !.chans[n].members = @ \union {who}, !.chans[n].invited = invited]

\* The invitation is gone when we have accepted, and only then.
LEMMA AcceptIs ==
    ASSUME NEW s, StateOK(s), NEW c \in Live(s), NEW who \in {"us", "them"}, NEW invited \in BOOLEAN,
           s.calls[c].path # None => (invited <=> s.chans[s.calls[c].path].invited /\ who # "us")
    PROVE  Accepted(s, Accept(s, c, who, invited), c, who)
<1> DEFINE t == Accept(s, c, who, invited)
           n == s.calls[c].path
           call == [s.calls[c] EXCEPT !.accepted = @ \union {who}]
           calls == [s.calls EXCEPT ![c] = call]
           accepted == [s EXCEPT !.calls = calls]
           ch == [s.chans[n] EXCEPT !.members = @ \union {who}, !.invited = invited]
           chans == IF n = None THEN s.chans ELSE [s.chans EXCEPT ![n] = ch]
<1>1. /\ s \in MediaState /\ OpenOK(s, {}) /\ c \in CallIds /\ s.calls[c] \in Call /\ s.calls[c] # None
      /\ s.calls \in [CallIds -> Call \union {None}] /\ IsRecord(s)
      /\ s.chans \in [ChannelIds -> Channel \union {None}]
  BY StateIsRecord DEF StateOK, OpenOK, MediaState, Live
<1>2. n # None => n \in Listed(s) /\ n \in ChannelIds /\ s.chans[n] # None /\ s.chans[n] \in Channel
  <2>1. n # None => n \in Listed(s)
    BY DEF StateOK, OpenOK, CallOK
  <2>. QED BY <1>1, <2>1 DEF Listed
<1>3. /\ call \in Call /\ call.path = n /\ call.conn = s.calls[c].conn /\ call.peer = s.calls[c].peer
      /\ call.accepted = s.calls[c].accepted \union {who}
  BY <1>1 DEF Call
<1>4. n # None => /\ ch \in Channel /\ ch.conn = s.chans[n].conn /\ ch.peer = s.chans[n].peer
                  /\ ch.ours = s.chans[n].ours /\ ch.media = s.chans[n].media
                  /\ ch.waiting = s.chans[n].waiting /\ ch.pending = s.chans[n].pending
                  /\ ch.shown = s.chans[n].shown /\ ch.members = s.chans[n].members \union {who}
                  /\ ch.invited = invited
  BY <1>2 DEF Channel
<1>5. [s EXCEPT !.calls[c].accepted = @ \union {who}] = accepted
  BY <1>1 DEF MediaState
<1>6. accepted.chans = s.chans /\ IsRecord(accepted)
  BY <1>1, SMTT(30) DEF IsRecord
<1>7. t = [s EXCEPT !.calls = calls, !.chans = chans]
  <2>1. CASE n = None
    BY <1>1, <1>5, <2>1 DEF IsRecord, Accept
  <2>2. CASE n # None
    <3> HIDE DEF call, calls
    <3>1. t = [accepted EXCEPT !.chans[n].members = @ \union {who}, !.chans[n].invited = invited]
      BY <1>5, <2>2 DEF Accept
    <3> DEFINE m == [accepted EXCEPT !.chans[n].members = @ \union {who}]
               ch1 == [s.chans[n] EXCEPT !.members = @ \union {who}]
               chans1 == [s.chans EXCEPT ![n] = ch1]
    <3>2. t = [m EXCEPT !.chans[n].invited = invited]
      BY <3>1
    <3> HIDE DEF accepted, t, n, ch, chans
    <3>3. m = [accepted EXCEPT !.chans = chans1]
      BY <1>6
    <3> HIDE DEF chans1, m
    <3>4. IsRecord(m) /\ m.chans = chans1
      BY <1>6, <3>3, ExchangedChannels
    <3>5. t = [m EXCEPT !.chans = [chans1 EXCEPT ![n] = [chans1[n] EXCEPT !.invited = invited]]]
      BY <3>2, <3>4
    <3>6. chans1[n] = ch1 /\ ch = [ch1 EXCEPT !.invited = invited]
      BY <1>1, <1>2, <2>2 DEF chans1, ch
    <3>7. [chans1 EXCEPT ![n] = ch] = chans
      BY <1>1, <1>2, <2>2 DEF chans1, chans
    <3> HIDE DEF ch1
    <3>8. t = [m EXCEPT !.chans = chans]
      BY <3>5, <3>6, <3>7
    <3>9. t = [accepted EXCEPT !.chans = chans]
      BY <1>6, <3>3, <3>8 DEF IsRecord
    <3>. QED BY <1>1, <3>9 DEF IsRecord, accepted
  <2>. QED BY <2>1, <2>2
<1>8. /\ calls \in [CallIds -> Call \union {None}] /\ calls[c] = call
      /\ \A d \in CallIds \ {c} : calls[d] = s.calls[d]
      /\ \A d \in CallIds : calls[d] # None <=> s.calls[d] # None
  <2>1. call # None
    BY <1>3, NoneIsNothing
  <2> HIDE DEF call
  <2>. QED BY <1>1, <1>3, <2>1
<1>9. /\ chans \in [ChannelIds -> Channel \union {None}]
      /\ \A k \in ChannelIds : k # n => chans[k] = s.chans[k]
      /\ n # None => chans[n] = ch
      /\ \A k \in ChannelIds : chans[k] # None <=> s.chans[k] # None
  <2>1. n # None => ch # None
    BY <1>4, NoneIsNothing
  <2> HIDE DEF ch
  <2>. QED BY <1>1, <1>2, <1>4, <2>1
<1> HIDE DEF calls, chans, call, ch, accepted
<1>10. /\ t.phase = s.phase /\ t.up = s.up /\ t.dangling = s.dangling /\ t.listed = s.listed
       /\ t.chans = chans /\ t.calls = calls /\ t.dials = s.dials /\ t.reqs = s.reqs
       /\ t.made = s.made /\ t.answers = s.answers /\ t.refused = s.refused
       /\ t.given_up = s.given_up /\ t.strays = s.strays /\ IsRecord(t)
  BY <1>1, <1>7 DEF IsRecord
<1> HIDE DEF t
<1>11. t \in MediaState
  BY <1>1, <1>8, <1>9, <1>10 DEF MediaState, IsRecord
<1>12. Live(t) = Live(s) /\ Listed(t) = Listed(s)
  BY <1>8, <1>9, <1>10 DEF Live, Listed
<1>13. \A k \in Listed(s) : k = n =>
          /\ t.chans[k] = ch /\ n # None
  BY <1>9, <1>10, NoneIsNothing DEF Listed, ChannelIds
<1>14. /\ \A d \in CallIds \ {c} : t.calls[d] = s.calls[d]
       /\ t.calls[c].path = s.calls[c].path /\ t.calls[c].conn = s.calls[c].conn
       /\ t.calls[c].peer = s.calls[c].peer
       /\ t.calls[c].accepted = s.calls[c].accepted \union {who}
       /\ \A k \in ChannelIds : k # n => t.chans[k] = s.chans[k]
  BY <1>3, <1>8, <1>9, <1>10
<1>15. ASSUME NEW k \in Listed(s), k = n
       PROVE  /\ t.chans[k].conn = s.chans[k].conn /\ t.chans[k].peer = s.chans[k].peer
              /\ t.chans[k].ours = s.chans[k].ours /\ t.chans[k].media = s.chans[k].media
              /\ t.chans[k].waiting = s.chans[k].waiting /\ t.chans[k].pending = s.chans[k].pending
              /\ t.chans[k].shown = s.chans[k].shown
              /\ t.chans[k].members = s.chans[k].members \union {who}
              /\ t.chans[k].invited <=> s.chans[k].invited /\ who # "us"
  <2>1. t.chans[k] = ch /\ n # None
    BY <1>13, <1>15
  <2>2. ch.invited <=> s.chans[n].invited /\ who # "us"
    BY <1>4, <2>1
  <2>. QED BY <1>4, <1>15, <2>1, <2>2
<1>. QED BY <1>10, <1>11, <1>12, <1>14, <1>15 DEF Accepted, t

\* We accept the call, and are not invited any more.
LEMMA AcceptCallStep ==
    ASSUME IInv, NEW n \in ChannelIds, AcceptCall(n)
    PROVE  IInv'
<1> DEFINE c == mc.chans[n].media
<1>1. StateOK(mc) /\ n \in Listed(mc) /\ c # None /\ mc.chans[n].invited
  BY DEF IInv, AcceptCall
<1>2. c \in Live(mc) /\ mc.calls[c].path = n
  BY <1>1 DEF StateOK, OpenOK, MediaOK
<1>3. n # None
  BY NoneIsNothing DEF ChannelIds
<1>4. mc' = [mc EXCEPT !.calls[c].accepted = @ \union {"us"},
                       !.chans[n].members = @ \union {"us"}, !.chans[n].invited = FALSE]
  BY DEF AcceptCall
<1> HIDE DEF c
<1>5. mc' = Accept(mc, c, "us", FALSE)
  BY <1>2, <1>3, <1>4 DEF Accept
<1>6. Accepted(mc, Accept(mc, c, "us", FALSE), c, "us")
  BY <1>1, <1>2, AcceptIs
<1>7. StateOK(Accept(mc, c, "us", FALSE))
  BY <1>1, <1>2, <1>6, AcceptedOK
<1>. QED BY <1>5, <1>7 DEF IInv

\* The contact accepts the call.
LEMMA PeerAcceptsStep ==
    ASSUME IInv, NEW c \in CallIds, PeerAccepts(c)
    PROVE  IInv'
<1> DEFINE n == mc.calls[c].path
           invited == IF n = None THEN FALSE ELSE mc.chans[n].invited
           accepted == [mc EXCEPT !.calls[c].accepted = @ \union {"them"}]
           t == IF n = None THEN accepted
                ELSE [accepted EXCEPT !.chans[n].members = @ \union {"them"}]
<1>1. StateOK(mc) /\ c \in Live(mc) /\ mc' = t
  BY DEF IInv, PeerAccepts
<1>2. /\ n # None => n \in Listed(mc) /\ n \in ChannelIds /\ mc.chans[n] \in Channel
      /\ mc.chans \in [ChannelIds -> Channel \union {None}] /\ IsRecord(mc)
  <2>1. n # None => n \in Listed(mc)
    BY <1>1 DEF StateOK, OpenOK, CallOK
  <2>2. mc \in MediaState
    BY <1>1 DEF StateOK, OpenOK
  <2>. QED BY <2>1, <2>2, StateIsRecord DEF Listed, MediaState
<1>3. invited \in BOOLEAN
  BY <1>2 DEF Channel
<1>4. t = Accept(mc, c, "them", invited)
  <2>1. CASE n = None
    BY <2>1 DEF Accept
  <2>2. CASE n # None
    <3>1. accepted.chans = mc.chans
      BY <1>2 DEF IsRecord
    <3> HIDE DEF accepted
    <3> DEFINE ch1 == [mc.chans[n] EXCEPT !.members = @ \union {"them"}]
               m == [accepted EXCEPT !.chans[n].members = @ \union {"them"}]
               chans1 == [mc.chans EXCEPT ![n] = ch1]
    <3>2. m = [accepted EXCEPT !.chans = chans1]
      BY <3>1
    <3>3. [ch1 EXCEPT !.invited = mc.chans[n].invited] = ch1
      BY <1>2, <2>2 DEF Channel
    <3>4. chans1[n] = ch1
      BY <1>2, <2>2
    <3>5. [chans1 EXCEPT ![n] = [chans1[n] EXCEPT !.invited = mc.chans[n].invited]] = chans1
      <4> HIDE DEF ch1
      <4>1. [chans1 EXCEPT ![n] = ch1] = chans1
        BY <1>2, <2>2
      <4>. QED BY <3>3, <3>4, <4>1
    <3> HIDE DEF chans1
    <3>6. m.chans = chans1
      <4>1. IsRecord(accepted)
        <5> DEFINE calls == [mc.calls EXCEPT ![c].accepted = @ \union {"them"}]
        <5>1. accepted = [mc EXCEPT !.calls = calls]
          BY <1>2 DEF accepted
        <5> HIDE DEF calls
        <5>. QED BY <1>2, <5>1 DEF IsRecord
      <4>. QED BY <3>2, <4>1 DEF IsRecord
    <3>7. [m EXCEPT !.chans[n].invited = mc.chans[n].invited] = m
      <4>1. [m EXCEPT !.chans = chans1] = m
        BY <3>2
      <4> HIDE DEF m
      <4>2. [m EXCEPT !.chans[n].invited = mc.chans[n].invited]
             = [m EXCEPT !.chans = [chans1 EXCEPT ![n] = [chans1[n] EXCEPT !.invited = mc.chans[n].invited]]]
        BY <3>6
      <4>. QED BY <3>5, <4>1, <4>2
    <3>8. Accept(mc, c, "them", invited)
           = [m EXCEPT !.chans[n].invited = mc.chans[n].invited]
      BY <2>2 DEF Accept, accepted
    <3>. QED BY <2>2, <3>7, <3>8
  <2>. QED BY <2>1, <2>2
<1>5. n # None => (invited <=> mc.chans[n].invited /\ "them" # "us")
  OBVIOUS
<1> HIDE DEF invited, t
<1>6. Accepted(mc, Accept(mc, c, "them", invited), c, "them")
  BY <1>1, <1>3, <1>5, AcceptIs
<1>7. StateOK(Accept(mc, c, "them", invited))
  BY <1>1, <1>6, AcceptedOK
<1>. QED BY <1>1, <1>4, <1>7 DEF IInv

\* A channel is closed, by whichever of the two requests.
LEMMA CloseStep ==
    ASSUME IInv, NEW n \in Listed(mc), mc' = CloseChannel(mc, n)
    PROVE  IInv'
<1>1. Closed(mc, CloseChannel(mc, n), n)
  BY CloseChannelOK DEF IInv
<1>. QED BY <1>1 DEF Closed, IInv

\* A call that libpurple was dialling starts, or does not.
LEMMA DialledStep ==
    ASSUME IInv, NEW conn \in Conns, NEW peer \in Contacts, NEW lucky \in BOOLEAN,
           DialledCallStarts(conn, peer, lucky) \/ DiallingFails(conn, peer)
    PROVE  IInv'
<1>1. StateOK(mc) /\ mc \in MediaState /\ OpenOK(mc, {})
  BY DEF IInv, StateOK, OpenOK
<1>2. CASE DialledCallStarts(conn, peer, lucky)
  <2> DEFINE types == mc.dials[conn][peer]
  <2>1. types \in SUBSET Types
    BY <1>1 DEF MediaState
  <2>2. /\ mc.phase = "running" /\ FreeCalls(mc) # {}
        /\ mc' = OutgoingMedia(mc, conn, peer, types, lucky)
    BY <1>2 DEF DialledCallStarts, Running, RoomForCall
  <2>3. Expected(mc, conn, peer)
    BY <1>1, <1>2 DEF DialledCallStarts, OpenOK
  <2> HIDE DEF types
  <2>4. StateOK(OutgoingMedia(mc, conn, peer, types, lucky))
    BY <1>1, <2>1, <2>2, <2>3, OutgoingMediaOK
  <2>. QED BY <2>2, <2>4 DEF IInv
<1>3. CASE DiallingFails(conn, peer)
  <2> DEFINE dials == [mc.dials EXCEPT ![conn][peer] = {}]
  <2>1. mc.dials \in [Conns -> [Contacts -> SUBSET Types]]
    BY <1>1 DEF MediaState
  <2>2. /\ dials \in [Conns -> [Contacts -> SUBSET Types]]
        /\ \A k \in Conns, h \in Contacts : dials[k][h] # {} => mc.dials[k][h] # {}
    BY <2>1
  <2>3. mc' = [mc EXCEPT !.dials = dials]
    BY <1>3 DEF DiallingFails
  <2> HIDE DEF dials
  <2>4. \A k \in Conns, h \in Contacts : dials[k][h] # {} => Expected(mc, k, h)
    BY <1>1, <2>2 DEF OpenOK
  <2>5. OpenOK([mc EXCEPT !.dials = dials], {})
    <3> DEFINE t == [mc EXCEPT !.dials = dials]
    <3>1. /\ OpenOK(t, {}) /\ t.phase = mc.phase /\ t.up = mc.up /\ t.dials = dials
          /\ t.chans = mc.chans /\ t.calls = mc.calls /\ t.strays = mc.strays /\ t.dangling = mc.dangling
      BY <1>1, <2>2, <2>4, DialsOK
    <3>. QED BY <3>1
  <2>. QED BY <2>3, <2>5 DEF IInv, StateOK
<1>. QED BY <1>2, <1>3

\* A call comes in, and there is a channel for every connection that listens.
LEMMA CallComesInStep ==
    ASSUME IInv, NEW conn \in Conns, NEW peer \in Contacts, NEW types \in SUBSET Types,
           NEW lucky \in BOOLEAN, CallComesIn(conn, peer, types, lucky)
    PROVE  IInv'
<1>1. /\ StateOK(mc) /\ mc.phase = "running" /\ conn \in mc.up /\ FreeCalls(mc) # {}
      /\ Cardinality(FreeChannels(mc)) >= Cardinality(mc.up)
      /\ mc' = IncomingMedia(mc, conn, peer, types, lucky)
  BY DEF IInv, CallComesIn, Running, RoomForCall
<1>2. mc.up \subseteq Conns
  BY <1>1 DEF StateOK, OpenOK, MediaState
<1>3. IsFiniteSet(mc.up)
  BY <1>2, ConnsFinite, FS_Subset
<1>4. Cardinality(mc.up) \in Nat /\ Cardinality(mc.up) # 0
  BY <1>1, <1>3, FS_CardinalityType, FS_EmptySet
<1>5. FreeChannels(mc) # {}
  <2>1. Cardinality({}) = 0
    BY FS_EmptySet
  <2>2. SUFFICES ASSUME FreeChannels(mc) = {} PROVE FALSE
    OBVIOUS
  <2>3. Cardinality(FreeChannels(mc)) = 0
    BY <2>1, <2>2
  <2>. QED BY <1>1, <1>4, <2>3
<1>6. StateOK(IncomingMedia(mc, conn, peer, types, lucky))
  BY <1>1, <1>5, IncomingMediaOK
<1>. QED BY <1>1, <1>6 DEF IInv

\* A stream comes, one ends, or the call does.
LEMMA StreamsStep ==
    ASSUME IInv, NEW c \in CallIds, NEW id, NEW type \in Types, NEW lucky \in BOOLEAN,
           CallEnds(c) \/ StreamEnds(c, id) \/ StreamComes(c, type, lucky)
    PROVE  IInv'
<1>1. StateOK(mc) /\ OpenOK(mc, {}) /\ c \in Live(mc)
  BY DEF IInv, StateOK, CallEnds, StreamEnds, StreamComes
<1>2. CASE CallEnds(c)
  <2>1. Ended(mc, EndCall(mc, c), c)
    BY <1>1, EndCallOK
  <2>. QED BY <1>2, <2>1 DEF CallEnds, Ended, IInv
<1>3. CASE StreamEnds(c, id)
  <2>1. id \in StreamsOf(mc.calls[c]) /\ mc' = EndStream(mc, c, id)
    BY <1>3 DEF StreamEnds
  <2>2. StateOK(EndStream(mc, c, id))
    BY <1>1, <2>1, EndStreamOK
  <2>. QED BY <2>1, <2>2 DEF IInv
<1>4. CASE StreamComes(c, type, lucky)
  <2>1. mc' = AddStream(mc, c, type, lucky)
    BY <1>4 DEF StreamComes
  <2>2. OpenOK(AddStream(mc, c, type, lucky), {})
    BY <1>1, AddStreamOK
  <2>. QED BY <2>1, <2>2 DEF IInv, StateOK
<1>. QED BY <1>2, <1>3, <1>4

\* A connection goes: its channels close, its calls end, and it dials nobody.
LEMMA DisconnectStep ==
    ASSUME IInv, NEW conn \in Conns, Disconnect(conn)
    PROVE  IInv'
<1> DEFINE up == mc.up \ {conn}
           down == [mc EXCEPT !.up = up]
           closed == CloseAll(down, conn)
           left == {c \in Live(closed) : closed.calls[c].conn = conn}
           ended == EndCalls(closed, left)
           dials == [ended.dials EXCEPT ![conn] = [h \in Contacts |-> {}]]
<1>1. StateOK(mc) /\ up \in SUBSET Conns
  BY DEF IInv, StateOK, OpenOK, MediaState
<1>2. mc' = [ended EXCEPT !.dials[conn] = [h \in Contacts |-> {}]]
  BY DEF Disconnect, EndCalls
<1>3. StateOK(down)
  <2> HIDE DEF up
  <2>. QED BY <1>1, UpOK
<1> HIDE DEF down
<1>4. StateOK(closed)
  BY <1>3, CloseAllOK
<1> HIDE DEF closed
<1>5. StateOK(ended)
  <2>1. left \in SUBSET Live(closed)
    OBVIOUS
  <2> HIDE DEF left
  <2>. QED BY <1>4, <2>1, EndCallsOK
<1> HIDE DEF ended
<1>6. ended.dials \in [Conns -> [Contacts -> SUBSET Types]]
  BY <1>5 DEF StateOK, OpenOK, MediaState
<1>7. /\ dials \in [Conns -> [Contacts -> SUBSET Types]]
      /\ \A k \in Conns, h \in Contacts : dials[k][h] # {} => ended.dials[k][h] # {}
  BY <1>6
<1>8. mc' = [ended EXCEPT !.dials = dials]
  BY <1>2
<1> HIDE DEF dials
<1>9. \A k \in Conns, h \in Contacts : dials[k][h] # {} => Expected(ended, k, h)
  BY <1>5, <1>7 DEF StateOK, OpenOK
<1>10. OpenOK(ended, {})
  BY <1>5 DEF StateOK
<1>11. OpenOK([ended EXCEPT !.dials = dials], {})
  <2> DEFINE t == [ended EXCEPT !.dials = dials]
  <2>1. /\ OpenOK(t, {}) /\ t.phase = ended.phase /\ t.up = ended.up /\ t.dials = dials
        /\ t.chans = ended.chans /\ t.calls = ended.calls /\ t.strays = ended.strays
        /\ t.dangling = ended.dangling
    BY <1>7, <1>9, <1>10, DialsOK
  <2>. QED BY <2>1
<1>. QED BY <1>8, <1>11 DEF IInv, StateOK

-----------------------------------------------------------------------------
(* The invariant, and what follows from it *)

\* There is nothing in the first state.
LEMMA MediaInit == Init => IInv
<1> SUFFICES ASSUME Init PROVE IInv
  OBVIOUS
<1>1. /\ mc.phase = "running" /\ mc.listed = [conn \in Conns |-> {}]
      /\ mc.chans = [n \in ChannelIds |-> None] /\ mc.calls = [c \in CallIds |-> None]
      /\ mc.dials = [conn \in Conns |-> [h \in Contacts |-> {}]]
      /\ mc.answers = [r \in Requests |-> 0] /\ mc.made = {} /\ mc.refused = {}
      /\ mc.given_up = {} /\ mc.strays = {}
  BY DEF Init
<1>2. Listed(mc) = {} /\ Live(mc) = {}
  BY <1>1 DEF Listed, Live
<1>3. mc \in MediaState
  BY DEF Init, MediaState
<1>4. HistoryOK(mc) /\ ListsOK(mc)
  BY <1>1, <1>2 DEF HistoryOK, ListsOK
<1>5. \A r \in Requests : NotForgotten(mc, r)
  BY <1>1 DEF NotForgotten
<1>6. \A conn \in Conns, peer \in Contacts : mc.dials[conn][peer] = {}
  BY <1>1
<1>. QED BY <1>2, <1>3, <1>4, <1>5, <1>6 DEF IInv, StateOK, OpenOK

\* Every step of the program keeps the invariant.
LEMMA MediaNext == IInv /\ [Next]_vars => IInv'
<1> SUFFICES ASSUME IInv, [Next]_vars PROVE IInv'
  OBVIOUS
<1> HIDE DEF IInv
<1>1. CASE vars' = vars
  BY <1>1 DEF IInv, vars
<1>2. ASSUME NEW conn \in Conns, Disconnect(conn) PROVE IInv'
  BY <1>2, DisconnectStep
<1>3. ASSUME NEW conn \in Conns, NEW peer \in Contacts, NEW lucky \in BOOLEAN,
             DialledCallStarts(conn, peer, lucky) \/ DiallingFails(conn, peer)
      PROVE  IInv'
  BY <1>3, DialledStep
<1>4. ASSUME NEW conn \in Conns, NEW peer \in Contacts, NEW lucky \in BOOLEAN,
             NEW types \in SUBSET Types, CallComesIn(conn, peer, types, lucky)
      PROVE  IInv'
  BY <1>4, CallComesInStep
<1>5. ASSUME NEW conn \in Conns, NEW peer \in Contacts, NEW lucky \in BOOLEAN,
             NEW types \in SUBSET Types, NEW r \in Requests, NEW ensure \in BOOLEAN,
             NEW reaction \in Reactions,
             RequestChannel(r, conn, peer, ensure, types, reaction, lucky)
      PROVE  IInv'
  BY <1>5, RequestChannelStep
<1>6. ASSUME NEW n \in ChannelIds, AcceptCall(n) PROVE IInv'
  BY <1>6, AcceptCallStep
<1>7. ASSUME NEW n \in ChannelIds, NEW makesSense \in BOOLEAN, Close(n) \/ LeaveCall(n, makesSense)
      PROVE  IInv'
  BY <1>7, CloseStep DEF Close, LeaveCall
<1>8. ASSUME NEW n \in ChannelIds, NEW caps \in Caps, NEW lucky \in BOOLEAN,
             NEW ids \in SUBSET (1 .. MaxStreams), RemoveStreams(n, ids, caps, lucky)
      PROVE  IInv'
  BY <1>8, RemoveStreamsStep
<1>9. ASSUME NEW n \in ChannelIds, NEW caps \in Caps, NEW lucky \in BOOLEAN,
             NEW r \in Requests, NEW peer \in Contacts, NEW reaction \in Reactions,
             NEW types \in SUBSET Types \union {{"invalid"}},
             RequestStreams(r, n, peer, types, caps, reaction, lucky)
      PROVE  IInv'
  BY <1>9, RequestStreamsStep
<1>10. ASSUME NEW c \in CallIds, PeerAccepts(c) PROVE IInv'
  BY <1>10, PeerAcceptsStep
<1>11. ASSUME NEW c \in CallIds, CallEnds(c) PROVE IInv'
  <2>1. "audio" \in Types /\ TRUE \in BOOLEAN
    BY DEF Types
  <2>. QED BY <1>11, <2>1, StreamsStep
<1>12. ASSUME NEW c \in CallIds, NEW id \in 1 .. MaxStreams, StreamEnds(c, id) PROVE IInv'
  <2>1. "audio" \in Types /\ TRUE \in BOOLEAN
    BY DEF Types
  <2>. QED BY <1>12, <2>1, StreamsStep
<1>13. ASSUME NEW c \in CallIds, NEW type \in Types, NEW lucky \in BOOLEAN, StreamComes(c, type, lucky)
       PROVE  IInv'
  BY <1>13, StreamsStep
<1>. QED BY <1>1, <1>2, <1>3, <1>4, <1>5, <1>6, <1>7, <1>8, <1>9, <1>10, <1>11, <1>12, <1>13 DEF Next

\* What the invariant says, in the words of the properties
LEMMA MediaImplies ==
    IInv => /\ TypeOK /\ RequestsAreAnsweredOnce /\ NoRequestForgotten
            /\ CallHasItsChannel /\ ChannelsTellTheTruth
<1> SUFFICES ASSUME IInv
             PROVE  /\ TypeOK /\ RequestsAreAnsweredOnce /\ NoRequestForgotten
                    /\ CallHasItsChannel /\ ChannelsTellTheTruth
  OBVIOUS
<1>1. /\ mc \in MediaState /\ HistoryOK(mc) /\ ListsOK(mc)
      /\ \A r \in Requests : NotForgotten(mc, r)
      /\ \A n \in Listed(mc) : PendingOK(mc, n) /\ MediaOK(mc, n)
      /\ \A c \in Live(mc) : CallOK(mc, c) /\ FoundOK(mc, c)
  BY DEF IInv, StateOK, OpenOK
<1>2. TypeOK
  BY <1>1 DEF TypeOK, ListsOK
<1>3. RequestsAreAnsweredOnce
  BY <1>1 DEF RequestsAreAnsweredOnce, HistoryOK, PendingOK
<1>4. NoRequestForgotten
  BY <1>1 DEF NoRequestForgotten, NotForgotten, Running, HistoryOK
<1>5. CallHasItsChannel
  <2>1. ASSUME Running, NEW c \in Live(mc)
        PROVE  IF mc.calls[c].path = None
               THEN <<mc.calls[c].conn, mc.calls[c].peer>> \in mc.strays
               ELSE mc.calls[c].path \in Listed(mc)
    BY <1>1, <2>1 DEF CallOK, FoundOK, Running
  <2>2. ASSUME NEW n \in Listed(mc), mc.chans[n].media # None
        PROVE  mc.chans[n].media \in Live(mc) /\ mc.calls[mc.chans[n].media].path = n
    BY <1>1, <2>2 DEF MediaOK
  <2>. QED BY <2>1, <2>2 DEF CallHasItsChannel
<1>6. ChannelsTellTheTruth
  <2>1. ASSUME NEW n \in Listed(mc)
        PROVE  mc.chans[n].shown \/ \E r \in mc.chans[n].pending : mc.reqs[r].kind = "channel"
    BY <1>1 DEF PendingOK
  <2>2. ASSUME NEW n \in Listed(mc), mc.chans[n].media # None
        PROVE  LET chan == mc.chans[n]
                   accepted == mc.calls[chan.media].accepted
               IN  /\ chan.members = accepted \union {IF chan.ours THEN "us" ELSE "them"}
                   /\ chan.invited <=> ~chan.ours /\ "us" \notin accepted
    BY <1>1, <2>2 DEF MediaOK
  <2>. QED BY <2>1, <2>2 DEF ChannelsTellTheTruth
<1>. QED BY <1>2, <1>3, <1>4, <1>5, <1>6

\* The invariant holds in every state the program reaches.
THEOREM MediaInvariant == Spec => []IInv
<1>1. Init => IInv
  BY MediaInit
<1>2. IInv /\ [Next]_vars => IInv'
  BY MediaNext
<1>. QED BY <1>1, <1>2, PTL DEF Spec

\* Every channel, call and request has its fields, and the list of every manager is
\* of its own channels.
THEOREM MediaTypeCorrect == Spec => []TypeOK
BY MediaInvariant, MediaImplies, PTL

\* A request for streams is answered once, wherever the list it waits in is walked from,
\* unless it went through the error label that answers twice.
THEOREM MediaAnsweredOnce == Spec => []RequestsAreAnsweredOnce
BY MediaInvariant, MediaImplies, PTL

\* No call of a client goes without its answer, however calls and streams come and go,
\* but for those on a channel that closes before its call is there.
THEOREM MediaNotForgotten == Spec => []NoRequestForgotten
BY MediaInvariant, MediaImplies, PTL

\* A call and its channel are each other's, and no call is without a channel but those
\* that were dialled for none.
THEOREM MediaCallsHaveChannels == Spec => []CallHasItsChannel
BY MediaInvariant, MediaImplies, PTL

\* The group that a client sees is who is in the call, and every channel was announced
\* or is about to be.
THEOREM MediaTruth == Spec => []ChannelsTellTheTruth
BY MediaInvariant, MediaImplies, PTL
=============================================================================
