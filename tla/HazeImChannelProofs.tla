-------------------------- MODULE HazeImChannelProofs --------------------------
(***************************************************************************)
(* The invariants of HazeImChannel, for any contacts and messages.         *)
(*                                                                         *)
(* All but the end of the connection happens at one contact.  A lemma per  *)
(* function of the code says what it needs of the contact's channel and    *)
(* conversation and what it leaves; Lift puts the result back among the    *)
(* other contacts.  Where the messages are is followed separately, as it   *)
(* is only right again when the whole event is over.                       *)
(***************************************************************************)
EXTENDS HazeImChannel, TLAPS

\* What a contact's channel, conversation and timeout have to do with each other.
\* Besides the invariants: there are no channels without a connection, and a channel
\* with rescued messages is the contact's own.
ContactOK(s, h) ==
    LET chan == s.channels[h]
        conv == s.convs[h]
    IN  /\ chan # None =>
              /\ conv # None /\ s.phase = "connected"
              /\ chan.rescued # {} => chan.initiator = h
        /\ conv # None /\ conv.timer => s.timers[h] = 1
        /\ ~(conv # None /\ conv.timer) => s.timers[h] = 0
        /\ s.timers[h] > 0 => s.peer[h] = conv.active /\ s.peer[h] # "not typing"
        /\ s.phase = "connected" /\ chan # None => s.seen[h] = Announced(chan.initiator)
        /\ s.phase = "connected" /\ chan = None => s.seen[h] = None

StateOK(s) == s \in ImState /\ \A h \in Contacts : ContactOK(s, h)

\* NoMessageLost, of any state
MessagesWait(s) ==
    \A m \in s.taken \ s.done :
        s.channels[Sender[m]] # None /\ m \in s.channels[Sender[m]].pending

\* A message is put into a channel once.
TakenWereMade(s) == s.taken \subseteq s.made

\* The inductive invariant
IInv == StateOK(im) /\ MessagesWait(im) /\ TakenWereMade(im)

-----------------------------------------------------------------------------
(* One contact at a time *)

\* From s to t nothing changed but what belongs to h, and the history.
OnlyAt(s, t, h) ==
    /\ t \in ImState /\ t.phase = s.phase
    /\ \A k \in Contacts \ {h} :
          /\ t.channels[k] = s.channels[k] /\ t.convs[k] = s.convs[k]
          /\ t.timers[k] = s.timers[k] /\ t.seen[k] = s.seen[k] /\ t.peer[k] = s.peer[k]

SameHistory(s, t) == t.made = s.made /\ t.taken = s.taken /\ t.done = s.done

\* An event at h that brings no message
QuietAt(h) == OnlyAt(im, im', h) /\ im'.taken = im.taken /\ im'.made = im.made

\* The other contacts are as they were.
LEMMA Lift ==
    ASSUME NEW s, NEW t, NEW h \in Contacts, StateOK(s), OnlyAt(s, t, h), ContactOK(t, h)
    PROVE  StateOK(t)
<1> SUFFICES ASSUME NEW k \in Contacts \ {h} PROVE ContactOK(t, k)
    BY DEF StateOK, OnlyAt
<1>1. /\ t.phase = s.phase /\ t.channels[k] = s.channels[k] /\ t.convs[k] = s.convs[k]
      /\ t.timers[k] = s.timers[k] /\ t.seen[k] = s.seen[k] /\ t.peer[k] = s.peer[k]
    BY DEF OnlyAt
<1>2. ContactOK(s, k)
    BY DEF StateOK
<1> QED BY <1>1, <1>2 DEF ContactOK

\* Changes at one contact follow each other.
LEMMA OnlyAtTransitive ==
    ASSUME NEW s, NEW t, NEW u, NEW h \in Contacts, OnlyAt(s, t, h), OnlyAt(t, u, h)
    PROVE  OnlyAt(s, u, h)
BY DEF OnlyAt

\* The channel of the contact keeps its messages, and no message is taken.
LEMMA MessagesStay ==
    ASSUME NEW s, NEW t, NEW h \in Contacts, s \in ImState, MessagesWait(s), OnlyAt(s, t, h),
           SameHistory(s, t),
           s.channels[h] # None =>
               t.channels[h] # None /\ s.channels[h].pending \subseteq t.channels[h].pending
    PROVE  MessagesWait(t)
<1> SUFFICES ASSUME NEW m \in t.taken \ t.done
             PROVE  t.channels[Sender[m]] # None /\ m \in t.channels[Sender[m]].pending
    BY DEF MessagesWait
<1>1. m \in s.taken \ s.done /\ Sender[m] \in Contacts
    BY SenderType DEF SameHistory, ImState
<1>2. s.channels[Sender[m]] # None /\ m \in s.channels[Sender[m]].pending
    BY <1>1 DEF MessagesWait
<1>3. CASE Sender[m] = h
    BY <1>2, <1>3
<1>4. CASE Sender[m] # h
    BY <1>1, <1>2, <1>4 DEF OnlyAt
<1> QED BY <1>3, <1>4

-----------------------------------------------------------------------------
(* The functions of the code *)

\* A conversation is opened with nothing to repeat.
LEMMA EnsureConversationOK ==
    ASSUME NEW s, NEW h \in Contacts, StateOK(s)
    PROVE  LET t == EnsureConversation(s, h)
           IN  /\ OnlyAt(s, t, h) /\ ContactOK(t, h) /\ SameHistory(s, t)
               /\ t.channels = s.channels /\ t.convs[h] # None
<1>1. CASE s.convs[h] # None
    BY <1>1 DEF EnsureConversation, OnlyAt, SameHistory, StateOK
<1>2. CASE s.convs[h] = None
    <2> DEFINE new == [active |-> "not typing", timer |-> FALSE]
               t   == [s EXCEPT !.convs[h] = new]
    <2>1. new \in Conversation
        BY DEF Conversation, Typing
    <2>2. /\ t \in ImState /\ t.convs = [s.convs EXCEPT ![h] = new]
          /\ t.phase = s.phase /\ t.channels = s.channels /\ t.timers = s.timers
          /\ t.seen = s.seen /\ t.peer = s.peer
          /\ SameHistory(s, t)
        BY <2>1 DEF StateOK, ImState, SameHistory
    <2>3. t.convs[h] = new /\ \A k \in Contacts \ {h} : t.convs[k] = s.convs[k]
        BY <2>2 DEF StateOK, ImState
    <2>4. EnsureConversation(s, h) = t
        BY <1>2 DEF EnsureConversation
    <2>5. ContactOK(s, h) /\ new # None
        BY <2>1, NoneIsNothing DEF StateOK
    <2> HIDE DEF t
    <2>6. ContactOK(t, h)
        <3>0. new.timer = FALSE
            OBVIOUS
        <3> HIDE DEF new
        <3>1. t.convs[h] # None /\ t.convs[h].timer = FALSE
            BY <2>3, <2>5, <3>0
        <3>2. s.timers[h] = 0 /\ t.timers[h] = 0 /\ t.channels[h] = s.channels[h]
            BY <1>2, <2>2, <2>5 DEF ContactOK
        <3> QED BY <2>2, <2>5, <3>1, <3>2 DEF ContactOK
    <2>7. OnlyAt(s, t, h)
        BY <2>2, <2>3 DEF OnlyAt
    <2> QED BY <2>2, <2>3, <2>4, <2>5, <2>6, <2>7
<1> QED BY <1>1, <1>2

\* A conversation takes its timeout with it.
LEMMA DestroyConversationsOK ==
    ASSUME NEW s, NEW hs \in SUBSET Contacts, StateOK(s), \A h \in hs : s.convs[h] # None
    PROVE  LET t == DestroyConversations(s, hs)
           IN  /\ t \in ImState /\ SameHistory(s, t)
               /\ t.phase = s.phase /\ t.channels = s.channels /\ t.seen = s.seen
               /\ \A h \in hs : t.convs[h] = None /\ t.timers[h] = 0
               /\ \A k \in Contacts \ hs : /\ t.convs[k] = s.convs[k]
                                           /\ t.timers[k] = s.timers[k]
                                           /\ t.peer[k] = s.peer[k]
<1> DEFINE convs  == [h \in Contacts |-> IF h \in hs THEN None ELSE s.convs[h]]
           timers == [h \in Contacts |->
                         IF h \in hs /\ s.convs[h].timer THEN s.timers[h] - 1 ELSE s.timers[h]]
           peer   == [h \in Contacts |-> IF h \in hs THEN "not typing" ELSE s.peer[h]]
           t == [s EXCEPT !.convs = convs, !.timers = timers, !.peer = peer]
<1>1. \A h \in hs : timers[h] = 0
    <2> SUFFICES ASSUME NEW h \in hs PROVE timers[h] = 0
        OBVIOUS
    <2>1. ContactOK(s, h) /\ s.convs[h] # None
        BY DEF StateOK
    <2>2. CASE s.convs[h].timer
        <3>1. s.timers[h] = 1
            BY <2>1, <2>2 DEF ContactOK
        <3>2. timers[h] = s.timers[h] - 1
            BY <2>2
        <3> QED BY <3>1, <3>2
    <2>3. CASE ~s.convs[h].timer
        <3>1. s.timers[h] = 0
            BY <2>1, <2>3 DEF ContactOK
        <3>2. timers[h] = s.timers[h]
            BY <2>3
        <3> QED BY <3>1, <3>2
    <2> QED BY <2>2, <2>3
<1>2. \A k \in Contacts \ hs : timers[k] = s.timers[k]
    OBVIOUS
<1>3. /\ convs \in [Contacts -> Conversation \union {None}]
      /\ peer \in [Contacts -> Typing]
    BY DEF StateOK, ImState, Typing
<1>4. timers \in [Contacts -> Nat]
    <2> SUFFICES ASSUME NEW h \in Contacts PROVE timers[h] \in Nat
        OBVIOUS
    <2>1. s.timers[h] \in Nat
        BY DEF StateOK, ImState
    <2>2. CASE h \in hs
        <3>1. timers[h] = 0
            BY <1>1, <2>2
        <3> QED BY <3>1
    <2>3. CASE h \notin hs
        <3>1. timers[h] = s.timers[h]
            BY <1>2, <2>3
        <3> QED BY <2>1, <3>1
    <2> QED BY <2>2, <2>3
<1>5. \A h \in hs : convs[h] = None
    OBVIOUS
<1>6. \A k \in Contacts \ hs : convs[k] = s.convs[k] /\ peer[k] = s.peer[k]
    OBVIOUS
<1>7. DestroyConversations(s, hs) = t
    BY DEF DestroyConversations
<1> HIDE DEF convs, timers, peer
<1>8. /\ t \in ImState /\ t.convs = convs /\ t.timers = timers /\ t.peer = peer
      /\ t.phase = s.phase /\ t.channels = s.channels /\ t.seen = s.seen
      /\ SameHistory(s, t)
    BY <1>3, <1>4 DEF StateOK, ImState, SameHistory
<1> QED BY <1>1, <1>2, <1>5, <1>6, <1>7, <1>8

\* A new channel is announced, and has nothing to wait for.
LEMMA NewImChannelOK ==
    ASSUME NEW s, NEW h \in Contacts, NEW initiator \in Contacts \union {Self},
           StateOK(s), s.channels[h] = None
    PROVE  LET t == NewImChannel(s, h, initiator)
           IN  /\ OnlyAt(s, t, h) /\ ContactOK(t, h) /\ SameHistory(s, t)
               /\ s.phase = "connected" =>
                     /\ t.channels[h] # None
                     /\ t.channels[h].initiator = initiator /\ t.channels[h].pending = {}
<1> DEFINE chan == [initiator |-> initiator, pending |-> {}, rescued |-> {}]
           e == EnsureConversation(s, h)
           kept == IF s.phase = "connected" THEN chan ELSE None
           said == Announced(initiator)
           t == [e EXCEPT !.channels[h] = kept, !.seen[h] = said]
<1>1. /\ OnlyAt(s, e, h) /\ ContactOK(e, h) /\ SameHistory(s, e)
      /\ e.channels = s.channels /\ e.convs[h] # None
    BY EnsureConversationOK
<1>2. /\ chan \in Channel /\ chan.rescued = {} /\ chan.pending = {}
      /\ chan.initiator = initiator
    BY DEF Channel
<1>3. NewImChannel(s, h, initiator) = t
    BY DEF NewImChannel
<1> HIDE DEF chan
<1>4. chan # None /\ kept \in Channel \union {None} /\ said \in {"requested", "incoming", None}
    BY <1>2, NoneIsNothing DEF Announced
<1> HIDE DEF e, kept, said
<1>5. /\ t \in ImState /\ t.phase = e.phase
      /\ t.channels = [e.channels EXCEPT ![h] = kept] /\ t.seen = [e.seen EXCEPT ![h] = said]
      /\ t.convs = e.convs /\ t.timers = e.timers /\ t.peer = e.peer
      /\ SameHistory(e, t)
    BY <1>1, <1>4 DEF ImState, OnlyAt, SameHistory
<1>6. /\ t.channels[h] = kept /\ t.seen[h] = said
      /\ \A k \in Contacts \ {h} : t.channels[k] = e.channels[k] /\ t.seen[k] = e.seen[k]
    BY <1>1, <1>5 DEF ImState, OnlyAt
<1> HIDE DEF t
<1>7. OnlyAt(s, t, h)
    <2>1. OnlyAt(e, t, h)
        BY <1>5, <1>6 DEF OnlyAt
    <2> QED BY <1>1, <2>1, OnlyAtTransitive
<1>8. ContactOK(t, h)
    <2>1. t.phase = s.phase /\ e.phase = s.phase
        BY <1>1, <1>5 DEF OnlyAt
    <2>2. CASE s.phase = "connected"
        <3>1. t.channels[h] = chan /\ t.seen[h] = Announced(chan.initiator)
            BY <1>2, <1>6, <2>2 DEF kept, said
        <3> QED BY <1>1, <1>2, <1>4, <1>5, <2>1, <2>2, <3>1 DEF ContactOK
    <2>3. CASE s.phase # "connected"
        <3>1. t.channels[h] = None
            BY <1>6, <2>3 DEF kept
        <3> QED BY <1>1, <1>5, <2>1, <2>3, <3>1 DEF ContactOK
    <2> QED BY <2>2, <2>3
<1>9. SameHistory(s, t)
    BY <1>1, <1>5 DEF SameHistory
<1>10. s.phase = "connected" =>
          /\ t.channels[h] # None
          /\ t.channels[h].initiator = initiator /\ t.channels[h].pending = {}
    BY <1>2, <1>4, <1>6 DEF kept
<1> QED BY <1>3, <1>7, <1>8, <1>9, <1>10

\* Whoever asks gets the channel that exists.
LEMMA GetImChannelOK ==
    ASSUME NEW s, NEW h \in Contacts, NEW initiator \in Contacts \union {Self}, StateOK(s)
    PROVE  LET t == GetImChannel(s, h, initiator)
           IN  /\ OnlyAt(s, t, h) /\ ContactOK(t, h) /\ SameHistory(s, t)
               /\ s.phase = "connected" => t.channels[h] # None
               /\ s.phase = "connected" /\ s.channels[h] = None =>
                     t.channels[h].initiator = initiator /\ t.channels[h].pending = {}
               /\ s.channels[h] # None => t.channels[h] = s.channels[h]
<1>1. CASE s.channels[h] # None
    BY <1>1 DEF GetImChannel, OnlyAt, SameHistory, StateOK
<1>2. CASE s.channels[h] = None
    BY <1>2, NewImChannelOK DEF GetImChannel
<1> QED BY <1>1, <1>2

\* A message that is not our own waits in the channel, if there is one.
LEMMA ReceiveOK ==
    ASSUME NEW s, NEW h \in Contacts, NEW m \in Messages, NEW flag, StateOK(s)
    PROVE  LET t == Receive(s, h, m, flag)
           IN  /\ OnlyAt(s, t, h) /\ ContactOK(t, h) /\ SameHistory(s, t)
               /\ s.channels[h] = None \/ flag = "SEND" => t.channels[h] = s.channels[h]
               /\ s.channels[h] # None =>
                     /\ t.channels[h] # None
                     /\ t.channels[h].initiator = s.channels[h].initiator
                     /\ s.channels[h].pending \subseteq t.channels[h].pending
                     /\ flag # "SEND" =>
                           t.channels[h].pending = s.channels[h].pending \union {m}
<1>1. CASE s.channels[h] = None \/ flag = "SEND"
    BY <1>1 DEF Receive, OnlyAt, SameHistory, StateOK
<1>2. CASE s.channels[h] # None /\ flag # "SEND"
    <2> DEFINE chan == s.channels[h]
               new  == [chan EXCEPT !.pending = @ \union {m}]
               t    == [s EXCEPT !.channels[h] = new]
    <2>1. chan \in Channel
        BY <1>2 DEF StateOK, ImState
    <2>2. /\ new \in Channel /\ new.pending = chan.pending \union {m}
          /\ new.initiator = chan.initiator /\ new.rescued = chan.rescued
        BY <2>1 DEF Channel
    <2>3. Receive(s, h, m, flag) = t
        BY <1>2 DEF Receive
    <2> HIDE DEF new
    <2>4. /\ t \in ImState /\ t.channels = [s.channels EXCEPT ![h] = new]
          /\ t.phase = s.phase /\ t.convs = s.convs /\ t.timers = s.timers
          /\ t.seen = s.seen /\ t.peer = s.peer
          /\ SameHistory(s, t)
        BY <2>2 DEF StateOK, ImState, SameHistory
    <2>5. t.channels[h] = new /\ \A k \in Contacts \ {h} : t.channels[k] = s.channels[k]
        BY <2>4 DEF StateOK, ImState
    <2>6. new # None
        BY <2>2, NoneIsNothing
    <2> HIDE DEF t
    <2>7. OnlyAt(s, t, h)
        BY <2>4, <2>5 DEF OnlyAt
    <2>8. ContactOK(t, h)
        <3>1. ContactOK(s, h)
            BY DEF StateOK
        <3> QED BY <1>2, <2>2, <2>4, <2>5, <2>6, <3>1 DEF ContactOK
    <2>9. /\ t.channels[h] # None /\ t.channels[h].initiator = s.channels[h].initiator
          /\ s.channels[h].pending \subseteq t.channels[h].pending
          /\ t.channels[h].pending = s.channels[h].pending \union {m}
        BY <2>2, <2>5, <2>6
    <2> HIDE DEF chan
    <2>10. /\ OnlyAt(s, t, h) /\ ContactOK(t, h) /\ SameHistory(s, t)
           /\ s.channels[h] = None \/ flag = "SEND" => t.channels[h] = s.channels[h]
        BY <1>2, <2>4, <2>7, <2>8
    <2> QED BY <2>3, <2>9, <2>10
<1> QED BY <1>1, <1>2

\* What the history says of a message concerns no channel.
LEMMA DeliveredOK ==
    ASSUME NEW s, NEW m \in Messages, NEW flag, StateOK(s)
    PROVE  LET t == Delivered(s, m, flag)
           IN  /\ StateOK(t) /\ t.phase = s.phase /\ t.channels = s.channels
               /\ t.done = s.done
               /\ t.taken = IF s.phase = "connected" /\ flag # "SEND"
                            THEN s.taken \union {m} ELSE s.taken
<1> DEFINE taken == IF s.phase = "connected" /\ flag # "SEND" THEN s.taken \union {m}
                    ELSE s.taken
           t == [s EXCEPT !.made = @ \union {m}, !.taken = taken]
<1>1. taken \in SUBSET Messages
    BY DEF StateOK, ImState
<1>2. Delivered(s, m, flag) = t
    BY DEF Delivered
<1> HIDE DEF taken
<1>3. /\ t \in ImState /\ t.taken = taken /\ t.done = s.done /\ t.made = s.made \union {m}
      /\ t.phase = s.phase /\ t.channels = s.channels /\ t.convs = s.convs
      /\ t.timers = s.timers /\ t.seen = s.seen /\ t.peer = s.peer
    BY <1>1 DEF StateOK, ImState
<1> HIDE DEF t
<1>4. StateOK(t)
    <2> SUFFICES ASSUME NEW k \in Contacts PROVE ContactOK(t, k)
        BY <1>3 DEF StateOK
    <2>1. ContactOK(s, k)
        BY DEF StateOK
    <2> QED BY <1>3, <2>1 DEF ContactOK
<1> QED BY <1>2, <1>3, <1>4 DEF taken

\* It is an event at any contact, and is remembered.
LEMMA DeliveredAnywhere ==
    ASSUME NEW s, NEW m \in Messages, NEW flag, NEW h \in Contacts, StateOK(s)
    PROVE  OnlyAt(s, Delivered(s, m, flag), h) /\ Delivered(s, m, flag).made = s.made \union {m}
<1> DEFINE taken == IF s.phase = "connected" /\ flag # "SEND" THEN s.taken \union {m}
                    ELSE s.taken
           t == [s EXCEPT !.made = @ \union {m}, !.taken = taken]
<1>1. taken \in SUBSET Messages
    BY DEF StateOK, ImState
<1>2. Delivered(s, m, flag) = t
    BY DEF Delivered
<1> HIDE DEF taken
<1>3. /\ t \in ImState /\ t.made = s.made \union {m}
      /\ t.phase = s.phase /\ t.channels = s.channels /\ t.convs = s.convs
      /\ t.timers = s.timers /\ t.seen = s.seen /\ t.peer = s.peer
    BY <1>1 DEF StateOK, ImState
<1> HIDE DEF t
<1>4. OnlyAt(s, t, h)
    BY <1>3 DEF OnlyAt
<1> QED BY <1>2, <1>3, <1>4

\* What a channel that closes leaves: the same messages, or nothing.
LEMMA CloseImChannelOK ==
    ASSUME NEW s, NEW h \in Contacts, StateOK(s), s.channels[h] # None
    PROVE  LET t == CloseImChannel(s, h)
           IN  /\ OnlyAt(s, t, h) /\ ContactOK(t, h) /\ SameHistory(s, t)
               /\ s.channels[h].pending # {} =>
                     /\ t.channels[h] # None /\ t.channels[h].initiator = h
                     /\ t.channels[h].pending = s.channels[h].pending
               /\ s.channels[h].pending = {} => t.channels[h] = None
<1> DEFINE chan == s.channels[h]
<1>1. /\ s \in ImState /\ chan \in Channel /\ s.phase = "connected"
      /\ s.convs[h] # None /\ ContactOK(s, h)
    BY DEF StateOK, ImState, ContactOK
<1>2. CASE chan.pending # {}
    <2> DEFINE rescued == [chan EXCEPT !.initiator = h, !.rescued = chan.pending]
               s1   == [s EXCEPT !.channels[h] = rescued]
               said == Announced(s1.channels[h].initiator)
               t    == [s1 EXCEPT !.channels[h] = s1.channels[h], !.seen[h] = said]
    <2>1. /\ rescued \in Channel /\ rescued.initiator = h
          /\ rescued.pending = chan.pending
        BY <1>1 DEF Channel
    <2>2. CloseImChannel(s, h) = t
        BY <1>2 DEF CloseImChannel, ImChannelClosed
    <2>3. rescued # None
        BY <2>1, NoneIsNothing
    <2> HIDE DEF rescued
    <2>4. /\ s1 \in ImState /\ s1.channels = [s.channels EXCEPT ![h] = rescued]
          /\ s1.phase = s.phase /\ s1.convs = s.convs /\ s1.timers = s.timers
          /\ s1.seen = s.seen /\ s1.peer = s.peer /\ SameHistory(s, s1)
        BY <1>1, <2>1 DEF ImState, SameHistory
    <2>5. /\ s1.channels[h] = rescued /\ said = Announced(h)
          /\ said \in {"requested", "incoming", None}
        BY <1>1, <2>1, <2>4 DEF ImState, Announced
    <2> HIDE DEF s1, said
    <2>6. /\ t \in ImState /\ t.channels = [s1.channels EXCEPT ![h] = rescued]
          /\ t.seen = [s1.seen EXCEPT ![h] = said]
          /\ t.phase = s1.phase /\ t.convs = s1.convs /\ t.timers = s1.timers
          /\ t.peer = s1.peer /\ SameHistory(s1, t)
        BY <2>1, <2>4, <2>5 DEF ImState, SameHistory
    <2>7. /\ t.channels[h] = rescued /\ t.seen[h] = Announced(h)
          /\ \A k \in Contacts \ {h} : t.channels[k] = s.channels[k] /\ t.seen[k] = s.seen[k]
        BY <1>1, <2>4, <2>5, <2>6 DEF ImState
    <2> HIDE DEF t
    <2>8. OnlyAt(s, t, h) /\ SameHistory(s, t)
        BY <2>4, <2>6, <2>7 DEF OnlyAt, SameHistory
    <2>9. ContactOK(t, h)
        <3>1. /\ t.phase = s.phase /\ t.convs[h] = s.convs[h] /\ t.timers[h] = s.timers[h]
              /\ t.peer[h] = s.peer[h]
            BY <2>4, <2>6
        <3> QED BY <1>1, <2>1, <2>3, <2>7, <3>1 DEF ContactOK
    <2> QED BY <1>2, <2>1, <2>2, <2>3, <2>7, <2>8, <2>9
<1>3. CASE chan.pending = {}
    <2> DEFINE torn == DestroyConversations(s, {h})
               t    == [torn EXCEPT !.channels[h] = None, !.seen[h] = None]
    <2>1. CloseImChannel(s, h) = t
        BY <1>3 DEF CloseImChannel, ImChannelClosed
    <2>2. /\ torn \in ImState /\ SameHistory(s, torn)
          /\ torn.phase = s.phase /\ torn.channels = s.channels /\ torn.seen = s.seen
          /\ torn.convs[h] = None /\ torn.timers[h] = 0
          /\ \A k \in Contacts \ {h} : /\ torn.convs[k] = s.convs[k]
                                         /\ torn.timers[k] = s.timers[k]
                                         /\ torn.peer[k] = s.peer[k]
        <3>1. {h} \in SUBSET Contacts /\ \A k \in {h} : s.convs[k] # None
            BY <1>1
        <3> HIDE DEF torn
        <3> QED BY <3>1, DestroyConversationsOK DEF torn
    <2> HIDE DEF torn
    <2>3. /\ t \in ImState /\ t.channels = [torn.channels EXCEPT ![h] = None]
          /\ t.seen = [torn.seen EXCEPT ![h] = None]
          /\ t.phase = torn.phase /\ t.convs = torn.convs /\ t.timers = torn.timers
          /\ t.peer = torn.peer /\ SameHistory(torn, t)
        BY <2>2 DEF ImState, SameHistory
    <2>4. /\ t.channels[h] = None /\ t.seen[h] = None
          /\ \A k \in Contacts \ {h} : t.channels[k] = s.channels[k] /\ t.seen[k] = s.seen[k]
        BY <2>2, <2>3 DEF ImState
    <2> HIDE DEF t
    <2>5. OnlyAt(s, t, h) /\ SameHistory(s, t)
        BY <2>2, <2>3, <2>4 DEF OnlyAt, SameHistory
    <2>6. t.convs[h] = None /\ t.timers[h] = 0
        BY <2>2, <2>3
    <2>7. ContactOK(t, h)
        BY <2>4, <2>6 DEF ContactOK
    <2> QED BY <1>3, <2>1, <2>4, <2>5, <2>7
<1> QED BY <1>2, <1>3

-----------------------------------------------------------------------------
(* The events *)

\* There is nothing at the start.
LEMMA InitOK == Init => IInv
<1> SUFFICES ASSUME Init PROVE IInv
    OBVIOUS
<1>1. im \in ImState
    BY DEF Init, ImState, Typing
<1>2. \A h \in Contacts :
          im.channels[h] = None /\ im.convs[h] = None /\ im.timers[h] = 0 /\ im.seen[h] = None
    BY DEF Init
<1>3. im.taken = {}
    BY DEF Init
<1>4. ASSUME NEW h \in Contacts PROVE ContactOK(im, h)
    <2>1. /\ im.channels[h] = None /\ im.convs[h] = None /\ im.timers[h] = 0
          /\ im.seen[h] = None
        BY <1>2
    <2> QED BY <2>1 DEF ContactOK
<1> QED BY <1>1, <1>3, <1>4 DEF IInv, StateOK, MessagesWait, TakenWereMade

\* A conversation without a channel
LEMMA PurpleOpensConversationOK ==
    ASSUME IInv, NEW h \in Contacts, PurpleOpensConversation(h)
    PROVE  IInv' /\ QuietAt(h) /\ im'.channels = im.channels
<1>1. im' = EnsureConversation(im, h) /\ StateOK(im) /\ MessagesWait(im) /\ im \in ImState
    BY DEF PurpleOpensConversation, IInv, StateOK
<1>2. /\ OnlyAt(im, im', h) /\ ContactOK(im', h) /\ SameHistory(im, im')
      /\ im'.channels = im.channels
    BY <1>1, EnsureConversationOK
<1>3. StateOK(im')
    BY <1>1, <1>2, Lift
<1>4. MessagesWait(im')
    BY <1>1, <1>2, MessagesStay
<1> QED BY <1>2, <1>3, <1>4 DEF IInv, QuietAt, SameHistory, TakenWereMade

\* A message to a contact finds a conversation and a channel, and waits there.
LEMMA WriteImOK ==
    ASSUME IInv, NEW m \in Messages, NEW flag, WriteIm(m, flag)
    PROVE  LET h    == Sender[m]
               old  == im.channels[h]
               new  == im'.channels[h]
               mine == IF flag = "SEND" THEN {} ELSE {m}
           IN  /\ IInv' /\ OnlyAt(im, im', h) /\ m \notin im.taken
               /\ im.phase # "connected" => im'.taken = im.taken
               /\ im.phase = "connected" => im'.taken = im.taken \union mine /\ new # None
               /\ old # None =>
                     new.initiator = old.initiator /\ new.pending = old.pending \union mine
               /\ old = None /\ im.phase = "connected" =>
                     new.initiator = h /\ new.pending = mine
<1> DEFINE h == Sender[m]
           d == Delivered(im, m, flag)
           e == EnsureConversation(d, h)
           g == GetImChannel(e, h, h)
<1>1. /\ h \in Contacts /\ StateOK(im) /\ MessagesWait(im) /\ TakenWereMade(im)
      /\ m \notin im.made
      /\ im' = Receive(g, h, m, flag)
    BY SenderType DEF WriteIm, IInv
<1>2. /\ StateOK(d) /\ d.phase = im.phase /\ d.channels = im.channels /\ d.done = im.done
      /\ d.made = im.made \union {m} /\ OnlyAt(im, d, h)
      /\ d.taken = IF im.phase = "connected" /\ flag # "SEND" THEN im.taken \union {m}
                   ELSE im.taken
    <2>1. h \in Contacts /\ m \in Messages /\ StateOK(im)
        BY <1>1
    <2> HIDE DEF h
    <2>2. OnlyAt(im, d, h) /\ d.made = im.made \union {m}
        BY <2>1, DeliveredAnywhere
    <2>3. /\ StateOK(d) /\ d.phase = im.phase /\ d.channels = im.channels
          /\ d.done = im.done
          /\ d.taken = IF im.phase = "connected" /\ flag # "SEND"
                       THEN im.taken \union {m} ELSE im.taken
        BY <2>1, DeliveredOK
    <2> HIDE DEF d
    <2> QED BY <2>2, <2>3
<1> HIDE DEF d, h
<1>3. /\ OnlyAt(d, e, h) /\ ContactOK(e, h) /\ SameHistory(d, e) /\ e.channels = d.channels
    BY <1>1, <1>2, EnsureConversationOK
<1>4. StateOK(e) /\ e.phase = im.phase
    BY <1>1, <1>2, <1>3, Lift DEF OnlyAt
<1> HIDE DEF e
<1>5. /\ OnlyAt(e, g, h) /\ ContactOK(g, h) /\ SameHistory(e, g)
      /\ e.phase = "connected" => g.channels[h] # None
      /\ e.phase = "connected" /\ e.channels[h] = None =>
            g.channels[h].initiator = h /\ g.channels[h].pending = {}
      /\ e.channels[h] # None => g.channels[h] = e.channels[h]
    BY <1>1, <1>4, GetImChannelOK
<1>6. StateOK(g) /\ g.phase = im.phase
    BY <1>1, <1>4, <1>5, Lift DEF OnlyAt
<1> HIDE DEF g
<1>7. /\ OnlyAt(g, im', h) /\ ContactOK(im', h) /\ SameHistory(g, im')
      /\ g.channels[h] = None \/ flag = "SEND" => im'.channels[h] = g.channels[h]
      /\ g.channels[h] # None =>
            /\ im'.channels[h] # None
            /\ im'.channels[h].initiator = g.channels[h].initiator
            /\ g.channels[h].pending \subseteq im'.channels[h].pending
            /\ flag # "SEND" => im'.channels[h].pending = g.channels[h].pending \union {m}
    BY <1>1, <1>6, ReceiveOK
<1>8. StateOK(im')
    BY <1>1, <1>6, <1>7, Lift
<1>9. MessagesWait(im')
    <2> SUFFICES ASSUME NEW n \in im'.taken \ im'.done
                 PROVE  /\ im'.channels[Sender[n]] # None
                        /\ n \in im'.channels[Sender[n]].pending
        BY DEF MessagesWait
    <2>1. n \in d.taken \ im.done
        BY <1>2, <1>3, <1>5, <1>7 DEF SameHistory
    <2>2. CASE n \in im.taken \ im.done
        <3>1. /\ im.channels[Sender[n]] # None /\ n \in im.channels[Sender[n]].pending
              /\ Sender[n] \in Contacts
            BY <1>1, <2>2, SenderType DEF MessagesWait, StateOK, ImState
        <3>2. CASE Sender[n] = h
            BY <1>2, <1>3, <1>5, <1>7, <3>1, <3>2
        <3>3. CASE Sender[n] # h
            BY <1>2, <1>3, <1>5, <1>7, <3>1, <3>3 DEF OnlyAt
        <3> QED BY <3>2, <3>3
    <2>3. CASE n \notin im.taken
        <3>1. n = m /\ im.phase = "connected" /\ flag # "SEND"
            BY <1>2, <2>1, <2>3
        <3> QED BY <1>4, <1>5, <1>7, <3>1 DEF h
    <2> QED BY <2>1, <2>2, <2>3
<1>10. im'.taken = d.taken /\ im'.made = d.made
    BY <1>3, <1>5, <1>7 DEF SameHistory
<1>11. TakenWereMade(im') /\ m \notin im.taken
    BY <1>1, <1>2, <1>10 DEF TakenWereMade
<1>12. OnlyAt(im, im', h)
    <2>1. OnlyAt(im, e, h)
        BY <1>1, <1>2, <1>3, OnlyAtTransitive
    <2>2. OnlyAt(im, g, h)
        BY <1>1, <1>5, <2>1, OnlyAtTransitive
    <2> QED BY <1>1, <1>7, <2>2, OnlyAtTransitive
<1>13. ASSUME im.phase = "connected" PROVE im'.channels[h] # None
    BY <1>4, <1>5, <1>7, <1>13
<1>14. ASSUME im.channels[h] # None
       PROVE  LET mine == IF flag = "SEND" THEN {} ELSE {m}
              IN  /\ im'.channels[h].initiator = im.channels[h].initiator
                  /\ im'.channels[h].pending = im.channels[h].pending \union mine
    <2>1. g.channels[h] = im.channels[h] /\ g.channels[h] # None
        BY <1>2, <1>3, <1>5, <1>14
    <2> QED BY <1>7, <2>1
<1>15. ASSUME im.channels[h] = None, im.phase = "connected"
       PROVE  LET mine == IF flag = "SEND" THEN {} ELSE {m}
              IN  im'.channels[h].initiator = h /\ im'.channels[h].pending = mine
    <2>1. /\ g.channels[h] # None /\ g.channels[h].initiator = h
          /\ g.channels[h].pending = {}
        BY <1>2, <1>3, <1>4, <1>5, <1>15
    <2> QED BY <1>7, <2>1
<1>16. IInv'
    BY <1>8, <1>9, <1>11 DEF IInv
<1>17. /\ im.phase # "connected" => im'.taken = im.taken
       /\ im.phase = "connected" =>
             im'.taken = im.taken \union IF flag = "SEND" THEN {} ELSE {m}
    BY <1>2, <1>10
<1> QED BY <1>11, <1>12, <1>13, <1>14, <1>15, <1>16, <1>17 DEF h

\* A typing state makes a channel.
LEMMA ConversationUpdatedOK ==
    ASSUME IInv, NEW h \in Contacts, ConversationUpdated(h)
    PROVE  /\ IInv' /\ QuietAt(h)
           /\ im.phase = "connected" => im'.channels[h] # None
           /\ im.phase = "connected" /\ im.channels[h] = None =>
                 im'.channels[h].initiator = h /\ im'.channels[h].pending = {}
           /\ im.channels[h] # None => im'.channels[h] = im.channels[h]
<1>1. /\ im' = GetImChannel(im, h, h) /\ StateOK(im) /\ MessagesWait(im) /\ im \in ImState
      /\ h \in Contacts \union {Self}
    BY DEF ConversationUpdated, IInv, StateOK
<1>2. /\ OnlyAt(im, im', h) /\ ContactOK(im', h) /\ SameHistory(im, im')
      /\ im.phase = "connected" => im'.channels[h] # None
      /\ im.phase = "connected" /\ im.channels[h] = None =>
            im'.channels[h].initiator = h /\ im'.channels[h].pending = {}
      /\ im.channels[h] # None => im'.channels[h] = im.channels[h]
    BY <1>1, GetImChannelOK
<1>3. StateOK(im')
    BY <1>1, <1>2, Lift
<1>4. MessagesWait(im')
    BY <1>1, <1>2, MessagesStay
<1> QED BY <1>2, <1>3, <1>4 DEF IInv, QuietAt, SameHistory, TakenWereMade

\* So does a client.
LEMMA RequestChannelOK ==
    ASSUME IInv, NEW h \in Contacts, RequestChannel(h)
    PROVE  /\ IInv' /\ QuietAt(h)
           /\ im.phase = "connected" => im'.channels[h] # None
           /\ im.phase = "connected" /\ im.channels[h] = None =>
                 im'.channels[h].initiator = Self /\ im'.channels[h].pending = {}
           /\ im.channels[h] # None => im'.channels[h] = im.channels[h]
<1>1. /\ im' = GetImChannel(im, h, Self) /\ StateOK(im) /\ MessagesWait(im) /\ im \in ImState
      /\ Self \in Contacts \union {Self}
    BY DEF RequestChannel, IInv, StateOK
<1>2. /\ OnlyAt(im, im', h) /\ ContactOK(im', h) /\ SameHistory(im, im')
      /\ im.phase = "connected" => im'.channels[h] # None
      /\ im.phase = "connected" /\ im.channels[h] = None =>
            im'.channels[h].initiator = Self /\ im'.channels[h].pending = {}
      /\ im.channels[h] # None => im'.channels[h] = im.channels[h]
    BY <1>1, GetImChannelOK
<1>3. StateOK(im')
    BY <1>1, <1>2, Lift
<1>4. MessagesWait(im')
    BY <1>1, <1>2, MessagesStay
<1> QED BY <1>2, <1>3, <1>4 DEF IInv, QuietAt, SameHistory, TakenWereMade

\* Messages that are acknowledged are done; the others wait on.
LEMMA AcknowledgeOK ==
    ASSUME IInv, NEW h \in Contacts, NEW ms \in SUBSET Messages, Acknowledge(h, ms)
    PROVE  LET old == im.channels[h]
               new == im'.channels[h]
           IN  /\ IInv' /\ QuietAt(h) /\ old # None /\ new # None
               /\ new.initiator = old.initiator /\ new.pending = old.pending \ ms
<1> DEFINE chan == im.channels[h]
           new  == [chan EXCEPT !.pending = @ \ ms, !.rescued = @ \ ms]
<1>1. /\ StateOK(im) /\ MessagesWait(im) /\ im \in ImState /\ chan # None
      /\ im' = [im EXCEPT !.channels[h].pending = @ \ ms, !.channels[h].rescued = @ \ ms,
                          !.done = @ \union ms]
    BY DEF Acknowledge, IInv, StateOK, Open
<1>2. chan \in Channel /\ ContactOK(im, h)
    BY <1>1 DEF StateOK, ImState
<1>3. /\ new \in Channel /\ new.pending = chan.pending \ ms
      /\ new.rescued = chan.rescued \ ms /\ new.initiator = chan.initiator
    BY <1>2 DEF Channel
<1>4. im' = [im EXCEPT !.channels[h] = new, !.done = @ \union ms]
    BY <1>1 DEF ImState
<1>5. new # None
    BY <1>3, NoneIsNothing
<1> HIDE DEF new
<1>6. /\ im' \in ImState /\ im'.channels = [im.channels EXCEPT ![h] = new]
      /\ im'.done = im.done \union ms /\ im'.taken = im.taken
      /\ im'.made = im.made
      /\ im'.phase = im.phase /\ im'.convs = im.convs /\ im'.timers = im.timers
      /\ im'.seen = im.seen /\ im'.peer = im.peer
    <2>1. im \in ImState
        BY <1>1
    <2> QED BY <1>3, <1>4, <2>1 DEF ImState
<1>7. im'.channels[h] = new /\ \A k \in Contacts \ {h} : im'.channels[k] = im.channels[k]
    BY <1>1, <1>6 DEF ImState
<1>8. StateOK(im')
    <2>1. OnlyAt(im, im', h)
        BY <1>6, <1>7 DEF OnlyAt
    <2>2. ContactOK(im', h)
        BY <1>1, <1>2, <1>3, <1>5, <1>6, <1>7 DEF ContactOK
    <2> QED BY <1>1, <2>1, <2>2, Lift
<1>9. MessagesWait(im')
    <2> SUFFICES ASSUME NEW m \in im'.taken \ im'.done
                 PROVE  /\ im'.channels[Sender[m]] # None
                        /\ m \in im'.channels[Sender[m]].pending
        BY DEF MessagesWait
    <2>1. /\ im.channels[Sender[m]] # None /\ m \in im.channels[Sender[m]].pending
          /\ Sender[m] \in Contacts /\ m \notin ms
        BY <1>1, <1>6, SenderType DEF MessagesWait, ImState
    <2>2. CASE Sender[m] = h
        BY <1>3, <1>5, <1>7, <2>1, <2>2
    <2>3. CASE Sender[m] # h
        BY <1>7, <2>1, <2>3
    <2> QED BY <2>2, <2>3
<1>10. QuietAt(h)
    BY <1>6, <1>7 DEF OnlyAt, QuietAt
<1>11. TakenWereMade(im')
    BY <1>6 DEF IInv, TakenWereMade
<1> QED BY <1>1, <1>3, <1>5, <1>7, <1>8, <1>9, <1>10, <1>11 DEF IInv

\* A message that could not be sent comes back into the channel it was sent from.
LEMMA SendFailsOK ==
    ASSUME IInv, NEW m \in Messages, SendFails(m)
    PROVE  LET h   == Sender[m]
               old == im.channels[h]
               new == im'.channels[h]
           IN  /\ IInv' /\ OnlyAt(im, im', h) /\ m \notin im.taken
               /\ im'.taken = im.taken \union {m} /\ old # None /\ new # None
               /\ new.initiator = old.initiator /\ new.pending = old.pending \union {m}
<1> DEFINE h == Sender[m]
           d == Delivered(im, m, "ERROR")
<1>1. /\ TakenWereMade(im) /\ m \notin im.made
      /\ h \in Contacts /\ StateOK(im) /\ MessagesWait(im) /\ im.channels[h] # None
      /\ im' = Receive(d, h, m, "ERROR")
    BY SenderType DEF SendFails, IInv, Open
<1>2. /\ StateOK(d) /\ d.phase = im.phase /\ d.channels = im.channels /\ d.done = im.done
      /\ d.made = im.made \union {m} /\ OnlyAt(im, d, h)
      /\ d.taken = im.taken \union {m}
    <2>1. im.phase = "connected"
        BY <1>1 DEF StateOK, ContactOK
    <2>2. h \in Contacts /\ m \in Messages /\ StateOK(im) /\ "ERROR" # "SEND"
        BY <1>1
    <2> HIDE DEF h
    <2>3. OnlyAt(im, d, h) /\ d.made = im.made \union {m}
        BY <2>2, DeliveredAnywhere
    <2>4. /\ StateOK(d) /\ d.phase = im.phase /\ d.channels = im.channels
          /\ d.done = im.done
          /\ d.taken = IF im.phase = "connected" /\ "ERROR" # "SEND"
                       THEN im.taken \union {m} ELSE im.taken
        BY <2>2, DeliveredOK
    <2> HIDE DEF d
    <2> QED BY <2>1, <2>3, <2>4
<1> HIDE DEF d, h
<1>3. /\ OnlyAt(d, im', h) /\ ContactOK(im', h) /\ SameHistory(d, im')
      /\ im'.channels[h] # None
      /\ d.channels[h].pending \subseteq im'.channels[h].pending
      /\ im'.channels[h].initiator = d.channels[h].initiator
      /\ im'.channels[h].pending = d.channels[h].pending \union {m}
    BY <1>1, <1>2, ReceiveOK
<1>4. StateOK(im')
    BY <1>1, <1>2, <1>3, Lift
<1>5. MessagesWait(im')
    <2> SUFFICES ASSUME NEW n \in im'.taken \ im'.done
                 PROVE  /\ im'.channels[Sender[n]] # None
                        /\ n \in im'.channels[Sender[n]].pending
        BY DEF MessagesWait
    <2>1. CASE n = m
        BY <1>3, <2>1 DEF h
    <2>2. CASE n # m
        <3>1. /\ im.channels[Sender[n]] # None /\ n \in im.channels[Sender[n]].pending
              /\ Sender[n] \in Contacts
            BY <1>1, <1>2, <1>3, <2>2, SenderType
               DEF MessagesWait, StateOK, ImState, SameHistory
        <3>2. CASE Sender[n] = h
            BY <1>2, <1>3, <3>1, <3>2
        <3>3. CASE Sender[n] # h
            BY <1>2, <1>3, <3>1, <3>3 DEF OnlyAt
        <3> QED BY <3>2, <3>3
    <2> QED BY <2>1, <2>2
<1>6. im'.taken = d.taken /\ im'.made = d.made
    BY <1>3 DEF SameHistory
<1>7. TakenWereMade(im') /\ m \notin im.taken
    BY <1>1, <1>2, <1>6 DEF TakenWereMade
<1>8. OnlyAt(im, im', h)
    BY <1>1, <1>2, <1>3, OnlyAtTransitive
<1>9. IInv'
    BY <1>4, <1>5, <1>7 DEF IInv
<1> QED BY <1>1, <1>2, <1>3, <1>6, <1>7, <1>8, <1>9 DEF h

\* A closed channel comes back with its messages, or had none.
LEMMA CloseOK ==
    ASSUME IInv, NEW h \in Contacts, Close(h)
    PROVE  LET old == im.channels[h]
               new == im'.channels[h]
           IN  /\ IInv' /\ QuietAt(h) /\ old # None
               /\ old.pending = {} => new = None
               /\ old.pending # {} =>
                     new # None /\ new.initiator = h /\ new.pending = old.pending
<1>1. /\ im' = CloseImChannel(im, h) /\ StateOK(im) /\ MessagesWait(im) /\ im \in ImState
      /\ im.channels[h] # None
    BY DEF Close, IInv, StateOK, Open
<1>2. /\ OnlyAt(im, im', h) /\ ContactOK(im', h) /\ SameHistory(im, im')
      /\ im.channels[h].pending # {} =>
            /\ im'.channels[h] # None /\ im'.channels[h].initiator = h
            /\ im'.channels[h].pending = im.channels[h].pending
      /\ im.channels[h].pending = {} => im'.channels[h] = None
    BY <1>1, CloseImChannelOK
<1>3. StateOK(im')
    BY <1>1, <1>2, Lift
<1>4. MessagesWait(im')
    <2> SUFFICES ASSUME NEW m \in im'.taken \ im'.done
                 PROVE  /\ im'.channels[Sender[m]] # None
                        /\ m \in im'.channels[Sender[m]].pending
        BY DEF MessagesWait
    <2>1. /\ im.channels[Sender[m]] # None /\ m \in im.channels[Sender[m]].pending
          /\ Sender[m] \in Contacts
        BY <1>1, <1>2, SenderType DEF MessagesWait, ImState, SameHistory
    <2>2. CASE Sender[m] = h
        BY <1>2, <2>1, <2>2
    <2>3. CASE Sender[m] # h
        BY <1>2, <2>1, <2>3 DEF OnlyAt
    <2> QED BY <2>2, <2>3
<1>5. QuietAt(h) /\ TakenWereMade(im')
    BY <1>2 DEF IInv, QuietAt, SameHistory, TakenWereMade
<1> QED BY <1>1, <1>2, <1>3, <1>4, <1>5 DEF IInv

\* Destroy gives the messages up first, so that the channel does not come back.
LEMMA DestroyOK ==
    ASSUME IInv, NEW h \in Contacts, Destroy(h)
    PROVE  IInv' /\ QuietAt(h) /\ im.channels[h] # None /\ im'.channels[h] = None
<1> DEFINE chan == im.channels[h]
           new  == [chan EXCEPT !.pending = {}, !.rescued = {}]
           s    == [im EXCEPT !.channels[h] = new, !.done = @ \union chan.pending]
<1>1. /\ StateOK(im) /\ MessagesWait(im) /\ im \in ImState /\ chan # None
      /\ im' = CloseImChannel([im EXCEPT !.channels[h].pending = {}, !.channels[h].rescued = {},
                                         !.done = @ \union chan.pending], h)
    BY DEF Destroy, IInv, StateOK, Open
<1>2. chan \in Channel /\ ContactOK(im, h)
    BY <1>1 DEF StateOK, ImState
<1>3. /\ new \in Channel /\ new.pending = {} /\ new.rescued = {}
      /\ new.initiator = chan.initiator
    BY <1>2 DEF Channel
<1>4. im' = CloseImChannel(s, h)
    BY <1>1 DEF ImState
<1>5. new # None
    BY <1>3, NoneIsNothing
<1> HIDE DEF new
<1>6. /\ s \in ImState /\ s.channels = [im.channels EXCEPT ![h] = new]
      /\ s.done = im.done \union chan.pending /\ s.taken = im.taken
      /\ s.made = im.made
      /\ s.phase = im.phase /\ s.convs = im.convs /\ s.timers = im.timers
      /\ s.seen = im.seen /\ s.peer = im.peer
    BY <1>1, <1>2, <1>3 DEF ImState, Channel
<1>7. s.channels[h] = new /\ \A k \in Contacts \ {h} : s.channels[k] = im.channels[k]
    BY <1>1, <1>6 DEF ImState
<1> HIDE DEF s
<1>8. OnlyAt(im, s, h) /\ ContactOK(s, h)
    <2>1. OnlyAt(im, s, h)
        BY <1>6, <1>7 DEF OnlyAt
    <2>2. ContactOK(s, h)
        BY <1>1, <1>2, <1>3, <1>5, <1>6, <1>7 DEF ContactOK
    <2> QED BY <2>1, <2>2
<1>9. StateOK(s) /\ s.channels[h] # None /\ s.channels[h].pending = {}
    BY <1>1, <1>3, <1>5, <1>7, <1>8, Lift
<1>10. /\ OnlyAt(s, im', h) /\ ContactOK(im', h) /\ SameHistory(s, im')
       /\ im'.channels[h] = None
    BY <1>4, <1>9, CloseImChannelOK
<1>11. StateOK(im')
    BY <1>9, <1>10, Lift
<1>12. MessagesWait(im')
    <2> SUFFICES ASSUME NEW m \in im'.taken \ im'.done
                 PROVE  /\ im'.channels[Sender[m]] # None
                        /\ m \in im'.channels[Sender[m]].pending
        BY DEF MessagesWait
    <2>1. /\ im.channels[Sender[m]] # None /\ m \in im.channels[Sender[m]].pending
          /\ Sender[m] \in Contacts /\ m \notin chan.pending
        BY <1>1, <1>6, <1>10, SenderType DEF MessagesWait, ImState, SameHistory
    <2>2. Sender[m] # h
        BY <2>1
    <2> QED BY <1>7, <1>10, <2>1, <2>2 DEF OnlyAt
<1>13. QuietAt(h) /\ TakenWereMade(im')
    <2>1. OnlyAt(im, im', h)
        BY <1>8, <1>10, OnlyAtTransitive
    <2> QED BY <1>6, <1>10, <2>1 DEF IInv, QuietAt, SameHistory, TakenWereMade
<1> QED BY <1>1, <1>10, <1>11, <1>12, <1>13 DEF IInv

\* No timeout is no timeout.
LEMMA ZeroIsNotPositive == \A n : n = 0 => ~(n > 0)
OBVIOUS

\* A conversation of h that is changed together with its timeout and what the contact
\* was sent: nothing else has to be looked at.
LEMMA RetypedOK ==
    ASSUME IInv, NEW h \in Contacts, im.convs[h] # None,
           NEW conv \in Conversation, NEW n \in Nat, NEW typing \in Typing,
           im' = [im EXCEPT !.convs[h] = conv, !.timers[h] = n, !.peer[h] = typing],
           conv.timer => n = 1 /\ typing = conv.active /\ typing # "not typing",
           ~conv.timer => n = 0
    PROVE  IInv' /\ QuietAt(h) /\ im'.channels = im.channels
<1>1. StateOK(im) /\ MessagesWait(im) /\ im \in ImState /\ ContactOK(im, h)
    BY DEF IInv, StateOK
<1>2. /\ im' \in ImState /\ im'.convs = [im.convs EXCEPT ![h] = conv]
      /\ im'.timers = [im.timers EXCEPT ![h] = n] /\ im'.peer = [im.peer EXCEPT ![h] = typing]
      /\ im'.phase = im.phase /\ im'.channels = im.channels /\ im'.seen = im.seen
      /\ SameHistory(im, im')
    <2>1. im \in ImState
        BY <1>1
    <2> QED BY <2>1 DEF ImState, SameHistory
<1>3. /\ im'.convs[h] = conv /\ im'.timers[h] = n /\ im'.peer[h] = typing
      /\ \A k \in Contacts \ {h} : /\ im'.convs[k] = im.convs[k] /\ im'.timers[k] = im.timers[k]
                                    /\ im'.peer[k] = im.peer[k]
    <2>1. /\ im.convs \in [Contacts -> Conversation \union {None}]
          /\ im.timers \in [Contacts -> Nat] /\ im.peer \in [Contacts -> Typing]
        BY <1>1 DEF ImState
    <2>2. im'.convs[h] = conv /\ \A k \in Contacts \ {h} : im'.convs[k] = im.convs[k]
        <3>1. im'.convs = [im.convs EXCEPT ![h] = conv]
            BY <1>2
        <3> QED BY <2>1, <3>1
    <2>3. im'.timers[h] = n /\ \A k \in Contacts \ {h} : im'.timers[k] = im.timers[k]
        <3>1. im'.timers = [im.timers EXCEPT ![h] = n]
            BY <1>2
        <3> QED BY <2>1, <3>1
    <2>4. im'.peer[h] = typing /\ \A k \in Contacts \ {h} : im'.peer[k] = im.peer[k]
        <3>1. im'.peer = [im.peer EXCEPT ![h] = typing]
            BY <1>2
        <3> QED BY <2>1, <3>1
    <2> QED BY <2>2, <2>3, <2>4
<1>4. conv # None
    BY NoneIsNothing
<1>5. OnlyAt(im, im', h)
    BY <1>2, <1>3 DEF OnlyAt
<1>6. ContactOK(im', h)
    <2>1. /\ im'.phase = im.phase /\ im'.channels[h] = im.channels[h]
          /\ im'.seen[h] = im.seen[h]
        BY <1>2
    <2>2. CASE conv.timer
        BY <1>1, <1>3, <1>4, <2>1, <2>2 DEF ContactOK
    <2>3. CASE ~conv.timer
        <3>1. im'.timers[h] = 0 /\ ~im'.convs[h].timer /\ im'.convs[h] # None
            BY <1>3, <1>4, <2>3
        <3>2. ContactOK(im, h) /\ im.convs[h] # None
            BY <1>1
        <3>3. ~(im'.timers[h] > 0)
            <4>1. im'.timers[h] = 0
                BY <3>1
            <4> QED BY <4>1, ZeroIsNotPositive
        <3> QED BY <2>1, <3>1, <3>2, <3>3 DEF ContactOK
    <2> QED BY <2>2, <2>3
<1>7. StateOK(im')
    BY <1>1, <1>5, <1>6, Lift
<1>8. MessagesWait(im')
    <2>1. /\ SameHistory(im, im')
          /\ im'.channels[h] = im.channels[h]
        BY <1>2
    <2> QED BY <1>1, <1>5, <2>1, MessagesStay
<1>9. QuietAt(h) /\ TakenWereMade(im')
    BY <1>2, <1>5 DEF IInv, QuietAt, SameHistory, TakenWereMade
<1> QED BY <1>2, <1>7, <1>8, <1>9 DEF IInv

\* The last timeout is gone before there can be another.
LEMMA SetChatStateOK ==
    ASSUME IInv, NEW h \in Contacts, NEW repeats \in BOOLEAN,
           NEW state \in {"active", "paused", "composing", "gone"},
           SetChatState(h, state, repeats)
    PROVE  IInv' /\ QuietAt(h) /\ im'.channels = im.channels
<1> DEFINE conv == im.convs[h]
           off  == [conv EXCEPT !.timer = FALSE]
           left == IF conv.timer THEN im.timers[h] - 1 ELSE im.timers[h]
           cleared == [im EXCEPT !.timers[h] = left, !.convs[h].timer = FALSE]
<1>1. im \in ImState /\ ContactOK(im, h) /\ im.channels[h] # None
    BY DEF SetChatState, IInv, StateOK, Open
<1>2. conv \in Conversation /\ conv # None /\ im.timers[h] \in Nat /\ im.peer[h] \in Typing
    BY <1>1 DEF ImState, ContactOK
<1>3. left = 0
    <2>1. CASE conv.timer
        <3>1. im.timers[h] = 1
            BY <1>1, <1>2, <2>1 DEF ContactOK
        <3> QED BY <2>1, <3>1
    <2>2. CASE ~conv.timer
        <3>1. im.timers[h] = 0
            BY <1>1, <1>2, <2>2 DEF ContactOK
        <3> QED BY <2>2, <3>1
    <2> QED BY <2>1, <2>2
<1>4. off \in Conversation /\ ~off.timer
    BY <1>2 DEF Conversation
<1>5. CASE state = "gone"
    <2>1. im' = cleared
        BY <1>5 DEF SetChatState
    <2> HIDE DEF left
    <2>2. im' = [im EXCEPT !.convs[h] = off, !.timers[h] = left, !.peer[h] = im.peer[h]]
        BY <1>1, <2>1 DEF ImState
    <2> QED BY <1>2, <1>3, <1>4, <2>2, RetypedOK
<1>6. CASE state # "gone"
    <2> DEFINE typing == PurpleTyping[state]
               repeat == repeats /\ typing # "not typing"
               new    == [active |-> typing, timer |-> repeat]
               n      == IF repeat THEN cleared.timers[h] + 1 ELSE cleared.timers[h]
    <2>1. im' = [cleared EXCEPT !.convs[h] = new, !.timers[h] = n, !.peer[h] = typing]
        BY <1>6 DEF SetChatState
    <2>2. typing \in Typing
        <3>1. CASE state = "active"
            BY <3>1 DEF PurpleTyping, Typing
        <3>2. CASE state = "paused"
            BY <3>2 DEF PurpleTyping, Typing
        <3>3. CASE state = "composing"
            BY <3>3 DEF PurpleTyping, Typing
        <3> QED BY <1>6, <3>1, <3>2, <3>3
    <2>3. new \in Conversation /\ new.active = typing /\ new.timer = repeat
        BY <2>2 DEF Conversation
    <2>4. cleared.timers[h] = 0
        <3> HIDE DEF left
        <3>1. cleared.timers = [im.timers EXCEPT ![h] = left]
            BY <1>1 DEF ImState
        <3> HIDE DEF cleared
        <3> QED BY <1>1, <1>3, <3>1 DEF ImState
    <2>5. (repeat => n = 1) /\ (~repeat => n = 0) /\ n \in Nat
        <3>1. CASE repeat
            <4>1. n = cleared.timers[h] + 1
                BY <3>1
            <4> HIDE DEF n, cleared
            <4>2. n = 1 /\ n \in Nat
                BY <2>4, <4>1
            <4> QED BY <3>1, <4>2
        <3>2. CASE ~repeat
            <4>1. n = cleared.timers[h]
                BY <3>2
            <4> HIDE DEF n, cleared
            <4>2. n = 0 /\ n \in Nat
                BY <2>4, <4>1
            <4> QED BY <3>2, <4>2
        <3> QED BY <3>1, <3>2
    <2> HIDE DEF typing, new, n, left
    <2>6. im' = [im EXCEPT !.convs[h] = new, !.timers[h] = n, !.peer[h] = typing]
        BY <1>1, <2>1, ZenonT(60) DEF ImState
    <2>7. /\ new.timer => n = 1 /\ typing = new.active /\ typing # "not typing"
          /\ ~new.timer => n = 0
        BY <2>3, <2>5
    <2>8. im.convs[h] # None
        BY <1>2
    <2>9. new \in Conversation /\ n \in Nat /\ typing \in Typing
        BY <2>2, <2>3, <2>5
    <2> HIDE DEF conv, off, cleared, repeat
    <2> QED BY <2>6, <2>7, <2>8, <2>9, RetypedOK
<1> QED BY <1>5, <1>6

\* The timeout that runs is the conversation's.
LEMMA ResendTypingOK ==
    ASSUME IInv, NEW h \in Contacts, NEW repeats \in BOOLEAN, ResendTyping(h, repeats)
    PROVE  IInv' /\ QuietAt(h) /\ im'.channels = im.channels
<1> DEFINE conv == im.convs[h]
           new  == [conv EXCEPT !.timer = @ /\ repeats]
           n    == IF repeats THEN im.timers[h] ELSE im.timers[h] - 1
<1>1. /\ im \in ImState /\ ContactOK(im, h) /\ im.timers[h] > 0
      /\ im' = [im EXCEPT !.peer[h] = im.convs[h].active,
                          !.timers[h] = IF repeats THEN @ ELSE @ - 1,
                          !.convs[h].timer = @ /\ repeats]
    BY DEF ResendTyping, IInv, StateOK
<1>2. conv # None /\ conv.timer
    <2> SUFFICES ASSUME ~(conv # None /\ conv.timer) PROVE FALSE
        OBVIOUS
    <2>1. im.timers[h] = 0
        BY <1>1 DEF ContactOK
    <2> QED BY <1>1, <2>1
<1>3. /\ conv \in Conversation /\ im.timers[h] = 1 /\ im.peer[h] = conv.active
      /\ im.peer[h] # "not typing"
    BY <1>1, <1>2 DEF ImState, ContactOK
<1>4. /\ new \in Conversation /\ new.active = conv.active /\ conv.active \in Typing
      /\ new.timer = repeats
    BY <1>2, <1>3 DEF Conversation
<1>5. (repeats => n = 1) /\ (~repeats => n = 0) /\ n \in Nat
    <2>1. CASE repeats
        <3>1. n = im.timers[h]
            BY <2>1
        <3> HIDE DEF n
        <3>2. im.timers[h] = 1
            BY <1>3
        <3>3. n = 1 /\ n \in Nat
            BY <3>1, <3>2
        <3> QED BY <2>1, <3>3
    <2>2. CASE ~repeats
        <3>1. n = im.timers[h] - 1
            BY <2>2
        <3> HIDE DEF n
        <3>2. im.timers[h] = 1
            BY <1>3
        <3>3. n = 0 /\ n \in Nat
            BY <3>1, <3>2
        <3> QED BY <2>2, <3>3
    <2> QED BY <2>1, <2>2
<1>6. im' = [im EXCEPT !.convs[h] = new, !.timers[h] = n, !.peer[h] = conv.active]
    BY <1>1 DEF ImState
<1> HIDE DEF new, n
<1>7. /\ new.timer => n = 1 /\ conv.active = new.active /\ conv.active # "not typing"
      /\ ~new.timer => n = 0
    BY <1>3, <1>4, <1>5
<1> QED BY <1>2, <1>4, <1>5, <1>6, <1>7, RetypedOK

\* All channels go, and their messages are given up.
LEMMA DisconnectedOK ==
    ASSUME IInv, Disconnected
    PROVE  /\ IInv' /\ im.phase = "connected" /\ im'.phase = "disconnected"
           /\ im'.taken = im.taken /\ \A h \in Contacts : im'.channels[h] = None
<1> DEFINE torn == DestroyConversations(im, Open(im))
           none == [h \in Contacts |-> None]
           lost == UNION {im.channels[h].pending : h \in Open(im)}
<1>1. /\ StateOK(im) /\ MessagesWait(im) /\ im \in ImState
      /\ im' = [torn EXCEPT !.phase = "disconnected", !.channels = none, !.seen = none,
                            !.done = @ \union lost]
    BY DEF Disconnected, IInv, StateOK
<1>2. Open(im) \in SUBSET Contacts /\ \A h \in Open(im) : im.convs[h] # None
    BY <1>1 DEF Open, StateOK, ContactOK
<1>3. /\ torn \in ImState /\ SameHistory(im, torn)
      /\ \A h \in Open(im) : torn.convs[h] = None /\ torn.timers[h] = 0
      /\ \A k \in Contacts \ Open(im) : /\ torn.convs[k] = im.convs[k]
                                         /\ torn.timers[k] = im.timers[k]
                                         /\ torn.peer[k] = im.peer[k]
    BY <1>1, <1>2, DestroyConversationsOK
<1>4. lost \in SUBSET Messages
    <2> SUFFICES ASSUME NEW h \in Open(im) PROVE im.channels[h].pending \subseteq Messages
        OBVIOUS
    <2>1. im.channels[h] \in Channel
        BY <1>1 DEF Open, ImState
    <2> QED BY <2>1 DEF Channel
<1>5. none \in [Contacts -> Channel \union {None}]
      /\ none \in [Contacts -> {"requested", "incoming", None}]
    OBVIOUS
<1>6. \A h \in Contacts : none[h] = None
    OBVIOUS
<1> HIDE DEF torn, none, lost
<1>7. /\ im' \in ImState /\ im'.phase = "disconnected"
      /\ im'.channels = none /\ im'.convs = torn.convs /\ im'.timers = torn.timers
      /\ im'.peer = torn.peer /\ im'.taken = im.taken /\ im'.done = im.done \union lost
      /\ im'.made = im.made
    <2>1. im' = [torn EXCEPT !.phase = "disconnected", !.channels = none, !.seen = none,
                            !.done = @ \union lost]
        BY <1>1
    <2> QED BY <1>3, <1>4, <1>5, <2>1 DEF ImState, SameHistory
<1>8. ASSUME NEW h \in Contacts PROVE ContactOK(im', h)
    <2>1. im'.channels[h] = None
        BY <1>6, <1>7
    <2>2. CASE h \in Open(im)
        <3>1. im'.convs[h] = None /\ im'.timers[h] = 0
            BY <1>3, <1>7, <2>2
        <3> QED BY <1>7, <2>1, <3>1 DEF ContactOK
    <2>3. CASE h \notin Open(im)
        <3>1. /\ ContactOK(im, h) /\ im'.convs[h] = im.convs[h]
              /\ im'.timers[h] = im.timers[h] /\ im'.peer[h] = im.peer[h]
            BY <1>1, <1>3, <1>7, <2>3 DEF StateOK
        <3> QED BY <1>7, <2>1, <3>1 DEF ContactOK
    <2> QED BY <2>2, <2>3
<1>9. ASSUME NEW m \in im'.taken \ im'.done PROVE FALSE
    <2>1. m \in im.taken /\ m \notin im.done /\ m \notin lost
        BY <1>7, <1>9
    <2>2. /\ im.channels[Sender[m]] # None /\ m \in im.channels[Sender[m]].pending
          /\ Sender[m] \in Contacts
        BY <1>1, <2>1, SenderType DEF MessagesWait, ImState
    <2>3. Sender[m] \in Open(im)
        BY <2>2 DEF Open
    <2> QED BY <2>1, <2>2, <2>3 DEF lost
<1>10. TakenWereMade(im')
    BY <1>7 DEF IInv, TakenWereMade
<1>11. StateOK(im') /\ MessagesWait(im')
    BY <1>7, <1>8, <1>9 DEF StateOK, MessagesWait
<1>12. im.phase = "connected" /\ \A h \in Contacts : im'.channels[h] = None
    BY <1>6, <1>7 DEF Disconnected
<1> QED BY <1>7, <1>10, <1>11, <1>12 DEF IInv

\* Without channels, libpurple's going concerns nobody.
LEMMA GoOfflineOK ==
    ASSUME IInv, GoOffline
    PROVE  /\ IInv' /\ im.phase # "connected" /\ im'.phase # "connected"
           /\ im'.taken = im.taken /\ im'.channels = im.channels
<1>1. /\ StateOK(im) /\ MessagesWait(im) /\ im \in ImState /\ im.phase = "disconnected"
      /\ im' = [im EXCEPT !.phase = "offline"]
    BY DEF GoOffline, IInv, StateOK
<1>2. /\ im' \in ImState /\ im'.phase = "offline" /\ im'.channels = im.channels
      /\ im'.convs = im.convs /\ im'.timers = im.timers /\ im'.peer = im.peer
      /\ im'.taken = im.taken /\ im'.done = im.done
      /\ im'.made = im.made
    BY <1>1 DEF ImState
<1>3. ASSUME NEW h \in Contacts PROVE ContactOK(im', h)
    <2>1. ContactOK(im, h)
        BY <1>1 DEF StateOK
    <2>2. im.channels[h] = None
        BY <1>1, <2>1 DEF ContactOK
    <2> QED BY <1>2, <2>1, <2>2 DEF ContactOK
<1>4. MessagesWait(im')
    BY <1>1, <1>2 DEF MessagesWait
<1>5. TakenWereMade(im')
    BY <1>1, <1>2 DEF IInv, TakenWereMade
<1> QED BY <1>1, <1>2, <1>3, <1>4, <1>5 DEF IInv, StateOK

\* The conversations that are left take their timeouts with them.
LEMMA DeleteAccountOK ==
    ASSUME IInv, DeleteAccount
    PROVE  /\ IInv' /\ im.phase # "connected" /\ im'.phase # "connected"
           /\ im'.taken = im.taken /\ im'.channels = im.channels
<1> DEFINE left == {h \in Contacts : im.convs[h] # None}
           torn == DestroyConversations(im, left)
<1>1. /\ StateOK(im) /\ MessagesWait(im) /\ im.phase = "offline"
      /\ im' = [torn EXCEPT !.phase = "deleted"]
    BY DEF DeleteAccount, IInv
<1>2. left \in SUBSET Contacts /\ \A h \in left : im.convs[h] # None
    OBVIOUS
<1>3. \A h \in Contacts \ left : im.convs[h] = None
    OBVIOUS
<1> HIDE DEF left
<1>4. /\ torn \in ImState /\ SameHistory(im, torn) /\ torn.channels = im.channels
      /\ \A h \in left : torn.convs[h] = None /\ torn.timers[h] = 0
      /\ \A k \in Contacts \ left : /\ torn.convs[k] = im.convs[k]
                                     /\ torn.timers[k] = im.timers[k]
    BY <1>1, <1>2, DestroyConversationsOK
<1> HIDE DEF torn
<1>5. /\ im' \in ImState /\ im'.phase = "deleted" /\ im'.channels = im.channels
      /\ im'.convs = torn.convs /\ im'.timers = torn.timers
      /\ im'.taken = im.taken /\ im'.done = im.done
      /\ im'.made = im.made
    <2>1. im' = [torn EXCEPT !.phase = "deleted"]
        BY <1>1
    <2> QED BY <1>4, <2>1 DEF ImState, SameHistory
<1>6. ASSUME NEW h \in Contacts PROVE ContactOK(im', h)
    <2>1. ContactOK(im, h)
        BY <1>1 DEF StateOK
    <2>2. im'.channels[h] = None
        BY <1>1, <1>5, <2>1 DEF ContactOK
    <2>3. im'.convs[h] = None /\ im'.timers[h] = 0
        <3>1. CASE h \in left
            BY <1>4, <1>5, <3>1
        <3>2. CASE h \notin left
            BY <1>3, <1>4, <1>5, <2>1, <3>2 DEF ContactOK
        <3> QED BY <3>1, <3>2
    <2> QED BY <1>5, <2>2, <2>3 DEF ContactOK
<1>7. MessagesWait(im')
    BY <1>1, <1>5 DEF MessagesWait
<1>8. TakenWereMade(im')
    BY <1>1, <1>5 DEF IInv, TakenWereMade
<1> QED BY <1>1, <1>5, <1>6, <1>7, <1>8 DEF IInv, StateOK
-----------------------------------------------------------------------------
(* The invariant, and the theorems *)

\* Every step of every actor keeps what each contact's channel, conversation and
\* timeout agree on, and every message that waits.
LEMMA Invariance == Spec => []IInv
<1>1. Init => IInv
    BY InitOK
<1>2. IInv /\ [Next]_vars => IInv'
    <2> SUFFICES ASSUME IInv, [Next]_vars PROVE IInv'
        OBVIOUS
    <2>1. CASE Disconnected
        BY <2>1, DisconnectedOK
    <2>2. CASE GoOffline
        BY <2>2, GoOfflineOK
    <2>3. CASE DeleteAccount
        BY <2>3, DeleteAccountOK
    <2>4. ASSUME NEW m \in Messages, SendFails(m) PROVE IInv'
        BY <2>4, SendFailsOK
    <2>5. ASSUME NEW m \in Messages, NEW flag \in {"RECV", "SEND", "ERROR"},
                 WriteIm(m, flag)
          PROVE  IInv'
        BY <2>5, WriteImOK
    <2>6. ASSUME NEW h \in Contacts, PurpleOpensConversation(h) PROVE IInv'
        BY <2>6, PurpleOpensConversationOK
    <2>7. ASSUME NEW h \in Contacts, ConversationUpdated(h) PROVE IInv'
        BY <2>7, ConversationUpdatedOK
    <2>8. ASSUME NEW h \in Contacts, RequestChannel(h) PROVE IInv'
        BY <2>8, RequestChannelOK
    <2>9. ASSUME NEW h \in Contacts, Close(h) PROVE IInv'
        BY <2>9, CloseOK
    <2>10. ASSUME NEW h \in Contacts, Destroy(h) PROVE IInv'
        BY <2>10, DestroyOK
    <2>11. ASSUME NEW h \in Contacts, NEW ms \in SUBSET Messages, Acknowledge(h, ms)
           PROVE  IInv'
        BY <2>11, AcknowledgeOK
    <2>12. ASSUME NEW h \in Contacts, NEW repeats \in BOOLEAN, ResendTyping(h, repeats)
           PROVE  IInv'
        BY <2>12, ResendTypingOK
    <2>13. ASSUME NEW h \in Contacts, NEW repeats \in BOOLEAN,
                  NEW state \in {"active", "paused", "composing", "gone"},
                  SetChatState(h, state, repeats)
           PROVE  IInv'
        BY <2>13, SetChatStateOK
    <2>14. CASE UNCHANGED vars
        BY <2>14 DEF vars, IInv, StateOK, ContactOK, MessagesWait, TakenWereMade
    <2> QED BY <2>1, <2>2, <2>3, <2>4, <2>5, <2>6, <2>7, <2>8, <2>9, <2>10, <2>11, <2>12,
               <2>13, <2>14 DEF Next
<1> QED BY <1>1, <1>2, PTL DEF Spec

\* No field leaves its type; in particular no timeout is removed that is not there.
THEOREM TypeCorrect == Spec => []TypeOK
<1>1. IInv => TypeOK
    BY DEF IInv, StateOK, TypeOK
<1> QED BY <1>1, Invariance, PTL

\* send and set_chat_state never follow a conversation that is gone.
THEOREM ConversationsOutliveChannels == Spec => []ChannelHasConversation
<1>1. IInv => ChannelHasConversation
    BY DEF IInv, StateOK, ContactOK, ChannelHasConversation, Open
<1> QED BY <1>1, Invariance, PTL

\* There is one timeout for a conversation that knows of it, and no other.
THEOREM TimersAreKnown == Spec => []NoStrayTimers
<1>1. IInv => NoStrayTimers
    BY DEF IInv, StateOK, ContactOK, NoStrayTimers
<1> QED BY <1>1, Invariance, PTL

\* The timeout repeats what was set last, and never "not typing".
THEOREM RepeatsAreTrue == Spec => []RepeatsWhatWasSet
<1>1. IInv => RepeatsWhatWasSet
    <2> SUFFICES ASSUME IInv, NEW h \in Contacts, im.timers[h] > 0
                 PROVE  im.peer[h] = im.convs[h].active /\ im.peer[h] # "not typing"
        BY DEF RepeatsWhatWasSet
    <2>1. ContactOK(im, h)
        BY DEF IInv, StateOK
    <2> QED BY <2>1 DEF ContactOK
<1> QED BY <1>1, Invariance, PTL

\* While the connection lasts, D-Bus clients know which channels there are, and who
\* started each.
THEOREM ClientsKnowTheChannels == Spec => []ClientsSeeTheChannels
<1>1. IInv => ClientsSeeTheChannels
    BY DEF IInv, StateOK, ContactOK, ClientsSeeTheChannels, Open
<1> QED BY <1>1, Invariance, PTL

\* A channel that came back for its messages is announced as the contact's.
THEOREM RescuedChannelsAreIncoming == Spec => []RescuedIsIncoming
<1>1. IInv => RescuedIsIncoming
    <2> SUFFICES ASSUME IInv, NEW h \in Open(im) \ {Self}, im.channels[h].rescued # {}
                 PROVE  im.seen[h] = "incoming"
        BY DEF RescuedIsIncoming
    <2>1. ContactOK(im, h) /\ im.channels[h] # None /\ h # Self
        BY DEF IInv, StateOK, Open
    <2> QED BY <2>1 DEF ContactOK, Announced
<1> QED BY <1>1, Invariance, PTL

\* Every message that was taken waits in its contact's channel until a client is done
\* with it, however often the channel is closed.
THEOREM MessagesAreNotLost == Spec => []NoMessageLost
<1>1. IInv => NoMessageLost
    <2> SUFFICES ASSUME IInv, NEW m \in im.taken \ im.done
                 PROVE  Sender[m] \in Open(im) /\ m \in im.channels[Sender[m]].pending
        BY DEF NoMessageLost
    <2>1. m \in Messages
        BY DEF IInv, StateOK, ImState
    <2> QED BY <2>1, SenderType DEF IInv, MessagesWait, Open
<1> QED BY <1>1, Invariance, PTL

\* A close leaves a channel only for messages that wait, and Destroy leaves none.
THEOREM ClosesEnd == Spec => ClosingEnds
<1> DEFINE Ends == \A h \in Contacts :
                      /\ Destroy(h) => h \notin Open(im')
                      /\ Close(h) /\ h \in Open(im') => im'.channels[h].pending # {}
<1>1. IInv /\ [Next]_vars => [Ends]_vars
    <2> SUFFICES ASSUME IInv, NEW h \in Contacts
                 PROVE  /\ Destroy(h) => im'.channels[h] = None
                        /\ Close(h) => (im'.channels[h] # None => im'.channels[h].pending # {})
        BY DEF Open
    <2> QED BY CloseOK, DestroyOK
<1> QED BY <1>1, Invariance, PTL DEF Spec, ClosingEnds
-----------------------------------------------------------------------------
(* The channels as mailboxes *)

Seen(s) == [k \in Contacts |-> Opened(s, k)]
Kept(s) == [k \in Contacts |-> Waiting(s, k)]

\* What clients see of a contact is its channel, and nothing else.
LEMMA BoxIsChannel ==
    ASSUME NEW s, NEW h \in Contacts, StateOK(s)
    PROVE  /\ s.channels[h] = None => Opened(s, h) = None /\ Waiting(s, h) = {}
           /\ s.channels[h] # None =>
                 /\ s.phase = "connected" /\ Opened(s, h) = Announced(s.channels[h].initiator)
                 /\ Opened(s, h) # None /\ Waiting(s, h) = s.channels[h].pending
<1>1. ContactOK(s, h)
    BY DEF StateOK
<1>2. CASE s.channels[h] = None
    BY <1>1, <1>2 DEF ContactOK, Opened, Waiting
<1>3. CASE s.channels[h] # None
    <2>1. /\ s.phase = "connected" /\ Opened(s, h) = Announced(s.channels[h].initiator)
          /\ Waiting(s, h) = s.channels[h].pending
        BY <1>1, <1>3 DEF ContactOK, Opened, Waiting
    <2>2. \A i : Announced(i) # None
        BY NoneIsNothing DEF Announced
    <2> QED BY <1>3, <2>1, <2>2
<1> QED BY <1>2, <1>3

\* An event at h is one at h's box.
LEMMA OneBox ==
    ASSUME NEW h \in Contacts, OnlyAt(im, im', h)
    PROVE  /\ im'.phase = im.phase
           /\ Seen(im') = [Seen(im) EXCEPT ![h] = Opened(im', h)]
           /\ Kept(im') = [Kept(im) EXCEPT ![h] = Waiting(im', h)]
<1>1. /\ im'.phase = im.phase
      /\ \A k \in Contacts \ {h} :
            Opened(im', k) = Opened(im, k) /\ Waiting(im', k) = Waiting(im, k)
    BY DEF OnlyAt, Opened, Waiting
<1> QED BY <1>1 DEF Seen, Kept

\* The client sees nothing, and no message was put into a box.
Unseen ==
    /\ (im'.phase = "connected") = (im.phase = "connected")
    /\ Seen(im') = Seen(im) /\ Kept(im') = Kept(im) /\ im'.taken = im.taken

ClientStep == Mailboxes!Next \/ Unseen

\* An event that brings no message and leaves the channel alone is not seen.
LEMMA QuietStep ==
    ASSUME IInv, IInv', NEW h \in Contacts, OnlyAt(im, im', h), im'.taken = im.taken,
           im.channels[h] = None => im'.channels[h] = None,
           im.channels[h] # None =>
               /\ im'.channels[h] # None
               /\ im'.channels[h].initiator = im.channels[h].initiator
               /\ im'.channels[h].pending = im.channels[h].pending
    PROVE  Unseen
<1>1. StateOK(im) /\ StateOK(im')
    BY DEF IInv
<1>2. Opened(im', h) = Opened(im, h) /\ Waiting(im', h) = Waiting(im, h)
    BY <1>1, BoxIsChannel
<1>3. /\ im'.phase = im.phase
      /\ Seen(im') = [Seen(im) EXCEPT ![h] = Opened(im, h)]
      /\ Kept(im') = [Kept(im) EXCEPT ![h] = Waiting(im, h)]
    BY <1>2, OneBox
<1>4. Seen(im') = Seen(im) /\ Kept(im') = Kept(im)
    BY <1>3 DEF Seen, Kept
<1> QED BY <1>3, <1>4 DEF Unseen

\* A new channel without a message is a box that is opened.
LEMMA OpenStep ==
    ASSUME IInv, IInv', NEW h \in Contacts, OnlyAt(im, im', h), im'.taken = im.taken,
           im.phase = "connected",
           im.channels[h] = None, im'.channels[h] # None,
           im'.channels[h].pending = {}, im'.channels[h].initiator \in {Self, h}
    PROVE  Mailboxes!Next
<1> DEFINE how == Opened(im', h)
<1>1. StateOK(im) /\ StateOK(im')
    BY DEF IInv
<1>2. /\ Opened(im, h) = None /\ Waiting(im, h) = {}
      /\ how = Announced(im'.channels[h].initiator) /\ Waiting(im', h) = {}
    BY <1>1, BoxIsChannel
<1>3. how \in {"requested", Mailboxes!FromContact(h)} /\ how \in {"requested", "incoming"}
    BY <1>2 DEF Announced, Mailboxes!FromContact
<1> HIDE DEF how
<1>4. /\ im'.phase = im.phase
      /\ Seen(im') = [Seen(im) EXCEPT ![h] = how]
      /\ Kept(im') = [Kept(im) EXCEPT ![h] = {}]
    BY <1>1, <1>2, OneBox DEF how
<1>5. Kept(im') = Kept(im) /\ Seen(im)[h] = None
    BY <1>2, <1>4 DEF Kept, Seen
<1>6. Mailboxes!Open(h, how)
    BY <1>1, <1>3, <1>4, <1>5 DEF Mailboxes!Open, Seen, Kept
<1> QED BY <1>3, <1>6 DEF Mailboxes!Next

\* A message that waits in its contact's channel has arrived in the box, which is the
\* contact's if there was none.
LEMMA ArriveStep ==
    ASSUME IInv, IInv', NEW m \in Messages, NEW h, h = Sender[m], OnlyAt(im, im', h),
           im.phase = "connected", m \notin im.taken, im'.taken = im.taken \union {m},
           im'.channels[h] # None,
           im.channels[h] = None =>
               im'.channels[h].initiator = h /\ im'.channels[h].pending = {m},
           im.channels[h] # None =>
               /\ im'.channels[h].initiator = im.channels[h].initiator
               /\ im'.channels[h].pending = im.channels[h].pending \union {m}
    PROVE  Mailboxes!Next
<1>1. StateOK(im) /\ StateOK(im') /\ h \in Contacts
    BY SenderType DEF IInv
<1>2. /\ Opened(im', h) = IF Opened(im, h) = None THEN Mailboxes!FromContact(h)
                          ELSE Opened(im, h)
      /\ Waiting(im', h) = Waiting(im, h) \union {m}
    <2>1. CASE im.channels[h] = None
        <3>1. /\ Opened(im, h) = None /\ Waiting(im, h) = {} /\ Waiting(im', h) = {m}
              /\ Opened(im', h) = Announced(h)
            BY <1>1, <2>1, BoxIsChannel
        <3>2. Announced(h) = Mailboxes!FromContact(h)
            BY DEF Announced, Mailboxes!FromContact
        <3> QED BY <3>1, <3>2
    <2>2. CASE im.channels[h] # None
        BY <1>1, <2>2, BoxIsChannel
    <2> QED BY <2>1, <2>2
<1>3. /\ im'.phase = im.phase
      /\ Seen(im') = [Seen(im) EXCEPT ![h] = Opened(im', h)]
      /\ Kept(im') = [Kept(im) EXCEPT ![h] = Waiting(im', h)]
    BY <1>1, OneBox
<1>4. Seen(im)[h] = Opened(im, h) /\ Kept(im)[h] = Waiting(im, h)
    BY <1>1 DEF Seen, Kept
<1>5. /\ Seen(im') = [Seen(im) EXCEPT ![h] = IF @ = None THEN Mailboxes!FromContact(h) ELSE @]
      /\ Kept(im') = [Kept(im) EXCEPT ![h] = @ \union {m}]
    BY <1>2, <1>3, <1>4
<1>6. Mailboxes!Arrive(m)
    BY <1>3, <1>5 DEF Mailboxes!Arrive, Seen, Kept
<1> QED BY <1>6 DEF Mailboxes!Next

\* haze_write_im: a message of the contact's arrives; one of ours may open a box; and
\* what comes after the connection is not seen.
LEMMA WriteImStep ==
    ASSUME IInv, NEW m \in Messages, NEW flag, WriteIm(m, flag)
    PROVE  ClientStep
<1> DEFINE h    == Sender[m]
           mine == IF flag = "SEND" THEN {} ELSE {m}
<1>1. /\ IInv' /\ OnlyAt(im, im', h) /\ m \notin im.taken /\ h \in Contacts
      /\ im.phase # "connected" => im'.taken = im.taken
      /\ im.phase = "connected" =>
            im'.taken = im.taken \union mine /\ im'.channels[h] # None
      /\ im.channels[h] # None =>
            /\ im'.channels[h].initiator = im.channels[h].initiator
            /\ im'.channels[h].pending = im.channels[h].pending \union mine
      /\ im.channels[h] = None /\ im.phase = "connected" =>
            im'.channels[h].initiator = h /\ im'.channels[h].pending = mine
    BY WriteImOK, SenderType
<1> HIDE DEF h
<1>2. CASE im.phase # "connected"
    <2>1. im'.phase # "connected"
        BY <1>1, <1>2 DEF OnlyAt
    <2>2. im.channels[h] = None /\ im'.channels[h] = None
        BY <1>1, <1>2, <2>1 DEF IInv, StateOK, ContactOK
    <2>3. Unseen
        BY <1>1, <1>2, <2>2, QuietStep
    <2> QED BY <2>3 DEF ClientStep
<1>3. CASE im.phase = "connected" /\ flag # "SEND"
    <2>1. mine = {m}
        BY <1>3
    <2>2. Mailboxes!Next
        BY <1>1, <1>3, <2>1, ArriveStep DEF h
    <2> QED BY <2>2 DEF ClientStep
<1>4. CASE im.phase = "connected" /\ flag = "SEND"
    <2>1. mine = {} /\ im'.taken = im.taken
        BY <1>1, <1>4
    <2>2. CASE im.channels[h] = None
        <3>1. /\ im'.channels[h] # None /\ im'.channels[h].pending = {}
              /\ im'.channels[h].initiator \in {Self, h}
            BY <1>1, <1>4, <2>1, <2>2
        <3>2. Mailboxes!Next
            BY <1>1, <1>4, <2>1, <2>2, <3>1, OpenStep
        <3> QED BY <3>2 DEF ClientStep
    <2>3. CASE im.channels[h] # None
        <3>1. /\ im'.channels[h] # None
              /\ im'.channels[h].initiator = im.channels[h].initiator
              /\ im'.channels[h].pending = im.channels[h].pending
            BY <1>1, <1>4, <2>1, <2>3
        <3>2. Unseen
            BY <1>1, <2>1, <2>3, <3>1, QuietStep
        <3> QED BY <3>2 DEF ClientStep
    <2> QED BY <2>2, <2>3
<1> QED BY <1>2, <1>3, <1>4

\* A typing state, or a client that asks: a channel that is there stays as it is.
LEMMA GetStep ==
    ASSUME IInv, IInv', NEW h \in Contacts, NEW initiator \in {Self, h}, QuietAt(h),
           im.phase = "connected" => im'.channels[h] # None,
           im.phase = "connected" /\ im.channels[h] = None =>
               im'.channels[h].initiator = initiator /\ im'.channels[h].pending = {},
           im.channels[h] # None => im'.channels[h] = im.channels[h]
    PROVE  ClientStep
<1>1. OnlyAt(im, im', h) /\ im'.taken = im.taken
    BY DEF QuietAt
<1>2. CASE im.phase = "connected" /\ im.channels[h] = None
    <2>1. Mailboxes!Next
        BY <1>1, <1>2, OpenStep
    <2> QED BY <2>1 DEF ClientStep
<1>3. CASE im.channels[h] # None
    <2>1. Unseen
        BY <1>1, <1>3, QuietStep
    <2> QED BY <2>1 DEF ClientStep
<1>4. CASE im.phase # "connected"
    <2>1. im.channels[h] = None /\ im'.channels[h] = None
        BY <1>1, <1>4 DEF IInv, StateOK, ContactOK, OnlyAt
    <2>2. Unseen
        BY <1>1, <2>1, QuietStep
    <2> QED BY <2>2 DEF ClientStep
<1> QED BY <1>2, <1>3, <1>4

\* AcknowledgePendingMessages
LEMMA AcknowledgeStep ==
    ASSUME IInv, NEW h \in Contacts, NEW ms \in SUBSET Messages, Acknowledge(h, ms)
    PROVE  ClientStep
<1>1. /\ StateOK(im) /\ StateOK(im') /\ OnlyAt(im, im', h) /\ im'.taken = im.taken
      /\ im.channels[h] # None /\ im'.channels[h] # None
      /\ im'.channels[h].initiator = im.channels[h].initiator
      /\ im'.channels[h].pending = im.channels[h].pending \ ms
    BY AcknowledgeOK DEF IInv, QuietAt
<1>2. ms # {} /\ ms \subseteq im.channels[h].pending
    BY DEF Acknowledge
<1>3. /\ Opened(im', h) = Opened(im, h) /\ Waiting(im, h) = im.channels[h].pending
      /\ Waiting(im', h) = Waiting(im, h) \ ms
    BY <1>1, BoxIsChannel
<1>4. /\ im'.phase = im.phase
      /\ Seen(im') = [Seen(im) EXCEPT ![h] = Opened(im, h)]
      /\ Kept(im') = [Kept(im) EXCEPT ![h] = Waiting(im, h) \ ms]
    BY <1>1, <1>3, OneBox
<1>5. Seen(im') = Seen(im) /\ Kept(im)[h] = Waiting(im, h)
    BY <1>4 DEF Seen, Kept
<1>6. Kept(im') = [Kept(im) EXCEPT ![h] = @ \ ms]
    BY <1>4, <1>5
<1>7. Mailboxes!Acknowledge(h, ms)
    BY <1>1, <1>2, <1>3, <1>4, <1>5, <1>6 DEF Mailboxes!Acknowledge, Seen, Kept
<1> QED BY <1>7 DEF ClientStep, Mailboxes!Next

\* A channel that is closed with messages is the contact's from then on.
LEMMA CloseStep ==
    ASSUME IInv, NEW h \in Contacts, Close(h)
    PROVE  ClientStep
<1>1. /\ StateOK(im) /\ StateOK(im') /\ OnlyAt(im, im', h) /\ im'.taken = im.taken
      /\ im.channels[h] # None
      /\ im.channels[h].pending = {} => im'.channels[h] = None
      /\ im.channels[h].pending # {} =>
            /\ im'.channels[h] # None /\ im'.channels[h].initiator = h
            /\ im'.channels[h].pending = im.channels[h].pending
    BY CloseOK DEF IInv, QuietAt
<1>2. /\ Opened(im, h) # None /\ Waiting(im', h) = Waiting(im, h)
      /\ Opened(im', h) = IF Waiting(im, h) = {} THEN None ELSE Mailboxes!FromContact(h)
    <2>1. Opened(im, h) # None /\ Waiting(im, h) = im.channels[h].pending
        BY <1>1, BoxIsChannel
    <2>2. CASE im.channels[h].pending = {}
        <3>1. Opened(im', h) = None /\ Waiting(im', h) = {}
            BY <1>1, <2>2, BoxIsChannel
        <3> QED BY <2>1, <2>2, <3>1
    <2>3. CASE im.channels[h].pending # {}
        <3>1. Opened(im', h) = Announced(h) /\ Waiting(im', h) = im.channels[h].pending
            BY <1>1, <2>3, BoxIsChannel
        <3>2. Announced(h) = Mailboxes!FromContact(h)
            BY DEF Announced, Mailboxes!FromContact
        <3> QED BY <2>1, <2>3, <3>1, <3>2
    <2> QED BY <2>2, <2>3
<1>3. /\ im'.phase = im.phase
      /\ Seen(im') = [Seen(im) EXCEPT ![h] = Opened(im', h)]
      /\ Kept(im') = [Kept(im) EXCEPT ![h] = Waiting(im, h)]
    BY <1>1, <1>2, OneBox
<1>4. Kept(im') = Kept(im) /\ Kept(im)[h] = Waiting(im, h) /\ Seen(im)[h] = Opened(im, h)
    BY <1>3 DEF Seen, Kept
<1>5. Seen(im') = [Seen(im) EXCEPT
                      ![h] = IF Kept(im)[h] = {} THEN None ELSE Mailboxes!FromContact(h)]
    BY <1>2, <1>3, <1>4
<1>6. Mailboxes!Close(h)
    BY <1>1, <1>2, <1>3, <1>4, <1>5 DEF Mailboxes!Close, Seen, Kept
<1> QED BY <1>6 DEF ClientStep, Mailboxes!Next

\* A channel that is destroyed is gone with its messages.
LEMMA DestroyStep ==
    ASSUME IInv, NEW h \in Contacts, Destroy(h)
    PROVE  ClientStep
<1>1. /\ StateOK(im) /\ StateOK(im') /\ OnlyAt(im, im', h) /\ im'.taken = im.taken
      /\ im.channels[h] # None /\ im'.channels[h] = None
    BY DestroyOK DEF IInv, QuietAt
<1>2. Opened(im, h) # None /\ Opened(im', h) = None /\ Waiting(im', h) = {}
    BY <1>1, BoxIsChannel
<1>3. /\ im'.phase = im.phase
      /\ Seen(im') = [Seen(im) EXCEPT ![h] = None]
      /\ Kept(im') = [Kept(im) EXCEPT ![h] = {}]
    BY <1>1, <1>2, OneBox
<1>4. Seen(im)[h] = Opened(im, h)
    BY DEF Seen
<1>5. Mailboxes!Destroy(h)
    BY <1>1, <1>2, <1>3, <1>4 DEF Mailboxes!Destroy, Seen, Kept
<1> QED BY <1>5 DEF ClientStep, Mailboxes!Next

\* The boxes go with the connection.
LEMMA DisconnectedStep ==
    ASSUME IInv, Disconnected
    PROVE  ClientStep
<1>1. /\ IInv' /\ im.phase = "connected" /\ im'.phase = "disconnected"
      /\ im'.taken = im.taken /\ \A h \in Contacts : im'.channels[h] = None
    BY DisconnectedOK
<1>2. \A h \in Contacts : Opened(im', h) = None /\ Waiting(im', h) = {}
    BY <1>1 DEF Opened, Waiting
<1>3. Seen(im') = [h \in Contacts |-> None] /\ Kept(im') = [h \in Contacts |-> {}]
    BY <1>2 DEF Seen, Kept
<1>4. Mailboxes!Disconnect
    BY <1>1, <1>3 DEF Mailboxes!Disconnect, Seen, Kept
<1> QED BY <1>4 DEF ClientStep, Mailboxes!Next

\* After that there is nothing to see.
LEMMA OfflineStep ==
    ASSUME im.phase # "connected", im'.phase # "connected",
           im'.taken = im.taken, im'.channels = im.channels
    PROVE  ClientStep
<1>1. \A h \in Contacts : Opened(im', h) = Opened(im, h) /\ Waiting(im', h) = Waiting(im, h)
    BY DEF Opened, Waiting
<1> QED BY <1>1 DEF ClientStep, Unseen, Seen, Kept

\* Typing, conversations and timeouts are not seen.
LEMMA SameChannelsStep ==
    ASSUME IInv, IInv', NEW h \in Contacts, QuietAt(h), im'.channels = im.channels
    PROVE  ClientStep
<1>1. Unseen
    BY QuietStep DEF QuietAt
<1> QED BY <1>1 DEF ClientStep

\* To clients the channels are mailboxes: whatever libpurple calls back, and in whatever
\* order, a message arrives once, in its contact's box and in front of the client, and is
\* there until a client is done with it.
THEOREM ChannelsAreMailboxes == Spec => ImplementsMailboxes
<1>1. Init => Mailboxes!Init
    <2> SUFFICES ASSUME Init PROVE Mailboxes!Init
        OBVIOUS
    <2>1. im.phase = "connected" /\ im.taken = {}
        BY DEF Init
    <2>2. \A h \in Contacts : Opened(im, h) = None /\ Waiting(im, h) = {}
        BY DEF Init, Opened, Waiting
    <2> QED BY <2>1, <2>2 DEF Mailboxes!Init
<1>2. IInv /\ IInv' /\ [Next]_vars => [Mailboxes!Next]_(Mailboxes!boxes)
    <2> SUFFICES ASSUME IInv, IInv', [Next]_vars PROVE ClientStep
        BY DEF ClientStep, Unseen, Seen, Kept, Mailboxes!boxes
    <2>1. CASE Disconnected
        BY <2>1, DisconnectedStep
    <2>2. CASE GoOffline
        BY <2>2, GoOfflineOK, OfflineStep
    <2>3. CASE DeleteAccount
        BY <2>3, DeleteAccountOK, OfflineStep
    <2>4. ASSUME NEW m \in Messages, SendFails(m) PROVE ClientStep
        <3>1. im.phase = "connected"
            BY <2>4, SenderType DEF SendFails, Open, IInv, StateOK, ContactOK
        <3>2. Mailboxes!Next
            BY <2>4, <3>1, SendFailsOK, ArriveStep
        <3> QED BY <3>2 DEF ClientStep
    <2>5. ASSUME NEW m \in Messages, NEW flag \in {"RECV", "SEND", "ERROR"},
                 WriteIm(m, flag)
          PROVE  ClientStep
        BY <2>5, WriteImStep
    <2>6. ASSUME NEW h \in Contacts, PurpleOpensConversation(h) PROVE ClientStep
        BY <2>6, PurpleOpensConversationOK, SameChannelsStep
    <2>7. ASSUME NEW h \in Contacts, ConversationUpdated(h) PROVE ClientStep
        BY <2>7, ConversationUpdatedOK, GetStep
    <2>8. ASSUME NEW h \in Contacts, RequestChannel(h) PROVE ClientStep
        BY <2>8, RequestChannelOK, GetStep
    <2>9. ASSUME NEW h \in Contacts, Close(h) PROVE ClientStep
        BY <2>9, CloseStep
    <2>10. ASSUME NEW h \in Contacts, Destroy(h) PROVE ClientStep
        BY <2>10, DestroyStep
    <2>11. ASSUME NEW h \in Contacts, NEW ms \in SUBSET Messages, Acknowledge(h, ms)
           PROVE  ClientStep
        BY <2>11, AcknowledgeStep
    <2>12. ASSUME NEW h \in Contacts, NEW repeats \in BOOLEAN, ResendTyping(h, repeats)
           PROVE  ClientStep
        BY <2>12, ResendTypingOK, SameChannelsStep
    <2>13. ASSUME NEW h \in Contacts, NEW repeats \in BOOLEAN,
                  NEW state \in {"active", "paused", "composing", "gone"},
                  SetChatState(h, state, repeats)
           PROVE  ClientStep
        BY <2>13, SetChatStateOK, SameChannelsStep
    <2>14. CASE UNCHANGED vars
        BY <2>14 DEF vars, ClientStep, Unseen
    <2> QED BY <2>1, <2>2, <2>3, <2>4, <2>5, <2>6, <2>7, <2>8, <2>9, <2>10, <2>11, <2>12,
               <2>13, <2>14 DEF Next
<1> QED BY <1>1, <1>2, Invariance, PTL DEF Spec, ImplementsMailboxes, Mailboxes!Spec
=============================================================================
