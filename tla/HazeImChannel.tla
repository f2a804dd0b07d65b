---------------------------- MODULE HazeImChannel ----------------------------
(***************************************************************************)
(* Text channels (src/src/im-channel.c, src/src/im-channel-factory.c): one *)
(* HazeIMChannel per contact, over one PurpleConversation.                 *)
(*                                                                         *)
(* Both sides create channels: D-Bus clients ask for one, and libpurple    *)
(* writes a message or a typing notification to a conversation that may    *)
(* not have one.  A client may close a channel at any time; one with       *)
(* messages nobody has acknowledged comes back as a channel the contact    *)
(* initiated.  A typing state may have to be repeated, by a timeout that   *)
(* holds a pointer to the conversation.                                    *)
(*                                                                         *)
(* Message contents are left out: a message is what it is delivered as     *)
(* (PURPLE_MESSAGE_RECV, _SEND or _ERROR), from whom, and who knows of it. *)
(* The model starts with the connection CONNECTED: no channel is requested *)
(* and no message arrives before.                                          *)
(***************************************************************************)
EXTENDS Integers, FiniteSets

CONSTANTS
    Contacts,   \* contact handles
    Self,       \* base_conn->self_handle, who may also be a contact
    Messages,   \* messages and delivery reports, each delivered once
    Sender,     \* the contact in whose conversation a message is delivered
    None

ASSUME SenderType == Sender \in [Messages -> Contacts]
VARIABLE im   \* the state of the text channels, see ImState

vars == im

Typing == {"not typing", "typing", "typed"}

\* HazeIMChannelPrivate and its message mixin.  The conversation of a channel is
\* the one of its contact.
Channel ==
    [ initiator : Contacts \union {Self},
      pending   : SUBSET Messages,   \* not acknowledged
      rescued   : SUBSET Messages ]  \* of those, the ones marked as rescued

\* HazeConversationUiData
Conversation ==
    [ active : Typing,     \* active_state
      timer  : BOOLEAN ]   \* resend_typing_timeout_id is set

ASSUME NoneIsNothing ==
    None \notin {"requested", "incoming"} /\ None \notin Channel /\ None \notin Conversation

ImState ==
    [ phase    : {"connected", "disconnected", "offline", "deleted"},
      channels : [Contacts -> Channel \union {None}],  \* NULL once disconnected
      convs    : [Contacts -> Conversation \union {None}],
      timers   : [Contacts -> Nat],  \* timeouts for a contact's conversations
      \* what D-Bus clients were told: no channel, or how it came about
      seen     : [Contacts -> {"requested", "incoming", None}],
      \* history
      made     : SUBSET Messages,  \* delivered to haze, whatever it did with them
      taken    : SUBSET Messages,  \* of those, the ones a client ought to see
      done     : SUBSET Messages,  \* acknowledged, or given up with the channel
      peer     : [Contacts -> Typing] ] \* the typing state the contact was sent

Open(s) == {h \in Contacts : s.channels[h] # None}

-----------------------------------------------------------------------------
(* Conversations *)

\* purple_conversation_new and haze_create_conversation; it is asked for the
\* conversation of a contact, which may exist already.
EnsureConversation(s, h) ==
    IF s.convs[h] # None THEN s
    ELSE [s EXCEPT !.convs[h] = [active |-> "not typing", timer |-> FALSE]]

\* Mutant: a source is removed whether or not there is one.
DestroyConversationsUnchecked(s, hs) ==
    [s EXCEPT !.convs  = [h \in Contacts |-> IF h \in hs THEN None ELSE s.convs[h]],
              !.timers = [h \in Contacts |-> IF h \in hs THEN s.timers[h] - 1 ELSE s.timers[h]],
              !.peer   = [h \in Contacts |-> IF h \in hs THEN "not typing" ELSE s.peer[h]]]

\* purple_conversation_destroy and haze_destroy_conversation, for each of hs: the
\* timeout goes with the conversation, and the contact is told of no more typing.
DestroyConversations(s, hs) ==
    [s EXCEPT !.convs  = [h \in Contacts |-> IF h \in hs THEN None ELSE s.convs[h]],
              !.timers = [h \in Contacts |->
                  IF h \in hs /\ s.convs[h].timer THEN s.timers[h] - 1 ELSE s.timers[h]],
              !.peer   = [h \in Contacts |->
                  IF h \in hs THEN "not typing" ELSE s.peer[h]]]

-----------------------------------------------------------------------------
(* Channels *)

\* The Requested property of a channel
Announced(initiator) == IF initiator = Self THEN "requested" ELSE "incoming"

\* new_im_channel and haze_im_channel_start.  When the table of channels is gone
\* the new one is announced but kept nowhere.
NewImChannel(s, h, initiator) ==
    LET chan == [initiator |-> initiator, pending |-> {}, rescued |-> {}]
    IN  [EnsureConversation(s, h) EXCEPT
            !.channels[h] = IF s.phase = "connected" THEN chan ELSE None,
            !.seen[h]     = Announced(initiator)]

\* get_im_channel
GetImChannel(s, h, initiator) ==
    IF s.channels[h] # None THEN s ELSE NewImChannel(s, h, initiator)

\* Mutant: a channel that comes back is not announced.
ImChannelClosedSilently(s, h, destroyed) ==
    [s EXCEPT !.channels[h] = IF destroyed THEN None ELSE @, !.seen[h] = None]

\* im_channel_closed_cb, while there is a table: a channel that is not destroyed
\* is announced again.
ImChannelClosed(s, h, destroyed) ==
    [s EXCEPT !.channels[h] = IF destroyed THEN None ELSE @,
              !.seen[h]     = IF destroyed THEN None ELSE Announced(s.channels[h].initiator)]

\* Mutant: the conversation is destroyed before the pending messages are looked at.
CloseDestroysFirst(s, h) ==
    LET chan    == s.channels[h]
        rescued == [chan EXCEPT !.initiator = h, !.rescued = chan.pending]
        torn    == DestroyConversations(s, {h})
    IN  IF chan.pending # {}
        THEN ImChannelClosed([torn EXCEPT !.channels[h] = rescued], h, FALSE)
        ELSE ImChannelClosed(torn, h, TRUE)

\* Mutant: the initiator stays who it was.
CloseKeepsInitiator(s, h) ==
    LET chan == s.channels[h]
    IN  IF chan.pending # {}
        THEN ImChannelClosed([s EXCEPT !.channels[h].rescued = chan.pending], h, FALSE)
        ELSE ImChannelClosed(DestroyConversations(s, {h}), h, TRUE)

\* Mutant: channels do not come back (fd.o #17842).
CloseLosesMessages(s, h) == ImChannelClosed(DestroyConversations(s, {h}), h, TRUE)

\* haze_im_channel_close
CloseImChannel(s, h) ==
    LET chan    == s.channels[h]
        rescued == [chan EXCEPT !.initiator = h, !.rescued = chan.pending]
    IN  IF chan.pending # {}
        THEN ImChannelClosed([s EXCEPT !.channels[h] = rescued], h, FALSE)
        ELSE ImChannelClosed(DestroyConversations(s, {h}), h, TRUE)

\* Mutant: what we sent waits for ourselves to acknowledge it.
ReceiveEchoes(s, h, m, flag) ==
    IF s.channels[h] = None THEN s
    ELSE [s EXCEPT !.channels[h].pending = @ \union {m}]

\* haze_im_channel_receive: messages and delivery reports become pending, what we
\* sent ourselves is ignored.
Receive(s, h, m, flag) ==
    IF s.channels[h] = None \/ flag = "SEND" THEN s
    ELSE [s EXCEPT !.channels[h].pending = @ \union {m}]

\* A message that is delivered as flag, for the history.
Delivered(s, m, flag) ==
    [s EXCEPT !.made  = @ \union {m},
              !.taken = IF s.phase = "connected" /\ flag # "SEND" THEN @ \union {m} ELSE @]

-----------------------------------------------------------------------------
(* Main-loop events: the protocol *)

Online == im.phase \in {"connected", "disconnected"}

\* libpurple opens a conversation without writing to it.
PurpleOpensConversation(h) ==
    /\ Online /\ im.convs[h] = None
    /\ im' = EnsureConversation(im, h)

\* haze_write_im, in a conversation libpurple opens for it if need be
WriteIm(m, flag) ==
    LET h == Sender[m] IN
    /\ Online /\ m \notin im.made
    /\ im' = Receive(GetImChannel(EnsureConversation(Delivered(im, m, flag), h), h, h),
                     h, m, flag)

\* conversation_updated_cb, for a typing state
ConversationUpdated(h) ==
    /\ Online /\ im.convs[h] # None
    /\ im' = GetImChannel(im, h, h)

-----------------------------------------------------------------------------
(* Main-loop events: D-Bus clients *)

\* haze_im_channel_factory_create_channel, _ensure_channel: if the channel exists
\* the one fails and the other returns it.
RequestChannel(h) ==
    /\ im.phase = "connected"
    /\ im' = GetImChannel(im, h, Self)

\* AcknowledgePendingMessages
Acknowledge(h, ms) ==
    /\ h \in Open(im) /\ ms # {} /\ ms \subseteq im.channels[h].pending
    /\ im' = [im EXCEPT !.channels[h].pending = @ \ ms,
                        !.channels[h].rescued = @ \ ms,
                        !.done = @ \union ms]

\* haze_im_channel_send, when the protocol reports an error into the conversation
\* while it sends.  A message that is sent leaves no trace here.
SendFails(m) ==
    LET h == Sender[m] IN
    /\ h \in Open(im) /\ m \notin im.made
    /\ im' = Receive(Delivered(im, m, "ERROR"), h, m, "ERROR")

Close(h) == h \in Open(im) /\ im' = CloseImChannel(im, h)

\* Mutant: the pending messages are not cleared first.
DestroyKeepsMessages(h) == h \in Open(im) /\ im' = CloseImChannel(im, h)

\* haze_im_channel_destroy
Destroy(h) ==
    LET chan == im.channels[h] IN
    /\ h \in Open(im)
    /\ im' = CloseImChannel([im EXCEPT !.channels[h].pending = {},
                                       !.channels[h].rescued = {},
                                       !.done = @ \union chan.pending], h)

\* The typing state for a chat state.  Gone may not be set.
PurpleTyping == [active |-> "not typing", paused |-> "typed", composing |-> "typing"]

\* Mutant: the timeout of the last state is left running.
SetChatStateKeepsTimer(h, state, repeats) ==
    /\ h \in Open(im) /\ state # "gone"
    /\ LET typing == PurpleTyping[state]
           repeat == repeats /\ typing # "not typing"
       IN  im' = [im EXCEPT !.convs[h]  = [active |-> typing, timer |-> repeat],
                            !.timers[h] = IF repeat THEN @ + 1 ELSE @,
                            !.peer[h]   = typing]

\* Mutant: "not typing" is repeated too.
SetChatStateRepeatsAll(h, state, repeats) ==
    LET cleared == [im EXCEPT !.timers[h] = IF im.convs[h].timer THEN @ - 1 ELSE @]
    IN  /\ h \in Open(im) /\ state # "gone"
        /\ im' = [cleared EXCEPT
                     !.convs[h]  = [active |-> PurpleTyping[state], timer |-> repeats],
                     !.timers[h] = IF repeats THEN @ + 1 ELSE @,
                     !.peer[h]   = PurpleTyping[state]]

\* haze_im_channel_set_chat_state: the timeout goes first, also if the state is
\* then refused.  repeats: serv_send_typing says that the state times out.
SetChatState(h, state, repeats) ==
    LET cleared == [im EXCEPT !.timers[h] = IF im.convs[h].timer THEN @ - 1 ELSE @,
                              !.convs[h].timer = FALSE]
    IN  /\ h \in Open(im)
        /\ \/ state = "gone" /\ im' = cleared
           \/ /\ state # "gone"
              /\ LET typing == PurpleTyping[state]
                     repeat == repeats /\ typing # "not typing"
                 IN  im' = [cleared EXCEPT !.convs[h]  = [active |-> typing, timer |-> repeat],
                                           !.timers[h] = IF repeat THEN @ + 1 ELSE @,
                                           !.peer[h]   = typing]

-----------------------------------------------------------------------------
(* Main-loop events: the timeout, and the end of the connection *)

\* resend_typing_cb
ResendTyping(h, repeats) ==
    /\ im.timers[h] > 0
    /\ im' = [im EXCEPT !.peer[h] = im.convs[h].active,
                        !.timers[h] = IF repeats THEN @ ELSE @ - 1,
                        !.convs[h].timer = @ /\ repeats]

\* status_changed_cb and close_all: every channel is disposed of, its messages
\* and all.
Disconnected ==
    /\ im.phase = "connected"
    /\ im' = [DestroyConversations(im, Open(im)) EXCEPT
                 !.phase    = "disconnected",
                 !.channels = [h \in Contacts |-> None],
                 !.seen     = [h \in Contacts |-> None],
                 !.done     = @ \union UNION {im.channels[h].pending : h \in Open(im)}]

\* libpurple drops the PurpleConnection.
GoOffline ==
    /\ im.phase = "disconnected"
    /\ im' = [im EXCEPT !.phase = "offline"]

\* purple_accounts_delete destroys the conversations that are left.
DeleteAccount ==
    /\ im.phase = "offline"
    /\ im' = [DestroyConversations(im, {h \in Contacts : im.convs[h] # None}) EXCEPT
                 !.phase = "deleted"]

-----------------------------------------------------------------------------
Init ==
    im = [ phase |-> "connected",
           channels |-> [h \in Contacts |-> None], convs |-> [h \in Contacts |-> None],
           timers |-> [h \in Contacts |-> 0], seen |-> [h \in Contacts |-> None],
           made |-> {}, taken |-> {}, done |-> {},
           peer |-> [h \in Contacts |-> "not typing"] ]

Next ==
    \/ Disconnected \/ GoOffline \/ DeleteAccount
    \/ \E m \in Messages :
          SendFails(m) \/ \E flag \in {"RECV", "SEND", "ERROR"} : WriteIm(m, flag)
    \/ \E h \in Contacts :
          \/ PurpleOpensConversation(h) \/ ConversationUpdated(h)
          \/ RequestChannel(h) \/ Close(h) \/ Destroy(h)
          \/ \E ms \in SUBSET Messages : Acknowledge(h, ms)
          \/ \E repeats \in BOOLEAN :
                \/ ResendTyping(h, repeats)
                \/ \E state \in {"active", "paused", "composing", "gone"} :
                      SetChatState(h, state, repeats)

Spec == Init /\ [][Next]_vars

-----------------------------------------------------------------------------
(* Properties *)

\* The types of the fields; no source is removed that was not there.
TypeOK == im \in ImState

\* send and set_chat_state follow priv->conv without a check: a channel in the factory's
\* table has its conversation, through every respawn.  A channel that a message makes after
\* the table is gone (NewImChannel) is kept nowhere, and nothing is said of it.
ChannelHasConversation == \A h \in Open(im) : im.convs[h] # None

\* resend_typing_cb follows a pointer to a conversation: there is a timeout for it
\* exactly while the conversation is there to know of it, so that none outlives
\* the conversation and no two are ever queued for one.
NoStrayTimers ==
    \A h \in Contacts :
        im.timers[h] = IF im.convs[h] # None /\ im.convs[h].timer THEN 1 ELSE 0

\* What is repeated to the contact is what was set last, and never "not typing",
\* which "it would be stupid to repeatedly send".
RepeatsWhatWasSet ==
    \A h \in Contacts :
        im.timers[h] > 0 =>
            im.peer[h] = im.convs[h].active /\ im.peer[h] # "not typing"

\* From NewChannels and ChannelClosed alone, clients know which channels there are
\* and whether they were requested, also after a channel came back.
ClientsSeeTheChannels ==
    im.phase = "connected" =>
        \A h \in Contacts :
            im.seen[h] = IF h \in Open(im) THEN Announced(im.channels[h].initiator) ELSE None

\* A channel that came back for its messages is the contact's, not one we asked
\* for (respawn.py), until somebody has seen them.
RescuedIsIncoming ==
    \A h \in Open(im) \ {Self} :
        im.channels[h].rescued # {} => im.seen[h] = "incoming"

\* No message is lost by closing channels: each waits in the channel of the
\* contact it is from until a client acknowledges it or destroys the channel, or
\* the connection goes.
NoMessageLost ==
    \A m \in im.taken \ im.done :
        Sender[m] \in Open(im) /\ m \in im.channels[Sender[m]].pending

\* A channel goes when it is closed, except for messages that are still waiting,
\* and Destroy always ends it: clients cannot be caught in a loop of respawns.
ClosingEnds ==
    [][\A h \in Contacts :
          /\ Destroy(h) => h \notin Open(im')
          /\ Close(h) /\ h \in Open(im') => im'.channels[h].pending # {}]_vars
-----------------------------------------------------------------------------
(* Refinement *)

\* What clients make of the channels.  Once disconnected they look at nothing more: a
\* message that comes late announces a channel that is kept nowhere.
Opened(s, h) == IF s.phase = "connected" THEN s.seen[h] ELSE None

Waiting(s, h) == IF s.channels[h] = None THEN {} ELSE s.channels[h].pending

Mailboxes == INSTANCE TextMailboxes WITH
    online  <- im.phase = "connected",
    opened  <- [h \in Contacts |-> Opened(im, h)],
    waiting <- [h \in Contacts |-> Waiting(im, h)],
    arrived <- im.taken

\* To a client the channels are mailboxes: a message arrives in its contact's, once and
\* in front of the client, whatever libpurple had opened before; what happens to one
\* contact leaves the others alone; and typing, conversations and timeouts are unseen.
ImplementsMailboxes == Mailboxes!Spec
=============================================================================
