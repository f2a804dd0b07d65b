---------------------------- MODULE TextMailboxes ----------------------------
(***************************************************************************)
(* What a Telepathy client may rely on for text messages, with no          *)
(* libpurple and no conversations: each contact has a mailbox, the channel *)
(* the client sees.  A message is put into the box of the contact it is    *)
(* from, once, and is in front of the client from that step on; it leaves  *)
(* only when a client is done with it, or with the connection.  Closing a  *)
(* box that is not empty leaves it there, as one the contact opened.       *)
(*                                                                         *)
(* Whatever happens to one contact's box leaves the others alone.          *)
(***************************************************************************)
CONSTANTS Contacts, Self, Messages, Sender, None

VARIABLES
    online,    \* the connection is up
    opened,    \* opened[h]: how the channel came about that is seen for h, or None
    waiting,   \* waiting[h]: the messages in it
    arrived    \* every message that was ever put into a box

boxes == <<online, opened, waiting, arrived>>

\* What a box says that nobody asked for.  Our own is ours whoever opens it.
FromContact(h) == IF h = Self THEN "requested" ELSE "incoming"

Init ==
    /\ online = TRUE /\ arrived = {}
    /\ opened = [h \in Contacts |-> None]
    /\ waiting = [h \in Contacts |-> {}]

\* A client asks for the channel, or the contact is heard of without a message.
Open(h, how) ==
    /\ online /\ opened[h] = None /\ how \in {"requested", FromContact(h)}
    /\ opened' = [opened EXCEPT ![h] = how]
    /\ UNCHANGED <<online, waiting, arrived>>

Arrive(m) ==
    LET h == Sender[m] IN
    /\ online /\ m \notin arrived
    /\ arrived' = arrived \union {m}
    /\ waiting' = [waiting EXCEPT ![h] = @ \union {m}]
    /\ opened' = [opened EXCEPT ![h] = IF @ = None THEN FromContact(h) ELSE @]
    /\ UNCHANGED online

Acknowledge(h, ms) ==
    /\ ms # {} /\ ms \subseteq waiting[h]
    /\ waiting' = [waiting EXCEPT ![h] = @ \ ms]
    /\ UNCHANGED <<online, opened, arrived>>

Close(h) ==
    /\ opened[h] # None
    /\ opened' = [opened EXCEPT ![h] = IF waiting[h] = {} THEN None ELSE FromContact(h)]
    /\ UNCHANGED <<online, waiting, arrived>>

\* The client gives the messages up.
Destroy(h) ==
    /\ opened[h] # None
    /\ opened' = [opened EXCEPT ![h] = None]
    /\ waiting' = [waiting EXCEPT ![h] = {}]
    /\ UNCHANGED <<online, arrived>>

Disconnect ==
    /\ online
    /\ online' = FALSE
    /\ opened' = [h \in Contacts |-> None]
    /\ waiting' = [h \in Contacts |-> {}]
    /\ UNCHANGED arrived

Next ==
    \/ Disconnect
    \/ \E m \in Messages : Arrive(m)
    \/ \E h \in Contacts :
          \/ \E how \in {"requested", "incoming"} : Open(h, how)
          \/ Close(h) \/ Destroy(h)
          \/ \E ms \in SUBSET Messages : Acknowledge(h, ms)

Spec == Init /\ [][Next]_boxes
=============================================================================
