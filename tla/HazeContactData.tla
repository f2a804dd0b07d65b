--------------------------- MODULE HazeContactData ---------------------------
(***************************************************************************)
(* Contact information, capabilities and mail of a connection together.    *)
(* They run in one main loop, whose events are those of any of the three,  *)
(* and share no state.                                                     *)
(***************************************************************************)
EXTENDS HazeContactInfo, HazeCapabilities, HazeMail

Init == InfoInit /\ CapsInit /\ MailInit

Next ==
    \/ InfoNext /\ UNCHANGED <<caps, mail>>
    \/ CapsNext /\ UNCHANGED <<info, mail>>
    \/ MailNext /\ UNCHANGED <<info, caps>>

Spec == Init /\ [][Next]_<<info, caps, mail>>

\* Only one of the three moves away from the start.  As they share nothing, each can
\* do what it can do beside the others.
OneNext ==
    \/ CapsInit /\ MailInit /\ InfoNext /\ UNCHANGED <<caps, mail>>
    \/ InfoInit /\ MailInit /\ CapsNext /\ UNCHANGED <<info, mail>>
    \/ InfoInit /\ CapsInit /\ MailNext /\ UNCHANGED <<info, caps>>

OneAtATime == Init /\ [][OneNext]_<<info, caps, mail>>

-----------------------------------------------------------------------------
\* The types of the fields: no read of libpurple's state, no signal and no report leaves
\* the range clients expect.
TypeOK == InfoTypeOK /\ CapsTypeOK /\ MailTypeOK

\* What a client knows of the contacts and of ourselves, having asked once and followed
\* the signals since, is what it would be told if it asked again: status, alias, avatar
\* and capabilities.
ContactsAreFollowed == ClientsFollow /\ ContactCapsFollow
=============================================================================
