------------------------------- MODULE HazeMail -------------------------------
(***************************************************************************)
(* Mail notification (src/src/connection-mail.c): libpurple reports new    *)
(* mails as arrays of their parts, and clients get one signal, with the    *)
(* mails that have all parts.                                              *)
(*                                                                         *)
(* The parts of the i-th mail are the number i, or 0 where there is none   *)
(* (NULL), so that an announced mail says where each part was taken from.  *)
(* A part with an @ is an address and one without a name; that, and the    *)
(* property getter and the two URL requests, which keep no state, are left *)
(* out.  No report depends on an earlier one: there is one.                *)
(***************************************************************************)
EXTENDS Naturals, Sequences, SequencesExt

CONSTANT MaxMails   \* mails in one report

ASSUME MaxMailsType == MaxMails \in Nat

VARIABLE mail   \* see MailState

Part   == 0 .. MaxMails
Wrapped == [from : Part, to : Part, subject : Part, url : Part]

\* A report; tos may be a null pointer, as nothing tests it
Report(count) ==
    LET array == {a \in [1 .. count -> 0 .. count] : \A i \in 1 .. count : a[i] \in {0, i}}
    IN  [froms : array, tos : array, subjects : array, urls : array]

MailState ==
    [ phase     : {"waiting", "told", "ignored", "crashed"},
      reported  : UNION {Report(count) : count \in 0 .. MaxMails},
      announced : Seq(Wrapped) ]   \* by the last MailsReceived

\* Mutant: the recipients are not moved on.
TakeOneRecipient(report, taken, left) ==
    LET wrapped == [ from |-> report.froms[taken.at], to |-> report.tos[1],
                     subject |-> report.subjects[1], url |-> report.urls[taken.url] ]
    IN  IF 0 \in {wrapped.from, wrapped.to, wrapped.subject, wrapped.url} THEN taken
        ELSE [ mails |-> Append(taken.mails, wrapped), at |-> taken.at + 1,
               url |-> IF left > 1 /\ report.urls[taken.url + 1] # 0 THEN taken.url + 1
                       ELSE taken.url ]

\* One round of the loop, with so many left: a mail that lacks a part is not stepped
\* over, so that none after it is announced.  The subject stepped forward is the
\* loop's own, so that every mail has the first.
Take(report, taken, left) ==
    LET wrapped == [ from |-> report.froms[taken.at], to |-> report.tos[taken.at],
                     subject |-> report.subjects[1], url |-> report.urls[taken.url] ]
    IN  IF 0 \in {wrapped.from, wrapped.to, wrapped.subject, wrapped.url} THEN taken
        ELSE [ mails |-> Append(taken.mails, wrapped), at |-> taken.at + 1,
               url |-> IF left > 1 /\ report.urls[taken.url + 1] # 0 THEN taken.url + 1
                       ELSE taken.url ]

\* haze_connection_mail_notify_email(s); without details, or without one of the three
\* arrays it tests, nothing is announced.
NotifyEmails(count, report, ignored, hasTos) ==
    /\ mail.phase = "waiting" /\ report \in Report(count)
    /\ \/ /\ ignored /\ mail' = [mail EXCEPT !.phase = "ignored"]
       \/ /\ ~ignored /\ ~hasTos /\ count > 1   \* one mail comes with all pointers
          /\ mail' = [mail EXCEPT !.phase = "crashed"]
       \/ /\ ~ignored /\ hasTos
          /\ mail' = [mail EXCEPT
                 !.phase = "told", !.reported = report,
                 !.announced = FoldLeft(LAMBDA taken, i : Take(report, taken, count + 1 - i),
                                        [mails |-> <<>>, at |-> 1, url |-> 1],
                                        [i \in 1 .. count |-> i]).mails]

MailInit ==
    mail = [ phase |-> "waiting", announced |-> <<>>,
             reported |-> [froms |-> <<>>, tos |-> <<>>, subjects |-> <<>>, urls |-> <<>>] ]

MailNext ==
    \E count \in 0 .. MaxMails, ignored, hasTos \in BOOLEAN :
        mail.phase = "waiting" /\ \E report \in Report(count) :
            NotifyEmails(count, report, ignored, hasTos)

MailSpec == MailInit /\ [][MailNext]_mail

-----------------------------------------------------------------------------
(* Properties *)

MailTypeOK == mail \in MailState

\* An announced mail is one that was reported: its sender and recipient are of the same
\* mail, its URL is of that mail or an earlier one ("reuse previous URL if next one
\* does not exist"); none is announced twice or out of order; and all are when none
\* lacks a part.
MailsAreAnnounced ==
    LET told == mail.announced
        reported == mail.reported IN
    /\ \A k \in DOMAIN told :
          /\ told[k].from = told[k].to /\ told[k].url \in 1 .. told[k].from
          /\ \A l \in DOMAIN told : k < l => told[k].from < told[l].from
    /\ (\A i \in DOMAIN reported.froms :
            0 \notin {reported.froms[i], reported.tos[i], reported.subjects[i], reported.urls[i]})
        => Len(told) = Len(reported.froms) /\ \A k \in DOMAIN told : told[k].url = told[k].from
=============================================================================
