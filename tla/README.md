# Verification of telepathy-haze

telepathy-haze is a Telepathy connection manager: D-Bus clients talk to it
through telepathy-glib, and it talks to every chat network libpurple knows.  It
keeps little data of its own.  What it has to get right is the *order of calls*
between two libraries that each believe they own the connection, the contact
list and the conversations.

Everything runs in one glib main loop, so there are no data races.  The hard
part is re-entrancy and the order of callbacks: libpurple calls haze back while
haze is calling libpurple, a status change closes channels whose close handlers
change the status, freed requests are still pointed to from idles and tables,
and D-Bus clients only know what the change signals told them.

## 1. Inventory

| Component | Source (`src/src/`) | State | Operations | Correct if |
|---|---|---|---|---|
| Connection lifecycle | `connection.c` | status, `connect_called`, `disconnecting`, `password_request`, queued idles, the PurpleConnection | request, connect, password prompt, signed-on, error, disconnect, finish shutdown, finalize | one shutdown, after libpurple is done; the account is freed; one PurpleConnection per account |
| Protocol requests | `request.c` | open requests of the protocol | password form, other forms, close | `password_request` never dangles, the prompt is answered on the right branch |
| Contact list | `contact-list.c` | pending publish requests, whom we publish to; libpurple's buddies and groups | authorise, accept, reject, subscribe, remove, group edits, buddy callbacks | callbacks called once; no contact lost; clients' view is the truth |
| Text channels | `im-channel.c`, `im-channel-factory.c` | table of channels, conversations, pending messages, typing timeout | request, receive, send, close, destroy, respawn, typing | no message lost, no pointer or timeout outlives a conversation, clients know the channels |
| Media channels | `media-channel.c`, `media-manager.c` | channels, pending stream requests, members, the PurpleMedia | request streams, init-media, accept, hang up, close | each stream request answered once; a call belongs to one channel |
| Media streams, backend | `media-stream.c`, `media-backend.c` | readiness, codecs, candidates, hold, stream ids | ready, set codecs, candidates, hold, direction | nothing sent before the client is ready, nothing lost, ids unique |
| Presence, aliasing, avatars | `connection-presence.c`, `connection-aliasing.c`, `connection-avatars.c` | none: everything is libpurple's, some of it only while there is a PurpleConnection | read for clients, pass on changes, set our own | a client that asked once and follows the signals believes what asking again would give |
| Capabilities | `connection-capabilities.c` | what each client declared; libpurple's one set for the process | declare, advertise, read, pass on changes | we promise contacts only what a client handles; clients know what is promised and what contacts can do |
| Mail notification | `connection-mail.c` | none | a report of several mails | each mail announced with its own parts |
| Protocols, process, logging | `protocol.c`, `connection-manager.c`, `main.c`, `notify.c`, `debug.c`, `util.c` | parameter tables | start-up, parameters, logging | not modelled: tables, strings and I/O |

Interactions: `connection.c` owns the PurpleAccount and creates the contact list,
the channel factory and the media manager.  They learn of the end of the
connection through the `status-changed` signal (channels are closed in it) and of
everything else through libpurple's UI operations and signals, which find the
connection through the account.  The media manager is the exception: it, and each
channel that dials, listens to `init-media` of libpurple's one media manager, which
announces the calls of every connection of the process.  `request.c` shares `password_request` with
`connection.c`.

Hard behaviours, each listed with its line under `hazards` in `PROJECT.json`:
errors reported inside `purple_account_connect`; a status change that re-enters
through the password channel; two connections competing for one account; requests
closed by answer, by protocol, by connection or replaced by another; buddy
callbacks in the middle of group edits; channels closed with messages nobody has
read; timeouts with pointers to conversations; messages after the end; calls that
are made before, while or after libpurple is asked for them, or when nobody waits
any more; streaming clients that are ready before or after there is anything to
stream; several buddies of one contact that do not agree.

## 2. Modules

| Module | Models | Runs |
|---|---|---|
| `ConnectionLifecycle` | what a client may rely on for a connection: the abstract specification | (as a property) |
| `HazeConnection` | `connection.c`, `request.c` | `connection`, `connection_early_error`, `connection_lost_request` |
| `HazeConnectionProofs` | theorems about `HazeConnection`: its invariants, the order of the statuses, the refinement | |
| `HazeContactList` | `contact-list.c` | `publication`, `groups`, `publication_assertion`, `remove_group` |
| `HazeContactListProofs` | theorems about `HazeContactList` | |
| `TextMailboxes` | what a client may rely on for text messages: the abstract specification | (as a property) |
| `HazeImChannel` | `im-channel.c`, `im-channel-factory.c` | `text_channels` |
| `HazeImChannelProofs` | theorems about `HazeImChannel`: its invariants, its action property, the refinement | |
| `HazeMediaChannel` | `media-channel.c`, `media-manager.c` | `media_channels`, `media_assertions` |
| `HazeMediaChannelProofs` | theorems about `HazeMediaChannel` | |
| `HazeMediaStream` | `media-stream.c`, `media-backend.c` | `media_streams` |
| `HazeMediaStreamProofs` | theorems about `HazeMediaStream` | |
| `HazeContactInfo` | `connection-presence.c`, `connection-aliasing.c`, `connection-avatars.c` | `contact_info` |
| `HazeCapabilities` | `connection-capabilities.c` | `contact_info` |
| `HazeCapabilitiesProofs` | theorems about `HazeCapabilities` | |
| `HazeMail` | `connection-mail.c` | `contact_info` |
| `HazeContactData` | the three above in one main loop | `contact_info` |
| `HazeContactInfoProofs` | theorems about `HazeContactInfo`, `HazeMail` and `HazeContactData` | |
| `FoldLemmas` | lemmas on the folds that model the code's loops | |
| `MC...` | the instances TLC checks | |

Common form.  One main-loop event is one action.  A function of the code is an
operator from a state record to the state when the function has returned, and the
operators are nested as the calls are nested, so that what a callback sees is what
it sees in the code.  Nondeterminism is in what a protocol does when it is called
(`Reactions`), in what it does on its own, and in what clients ask for.  Loops over
sets of contacts are modelled by their joint effect, because no iteration reads
what another wrote.  Operators marked `Mutant` play no part in a specification:
each is a plausible bug that the property named beside it in `PROJECT.json` finds.

### HazeConnection

`conn[c]` is one connection object and its account.  `phase`, `status`,
`connect_called`, `disconnecting` and `password_request` are the code's; `gc`,
`errored`, `pwreq` and `fields` are libpurple's; `finish_idle` and `destroy_idle`
are queued idles; `finished` counts calls of `tp_base_connection_finish_shutdown`.
`early` remembers that a login failed inside `purple_account_connect`.

`ChangeStatusDisconnected` is the centre: it closes the password prompt, whose
callback may cancel the protocol's request, which may take the account offline or
report an error, both of which come back to a status that already changed; then
`ShutDown` runs.  Calls after the status change are the `Late...` operators.  When the
PurpleConnection goes with a form open, the form's cancel callback is the protocol's and
may do the same (`CancelFieldsRequest`).

### HazeContactList

`list` holds libpurple's buddies (a set of contact-group pairs) and its open
authorisation requests, haze's `pending`, `publishing_to` and
`not_publishing_to`, and what clients were told: `shown` and `members`.  Buddy
callbacks run inside `AddBuddies` and `RemoveBuddies`.  `replaced`, `ghosts` and
`dropped` remember requests overwritten by another, contacts left in a group that
was announced as removed, and contacts announced as removed with their last buddy,
so that the other properties can say exactly where the three defects below end.

### HazeImChannel

`im` holds the factory's table, libpurple's conversations with haze's data in
them, the number of timeouts queued for each, the channels clients know, and the
history of messages.  After DISCONNECTED the table is gone and a late message makes
a channel that is kept nowhere.

`TextMailboxes` says what this amounts to for a client: a box for each contact, into
which each message is put once and which only the client, or the end of the
connection, empties.  `Mailboxes` reads the boxes off `im`: the box is the channel as it
was announced, with its pending messages, while the connection is up.  Conversations,
timeouts and typing states are not seen, nor is the channel that a late message
announces: a client of a connection that is down looks at nothing more.  A box closed
with messages in it comes back as the contact's, except that the user's own is always
announced as requested: `im-channel.c:473` compares the initiator with the self handle.

### HazeMediaChannel

`mc` holds the channels of every connection, the calls of libpurple (`PurpleMedia`
with the object path of its `HazeMediaBackend`), what libpurple is dialling, and the
D-Bus requests that wait for streams.  `RequestStreamsOn` is
`media_channel_request_streams` with `_haze_media_channel_request_contents`: the
protocol may refuse, make the call before it returns (`"now"`, so that
`LatchWaiting` and `Satisfy` run inside the request) or later.  `Latch` gives the
backend its object path, which may be done once.  `EndCall` and `CloseChannel` call
each other's effects as `haze_media_channel_close` and the end of the `PurpleMedia`
do.  Where the code reads freed or unset memory the process may crash or go on
(`lucky`); failed assertions end in `aborted`.  `refused`, `given_up` and `strays`
remember the requests refused through the broken error label, those pending on a
channel closed before it had a call, and the calls nobody waits for.  A manager's list
of channels is a set: the order in which it closes them makes no difference, as they
share nothing.

### HazeMediaStream

`ms` is one call's backend and its streams.  A stream holds both directions of what
passes through it, and what each side has been told; libpurple's calls and the
streaming client's are actions of their own, in any order.  `Ready`, `SetRemoteCodecs`
and `AddRemoteCandidates` share the functions that pass things on, as in the code.  Codecs
reach libpurple one by one with a signal after each, so that a protocol may read a list
while it is still partial: `read` is how much of it was there.

### HazeContactInfo, HazeCapabilities, HazeMail

`info` holds what libpurple knows of each contact, a buddy per group that holds it,
and `view`, what a client believes who asked once and follows the signals.  A change
that no signal reports marks the view `unsure`.  `phase` says whether there is a
PurpleConnection: our display name goes with it, and `get_alias` then answers with the
user name (`Disconnect`).

`caps` holds what the clients of each connection declared and libpurple's one set for the
process (`ui`), which outlives the connection that wrote it (`ConnEnds`).  `Rcc` is the
conversion clients see: video is told as audio and video.  A requestable channel class is
the set of media it asks for.  Three fields are history: `declared`, what each client said
last, with all its classes; `asked`, what `ui` should be by what was said last; and
`unaware`, the connections that were told nothing since another wrote `ui`.

In `mail` the parts of the i-th mail are the number i, so that an announced mail shows
where each part was taken.

The three run in one main loop and share no state.  `HazeContactData` composes them:
`Spec` interleaves their events freely, `OneAtATime` lets only one of them leave its
initial state, which is what TLC can explore.

### What is taken from the libraries

Neither libpurple nor telepathy-glib is part of the repository.  What the models
assume of them, from how the code uses them:

- `tp_base_connection_change_status` does nothing when the status is already
  DISCONNECTED; otherwise it emits `status-changed` (which closes channels, the
  password channel too) and then calls `shut_down`.
- `tp_base_connection_finish_shutdown` makes the connection manager drop its
  reference; finalization follows at once or later (`Finalize`).
- libpurple reports the first error of a PurpleConnection only, and disconnects
  the account from a timeout afterwards; a second `purple_account_connect` is
  ignored; a PurpleConnection takes its open requests with it.
- libpurple forgets an authorisation request once it is answered and closes those
  left when the account goes offline.
- `purple_blist_remove_group` does nothing for a group that has members.
- TpBaseContactList drops change signals while it has no list to show.
- `purple_conversation_new` returns the conversation that exists, if one does.
- A channel a client can no longer reach gets no calls: `Close` on a closed one
  is not modelled.
- A `PurpleMedia` has a stream from the event that makes it until it ends, and ends
  with its last stream, or when `purple_media_stream_info` is told to hang up.  A
  protocol has one dial in flight for a contact, answered by one call.  Every
  handler of `init-media` runs.
- `purple_media_set_remote_codecs`, candidates and the end of a stream reach only
  sessions that exist; a streaming client calls only streams announced to it.
- `purple_buddy_get_alias` prefers the user's alias, then the server's, then the
  name; `purple_blist_alias_buddy` signals only a change.  A protocol has set the
  display name when `set_alias_success_cb` runs, gives a status or a server alias to
  every buddy of the contact, and the buddies of a contact share their icon.
- The display name belongs to the PurpleConnection.  A second `purple_account_disconnect`
  while the first is under way is refused.
- `purple_media_manager_set_ui_caps` stores one value for the process.
- `dup_group_members` collects the buddies of a group of every account
  (`contact-list.c:888-939`); the model has one connection, whose account has them all.

## 3. Runs

Sizes are the smallest in which each interesting case happens.

| Run | Instance | What it shows |
|---|---|---|
| `connection` | 3 connections, two of them for one account; 15,435 states | safety, liveness, and that `HazeConnection` implements `ConnectionLifecycle` |
| `connection_early_error` | same | finding: the shutdown is finished inside `purple_account_connect` |
| `connection_lost_request` | same | finding: closing any form forgets the password request |
| `publication` | 2 contacts, 2 groups, one contact asks twice; 57,107 states | requests are answered once, presence is given only by a client, what clients see is true |
| `groups` | 2 contacts, 3 groups, no requests; 48,051 states | group edits do what they say and lose nobody |
| `publication_assertion` | as `publication` | finding: the assertion of `remove_pending_publish_request` fails |
| `remove_group` | as `publication` | finding: a removed group keeps its members |
| `text_channels` | 2 contacts, one of them the user; 3 messages; 7,507 states | no message lost, no stray timeout, clients know the channels; `HazeImChannel` implements `TextMailboxes` |
| `media_channels` | 1 connection, 2 contacts, 2 requests, 2 channels, 2 calls, 2 streams; 114,359 states | requests are answered once and none is forgotten, calls and channels belong together, clients know both |
| `media_assertions` | 2 connections, 1 contact, 1 request | finding: one call for two managers |
| `media_streams` | 2 streams one after the other, 2 codecs, 1 candidate; 11,484 states | announced once, nothing missed, nothing taken back, the contact is answered with an intersection |
| `contact_info` | 1 contact with up to 2 buddies; 2 connections that come and go, each with a client that a call may name twice; 3 mails; 537,134 states | what clients believe of contacts and of the user is what they would be told, from before the login until after libpurple is offline; nothing stays promised that no client stands for; mails are announced with their parts |

Why these bounds are enough.  Connections interact only through the account, so
two for one account and a bystander cover every interaction; within a connection
nothing is bounded but the number of open forms (one at a time), which share one
handler.  Contacts do not interact in the contact list except in set-valued group
edits, where two contacts give every combination of orphaned and not; three groups
let a contact be in two groups neither of which is the fallback group, and leave
a name to rename to; a request can only be overwritten by a second one.  Channels
of different contacts share nothing but the end of the connection; two messages
let one be rescued and the other acknowledged.  Two contacts let a channel be asked
to call somebody who is not its peer, and two requests let one be satisfied while
another waits, on one channel or two; connections share only `init-media`, which
`media_assertions` is about.  The streams of a call share nothing but the client's
readiness for the call and the test that all have codecs, so that two that follow
each other cover a stream before and one after it; the theorems are for any number.
Contacts do not interact in `HazeContactInfo`, and two buddies are enough to
disagree.  Two connections let libpurple's one set be overwritten by the other, and a
connection end before or after that; a call that names its client twice covers the
replacement within a call, and the second place, where a class is read past the end.  That
several clients of one connection are kept apart is left to the theorem, as two of them
would make the run some ten times longer.  `contact_info` explores `OneAtATime`, each of
its modules while the others are at their initial state; the theorems are about `Spec`,
where their events interleave.

Deadlock is not checked, because each of the models may stop: all connections
finalized, the program aborted on an assertion or crashed, the account deleted, the
call ended.

Fairness (`HazeConnection!Fairness`): the main loop runs the timeouts and idles
that are queued on it (`DisconnectTimeout`, `IdleFinishShutdown`), and the
connection manager drops a connection whose shutdown is finished (`Finalize`).
Users and protocols owe nothing: a prompt may stay unanswered and a login may never
end.  `AccountIsFreed` and the liveness half of `ImplementsLifecycle` rest on it.

### Findings

- `connect_called` is set after `purple_account_connect` returns.  A login that
  fails before leads to a shutdown finished too early, and finished twice.
- `haze_close_request` clears `password_request` whichever request is closed.
- A contact who asks twice overwrites, and frees, a request libpurple still holds.
- `remove_group` never takes the members out of the group it announces as removed.
- `init_media_cb` of the media manager ignores the account of the call: with two
  connections an incoming call aborts the process.

`FinishedAfterPurple`, `FinishedOnce`, `OnlyReplacedRequestsAbort` and
`MembershipIsTrue` state what holds outside these cases, with the history variables
above, so that a second way to the same failure would be found.

The models keep other defects, which the properties name as exceptions or which no
property is about.  Where a property excuses what a hazard is about, `PROJECT.json` lists
the hazard with a note and without that property:

- `buddy_removed_cb` announces a contact as removed whose request is unanswered and whom
  `dup_contacts` still has, although `tests/twisted/roster/publish.py:68-71` says contacts
  are listed while there is "some reason to care" (`dropped`, `BuddiesAreListed`).
- `connection-capabilities.c:254` indexes the classes of a client with the number of the
  client: the first client named is saved with its first class only, the second with its
  second.
- A mail that lacks a part stops all after it (`connection-mail.c:282`), where the comment
  says that it is filtered out.
- `media-channel.c:1445-1455` answers a refused request twice, the second time
  through freed memory, and with a NULL error when the protocol refused.
- `media-channel.c:1338` refuses the types a contact in a call *is* capable of.
- `media-channel.c:1355` leaves its `init-media` handler behind when the channel is
  closed first, forgets the pending requests of such a channel, and dials whomever
  `RequestStreams` names before there is a call.
- `media-channel.c:1157` writes an error through a pointer that was never set.
- The end of a stream is never announced: the backend drops it before
  `media_state_changed_cb` looks for it (`media-channel.c:425`).
- `connection-mail.c:312` steps the wrong pointer, so that all mails have the first
  subject.
- Each connection overwrites the capabilities of the process with those of its own clients
  (`connection-capabilities.c:289`), tells only its own clients, and leaves them behind
  when it ends (`unaware`).
- `contact-list.c:477` takes a reference on the contact list for each request, which
  `publish_request_data_free` (58) does not drop, although the comments at 473 and 503 say
  that removing the request does.
- The user's display name is lost to clients without a signal when libpurple goes offline
  (`connection-aliasing.c:75`).
- `set_aliases` and `set_avatar` do not ask whether there is a connection: the first
  asserts it (`connection-aliasing.c:36`), the second reads through NULL, as it does
  for a protocol without icons.
- `unpublish_async` is `remove_contacts_async` (`contact-list.c:824`), which never takes
  a contact out of `publishing_to`: clients go on being told that the contact may see our
  presence, until the contact asks again (`PresenceIsTheUsersToGive`).
- A display name the protocol changes, and a buddy that comes or goes, change what
  clients would be told without a signal.

## 4. Proofs

`HazeConnectionProofs` proves, for every set of connections and accounts and with
no assumption but `AccountOf \in [Conns -> Accounts]`, all seven invariants the
run `connection` checks: `TypeCorrect`, `FinishesAfterPurple`, `FinishesOnce`,
`ShutdownIsPending`, `FlagsAreTrue`, `OnePurpleConnection`, `PromptsAreAnswerable`.

None of them is inductive: that the shutdown is finished once depends on whether
libpurple still owes a `disconnected_cb`, which depends on the flags, which depend
on the phase of the connection.  The inductive invariant `IInv` says it all at
once.  A connection that is up (`UpInv`) has no trace of a shutdown, and its flags
match libpurple's state.  A connection that is down (`DownInv`) satisfies a
conservation law: calls of finish-shutdown made, plus queued, plus one if libpurple
is still to call back, is 1, or 2 if the login failed early.  `RequestInv` ties the
requests to the PurpleConnection.  `OneHolder`, the only part that relates two
connections, says that an account has one living connection.

The proof follows the nesting of the code.  A lemma per function says what it needs
and guarantees (the local invariant does not hold inside an event); a lemma per
action says that it preserves `IInv`; `Invariance` puts them together.

The same module proves `StatusesMoveForward`, the action property
`StatusMovesForward` (which the refinement that the run checks implies), and
`RefinesLifecycle`: every behaviour of `HazeConnection` is,
through `Life`, one of `ConnectionLifecycle!Spec`.  `IInv` does not carry these, as
they compare two states.  What does is `Forward(s, r)`: while an event runs, a
function that was called on `r` leaves the phase, either keeps the status or makes
it DISCONNECTED, and takes back no finished shutdown.  `Forward` is transitive, holds
of every function, and with `IInv` before and after the event pins down which step of
the abstract specification it is: one lemma per action (`...Life`, or `...Quiet` for
those a client does not see).  Two connections meet only in `Request`, which the
abstract specification guards by the account; `OneHolder` is what allows it.  The
guards of `Life` had to be made exclusive for this: TLC takes the first that holds,
the language any.

`HazeContactListProofs` proves all seven invariants of `publication` and `groups`, and
the three action properties `GroupEditsKeepContacts` (`NobodyIsLost`),
`EditsDoWhatTheySay` (`EditsAreExact`) and `PresenceIsTheUsersToGive`
(`PresenceIsGivenByClients`), for any contacts, groups and requests.  It
assumes that the fallback group is a group, that a request is from a contact, and
that the two marks for "none" are none (`NoneIsNoRequest`, `AbsentIsNoState`).  `IInv`
has three parts.  `RequestsOK`: an entry of the table is a request libpurple waits
for, and the others it waits for were overwritten.  `BuddiesOK`: what clients believe
of the groups is libpurple's buddies without the ghosts, which are buddies still.
`ViewOK`: a contact that clients were shown is shown as it is, and those that are on
the list, or should be, are shown.  The invariants the run checks are corners of
these: an edit adds and removes buddies in one event, and that clients are right after
it needs that they were right about every pair before.  Each function keeps all three
whatever it is called from, so that an edit is a composition.  The third action property
compares the answers before and after an event.  The lemma of each function also says
which it leaves alone (`SameAnswers`), and those that edit groups leave all;
`OthersAnswerNobody` collects this for everything but the two calls that answer, and
`AnswersAreClients` says that these answer the requests in the table.  That no request
libpurple has asked is asked again (`open` lies in `made`, a part of `RequestsOK`) is what
tells a new request from an old one.

`HazeImChannelProofs` proves all six invariants of `text_channels`, for any contacts and
messages, and two properties no run needs to check because the refinement below implies
them, `RescuedIsIncoming` and `ClosingEnds` (`ClosesEnd`); it assumes that
each message has one sender, and that none is none.  `ContactOK` ties a channel, its
conversation and the timeouts of one contact: a timeout is queued exactly if the
conversation says so, which is why none outlives it.  `MessagesWait` says where every
message is that was taken and not done with.  The two are proved apart: in the middle of a
respawn a rescued message is in no channel, while everything `ContactOK` says holds
of each function.

The same module proves `ChannelsAreMailboxes`, the refinement `ImplementsMailboxes`.  Each
event is a step of the mailbox of one contact or a stutter (`QuietAt`, `OnlyAt`: nothing
happens to the other contacts), and which of them follows from `ContactOK` before and
after the event: a channel was announced as what it is.  That a message arrives only once needs
`TakenWereMade` in the inductive invariant: a message libpurple has not reported is in no
channel.  A message that finds the conversation gone makes conversation and channel inside
the event that takes it; `DeliveredAnywhere` says that this is still one arrival, into a
box that may be new.

`HazeMediaStreamProofs` proves all four invariants of `media_streams`, for every set
of codecs and candidates, any number of streams and any number at a time, from the
assumptions of the module: `StreamTypeCorrect`, `Announced`, `CatchUp`, `Answers`, and its
action property `NothingIsTakenBack` (`StaysSaid`).
Its `IInv` adds to them what ties a stream's codecs to its history: what libpurple is
given of a stream the contact made lies in what the client gave as supported, and
is empty while the intersection is awaited.  A lemma per function of one stream says
that it keeps the stream's invariant and takes nothing back (`Keeps`), a lemma per action
lifts both to the backend (`IInv'`, `Steady`).  The contact is sent no less than before
because what was sent is still ready to be sent, which is a part of `StreamOK`.

`HazeMediaChannelProofs` proves all five invariants of `media_channels`, for any
finite set of connections, any contacts and requests, and any number of channels,
calls and streams: `MediaTypeCorrect`, `MediaAnsweredOnce`, `MediaNotForgotten`,
`MediaCallsHaveChannels`, `MediaTruth`.  It assumes besides that none is none
(`NoneIsNothing`).  The run has one connection; the theorems also hold when a call is
announced to the managers of several.  Requests, channels and calls point at each
other, so that none of the five is inductive.  `PendingOK` says that a request that
waits on a channel was made, not answered, and waits on no other; `MediaOK` and
`CallOK` that a channel and its call are each other's; `Expected` that what is being
dialled has a channel that waits for it, or is a stray.  Inside an event these break:
a call has no channel until `init_media_cb` has run, and a new channel is neither
announced nor asked for until its request is in its list.  So the lemmas are about
`OpenOK(s, C)`, which lets the calls of `C` be without a channel, and
`AlmostOK(s, n)`, which lets the channel `n` be unknown; each function has a lemma
that says which of them it needs and leaves.  Where memory that was freed is read,
the process goes on with the state it had or is gone, and then nothing is wrong.

`HazeCapabilitiesProofs` proves `PromisesAreDeclared`: `CapsAreDeclared` for any
number of connections, clients and contacts, and calls that name any number of clients
with any number of classes.  The invariant it needs besides types is `HeldIsDeclared`, that
a connection holds of a client no more than the client said last: the class read at the
wrong place (254) is still one of its own, and what a connection held goes when it ends.
`SelfIsKnown` is about the told set and not the set itself, as `Rcc` lies between them.

`HazeContactInfoProofs` proves `ClientsFollow` (`InfoFollowed`), for any finite
set of contacts, any number of groups, and any statuses the protocol has; it assumes
besides that an account is not on its own buddy list and that none is none.
`ClientsFollow` with the type is inductive.  The work is in that each event first
breaks it and then repairs it: a change of a buddy leaves every other contact as it
was (`BuddiesChange`) and what is read of the attributes it does not touch
(`SameBuddies`); the signal then says what would be read, or is about a contact whose
buddies do not agree (`TellGood`), or nothing is said and the client cannot know
(`SilentlyGood`), as when libpurple goes offline and our display name with it.
`MailsAreTrue` is `MailsAreAnnounced` for reports of any length:
`Round` is the invariant of the loop, and gives that no part is read beyond its array.

`FollowersAreRight` is the run's `ContactsAreFollowed`, for statuses, aliases, avatars and
capabilities at once, over `HazeContactData!Spec`, where the events of the three interleave;
the lemma `TogetherAsAlone` only carries over what was proved of each.
`ContactDataTypeCorrect` is the run's `TypeOK`, and `OneIsAllowed` says that what the run
explores is behaviour of `Spec`.

`set_aliases`, the report of mails and the loops of the media channels are folds in
the models.  A fold is a
recursive function on subsets, of which nothing is known until it is shown to exist,
and induction over data is out of the prover's reach.  `FoldLemmas` does without: a set
of numbers that is not empty has a least element (from the well-foundedness of `<`
as a set), and the least size at which a fold does not exist, or does not have a
property, is contradictory.  The lemmas are about functions and sets, so that they can
be cited for any loop; `LoopExists` and `LoopStays` lift what a lemma says of a round
to the loop, where each round may rely on what the earlier ones did.

Model-checked only: liveness (`AccountIsFreed` and the fairness half of
`ImplementsLifecycle`; the prover treats neither fairness nor ENABLED), and the findings,
which are counterexamples.  Every invariant and every action property a passing run checks
is proved, and so are both refinements as far as safety goes.

## 5. Not modelled

- Blocking and the normalisation of group names in the contact list.
- The words of messages, errors, aliases and statuses; status messages.
- Calls: how often a request names a type, the states of streams, hold of a whole
  call, STUN servers, relays and connection states, remote-pending members, and the
  refusals of malformed calls.
- Mail: the URL requests and the property, which keep no state; whether a part is an
  address.
- Registration of interfaces and D-Bus properties; reference counts, except where an
  object's end is an event.
- `protocol.c`, `connection-manager.c`: tables of parameters and strings.  The one
  decision that matters later, whether an account may be created, is in
  `HazeConnection`.
- `main.c`, `debug.c`, `notify.c`, `util.c`: start-up, logging and I/O.

Freed memory that is read is taken as a lost step in `HazeConnection`, as an abort in
`HazeContactList`, and as a choice between a crash and going on in `HazeMediaChannel`.

## 6. What remains

- The connection, its text channels and its calls are three models.  What they share is
  `status-changed`: a connection that goes down closes its channels, and each channel model
  has that as an action of its own (`Disconnected` and the like), with whatever may follow
  it.  A composition would add the order in which the handlers of one signal run; none of
  the handlers reads what another wrote.
- Blocking (section 5) would be a second set of contacts beside the groups.
- Liveness of the calls: that a request for a stream is answered in the end rests on
  protocols that answer, which nothing in the code promises.
