--------------------------- MODULE HazeConnection ---------------------------
(***************************************************************************)
(* The life of a HazeConnection (src/src/connection.c, src/src/request.c): *)
(* from RequestConnection, through the password prompt and the libpurple   *)
(* login, to the shutdown that releases the PurpleAccount.                 *)
(*                                                                         *)
(* Haze is single-threaded: one event of the main loop runs to its end     *)
(* before the next.  What is hard is what happens inside one event.        *)
(* libpurple and telepathy-glib call back into haze while haze is calling  *)
(* them: purple_account_connect may report an error before it returns, a   *)
(* status change closes the password channel, which cancels the protocol's *)
(* password request, which may take the account offline, which changes     *)
(* the status.  So each function of the code is an operator from the       *)
(* state of one connection to its state when the function has returned,    *)
(* nested as the calls are nested, and an action is one main-loop event.   *)
(*                                                                         *)
(* "Late" operators are a function called when the status is already       *)
(* DISCONNECTED: its status change is then a no-op, so the nesting ends.   *)
(***************************************************************************)
EXTENDS Integers

CONSTANTS
    Conns,      \* HazeConnection objects, each used once
    Accounts,   \* what purple_accounts_find compares: username and prpl id
    AccountOf   \* the account each connection object is requested for

ASSUME AccountOfType == AccountOf \in [Conns -> Accounts]

VARIABLE conn   \* conn[c]: the state of connection c and of its account

vars == conn

-----------------------------------------------------------------------------
(* One connection *)

\* What a protocol plugin may do, before it returns, when haze calls it back.
Reactions == {"none", "error", "disconnect"}

ConnState ==
    [ phase            : {"absent", "alive", "finalized"},  \* the GObject
      status           : {"NEW", "CONNECTING", "CONNECTED", "DISCONNECTED"},
      password         : BOOLEAN,   \* known, or not needed by the protocol
      connect_called   : BOOLEAN,
      disconnecting    : BOOLEAN,
      password_request : BOOLEAN,   \* the pointer is not NULL
      prompt           : BOOLEAN,   \* a password channel is open
      gc               : {"none", "connecting", "connected"}, \* PurpleConnection
      errored          : BOOLEAN,   \* libpurple's disconnect timeout is set
      pwreq            : BOOLEAN,   \* the protocol's password request is open
      fields           : BOOLEAN,   \* another request of the protocol is open
      destroy_idle     : BOOLEAN,   \* haze_request_fields_destroy is queued
      finish_idle      : 0..2,      \* queued calls of idle_finish_shutdown
      finished         : 0..2,      \* calls of tp_base_connection_finish_shutdown
      early            : BOOLEAN ]  \* login failed inside purple_account_connect

NoConnection ==
    [ phase |-> "absent", status |-> "NEW", password |-> FALSE,
      connect_called |-> FALSE, disconnecting |-> FALSE,
      password_request |-> FALSE, prompt |-> FALSE, gc |-> "none",
      errored |-> FALSE, pwreq |-> FALSE, fields |-> FALSE,
      destroy_idle |-> FALSE, finish_idle |-> 0, finished |-> 0,
      early |-> FALSE ]

-----------------------------------------------------------------------------
(* request.c: closing the requests of the protocol *)

\* Mutant: the request is closed but priv->password_request keeps pointing to it.
CloseKeepsPointer(r) == IF r.pwreq THEN [r EXCEPT !.pwreq = FALSE] ELSE r

\* haze_close_request on the password request, and on another request.  Both
\* clear password_request: the handler does not ask whose request it closes.
ClosePasswordRequest(r) ==
    IF r.pwreq THEN [r EXCEPT !.pwreq = FALSE, !.password_request = FALSE] ELSE r

CloseFieldsRequest(r) ==
    IF r.fields THEN [r EXCEPT !.fields = FALSE, !.password_request = FALSE] ELSE r

\* libpurple drops the PurpleConnection: every request made with it is closed.
DropPurpleConnection(r) ==
    CloseFieldsRequest(ClosePasswordRequest(
        [r EXCEPT !.gc = "none", !.errored = FALSE]))

-----------------------------------------------------------------------------
(* Shutdown, once the status is DISCONNECTED *)

FinishShutdown(r) == [r EXCEPT !.finished = @ + 1]

\* disconnected_cb called by purple_account_disconnect.
LateAccountDisconnect(r) ==
    DropPurpleConnection([r EXCEPT !.disconnecting = TRUE, !.finish_idle = @ + 1])

\* purple_connection_error_reason and haze_report_disconnect_reason.
LatePurpleError(r) == [r EXCEPT !.disconnecting = TRUE, !.errored = TRUE]

\* haze_request_password_cb (request, NULL): the protocol's cancel callback
\* takes the account offline, either at once or with a connection error.
LateCancelPasswordRequest(r, reaction) ==
    ClosePasswordRequest(IF reaction = "disconnect"
                         THEN LateAccountDisconnect(r)
                         ELSE LatePurpleError(r))

\* The password manager closes its channel when the status becomes
\* DISCONNECTED, and the prompt callback runs with an error.
ClosePrompt(r, reaction) ==
    LET closed == [r EXCEPT !.prompt = FALSE] IN
    IF r.prompt /\ r.password_request
    THEN LateCancelPasswordRequest(closed, reaction)
    ELSE closed

\* Mutant: shut_down finishes the shutdown whenever it does not disconnect.
ShutDownElseFinish(r) ==
    IF ~r.disconnecting /\ r.connect_called
    THEN LateAccountDisconnect([r EXCEPT !.disconnecting = TRUE])
    ELSE FinishShutdown(r)

\* Mutant: shut_down does not look at priv->disconnecting.
ShutDownTwice(r) ==
    IF r.connect_called THEN LateAccountDisconnect(r) ELSE FinishShutdown(r)

\* Mutant: shut_down relies on disconnected_cb, which never comes for an
\* account that was not connected.
ShutDownNeverFinishes(r) ==
    IF ~r.disconnecting /\ r.connect_called
    THEN LateAccountDisconnect([r EXCEPT !.disconnecting = TRUE])
    ELSE r

\* _haze_connection_shut_down
ShutDown(r) ==
    CASE ~r.disconnecting /\ r.connect_called ->
            LateAccountDisconnect([r EXCEPT !.disconnecting = TRUE])
      [] ~r.connect_called -> FinishShutdown(r)
      [] OTHER -> r

\* tp_base_connection_change_status (DISCONNECTED)
ChangeStatusDisconnected(r, reaction) ==
    IF r.status = "DISCONNECTED" THEN r
    ELSE ShutDown(ClosePrompt([r EXCEPT !.status = "DISCONNECTED"], reaction))

-----------------------------------------------------------------------------
(* The libpurple side, in any status *)

\* Mutant: disconnected_cb leaves the end of the shutdown to shut_down.
DisconnectedCbNoIdle(r, reaction) ==
    ChangeStatusDisconnected([r EXCEPT !.disconnecting = TRUE], reaction)

\* disconnected_cb: the status change comes first, then the idle.
DisconnectedCb(r, reaction) ==
    LET told == ChangeStatusDisconnected([r EXCEPT !.disconnecting = TRUE], reaction)
    IN  [told EXCEPT !.finish_idle = @ + 1]

\* purple_account_disconnect
AccountDisconnect(r, reaction) == DropPurpleConnection(DisconnectedCb(r, reaction))

\* haze_report_disconnect_reason
ReportDisconnectReason(r, reaction) ==
    ChangeStatusDisconnected([r EXCEPT !.disconnecting = TRUE], reaction)

\* purple_connection_error_reason: the report, then the disconnect timeout.
\* Only the first error of a PurpleConnection is reported.
PurpleError(r, reaction) ==
    IF r.errored THEN r
    ELSE LET told == ReportDisconnectReason(r, reaction)
         IN  [told EXCEPT !.errored = (told.gc # "none")]

\* haze_request_password_cb (request, NULL)
CancelPasswordRequest(r, reaction) ==
    ClosePasswordRequest(IF reaction = "disconnect"
                         THEN AccountDisconnect(r, reaction)
                         ELSE PurpleError(r, reaction))

\* Mutant: connect_called is never set.
ConnectUnrecorded(r, reaction) ==
    IF r.gc = "none" THEN [r EXCEPT !.gc = "connecting"] ELSE r

\* purple_account_set_enabled, purple_account_connect, connect_called = TRUE.
\* libpurple ignores the call when the account has a PurpleConnection; if not,
\* the protocol's login may fail before purple_account_connect returns.
AccountConnect(r, reaction) ==
    LET started == [r EXCEPT !.gc = "connecting"]
        ran == IF r.gc # "none" THEN r
               ELSE IF reaction = "error"
               THEN PurpleError([started EXCEPT !.early = TRUE], reaction)
               ELSE started
    IN  [ran EXCEPT !.connect_called = TRUE]

-----------------------------------------------------------------------------
(* Main-loop events: requests over D-Bus *)

Init == conn = [c \in Conns |-> NoConnection]

Alive(c) == conn[c].phase = "alive"

\* Mutant: create_account does not look for an existing account.
RequestUnchecked(c) ==
    /\ conn[c].phase = "absent"
    /\ conn' = [conn EXCEPT ![c] = [NoConnection EXCEPT !.phase = "alive", !.password = TRUE]]

\* haze_protocol_new_connection and haze_connection_create_account: refused,
\* without any effect, while another object holds the account.
RequestConnection(c) ==
    /\ conn[c].phase = "absent"
    /\ \A d \in Conns : Alive(d) => AccountOf[d] # AccountOf[c]
    /\ \E known \in BOOLEAN :
          conn' = [conn EXCEPT ![c] =
                      [NoConnection EXCEPT !.phase = "alive", !.password = known]]

\* Connect: _haze_connection_start_connecting
StartConnecting(c) ==
    /\ Alive(c) /\ conn[c].status = "NEW"
    /\ LET r == [conn[c] EXCEPT !.status = "CONNECTING"] IN
       \/ /\ ~r.password
          /\ conn' = [conn EXCEPT ![c] = [r EXCEPT !.prompt = TRUE]]
       \/ /\ r.password
          /\ \E reaction \in {"none", "error"} :
                conn' = [conn EXCEPT ![c] = AccountConnect(r, reaction)]

\* Disconnect
RequestDisconnect(c) ==
    /\ Alive(c) /\ conn[c].status # "DISCONNECTED"
    /\ \E reaction \in {"error", "disconnect"} :
          conn' = [conn EXCEPT ![c] = ChangeStatusDisconnected(conn[c], reaction)]

\* The user gives the password: the success branch of
\* _haze_connection_password_manager_prompt_cb.
PasswordGiven(c) ==
    /\ conn[c].prompt
    /\ LET r == [conn[c] EXCEPT !.prompt = FALSE, !.password = TRUE] IN
       \E reaction \in {"none", "error"} :
          conn' = [conn EXCEPT ![c] =
                      IF ~r.password_request THEN AccountConnect(r, reaction)
                      ELSE ClosePasswordRequest(
                               IF reaction = "error" THEN PurpleError(r, reaction)
                               ELSE r)]

\* The user closes the password channel: the error branch.
PasswordRefused(c) ==
    /\ conn[c].prompt
    /\ LET r == [conn[c] EXCEPT !.prompt = FALSE] IN
       \E reaction \in {"error", "disconnect"} :
          conn' = [conn EXCEPT ![c] =
                      IF r.password_request THEN CancelPasswordRequest(r, reaction)
                      ELSE ChangeStatusDisconnected(r, reaction)]

-----------------------------------------------------------------------------
(* Main-loop events: the protocol plugin *)

Running(c) == conn[c].gc # "none" /\ ~conn[c].errored

\* Mutant: connected_cb after an error, while the timeout is pending.
ConnectedAfterError(c) ==
    /\ conn[c].gc = "connecting"
    /\ conn' = [conn EXCEPT ![c].gc = "connected", ![c].status = "CONNECTED"]

\* connected_cb.  A protocol that waits for a password does not connect.
Connected(c) ==
    /\ Running(c) /\ conn[c].gc = "connecting" /\ ~conn[c].pwreq
    /\ conn' = [conn EXCEPT ![c].gc = "connected", ![c].status = "CONNECTED"]

\* A connection error from the protocol.
ConnectionError(c) ==
    /\ Running(c)
    /\ \E reaction \in {"error", "disconnect"} :
          conn' = [conn EXCEPT ![c] = PurpleError(conn[c], reaction)]

\* libpurple's timeout after an error calls purple_account_disconnect.
DisconnectTimeout(c) ==
    /\ conn[c].gc # "none" /\ conn[c].errored
    /\ \E reaction \in {"error", "disconnect"} :
          conn' = [conn EXCEPT ![c] = AccountDisconnect(conn[c], reaction)]

\* purple_account_request_password: haze_request_fields and
\* haze_connection_request_password.
PurpleRequestPassword(c) ==
    /\ Running(c) /\ conn[c].gc = "connecting" /\ ~conn[c].pwreq
    /\ conn' = [conn EXCEPT ![c].pwreq = TRUE, ![c].password_request = TRUE,
                            ![c].prompt = TRUE]

\* Any other form: haze_request_fields queues its destruction.  One at a time.
PurpleRequestFields(c) ==
    /\ Running(c) /\ ~conn[c].fields /\ ~conn[c].destroy_idle
    /\ conn' = [conn EXCEPT ![c].fields = TRUE, ![c].destroy_idle = TRUE]

-----------------------------------------------------------------------------
(* Main-loop events: idle callbacks and the end of the object *)

\* The protocol's cancel callback for another request, which may report an error or
\* take the account offline.  A prompt that the status change then closes finds the
\* account already disconnected, so that its own cancel callback can only report.
CancelFieldsRequest(r, cancel, reaction) ==
    CASE cancel = "none"       -> r
      [] cancel = "error"      -> PurpleError(r, reaction)
      [] cancel = "disconnect" -> AccountDisconnect(r, "error")

\* haze_request_fields_destroy.  When the request was closed before the idle
\* runs, its data is freed memory; the model then takes the callback as lost.
FieldsDestroy(c) ==
    /\ conn[c].destroy_idle
    /\ LET r == [conn[c] EXCEPT !.destroy_idle = FALSE] IN
       \E cancel \in Reactions, reaction \in {"error", "disconnect"} :
          conn' = [conn EXCEPT ![c] =
                      IF r.fields THEN CloseFieldsRequest(CancelFieldsRequest(r, cancel, reaction))
                      ELSE r]

\* Mutant: the idle callback returns TRUE and runs again.
IdleFinishRepeats(c) ==
    /\ conn[c].finish_idle > 0
    /\ conn' = [conn EXCEPT ![c] = FinishShutdown(conn[c])]

\* idle_finish_shutdown
IdleFinishShutdown(c) ==
    /\ conn[c].finish_idle > 0
    /\ conn' = [conn EXCEPT ![c] =
                   FinishShutdown([conn[c] EXCEPT !.finish_idle = @ - 1])]

\* The connection manager drops its reference when the shutdown is finished:
\* haze_connection_finalize, purple_accounts_delete, which takes the account
\* offline first if it still is not.
Finalize(c) ==
    /\ Alive(c) /\ conn[c].finished > 0
    /\ LET r == [conn[c] EXCEPT !.phase = "finalized"] IN
       conn' = [conn EXCEPT ![c] =
                   IF r.gc = "none" THEN r ELSE LateAccountDisconnect(r)]

-----------------------------------------------------------------------------
Next ==
    \E c \in Conns :
        \/ RequestConnection(c) \/ StartConnecting(c) \/ RequestDisconnect(c)
        \/ PasswordGiven(c) \/ PasswordRefused(c)
        \/ Connected(c) \/ ConnectionError(c) \/ DisconnectTimeout(c)
        \/ PurpleRequestPassword(c) \/ PurpleRequestFields(c)
        \/ FieldsDestroy(c) \/ IdleFinishShutdown(c) \/ Finalize(c)

\* The main loop runs what is queued on it, and the connection manager lets
\* go of a connection that has shut down.  Users and protocols owe nothing.
Fairness ==
    \A c \in Conns :
        /\ WF_vars(DisconnectTimeout(c))
        /\ WF_vars(IdleFinishShutdown(c))
        /\ WF_vars(Finalize(c))

Spec == Init /\ [][Next]_vars
FairSpec == Spec /\ Fairness
-----------------------------------------------------------------------------
(* Properties *)

\* The types of the fields.  Every counter is bounded by what can be queued.
TypeOK == conn \in [Conns -> ConnState]

\* tp_base_connection_finish_shutdown is called when libpurple is done with the
\* account, never while the account still has a PurpleConnection (the comment
\* in disconnected_cb).  The one exception is a login that fails inside
\* purple_account_connect, when connect_called is not yet set.
FinishedAfterPurple ==
    \A c \in Conns :
        conn[c].finished > 0 /\ ~conn[c].early => conn[c].gc = "none"

\* The shutdown is finished once: tp-glib criticals are fatal (get_cm in
\* main.c), and a second idle_finish_shutdown would use a destroyed object.
FinishedOnce ==
    \A c \in Conns :
        ~conn[c].early =>
            /\ conn[c].finish_idle + conn[c].finished <= 1
            /\ conn[c].finish_idle > 0 => Alive(c)

\* No shutdown is lost: once the status is DISCONNECTED the shutdown is
\* finished, or its idle is queued, or libpurple is about to call
\* disconnected_cb, on whichever of the paths the connection went down.
ShutdownPending ==
    \A c \in Conns :
        conn[c].status = "DISCONNECTED" /\ conn[c].finished = 0 =>
            \/ conn[c].finish_idle > 0
            \/ conn[c].gc # "none" /\ conn[c].errored

\* priv->disconnecting and priv->connect_called decide whether shut_down calls
\* purple_account_disconnect, so they must agree with libpurple: it is called
\* only for an account that has a PurpleConnection and no error to report.
FlagsTellTheTruth ==
    \A c \in Conns :
        Alive(c) /\ ~conn[c].disconnecting =>
            /\ conn[c].connect_called <=> conn[c].gc # "none"
            /\ ~conn[c].errored

\* One account never has two PurpleConnections, even when a new connection is
\* requested while the shutdown of the previous one is still on its way.
OnePurpleConnectionPerAccount ==
    \A c, d \in Conns :
        c # d /\ AccountOf[c] = AccountOf[d] =>
            ~(conn[c].gc # "none" /\ (conn[d].gc # "none" \/ Alive(d)))

\* priv->password_request never dangles, and a password channel is open only
\* while there is somebody to answer: the connection is being made, and the
\* account is not yet connecting or the protocol's own request is open.  Whether
\* the answer reaches that request is another matter, see
\* PlainPromptMeansNeverConnected.
PromptIsAnswerable ==
    \A c \in Conns :
        /\ conn[c].password_request => conn[c].pwreq
        /\ conn[c].prompt =>
              /\ Alive(c) /\ conn[c].status = "CONNECTING"
              /\ conn[c].gc # "none" => conn[c].pwreq

\* The status D-Bus clients see only moves forward: a late connected_cb or a
\* second disconnect never revives a connection or repeats a change.
StatusOrder == <<"NEW", "CONNECTING", "CONNECTED", "DISCONNECTED">>
StatusMovesForward ==
    [][\A c \in Conns :
          Alive(c) /\ conn'[c].status # conn[c].status =>
              \E i, j \in 1..4 : /\ i < j
                                  /\ StatusOrder[i] = conn[c].status
                                  /\ StatusOrder[j] = conn'[c].status]_vars

\* Whatever brings a connection down, its account is released in the end.
AccountIsFreed ==
    \A c \in Conns :
        conn[c].status = "DISCONNECTED" ~> conn[c].phase = "finalized"

\* The connection as a client sees it implements ConnectionLifecycle.
Life(r) ==
    CASE r.phase = "absent"    -> "absent"
      [] r.phase = "finalized" -> "gone"
      [] r.phase = "alive" /\ r.finished > 0 -> "released"
      [] OTHER -> [NEW |-> "new", CONNECTING |-> "connecting",
                   CONNECTED |-> "connected",
                   DISCONNECTED |-> "disconnected"][r.status]

Lifecycle == INSTANCE ConnectionLifecycle WITH life <- [c \in Conns |-> Life(conn[c])]

ImplementsLifecycle == Lifecycle!FairSpec

-----------------------------------------------------------------------------
(* What comments of the code say, and what the code does not keep *)

\* connection.c, disconnected_cb: the shutdown must not be finished while
\* "we're currently inside libpurple code that uses" the account.
NeverFinishedInsidePurple ==
    \A c \in Conns : conn[c].finished > 0 => conn[c].gc = "none"

\* connection.c, the prompt callback: a prompt without a password request is
\* one where "_connect was never called".
PlainPromptMeansNeverConnected ==
    \A c \in Conns :
        conn[c].prompt /\ ~conn[c].password_request => ~conn[c].connect_called
=============================================================================
