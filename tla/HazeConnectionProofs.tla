------------------------ MODULE HazeConnectionProofs ------------------------
(***************************************************************************)
(* Proofs about HazeConnection, for every set of connections and accounts. *)
(*                                                                         *)
(* The inductive invariant has a local part, ConnInv, about the state of   *)
(* one connection between two main-loop events, and a global part,         *)
(* OneHolder.  Inside an event the local part is broken and restored: the  *)
(* lemmas on the operators say what each function needs and guarantees.    *)
(* From the invariant follow the safety properties, the order in which     *)
(* clients see the statuses, and the refinement of ConnectionLifecycle.    *)
(***************************************************************************)
EXTENDS HazeConnection, TLAPS

\* A connection that is not going down: nothing of the shutdown has begun, and
\* the account has a PurpleConnection exactly if connect_called is set.
UpInv(r) ==
    /\ ~r.disconnecting /\ ~r.errored /\ ~r.early
    /\ r.finished = 0 /\ r.finish_idle = 0
    /\ r.connect_called <=> r.gc # "none"
    /\ r.status = "NEW" => ~r.connect_called
    /\ r.status = "CONNECTED" <=> r.gc = "connected"
    /\ r.prompt => r.status = "CONNECTING"
    /\ r.prompt /\ r.gc # "none" => r.pwreq
    /\ r.phase # "finalized"

\* A connection that is going down: what is left of the shutdown is queued, or
\* libpurple still owes it, exactly once (twice after an early failure).
DownInv(r) ==
    /\ ~r.prompt
    /\ r.phase # "absent"
    /\ r.phase = "finalized" => r.finished > 0
    /\ r.gc # "none" => r.errored /\ r.disconnecting /\ r.phase = "alive"
    /\ r.early => r.finished > 0
    /\ r.connect_called => r.disconnecting
    /\ r.finished + r.finish_idle + (IF r.gc # "none" THEN 1 ELSE 0)
          = IF r.early THEN 2 ELSE 1

\* The requests of the protocol live as long as its PurpleConnection.
RequestInv(r) ==
    /\ r.password_request => r.pwreq
    /\ r.pwreq => r.gc = "connecting"
    /\ r.fields => r.gc # "none"
    /\ r.errored => r.gc # "none"

ConnInv(r) ==
    /\ r \in ConnState
    /\ RequestInv(r)
    /\ IF r.status = "DISCONNECTED" THEN DownInv(r) ELSE UpInv(r)
    /\ r.phase = "absent" => r = NoConnection

OneHolder ==
    \A c, d \in Conns : Alive(c) /\ Alive(d) /\ AccountOf[c] = AccountOf[d] => c = d

IInv == TypeOK /\ (\A c \in Conns : ConnInv(conn[c])) /\ OneHolder

-----------------------------------------------------------------------------
(* Lemmas on the functions of request.c and on dropping the connection *)

\* s and r agree on what closing requests never changes.
SameLife(s, r) ==
    /\ s.phase = r.phase /\ s.status = r.status
    /\ s.connect_called = r.connect_called /\ s.prompt = r.prompt
    /\ s.finished = r.finished /\ s.early = r.early

\* ... and on what only a disconnection or an error changes.
SameShutdown(s, r) ==
    /\ s.disconnecting = r.disconnecting /\ s.finish_idle = r.finish_idle
    /\ s.gc = r.gc /\ s.errored = r.errored

\* haze_close_request on the password request leaves no pointer to it.
LEMMA ClosePasswordRequestFacts ==
    ASSUME NEW r \in ConnState
    PROVE  LET s == ClosePasswordRequest(r) IN
           /\ s \in ConnState
           /\ SameLife(s, r) /\ SameShutdown(s, r) /\ s.fields = r.fields
           /\ ~s.pwreq
           /\ (r.password_request => r.pwreq) => ~s.password_request
<1> DEFINE s == ClosePasswordRequest(r)
<1>1. CASE r.pwreq
  <2>1. s = [r EXCEPT !.pwreq = FALSE, !.password_request = FALSE]
    BY <1>1 DEF ClosePasswordRequest
  <2>2. s \in ConnState
    BY <2>1 DEF ConnState
  <2>3. SameLife(s, r) /\ SameShutdown(s, r) /\ s.fields = r.fields
    BY <2>1 DEF ConnState, SameLife, SameShutdown
  <2>4. ~s.pwreq /\ ~s.password_request
    BY <2>1 DEF ConnState
  <2>. QED BY <2>2, <2>3, <2>4
<1>2. CASE ~r.pwreq
  <2>1. s = r
    BY <1>2 DEF ClosePasswordRequest
  <2>. QED BY <2>1, <1>2 DEF SameLife, SameShutdown
<1>. QED BY <1>1, <1>2

\* haze_close_request on another request.
LEMMA CloseFieldsRequestFacts ==
    ASSUME NEW r \in ConnState
    PROVE  LET s == CloseFieldsRequest(r) IN
           /\ s \in ConnState
           /\ SameLife(s, r) /\ SameShutdown(s, r) /\ s.pwreq = r.pwreq
           /\ ~s.fields
           /\ s.password_request => r.password_request
<1> DEFINE s == CloseFieldsRequest(r)
<1>1. CASE r.fields
  <2>1. s = [r EXCEPT !.fields = FALSE, !.password_request = FALSE]
    BY <1>1 DEF CloseFieldsRequest
  <2>2. s \in ConnState
    BY <2>1 DEF ConnState
  <2>3. SameLife(s, r) /\ SameShutdown(s, r) /\ s.pwreq = r.pwreq
    BY <2>1 DEF ConnState, SameLife, SameShutdown
  <2>4. ~s.fields /\ ~s.password_request
    BY <2>1 DEF ConnState
  <2>. QED BY <2>2, <2>3, <2>4
<1>2. CASE ~r.fields
  <2>1. s = r
    BY <1>2 DEF CloseFieldsRequest
  <2>. QED BY <2>1, <1>2 DEF SameLife, SameShutdown
<1>. QED BY <1>1, <1>2

\* Dropping the PurpleConnection closes every request made with it.
LEMMA DropPurpleConnectionFacts ==
    ASSUME NEW r \in ConnState, r.password_request => r.pwreq
    PROVE  LET s == DropPurpleConnection(r) IN
           /\ s \in ConnState
           /\ SameLife(s, r)
           /\ s.disconnecting = r.disconnecting /\ s.finish_idle = r.finish_idle
           /\ s.gc = "none"
           /\ RequestInv(s)
<1> DEFINE r1 == [r EXCEPT !.gc = "none", !.errored = FALSE]
           r2 == ClosePasswordRequest(r1)
<1>1. /\ r1 \in ConnState
      /\ SameLife(r1, r) /\ r1.finish_idle = r.finish_idle
      /\ r1.disconnecting = r.disconnecting /\ r1.gc = "none" /\ ~r1.errored
      /\ r1.password_request => r1.pwreq
  BY DEF ConnState, SameLife
<1>2. /\ r2 \in ConnState
      /\ SameLife(r2, r1) /\ SameShutdown(r2, r1)
      /\ ~r2.pwreq /\ ~r2.password_request
  BY <1>1, ClosePasswordRequestFacts
<1>. QED
  BY <1>1, <1>2, CloseFieldsRequestFacts, ZenonT(60)
  DEF DropPurpleConnection, RequestInv, SameLife, SameShutdown

-----------------------------------------------------------------------------
(* Lemmas on the shutdown *)

\* purple_account_disconnect, once the status is DISCONNECTED.
LEMMA LateAccountDisconnectFacts ==
    ASSUME NEW r \in ConnState, r.password_request => r.pwreq, r.finish_idle < 2
    PROVE  LET s == LateAccountDisconnect(r) IN
           /\ s \in ConnState
           /\ SameLife(s, r) /\ RequestInv(s)
           /\ s.disconnecting /\ s.finish_idle = r.finish_idle + 1 /\ s.gc = "none"
<1> DEFINE r1 == [r EXCEPT !.disconnecting = TRUE, !.finish_idle = @ + 1]
<1>1. r.finish_idle + 1 \in 0..2
  BY DEF ConnState
<1>2. /\ r1 \in ConnState
      /\ SameLife(r1, r) /\ r1.finish_idle = r.finish_idle + 1
      /\ r1.disconnecting
      /\ r1.password_request => r1.pwreq
  BY <1>1 DEF ConnState, SameLife
<1>. QED
  BY <1>2, DropPurpleConnectionFacts DEF LateAccountDisconnect, SameLife

\* What is left of a connection whose password channel has been closed: the
\* account went offline at once, or with an error, or was not concerned.
Prompted(s, r) ==
    \/ SameShutdown(s, r)
    \/ s.gc = "none" /\ s.finish_idle = 1 /\ s.disconnecting /\ r.gc # "none"
    \/ s.gc = r.gc /\ r.gc # "none" /\ s.finish_idle = 0 /\ s.disconnecting /\ s.errored

\* The password manager's reaction to the status DISCONNECTED.
LEMMA ClosePromptFacts ==
    ASSUME NEW r \in ConnState, RequestInv(r), r.finish_idle = 0, NEW reaction
    PROVE  LET s == ClosePrompt(r, reaction) IN
           /\ s \in ConnState /\ RequestInv(s)
           /\ ~s.prompt
           /\ s.phase = r.phase /\ s.status = r.status
           /\ s.connect_called = r.connect_called
           /\ s.finished = r.finished /\ s.early = r.early
           /\ Prompted(s, r)
<1> DEFINE s == ClosePrompt(r, reaction)
           closed == [r EXCEPT !.prompt = FALSE]
<1>1. /\ closed \in ConnState
      /\ ~closed.prompt
      /\ closed.phase = r.phase /\ closed.status = r.status
      /\ closed.connect_called = r.connect_called
      /\ closed.finished = r.finished /\ closed.early = r.early
      /\ closed.pwreq = r.pwreq /\ closed.fields = r.fields
      /\ closed.password_request = r.password_request
      /\ SameShutdown(closed, r)
  BY DEF ConnState, SameShutdown
<1>2. RequestInv(closed)
  BY <1>1 DEF RequestInv, SameShutdown
<1>3. CASE ~(r.prompt /\ r.password_request)
  <2>1. s = closed
    BY <1>3 DEF ClosePrompt
  <2>. QED BY <2>1, <1>1, <1>2 DEF Prompted
<1>4. CASE r.prompt /\ r.password_request
  <2>1. s = LateCancelPasswordRequest(closed, reaction)
    BY <1>4 DEF ClosePrompt
  <2>2. closed.finish_idle = 0 /\ closed.gc # "none" /\ r.gc # "none"
    BY <1>1, <1>4 DEF RequestInv, SameShutdown
  <2>3. CASE reaction = "disconnect"
    <3> DEFINE off == LateAccountDisconnect(closed)
    <3>0. /\ closed.finish_idle < 2 /\ closed.finish_idle + 1 = 1
          /\ closed.password_request => closed.pwreq
      BY <1>2, <2>2 DEF RequestInv
    <3>1. /\ off \in ConnState
          /\ SameLife(off, closed) /\ RequestInv(off)
          /\ off.disconnecting /\ off.finish_idle = 1 /\ off.gc = "none"
      BY <1>1, <3>0, LateAccountDisconnectFacts
    <3>2. s = ClosePasswordRequest(off)
      BY <2>1, <2>3 DEF LateCancelPasswordRequest
    <3>3. /\ s \in ConnState
          /\ SameLife(s, off) /\ SameShutdown(s, off) /\ s.fields = off.fields
          /\ ~s.pwreq /\ ~s.password_request
      BY <3>1, <3>2, ClosePasswordRequestFacts DEF RequestInv
    <3>. QED
      BY <3>1, <3>3, <1>1, <2>2 DEF SameLife, SameShutdown, RequestInv, Prompted
  <2>4. CASE reaction # "disconnect"
    <3> DEFINE err == LatePurpleError(closed)
    <3>1. /\ err \in ConnState
          /\ SameLife(err, closed)
          /\ err.gc = closed.gc /\ err.finish_idle = 0
          /\ err.fields = closed.fields
          /\ err.pwreq = closed.pwreq /\ err.password_request = closed.password_request
          /\ err.disconnecting /\ err.errored
      BY <1>1, <2>2 DEF LatePurpleError, ConnState, SameLife
    <3>2. s = ClosePasswordRequest(err)
      BY <2>1, <2>4 DEF LateCancelPasswordRequest
    <3>3. /\ s \in ConnState
          /\ SameLife(s, err) /\ SameShutdown(s, err) /\ s.fields = err.fields
          /\ ~s.pwreq /\ ~s.password_request
      BY <3>1, <3>2, <1>2, ClosePasswordRequestFacts DEF RequestInv
    <3>. QED
      BY <3>1, <3>3, <1>1, <1>2, <2>2, ZenonT(60) DEF SameLife, SameShutdown, RequestInv, Prompted
  <2>. QED BY <2>3, <2>4
<1>. QED BY <1>3, <1>4

\* A connection that is up, in the middle of an event: haze may already have
\* set disconnecting, because libpurple reported an error or disconnects.
Leaving(r) ==
    /\ r \in ConnState /\ RequestInv(r)
    /\ r.phase = "alive" /\ r.status # "DISCONNECTED"
    /\ ~r.early /\ ~r.errored
    /\ r.finished = 0 /\ r.finish_idle = 0
    /\ r.connect_called <=> r.gc # "none"

\* A connection that libpurple will still disconnect, or has just disconnected.
Left(s) ==
    /\ s \in ConnState /\ RequestInv(s)
    /\ s.phase = "alive" /\ s.status = "DISCONNECTED"
    /\ ~s.prompt /\ ~s.early
    /\ s.disconnecting /\ s.connect_called
    /\ s.finished = 0
    /\ \/ s.gc = "none" /\ s.finish_idle = 1
       \/ s.gc # "none" /\ s.finish_idle = 0

\* libpurple reports an error or a disconnection: shut_down leaves it to
\* libpurple to disconnect the account.
LEMMA ChangeStatusByPurple ==
    ASSUME NEW r, Leaving(r), r.disconnecting, r.connect_called, NEW reaction
    PROVE  LET s == ChangeStatusDisconnected(r, reaction) IN
           /\ Left(s)
           /\ ~r.prompt \/ reaction # "disconnect" => s.gc = r.gc
<1> DEFINE r1 == [r EXCEPT !.status = "DISCONNECTED"]
           r2 == ClosePrompt(r1, reaction)
<1>1. /\ r1 \in ConnState
      /\ r1.status = "DISCONNECTED" /\ r1.phase = r.phase
      /\ r1.connect_called = r.connect_called /\ r1.prompt = r.prompt
      /\ r1.finished = r.finished /\ r1.early = r.early
      /\ r1.pwreq = r.pwreq /\ r1.fields = r.fields
      /\ r1.password_request = r.password_request
      /\ SameShutdown(r1, r)
  BY DEF Leaving, ConnState, SameShutdown
<1>2. RequestInv(r1) /\ r1.finish_idle = 0
  BY <1>1 DEF Leaving, RequestInv, SameShutdown
<1>3. /\ r2 \in ConnState /\ RequestInv(r2)
      /\ ~r2.prompt
      /\ r2.phase = r1.phase /\ r2.status = r1.status
      /\ r2.connect_called = r1.connect_called
      /\ r2.finished = r1.finished /\ r2.early = r1.early
      /\ Prompted(r2, r1)
  BY <1>1, <1>2, ClosePromptFacts
<1>4. r2.disconnecting /\ r2.connect_called
  BY <1>1, <1>3 DEF Prompted, SameShutdown
<1>5. ChangeStatusDisconnected(r, reaction) = r2
  BY <1>4 DEF ChangeStatusDisconnected, ShutDown, Leaving
<1>6. Left(r2)
  BY <1>1, <1>3, <1>4 DEF Left, Leaving, Prompted, SameShutdown
<1>7. ~r.prompt => r2.gc = r.gc
  BY <1>1 DEF ClosePrompt, SameShutdown, ConnState
<1>8. reaction # "disconnect" => r2.gc = r1.gc
  <2> DEFINE closed == [r1 EXCEPT !.prompt = FALSE]
             err == LatePurpleError(closed)
  <2>1. closed \in ConnState /\ closed.gc = r1.gc
    BY <1>1 DEF ConnState
  <2> HIDE DEF closed
  <2>2. err \in ConnState /\ err.gc = closed.gc
    BY <2>1 DEF LatePurpleError, ConnState
  <2> HIDE DEF err
  <2>3. ClosePasswordRequest(err).gc = err.gc
    BY <2>2, ClosePasswordRequestFacts DEF SameShutdown
  <2>. QED BY <2>1, <2>2, <2>3 DEF ClosePrompt, LateCancelPasswordRequest, closed, err
<1>9. r1.gc = r.gc
  BY <1>1 DEF SameShutdown
<1>. QED BY <1>5, <1>6, <1>7, <1>8, <1>9

\* Disconnect, or a refused password before the login: shut_down disconnects
\* the account itself, or finishes at once when the login never began.
LEMMA ChangeStatusByUser ==
    ASSUME NEW r, ConnInv(r), r.phase = "alive", r.status # "DISCONNECTED", NEW reaction
    PROVE  ConnInv(ChangeStatusDisconnected(r, reaction))
<1> DEFINE r1 == [r EXCEPT !.status = "DISCONNECTED"]
           r2 == ClosePrompt(r1, reaction)
           s == ChangeStatusDisconnected(r, reaction)
<1>0. r \in ConnState /\ RequestInv(r) /\ UpInv(r)
  BY DEF ConnInv
<1>1. /\ r1 \in ConnState
      /\ r1.status = "DISCONNECTED" /\ r1.phase = r.phase
      /\ r1.connect_called = r.connect_called /\ r1.prompt = r.prompt
      /\ r1.finished = r.finished /\ r1.early = r.early
      /\ r1.pwreq = r.pwreq /\ r1.fields = r.fields
      /\ r1.password_request = r.password_request
      /\ SameShutdown(r1, r)
  BY <1>0 DEF ConnState, SameShutdown
<1>2. RequestInv(r1) /\ r1.finish_idle = 0
  BY <1>0, <1>1 DEF UpInv, RequestInv, SameShutdown
<1>3. /\ r2 \in ConnState /\ RequestInv(r2)
      /\ ~r2.prompt
      /\ r2.phase = r1.phase /\ r2.status = r1.status
      /\ r2.connect_called = r1.connect_called
      /\ r2.finished = r1.finished /\ r2.early = r1.early
      /\ Prompted(r2, r1)
  BY <1>1, <1>2, ClosePromptFacts
<1>4. s = ShutDown(r2)
  BY DEF ChangeStatusDisconnected
<1>5. /\ ~r2.early /\ r2.finished = 0 /\ r2.status = "DISCONNECTED"
      /\ r2.phase = "alive"
      /\ r2.connect_called = r.connect_called
  BY <1>0, <1>1, <1>3 DEF UpInv
<1>6. CASE ~r2.disconnecting /\ r2.connect_called
  <2> DEFINE r3 == [r2 EXCEPT !.disconnecting = TRUE]
  <2>1. s = LateAccountDisconnect(r3)
    BY <1>4, <1>6 DEF ShutDown
  <2>2. r2.finish_idle = 0
    BY <1>2, <1>3, <1>6 DEF Prompted, SameShutdown
  <2>3. /\ r3 \in ConnState /\ SameLife(r3, r2)
        /\ r3.password_request => r3.pwreq
        /\ r3.finish_idle = 0
    BY <1>3, <2>2 DEF ConnState, SameLife, RequestInv
  <2>. r3.finish_idle < 2 /\ r3.finish_idle + 1 = 1
    BY <2>3
  <2>4. /\ s \in ConnState
        /\ SameLife(s, r3) /\ RequestInv(s)
        /\ s.disconnecting /\ s.finish_idle = 1 /\ s.gc = "none"
    BY <2>1, <2>3, LateAccountDisconnectFacts
  <2>. QED
    BY <1>3, <1>5, <2>3, <2>4 DEF ConnInv, DownInv, SameLife
<1>7. CASE ~r2.connect_called
  <2>1. r.gc = "none" /\ ~r.disconnecting /\ ~r.errored /\ r.finish_idle = 0
    BY <1>0, <1>5, <1>7 DEF UpInv
  <2>2. r2.gc = "none" /\ r2.finish_idle = 0 /\ ~r2.disconnecting
    BY <1>1, <1>3, <2>1 DEF Prompted, SameShutdown
  <2>3. s = [r2 EXCEPT !.finished = r2.finished + 1]
    BY <1>4, <1>7 DEF ShutDown, FinishShutdown
  <2>4. r2.finished + 1 = 1 /\ 1 \in 0..2
    BY <1>5
  <2>5. s = [r2 EXCEPT !.finished = 1]
    BY <2>3, <2>4
  <2>6. s \in ConnState /\ s.finished = 1
    BY <2>5, <2>4, <1>3 DEF ConnState
  <2>7. /\ s.phase = "alive" /\ s.status = "DISCONNECTED" /\ ~s.prompt
        /\ ~s.early /\ s.gc = "none" /\ s.finish_idle = 0
        /\ RequestInv(s) /\ ~s.connect_called
    BY <2>5, <2>2, <1>3, <1>5, <1>7 DEF ConnState, RequestInv
  <2>. QED BY <2>6, <2>7 DEF ConnInv, DownInv
<1>8. CASE r2.disconnecting /\ r2.connect_called
  <2>1. s = r2
    BY <1>4, <1>8 DEF ShutDown
  <2>2. \/ r2.gc = "none" /\ r2.finish_idle = 1
        \/ r2.gc # "none" /\ r2.finish_idle = 0 /\ r2.errored
    BY <1>0, <1>1, <1>3, <1>8 DEF Prompted, SameShutdown, UpInv
  <2>. QED BY <2>1, <2>2, <1>3, <1>5, <1>8 DEF ConnInv, DownInv
<1>. QED BY <1>6, <1>7, <1>8

\* A connection error: what is left is for the disconnect timeout to do.
LEMMA PurpleErrorKeeps ==
    ASSUME NEW r, Leaving(r), r.connect_called, NEW reaction
    PROVE  LET s == PurpleError(r, reaction) IN ConnInv(s) /\ ~s.prompt
<1> DEFINE r1 == [r EXCEPT !.disconnecting = TRUE]
           r2 == ChangeStatusDisconnected(r1, reaction)
           s == PurpleError(r, reaction)
<1>1. Leaving(r1) /\ r1.disconnecting /\ r1.connect_called
  BY DEF Leaving, ConnState, RequestInv
<1>2. Left(r2)
  BY <1>1, ChangeStatusByPurple
<1>3. s = [r2 EXCEPT !.errored = (r2.gc # "none")]
  BY DEF PurpleError, ReportDisconnectReason, Leaving
<1>4. (r2.gc # "none") \in BOOLEAN
  OBVIOUS
<1>5. /\ s \in ConnState
      /\ s.errored = (r2.gc # "none") /\ s.gc = r2.gc
      /\ s.phase = "alive" /\ s.status = "DISCONNECTED"
      /\ ~s.prompt /\ ~s.early /\ s.disconnecting
      /\ s.finished = 0 /\ s.finish_idle = r2.finish_idle
      /\ s.pwreq = r2.pwreq /\ s.fields = r2.fields
      /\ s.password_request = r2.password_request
  BY <1>2, <1>3, <1>4, ZenonT(60) DEF Left, ConnState
<1>6. RequestInv(s)
  BY <1>2, <1>5 DEF Left, RequestInv
<1>7. s.finished + s.finish_idle + (IF s.gc # "none" THEN 1 ELSE 0) = 1
  BY <1>2, <1>5 DEF Left
<1>. QED BY <1>5, <1>6, <1>7 DEF ConnInv, DownInv

\* purple_account_disconnect outside a shutdown of haze's own.
LEMMA AccountDisconnectKeeps ==
    ASSUME NEW r, Leaving(r), r.connect_called, NEW reaction, ~r.prompt \/ reaction = "error"
    PROVE  LET s == AccountDisconnect(r, reaction) IN
           ConnInv(s) /\ s.gc = "none" /\ s.status = "DISCONNECTED" /\ ~s.pwreq
<1> DEFINE r1 == [r EXCEPT !.disconnecting = TRUE]
           r2 == ChangeStatusDisconnected(r1, reaction)
           r3 == [r2 EXCEPT !.finish_idle = @ + 1]
           s == AccountDisconnect(r, reaction)
<1>1. /\ Leaving(r1) /\ r1.disconnecting /\ r1.connect_called
      /\ r1.prompt = r.prompt /\ r1.gc = r.gc
  BY DEF Leaving, ConnState, RequestInv
<1>2. Left(r2) /\ r2.gc = r.gc
  BY <1>1, ChangeStatusByPurple
<1>3. r2.finish_idle = 0
  BY <1>2 DEF Left, Leaving
<1>4. r2.finish_idle + 1 = 1 /\ 1 \in 0..2
  BY <1>3
<1>5. r3 = [r2 EXCEPT !.finish_idle = 1]
  BY <1>4
<1>6. /\ r3 \in ConnState /\ SameLife(r3, r2)
      /\ r3.disconnecting /\ r3.finish_idle = 1
      /\ r3.password_request => r3.pwreq
  BY <1>2, <1>4, <1>5 DEF Left, ConnState, SameLife, RequestInv
<1>7. s = DropPurpleConnection(r3)
  BY DEF AccountDisconnect, DisconnectedCb
<1>8. /\ s \in ConnState /\ SameLife(s, r3)
      /\ s.disconnecting /\ s.finish_idle = 1 /\ s.gc = "none" /\ RequestInv(s)
  BY <1>6, <1>7, DropPurpleConnectionFacts
<1>. QED
  BY <1>2, <1>6, <1>8 DEF ConnInv, DownInv, Left, SameLife, RequestInv

\* Closing requests at the end of an event keeps the invariant.
LEMMA ClosePasswordRequestKeeps ==
    ASSUME NEW r, ConnInv(r), r.prompt => ~r.pwreq
    PROVE  ConnInv(ClosePasswordRequest(r))
<1> DEFINE s == ClosePasswordRequest(r)
<1>1. r \in ConnState /\ RequestInv(r)
  BY DEF ConnInv
<1>2. /\ s \in ConnState
      /\ SameLife(s, r) /\ SameShutdown(s, r) /\ s.fields = r.fields
      /\ ~s.pwreq /\ ~s.password_request
  BY <1>1, ClosePasswordRequestFacts DEF RequestInv
<1>3. RequestInv(s)
  BY <1>1, <1>2 DEF RequestInv, SameShutdown
<1>4. CASE r.phase = "absent"
  <2>1. s = r
    BY <1>4 DEF ConnInv, NoConnection, ClosePasswordRequest
  <2>. QED BY <2>1
<1>5. CASE r.phase # "absent" /\ r.status = "DISCONNECTED"
  <2>1. DownInv(s)
    BY <1>2, <1>5 DEF ConnInv, DownInv, SameLife, SameShutdown
  <2>. QED BY <2>1, <1>2, <1>3, <1>5 DEF ConnInv, SameLife
<1>6. CASE r.phase # "absent" /\ r.status # "DISCONNECTED"
  <2>1. s.prompt => s.gc = "none"
    BY <1>2, <1>6 DEF ConnInv, UpInv, SameLife, SameShutdown
  <2>2. UpInv(s)
    BY <1>2, <1>6, <2>1 DEF ConnInv, UpInv, SameLife, SameShutdown
  <2>. QED BY <2>2, <1>2, <1>3, <1>6 DEF ConnInv, SameLife
<1>. QED BY <1>4, <1>5, <1>6

\* The same for another request of the protocol.
LEMMA CloseFieldsRequestKeeps ==
    ASSUME NEW r, ConnInv(r)
    PROVE  ConnInv(CloseFieldsRequest(r))
<1> DEFINE s == CloseFieldsRequest(r)
<1>1. r \in ConnState /\ RequestInv(r)
  BY DEF ConnInv
<1>2. /\ s \in ConnState
      /\ SameLife(s, r) /\ SameShutdown(s, r) /\ s.pwreq = r.pwreq
      /\ ~s.fields
      /\ s.password_request => r.password_request
  BY <1>1, CloseFieldsRequestFacts
<1>3. RequestInv(s)
  BY <1>1, <1>2 DEF RequestInv, SameShutdown
<1>4. CASE r.phase = "absent"
  <2>1. s = r
    BY <1>4 DEF ConnInv, NoConnection, CloseFieldsRequest
  <2>. QED BY <2>1
<1>5. CASE r.phase # "absent" /\ r.status = "DISCONNECTED"
  <2>1. DownInv(s)
    BY <1>2, <1>5 DEF ConnInv, DownInv, SameLife, SameShutdown
  <2>. QED BY <2>1, <1>2, <1>3, <1>5 DEF ConnInv, SameLife
<1>6. CASE r.phase # "absent" /\ r.status # "DISCONNECTED"
  <2>1. UpInv(s)
    BY <1>2, <1>6 DEF ConnInv, UpInv, SameLife, SameShutdown
  <2>. QED BY <2>1, <1>2, <1>3, <1>6 DEF ConnInv, SameLife
<1>. QED BY <1>4, <1>5, <1>6

\* An error from inside purple_account_connect: shut_down sees connect_called
\* still FALSE and finishes the shutdown with libpurple in the middle of it.
LEMMA EarlyErrorKeeps ==
    ASSUME NEW r, Leaving(r), ~r.prompt, ~r.connect_called, NEW reaction
    PROVE  LET started == [r EXCEPT !.gc = "connecting", !.early = TRUE] IN
           ConnInv([PurpleError(started, reaction) EXCEPT !.connect_called = TRUE])
<1> DEFINE r0 == [r EXCEPT !.gc = "connecting", !.early = TRUE]
           r1 == [r0 EXCEPT !.disconnecting = TRUE]
           r2 == [r1 EXCEPT !.status = "DISCONNECTED"]
           r3 == [r2 EXCEPT !.prompt = FALSE]
           e  == PurpleError(r0, reaction)
           s  == [e EXCEPT !.connect_called = TRUE]
<1>1. /\ r3 \in ConnState
      /\ r3.status = "DISCONNECTED" /\ r3.phase = "alive" /\ ~r3.prompt
      /\ r3.gc = "connecting" /\ r3.early /\ r3.disconnecting
      /\ ~r3.connect_called
      /\ r3.finished = 0 /\ r3.finish_idle = 0
      /\ r3.fields = r.fields /\ r3.pwreq = r.pwreq
      /\ r3.password_request = r.password_request
  BY DEF Leaving, ConnState
<1>2. ClosePrompt(r2, reaction) = r3
  BY DEF ClosePrompt, Leaving, ConnState
<1>3. r1.status # "DISCONNECTED" /\ ~r0.errored
  BY DEF Leaving, ConnState
<1>4. ChangeStatusDisconnected(r1, reaction) = FinishShutdown(r3)
  BY <1>1, <1>2, <1>3 DEF ChangeStatusDisconnected, ShutDown
<1>5. r3.finished + 1 = 1 /\ 1 \in 0..2
  BY <1>1
<1> HIDE DEF r3
<1> DEFINE f == [r3 EXCEPT !.finished = 1]
<1>6. FinishShutdown(r3) = f
  BY <1>5 DEF FinishShutdown
<1>7. f \in ConnState /\ f.gc = "connecting"
  BY <1>1, <1>5 DEF ConnState
<1>8. e = [f EXCEPT !.errored = TRUE]
  BY <1>3, <1>4, <1>6, <1>7 DEF PurpleError, ReportDisconnectReason
<1> HIDE DEF e
<1> DEFINE g == [r3 EXCEPT !.finished = 1, !.errored = TRUE, !.connect_called = TRUE]
<1>8a. s = g
  BY <1>1, <1>8 DEF ConnState
<1>9. s \in ConnState
  BY <1>1, <1>5, <1>8a DEF ConnState
<1> HIDE DEF s
<1>10. /\ s.status = "DISCONNECTED" /\ s.phase = "alive" /\ ~s.prompt
       /\ s.gc = "connecting" /\ s.early /\ s.disconnecting /\ s.errored
       /\ s.finished = 1 /\ s.finish_idle = 0
       /\ s.fields = r.fields /\ s.pwreq = r.pwreq
       /\ s.password_request = r.password_request
  BY <1>1, <1>8a DEF ConnState
<1>11. RequestInv(s)
  BY <1>10 DEF Leaving, RequestInv
<1>12. ConnInv(s)
  BY <1>9, <1>10, <1>11 DEF ConnInv, DownInv
<1>. QED BY <1>12 DEF s, e

\* purple_account_connect, called once the password is known.
LEMMA AccountConnectKeeps ==
    ASSUME NEW r, Leaving(r), ~r.prompt, ~r.disconnecting, r.status = "CONNECTING",
           r.gc # "connected", NEW reaction
    PROVE  ConnInv(AccountConnect(r, reaction))
<1> DEFINE started == [r EXCEPT !.gc = "connecting"]
<1>1. CASE r.gc # "none"
  <2>1. AccountConnect(r, reaction) = [r EXCEPT !.connect_called = TRUE]
    BY <1>1 DEF AccountConnect
  <2>2. r.connect_called
    BY <1>1 DEF Leaving
  <2>3. [r EXCEPT !.connect_called = TRUE] = r
    BY <2>2 DEF Leaving, ConnState
  <2>4. UpInv(r)
    BY <1>1, <2>2 DEF Leaving, UpInv, ConnState
  <2>. QED BY <2>1, <2>3, <2>4 DEF Leaving, ConnInv
<1>2. CASE r.gc = "none" /\ reaction = "error"
  <2>1. AccountConnect(r, reaction) =
            [PurpleError([started EXCEPT !.early = TRUE], reaction)
                EXCEPT !.connect_called = TRUE]
    BY <1>2 DEF AccountConnect
  <2>2. [started EXCEPT !.early = TRUE] = [r EXCEPT !.gc = "connecting", !.early = TRUE]
    OBVIOUS
  <2>3. ~r.connect_called
    BY <1>2 DEF Leaving
  <2>4. ConnInv([PurpleError([r EXCEPT !.gc = "connecting", !.early = TRUE], reaction)
                    EXCEPT !.connect_called = TRUE])
    BY <2>3, EarlyErrorKeeps
  <2>. QED BY <2>1, <2>2, <2>4
<1>3. CASE r.gc = "none" /\ reaction # "error"
  <2> DEFINE s == [started EXCEPT !.connect_called = TRUE]
  <2>1. AccountConnect(r, reaction) = s
    BY <1>3 DEF AccountConnect
  <2>2. s \in ConnState
    BY DEF Leaving, ConnState
  <2>3. /\ s.phase = "alive" /\ s.status = "CONNECTING" /\ ~s.prompt
        /\ ~s.early /\ ~s.errored /\ ~s.disconnecting
        /\ s.finished = 0 /\ s.finish_idle = 0
        /\ s.connect_called /\ s.gc = "connecting"
        /\ s.pwreq = r.pwreq /\ s.fields = r.fields
        /\ s.password_request = r.password_request
    BY DEF Leaving, ConnState
  <2> HIDE DEF s
  <2>4. RequestInv(s)
    BY <2>3 DEF Leaving, RequestInv
  <2>5. UpInv(s)
    BY <2>3 DEF UpInv
  <2>. QED BY <2>1, <2>2, <2>3, <2>4, <2>5 DEF ConnInv
<1>. QED BY <1>1, <1>2, <1>3

-----------------------------------------------------------------------------
(* The inductive invariant *)

\* An event of one connection that keeps the local part, and does not bring
\* the object to life, keeps the invariant.
LEMMA LocalStep ==
    ASSUME IInv, NEW c \in Conns, NEW r, ConnInv(r),
           r.phase = "alive" => Alive(c),
           conn' = [conn EXCEPT ![c] = r]
    PROVE  IInv'
<1>0. r \in ConnState
  BY DEF ConnInv
<1>1. TypeOK' /\ \A d \in Conns : conn'[d] = IF d = c THEN r ELSE conn[d]
  BY <1>0 DEF IInv, TypeOK
<1>2. (\A d \in Conns : ConnInv(conn[d]))'
  BY <1>1 DEF IInv
<1>3. OneHolder'
  BY <1>1 DEF IInv, OneHolder, Alive
<1>. QED BY <1>1, <1>2, <1>3 DEF IInv

\* A connection that is up, seen from the start of an event.
LEMMA UpIsLeaving ==
    ASSUME NEW r, ConnInv(r), r.phase = "alive", r.status # "DISCONNECTED"
    PROVE  Leaving(r) /\ ~r.disconnecting
BY DEF ConnInv, UpInv, Leaving

\* libpurple or the user can only act on an object that was requested.
LEMMA ActiveIsUp ==
    ASSUME NEW r, ConnInv(r), r.prompt \/ (r.gc # "none" /\ ~r.errored)
    PROVE  /\ r.phase = "alive" /\ r.status # "DISCONNECTED"
           /\ r.gc # "none" => r.connect_called
<1>1. r.phase # "absent"
  BY DEF ConnInv, NoConnection
<1>2. r.status # "DISCONNECTED"
  BY DEF ConnInv, DownInv
<1>. QED BY <1>1, <1>2 DEF ConnInv, UpInv, ConnState

\* A new object starts up, and is the only one alive on its account.
LEMMA RequestConnectionStep ==
    ASSUME IInv, NEW c \in Conns, RequestConnection(c)
    PROVE  IInv'
<1>1. PICK known \in BOOLEAN :
          conn' = [conn EXCEPT ![c] =
                      [NoConnection EXCEPT !.phase = "alive", !.password = known]]
  BY DEF RequestConnection
<1> DEFINE r == [NoConnection EXCEPT !.phase = "alive", !.password = known]
<1> HIDE DEF r
<1>2. ConnInv(r)
  <2>1. r \in ConnState
    <3>1. 0 \in 0..2
      OBVIOUS
    <3>. QED BY <3>1 DEF r, NoConnection, ConnState
  <2>2. r.phase = "alive" /\ r.status = "NEW" /\ UpInv(r) /\ RequestInv(r)
    BY DEF r, NoConnection, UpInv, RequestInv
  <2>. QED BY <2>1, <2>2 DEF ConnInv
<1>3. TypeOK' /\ \A d \in Conns : conn'[d] = IF d = c THEN r ELSE conn[d]
  BY <1>1, <1>2 DEF IInv, TypeOK, ConnInv, r
<1>4. (\A d \in Conns : ConnInv(conn[d]))'
  BY <1>2, <1>3 DEF IInv
<1>5. \A d \in Conns : Alive(d) => AccountOf[d] # AccountOf[c]
  BY DEF RequestConnection
<1>6. \A d \in Conns : d # c => (Alive(d)' <=> Alive(d))
  BY <1>3 DEF Alive
<1>7. OneHolder'
  BY <1>5, <1>6 DEF IInv, OneHolder
<1>. QED BY <1>3, <1>4, <1>7 DEF IInv

\* Connect leaves a prompt, a login on its way, or one that failed at once.
LEMMA StartConnectingStep ==
    ASSUME IInv, NEW c \in Conns, StartConnecting(c)
    PROVE  IInv'
<1> DEFINE q == conn[c]
           r == [q EXCEPT !.status = "CONNECTING"]
<1>1. ConnInv(q) /\ q.phase = "alive" /\ q.status = "NEW"
  BY DEF IInv, StartConnecting, Alive
<1>2. Leaving(q) /\ ~q.disconnecting
  BY <1>1, UpIsLeaving
<1>3. q.gc = "none" /\ ~q.prompt /\ ~q.connect_called
  BY <1>1 DEF ConnInv, UpInv
<1>4. /\ Leaving(r) /\ ~r.disconnecting /\ r.status = "CONNECTING"
      /\ r.gc = "none" /\ ~r.prompt /\ ~r.connect_called /\ r.phase = "alive"
  BY <1>2, <1>3 DEF Leaving, ConnState, RequestInv
<1>5. CASE ~r.password /\ conn' = [conn EXCEPT ![c] = [r EXCEPT !.prompt = TRUE]]
  <2> DEFINE s == [r EXCEPT !.prompt = TRUE]
  <2> HIDE DEF r
  <2>1. /\ s \in ConnState
        /\ s.phase = "alive" /\ s.status = "CONNECTING" /\ s.gc = "none"
        /\ ~s.connect_called /\ ~s.disconnecting /\ ~s.early /\ ~s.errored
        /\ s.finished = 0 /\ s.finish_idle = 0
        /\ s.pwreq = r.pwreq /\ s.fields = r.fields
        /\ s.password_request = r.password_request
    BY <1>4 DEF Leaving, ConnState
  <2> HIDE DEF s
  <2>2. RequestInv(s)
    BY <1>4, <2>1 DEF Leaving, RequestInv
  <2>3. ConnInv(s)
    BY <2>1, <2>2 DEF ConnInv, UpInv
  <2>. QED BY <1>1, <1>5, <2>3, LocalStep DEF s, Alive
<1>6. CASE \E reaction \in {"none", "error"} :
              conn' = [conn EXCEPT ![c] = AccountConnect(r, reaction)]
  <2>1. PICK reaction \in {"none", "error"} :
            conn' = [conn EXCEPT ![c] = AccountConnect(r, reaction)]
    BY <1>6
  <2> HIDE DEF r
  <2>2. ConnInv(AccountConnect(r, reaction))
    BY <1>4, AccountConnectKeeps
  <2>. QED BY <1>1, <2>1, <2>2, LocalStep DEF Alive
<1>. QED BY <1>5, <1>6 DEF StartConnecting

\* Disconnect takes a connection that is up down.
LEMMA RequestDisconnectStep ==
    ASSUME IInv, NEW c \in Conns, RequestDisconnect(c)
    PROVE  IInv'
<1>1. PICK reaction \in {"error", "disconnect"} :
          conn' = [conn EXCEPT ![c] = ChangeStatusDisconnected(conn[c], reaction)]
  BY DEF RequestDisconnect
<1>2. ConnInv(conn[c]) /\ conn[c].phase = "alive" /\ conn[c].status # "DISCONNECTED"
  BY DEF IInv, RequestDisconnect, Alive
<1>3. ConnInv(ChangeStatusDisconnected(conn[c], reaction))
  BY <1>2, ChangeStatusByUser
<1>. QED BY <1>1, <1>2, <1>3, LocalStep DEF Alive

\* An open prompt belongs to a connection that is being made; q with the
\* channel closed, whatever the user answered, is still up.
LEMMA PromptClosed ==
    ASSUME NEW q, ConnInv(q), q.prompt, NEW known \in BOOLEAN
    PROVE  LET r == [q EXCEPT !.prompt = FALSE, !.password = known] IN
           /\ ConnInv(r) /\ Leaving(r)
           /\ r.status = "CONNECTING" /\ r.gc # "connected"
           /\ ~r.prompt /\ ~r.disconnecting
           /\ r.password_request = q.password_request
           /\ r.password_request => r.connect_called
<1> DEFINE r == [q EXCEPT !.prompt = FALSE, !.password = known]
<1>1. q.phase = "alive" /\ q.status # "DISCONNECTED"
  BY ActiveIsUp
<1>2. q \in ConnState /\ RequestInv(q) /\ UpInv(q)
  BY <1>1 DEF ConnInv
<1>3. /\ r \in ConnState
      /\ r.phase = q.phase /\ r.status = q.status /\ r.gc = q.gc
      /\ ~r.prompt /\ r.disconnecting = q.disconnecting
      /\ r.connect_called = q.connect_called /\ r.errored = q.errored
      /\ r.early = q.early /\ r.finished = q.finished
      /\ r.finish_idle = q.finish_idle /\ r.pwreq = q.pwreq
      /\ r.fields = q.fields /\ r.password_request = q.password_request
  BY <1>2, ZenonT(60) DEF ConnState
<1> HIDE DEF r
<1>4. RequestInv(r)
  BY <1>2, <1>3 DEF RequestInv
<1>5. UpInv(r)
  BY <1>2, <1>3 DEF UpInv
<1>6. ConnInv(r)
  BY <1>1, <1>3, <1>4, <1>5 DEF ConnInv
<1>7. Leaving(r) /\ ~r.disconnecting
  BY <1>1, <1>3, <1>6, UpIsLeaving
<1>8. r.status = "CONNECTING" /\ r.gc # "connected"
  BY <1>2, <1>3, <1>5 DEF UpInv
<1>9. r.password_request => r.connect_called
  BY <1>4, <1>5 DEF RequestInv, UpInv
<1>. QED BY <1>3, <1>6, <1>7, <1>8, <1>9 DEF r

\* The password starts the login, or answers the protocol, which may fail.
LEMMA PasswordGivenStep ==
    ASSUME IInv, NEW c \in Conns, PasswordGiven(c)
    PROVE  IInv'
<1> DEFINE r == [conn[c] EXCEPT !.prompt = FALSE, !.password = TRUE]
           s(reaction) ==
               IF ~r.password_request THEN AccountConnect(r, reaction)
               ELSE ClosePasswordRequest(IF reaction = "error" THEN PurpleError(r, reaction)
                                         ELSE r)
<1>1. PICK reaction \in {"none", "error"} : conn' = [conn EXCEPT ![c] = s(reaction)]
  BY DEF PasswordGiven
<1>2. ConnInv(conn[c]) /\ conn[c].prompt
  BY DEF IInv, PasswordGiven
<1>3. /\ ConnInv(r) /\ Leaving(r)
      /\ r.status = "CONNECTING" /\ r.gc # "connected"
      /\ ~r.prompt /\ ~r.disconnecting
      /\ r.password_request => r.connect_called
  BY <1>2, PromptClosed
<1> HIDE DEF r
<1>4. ConnInv(s(reaction))
  <2>1. CASE ~r.password_request
    <3>1. s(reaction) = AccountConnect(r, reaction)
      BY <2>1
    <3>. QED BY <3>1, <1>3, AccountConnectKeeps
  <2>2. CASE r.password_request /\ reaction = "error"
    <3>1. s(reaction) = ClosePasswordRequest(PurpleError(r, reaction))
      BY <2>2
    <3>2. LET e == PurpleError(r, reaction) IN ConnInv(e) /\ ~e.prompt
      BY <1>3, <2>2, PurpleErrorKeeps
    <3>. QED BY <3>1, <3>2, ClosePasswordRequestKeeps
  <2>3. CASE r.password_request /\ reaction # "error"
    <3>1. s(reaction) = ClosePasswordRequest(r)
      BY <2>3
    <3>. QED BY <3>1, <1>3, ClosePasswordRequestKeeps
  <2>. QED BY <2>1, <2>2, <2>3
<1>5. Alive(c)
  BY <1>2, ActiveIsUp DEF Alive
<1> HIDE DEF s
<1>. QED BY <1>1, <1>4, <1>5, LocalStep

\* A refused password takes the connection down, on either path.
LEMMA PasswordRefusedStep ==
    ASSUME IInv, NEW c \in Conns, PasswordRefused(c)
    PROVE  IInv'
<1> DEFINE r == [conn[c] EXCEPT !.prompt = FALSE]
           s(reaction) == IF r.password_request THEN CancelPasswordRequest(r, reaction)
                          ELSE ChangeStatusDisconnected(r, reaction)
<1>1. PICK reaction \in {"error", "disconnect"} : conn' = [conn EXCEPT ![c] = s(reaction)]
  BY DEF PasswordRefused
<1>2. ConnInv(conn[c]) /\ conn[c].prompt
  BY DEF IInv, PasswordRefused
<1>3. /\ ConnInv(r) /\ Leaving(r)
      /\ r.status = "CONNECTING" /\ ~r.prompt
      /\ r.password_request => r.connect_called
  <2>1. conn[c] \in ConnState /\ conn[c].password \in BOOLEAN
    BY <1>2 DEF ConnInv, ConnState
  <2>2. r = [conn[c] EXCEPT !.prompt = FALSE, !.password = conn[c].password]
    BY <2>1 DEF ConnState
  <2>. QED BY <2>1, <2>2, <1>2, PromptClosed
<1> HIDE DEF r
<1>4. ConnInv(s(reaction))
  <2>1. CASE ~r.password_request
    <3>1. s(reaction) = ChangeStatusDisconnected(r, reaction)
      BY <2>1
    <3>. QED BY <3>1, <1>3, ChangeStatusByUser DEF Leaving
  <2>2. CASE r.password_request /\ reaction = "disconnect"
    <3>1. s(reaction) = ClosePasswordRequest(AccountDisconnect(r, reaction))
      BY <2>2 DEF CancelPasswordRequest
    <3>2. LET e == AccountDisconnect(r, reaction) IN ConnInv(e) /\ ~e.pwreq
      BY <1>3, <2>2, AccountDisconnectKeeps
    <3>. QED BY <3>1, <3>2, ClosePasswordRequestKeeps
  <2>3. CASE r.password_request /\ reaction # "disconnect"
    <3>1. s(reaction) = ClosePasswordRequest(PurpleError(r, reaction))
      BY <2>3 DEF CancelPasswordRequest
    <3>2. LET e == PurpleError(r, reaction) IN ConnInv(e) /\ ~e.prompt
      BY <1>3, <2>3, PurpleErrorKeeps
    <3>. QED BY <3>1, <3>2, ClosePasswordRequestKeeps
  <2>. QED BY <2>1, <2>2, <2>3
<1>5. Alive(c)
  BY <1>2, ActiveIsUp DEF Alive
<1> HIDE DEF s
<1>. QED BY <1>1, <1>4, <1>5, LocalStep

\* connected_cb runs only on a connection that is being made.
LEMMA ConnectedStep ==
    ASSUME IInv, NEW c \in Conns, Connected(c)
    PROVE  IInv'
<1> DEFINE q == conn[c]
           r == [q EXCEPT !.gc = "connected", !.status = "CONNECTED"]
<1>1. conn' = [conn EXCEPT ![c] = r]
  <2>1. q \in ConnState
    BY DEF IInv, ConnInv
  <2>2. conn' = [conn EXCEPT ![c].gc = "connected", ![c].status = "CONNECTED"]
    BY DEF Connected
  <2>. QED BY <2>1, <2>2 DEF IInv, TypeOK
<1>2. ConnInv(q) /\ q.gc = "connecting" /\ ~q.errored /\ ~q.pwreq
  BY DEF IInv, Connected, Running
<1>3. q.phase = "alive" /\ q.status # "DISCONNECTED"
  BY <1>2, ActiveIsUp
<1>4. q \in ConnState /\ RequestInv(q) /\ UpInv(q)
  BY <1>2, <1>3 DEF ConnInv
<1>5. /\ r \in ConnState
      /\ r.phase = "alive" /\ r.status = "CONNECTED" /\ r.gc = "connected"
      /\ r.prompt = q.prompt /\ r.disconnecting = q.disconnecting
      /\ r.connect_called = q.connect_called /\ r.errored = q.errored
      /\ r.early = q.early /\ r.finished = q.finished
      /\ r.finish_idle = q.finish_idle /\ r.pwreq = q.pwreq
      /\ r.password_request = q.password_request
  BY <1>3, <1>4 DEF ConnState
<1> HIDE DEF q, r
<1>6. RequestInv(r) /\ UpInv(r)
  BY <1>2, <1>4, <1>5 DEF RequestInv, UpInv
<1>7. ConnInv(r)
  BY <1>5, <1>6 DEF ConnInv
<1>. QED BY <1>1, <1>3, <1>7, LocalStep DEF Alive, q

\* An error leaves the rest of the shutdown to the timeout.
LEMMA ConnectionErrorStep ==
    ASSUME IInv, NEW c \in Conns, ConnectionError(c)
    PROVE  IInv'
<1>1. PICK reaction \in {"error", "disconnect"} :
          conn' = [conn EXCEPT ![c] = PurpleError(conn[c], reaction)]
  BY DEF ConnectionError
<1>2. ConnInv(conn[c]) /\ conn[c].gc # "none" /\ ~conn[c].errored
  BY DEF IInv, ConnectionError, Running
<1>3. conn[c].phase = "alive" /\ conn[c].status # "DISCONNECTED" /\ conn[c].connect_called
  BY <1>2, ActiveIsUp
<1>4. ConnInv(PurpleError(conn[c], reaction))
  BY <1>2, <1>3, UpIsLeaving, PurpleErrorKeeps
<1>. QED BY <1>1, <1>3, <1>4, LocalStep DEF Alive

\* libpurple takes down an account whose connection is already DISCONNECTED,
\* before or at the end of the object: what it owed is now queued.
LEMMA LateAccountDisconnectKeeps ==
    ASSUME NEW q, ConnInv(q), q.status = "DISCONNECTED", q.gc # "none",
           NEW phase \in {"alive", "finalized"}, phase = "finalized" => q.finished > 0
    PROVE  ConnInv(LateAccountDisconnect([q EXCEPT !.phase = phase]))
<1> DEFINE r == [q EXCEPT !.phase = phase]
           s == LateAccountDisconnect(r)
<1>1. q \in ConnState /\ RequestInv(q) /\ DownInv(q)
  BY DEF ConnInv
<1>2. /\ r \in ConnState
      /\ r.phase = phase /\ r.status = q.status /\ r.prompt = q.prompt
      /\ r.finished = q.finished /\ r.finish_idle = q.finish_idle
      /\ r.early = q.early
      /\ r.password_request = q.password_request /\ r.pwreq = q.pwreq
  BY <1>1 DEF ConnState
<1> HIDE DEF r
<1>3. /\ q.finished \in 0..2 /\ q.finish_idle \in 0..2
      /\ q.finished + q.finish_idle + 1 = IF q.early THEN 2 ELSE 1
  BY <1>1 DEF ConnState, DownInv
<1>4. r.finish_idle < 2 /\ (r.password_request => r.pwreq)
  BY <1>1, <1>2, <1>3 DEF RequestInv
<1>5. /\ s \in ConnState /\ SameLife(s, r) /\ RequestInv(s)
      /\ s.finish_idle = r.finish_idle + 1 /\ s.gc = "none" /\ s.disconnecting
  BY <1>2, <1>4, LateAccountDisconnectFacts
<1> HIDE DEF s
<1>6. s.finished + s.finish_idle + (IF s.gc # "none" THEN 1 ELSE 0)
          = IF s.early THEN 2 ELSE 1
  BY <1>2, <1>3, <1>5 DEF SameLife
<1>7. DownInv(s) /\ s.status = "DISCONNECTED" /\ s.phase # "absent"
  BY <1>1, <1>2, <1>5, <1>6 DEF DownInv, SameLife
<1>. QED BY <1>5, <1>7 DEF ConnInv, r, s

\* Only a connection that is down has an error, a finished shutdown or an idle.
LEMMA ShuttingIsDown ==
    ASSUME NEW q, ConnInv(q), q.errored \/ q.finished > 0 \/ q.finish_idle > 0
    PROVE  q \in ConnState /\ RequestInv(q) /\ DownInv(q) /\ q.status = "DISCONNECTED"
<1>1. q.status = "DISCONNECTED"
  BY DEF ConnInv, UpInv
<1>. QED BY <1>1 DEF ConnInv

\* purple_account_disconnect after an error turns what libpurple owed into one queued
\* idle.
LEMMA AccountDisconnectAfterError ==
    ASSUME NEW q, ConnInv(q), q.gc # "none", q.errored, NEW reaction
    PROVE  ConnInv(AccountDisconnect(q, reaction))
<1>1. q \in ConnState /\ q.status = "DISCONNECTED" /\ q.phase = "alive"
  BY ShuttingIsDown DEF DownInv
<1>2. AccountDisconnect(q, reaction) = LateAccountDisconnect([q EXCEPT !.phase = "alive"])
  <2> DEFINE told == [q EXCEPT !.disconnecting = TRUE]
  <2>1. told.status = "DISCONNECTED" /\ [q EXCEPT !.phase = "alive"] = q
    BY <1>1 DEF ConnState
  <2>2. ChangeStatusDisconnected(told, reaction) = told
    BY <2>1 DEF ChangeStatusDisconnected
  <2>3. DisconnectedCb(q, reaction) = [told EXCEPT !.finish_idle = @ + 1]
    BY <2>2 DEF DisconnectedCb
  <2>4. [told EXCEPT !.finish_idle = @ + 1]
            = [q EXCEPT !.disconnecting = TRUE, !.finish_idle = @ + 1]
    BY <1>1 DEF ConnState
  <2>. QED BY <2>1, <2>3, <2>4 DEF AccountDisconnect, LateAccountDisconnect
<1>. QED BY <1>1, <1>2, LateAccountDisconnectKeeps

\* The timeout does so.
LEMMA DisconnectTimeoutStep ==
    ASSUME IInv, NEW c \in Conns, DisconnectTimeout(c)
    PROVE  IInv'
<1> DEFINE q == conn[c]
<1>1. PICK reaction \in {"error", "disconnect"} :
          conn' = [conn EXCEPT ![c] = AccountDisconnect(q, reaction)]
  BY DEF DisconnectTimeout
<1>2. ConnInv(q) /\ q.gc # "none" /\ q.errored
  BY DEF IInv, DisconnectTimeout
<1>3. q.phase = "alive"
  BY <1>2, ShuttingIsDown DEF DownInv
<1> HIDE DEF q
<1>4. ConnInv(AccountDisconnect(q, reaction))
  BY <1>2, AccountDisconnectAfterError
<1>. QED BY <1>1, <1>3, <1>4, LocalStep DEF Alive, q

\* A prompt for the protocol opens while the protocol waits for it.
LEMMA PurpleRequestPasswordStep ==
    ASSUME IInv, NEW c \in Conns, PurpleRequestPassword(c)
    PROVE  IInv'
<1> DEFINE q == conn[c]
           r == [q EXCEPT !.pwreq = TRUE, !.password_request = TRUE, !.prompt = TRUE]
<1>1. conn' = [conn EXCEPT ![c] = r]
  <2>1. q \in ConnState
    BY DEF IInv, ConnInv
  <2>2. conn' = [conn EXCEPT ![c].pwreq = TRUE, ![c].password_request = TRUE,
                             ![c].prompt = TRUE]
    BY DEF PurpleRequestPassword
  <2>. QED BY <2>1, <2>2 DEF IInv, TypeOK
<1>2. ConnInv(q) /\ q.gc = "connecting" /\ ~q.errored
  BY DEF IInv, PurpleRequestPassword, Running
<1>3. q.phase = "alive" /\ q.status # "DISCONNECTED"
  BY <1>2, ActiveIsUp
<1>4. q \in ConnState /\ RequestInv(q) /\ UpInv(q)
  BY <1>2, <1>3 DEF ConnInv
<1>5. q.status = "CONNECTING"
  BY <1>2, <1>3, <1>4 DEF UpInv, ConnState
<1>6. /\ r \in ConnState
      /\ r.phase = "alive" /\ r.status = q.status /\ r.gc = q.gc
      /\ r.pwreq /\ r.disconnecting = q.disconnecting
      /\ r.connect_called = q.connect_called /\ r.errored = q.errored
      /\ r.early = q.early /\ r.finished = q.finished
      /\ r.finish_idle = q.finish_idle /\ r.fields = q.fields
  BY <1>3, <1>4 DEF ConnState
<1> HIDE DEF q, r
<1>7. RequestInv(r) /\ UpInv(r)
  BY <1>2, <1>4, <1>5, <1>6 DEF RequestInv, UpInv
<1>8. ConnInv(r)
  BY <1>3, <1>6, <1>7 DEF ConnInv
<1>. QED BY <1>1, <1>3, <1>8, LocalStep DEF Alive, q

\* Another form of the protocol touches nothing of the shutdown.
LEMMA PurpleRequestFieldsStep ==
    ASSUME IInv, NEW c \in Conns, PurpleRequestFields(c)
    PROVE  IInv'
<1> DEFINE q == conn[c]
           r == [q EXCEPT !.fields = TRUE, !.destroy_idle = TRUE]
<1>1. conn' = [conn EXCEPT ![c] = r]
  <2>1. q \in ConnState
    BY DEF IInv, ConnInv
  <2>2. conn' = [conn EXCEPT ![c].fields = TRUE, ![c].destroy_idle = TRUE]
    BY DEF PurpleRequestFields
  <2>. QED BY <2>1, <2>2 DEF IInv, TypeOK
<1>2. ConnInv(q) /\ q.gc # "none" /\ ~q.errored
  BY DEF IInv, PurpleRequestFields, Running
<1>3. q.phase = "alive" /\ q.status # "DISCONNECTED"
  BY <1>2, ActiveIsUp
<1>4. q \in ConnState /\ RequestInv(q) /\ UpInv(q)
  BY <1>2, <1>3 DEF ConnInv
<1>5. /\ r \in ConnState
      /\ r.phase = "alive" /\ r.status = q.status /\ r.gc = q.gc
      /\ r.prompt = q.prompt /\ r.disconnecting = q.disconnecting
      /\ r.connect_called = q.connect_called /\ r.errored = q.errored
      /\ r.early = q.early /\ r.finished = q.finished
      /\ r.finish_idle = q.finish_idle /\ r.pwreq = q.pwreq
      /\ r.password_request = q.password_request
  BY <1>3, <1>4 DEF ConnState
<1> HIDE DEF q, r
<1>6. RequestInv(r) /\ UpInv(r)
  BY <1>2, <1>4, <1>5 DEF RequestInv, UpInv
<1>7. ConnInv(r)
  BY <1>3, <1>5, <1>6 DEF ConnInv
<1>. QED BY <1>1, <1>3, <1>7, LocalStep DEF Alive, q

\* The idle that destroys a form may fail the connection or take it offline.
LEMMA FieldsDestroyStep ==
    ASSUME IInv, NEW c \in Conns, FieldsDestroy(c)
    PROVE  IInv'
<1> DEFINE q == conn[c]
           r == [q EXCEPT !.destroy_idle = FALSE]
<1>1. PICK cancel \in Reactions, reaction \in {"error", "disconnect"} :
          conn' = [conn EXCEPT ![c] =
                      IF r.fields THEN CloseFieldsRequest(CancelFieldsRequest(r, cancel, reaction))
                      ELSE r]
  BY DEF FieldsDestroy
<1> DEFINE s == IF r.fields THEN CloseFieldsRequest(CancelFieldsRequest(r, cancel, reaction))
                ELSE r
<1>2. ConnInv(q) /\ q.destroy_idle
  BY DEF IInv, FieldsDestroy
<1>3. q.phase # "absent"
  BY <1>2 DEF ConnInv, NoConnection
<1>4. /\ r \in ConnState
      /\ r.phase = q.phase /\ r.status = q.status /\ r.gc = q.gc
      /\ r.prompt = q.prompt /\ r.disconnecting = q.disconnecting
      /\ r.connect_called = q.connect_called /\ r.errored = q.errored
      /\ r.early = q.early /\ r.finished = q.finished
      /\ r.finish_idle = q.finish_idle /\ r.pwreq = q.pwreq
      /\ r.fields = q.fields /\ r.password_request = q.password_request
  BY <1>2 DEF ConnInv, ConnState
<1> HIDE DEF q, r
<1>5. ConnInv(r)
  <2>1. RequestInv(r)
    BY <1>2, <1>4 DEF ConnInv, RequestInv
  <2>2. q.status = "DISCONNECTED" => DownInv(r)
    BY <1>2, <1>4 DEF ConnInv, DownInv
  <2>3. q.status # "DISCONNECTED" => UpInv(r)
    BY <1>2, <1>4 DEF ConnInv, UpInv
  <2>. QED BY <1>3, <1>4, <2>1, <2>2, <2>3 DEF ConnInv
<1>6. ConnInv(s)
  <2>1. CASE r.fields
    <3> DEFINE t == CancelFieldsRequest(r, cancel, reaction)
    <3>1. r.gc # "none"
      BY <1>5, <2>1 DEF ConnInv, RequestInv
    <3>2. r.errored => ConnInv(AccountDisconnect(r, "error")) /\ ConnInv(PurpleError(r, reaction))
      BY <1>5, <3>1, AccountDisconnectAfterError DEF PurpleError
    <3>3. ~r.errored => ConnInv(AccountDisconnect(r, "error")) /\ ConnInv(PurpleError(r, reaction))
      <4> SUFFICES ASSUME ~r.errored
                   PROVE  ConnInv(AccountDisconnect(r, "error")) /\ ConnInv(PurpleError(r, reaction))
        OBVIOUS
      <4>1. r.phase = "alive" /\ r.status # "DISCONNECTED" /\ r.connect_called
        BY <1>5, <3>1, ActiveIsUp
      <4>2. Leaving(r)
        BY <1>5, <4>1, UpIsLeaving
      <4>. QED BY <4>1, <4>2, PurpleErrorKeeps, AccountDisconnectKeeps
    <3>4. ConnInv(t)
      BY <1>1, <1>5, <3>2, <3>3 DEF CancelFieldsRequest, Reactions
    <3> HIDE DEF t
    <3>5. ConnInv(CloseFieldsRequest(t))
      BY <3>4, CloseFieldsRequestKeeps
    <3>. QED BY <2>1, <3>5 DEF t
  <2>2. CASE ~r.fields
    BY <1>5, <2>2
  <2>. QED BY <2>1, <2>2
<1>7. s.phase = "alive" => q.phase = "alive"
  <2>1. CASE q.phase = "finalized"
    <3>1. r.gc = "none"
      BY <1>4, <1>5, <2>1 DEF ConnInv, UpInv, DownInv
    <3>2. ~r.fields
      BY <1>5, <3>1 DEF ConnInv, RequestInv
    <3>3. s = r
      BY <3>2
    <3>. QED BY <1>4, <2>1, <3>3
  <2>2. q.phase \in {"alive", "finalized"}
    BY <1>2, <1>3 DEF ConnInv, ConnState
  <2>. QED BY <2>1, <2>2
<1>8. conn' = [conn EXCEPT ![c] = s]
  BY <1>1
<1> HIDE DEF s
<1>. QED BY <1>8, <1>6, <1>7, LocalStep DEF Alive, q

\* The queued idle finishes the shutdown it was queued for.
LEMMA IdleFinishShutdownStep ==
    ASSUME IInv, NEW c \in Conns, IdleFinishShutdown(c)
    PROVE  IInv'
<1> DEFINE q == conn[c]
           r == FinishShutdown([q EXCEPT !.finish_idle = @ - 1])
<1>1. conn' = [conn EXCEPT ![c] = r]
  BY DEF IdleFinishShutdown
<1>2. ConnInv(q) /\ q.finish_idle > 0
  BY DEF IInv, IdleFinishShutdown
<1>3. q \in ConnState /\ RequestInv(q) /\ DownInv(q) /\ q.status = "DISCONNECTED"
  BY <1>2, ShuttingIsDown
<1> HIDE DEF q
<1>4. q.finished \in 0..2 /\ q.finish_idle \in 0..2
  BY <1>3 DEF ConnState
<1> DEFINE n == q.finish_idle - 1
           m == q.finished + 1
<1>5. /\ n \in 0..2 /\ m \in 0..2 /\ m > 0
      /\ m + n + (IF q.gc # "none" THEN 1 ELSE 0) = IF q.early THEN 2 ELSE 1
  BY <1>2, <1>3, <1>4 DEF DownInv
<1>6. r = [q EXCEPT !.finish_idle = n, !.finished = m]
  BY <1>3 DEF FinishShutdown, ConnState
<1> HIDE DEF n, m, r
<1>7. /\ r \in ConnState
      /\ r.finish_idle = n /\ r.finished = m
      /\ r.phase = q.phase /\ r.status = q.status /\ r.gc = q.gc
      /\ r.prompt = q.prompt /\ r.disconnecting = q.disconnecting
      /\ r.connect_called = q.connect_called
      /\ r.errored = q.errored /\ r.early = q.early /\ r.pwreq = q.pwreq
      /\ r.fields = q.fields /\ r.password_request = q.password_request
  BY <1>3, <1>5, <1>6 DEF ConnState
<1>8. RequestInv(r)
  BY <1>3, <1>7 DEF RequestInv
<1>9. DownInv(r) /\ r.phase # "absent"
  BY <1>3, <1>5, <1>7 DEF DownInv
<1>10. ConnInv(r)
  BY <1>3, <1>7, <1>8, <1>9 DEF ConnInv
<1>. QED BY <1>1, <1>7, <1>10, LocalStep DEF Alive, q

\* The last reference goes; an account still online is taken offline.
LEMMA FinalizeStep ==
    ASSUME IInv, NEW c \in Conns, Finalize(c)
    PROVE  IInv'
<1> DEFINE q == conn[c]
           r == [q EXCEPT !.phase = "finalized"]
           s == IF r.gc = "none" THEN r ELSE LateAccountDisconnect(r)
<1>1. conn' = [conn EXCEPT ![c] = s]
  BY DEF Finalize
<1>2. ConnInv(q) /\ q.finished > 0 /\ q.phase = "alive"
  BY DEF IInv, Finalize, Alive
<1>3. q \in ConnState /\ RequestInv(q) /\ DownInv(q) /\ q.status = "DISCONNECTED"
  BY <1>2, ShuttingIsDown
<1> HIDE DEF q
<1>4. /\ r \in ConnState
      /\ r.phase = "finalized" /\ r.status = q.status /\ r.gc = q.gc
      /\ r.prompt = q.prompt /\ r.finish_idle = q.finish_idle
      /\ r.errored = q.errored /\ r.early = q.early /\ r.pwreq = q.pwreq
      /\ r.finished = q.finished /\ r.disconnecting = q.disconnecting
      /\ r.connect_called = q.connect_called
      /\ r.fields = q.fields /\ r.password_request = q.password_request
  BY <1>3 DEF ConnState
<1> HIDE DEF r
<1>5. CASE q.gc = "none"
  <2>1. s = r
    BY <1>4, <1>5
  <2>2. RequestInv(r) /\ DownInv(r)
    BY <1>2, <1>3, <1>4, <1>5 DEF RequestInv, DownInv
  <2>3. ConnInv(s)
    BY <1>3, <1>4, <2>1, <2>2 DEF ConnInv
  <2>. QED BY <1>1, <1>2, <2>3, LocalStep DEF Alive, q
<1>6. CASE q.gc # "none"
  <2>1. s = LateAccountDisconnect(r)
    BY <1>4, <1>6
  <2>2. ConnInv(s)
    BY <1>2, <1>3, <1>6, <2>1, LateAccountDisconnectKeeps DEF r
  <2>. QED BY <1>1, <1>2, <2>2, LocalStep DEF Alive, q
<1>. QED BY <1>5, <1>6

-----------------------------------------------------------------------------
(* The inductive invariant, and what follows from it *)

\* Before the first request nothing has begun.
LEMMA InitIInv == Init => IInv
<1> SUFFICES ASSUME Init PROVE IInv
  OBVIOUS
<1>1. NoConnection \in ConnState
  <2>1. 0 \in 0..2
    OBVIOUS
  <2>. QED BY <2>1 DEF NoConnection, ConnState
<1>2. ConnInv(NoConnection)
  <2>1. UpInv(NoConnection) /\ RequestInv(NoConnection) /\ NoConnection.status = "NEW"
    BY DEF NoConnection, UpInv, RequestInv
  <2>. QED BY <1>1, <2>1 DEF ConnInv
<1>3. \A c \in Conns : conn[c] = NoConnection
  BY DEF Init
<1>4. TypeOK
  BY <1>1 DEF Init, TypeOK
<1>5. OneHolder
  BY <1>3 DEF OneHolder, Alive, NoConnection
<1>. QED BY <1>2, <1>3, <1>4, <1>5 DEF IInv

\* Every event of the main loop keeps the invariant.
LEMMA NextIInv == IInv /\ [Next]_vars => IInv'
<1> SUFFICES ASSUME IInv, [Next]_vars PROVE IInv'
  OBVIOUS
<1>1. CASE UNCHANGED vars
  BY <1>1 DEF vars, IInv, TypeOK, OneHolder, Alive
<1>2. CASE Next
  BY <1>2, RequestConnectionStep, StartConnectingStep, RequestDisconnectStep,
     PasswordGivenStep, PasswordRefusedStep, ConnectedStep, ConnectionErrorStep,
     DisconnectTimeoutStep, PurpleRequestPasswordStep, PurpleRequestFieldsStep,
     FieldsDestroyStep, IdleFinishShutdownStep, FinalizeStep
  DEF Next
<1>. QED BY <1>1, <1>2

\* Between two main-loop events every connection is either up, untouched by any
\* shutdown, or down, with exactly the rest of its shutdown still to come.
THEOREM Invariance == Spec => []IInv
BY InitIInv, NextIInv, PTL DEF Spec

\* Every field keeps its type: in particular at most two calls of
\* tp_base_connection_finish_shutdown are ever made or queued.
THEOREM TypeCorrect == Spec => []TypeOK
<1>1. IInv => TypeOK
  BY DEF IInv
<1>. QED BY <1>1, Invariance, PTL

\* The shutdown is finished only once libpurple has let go of the account
\* (unless the login failed inside purple_account_connect).
THEOREM FinishesAfterPurple == Spec => []FinishedAfterPurple
<1>1. IInv => FinishedAfterPurple
  <2> SUFFICES ASSUME IInv, NEW c \in Conns, conn[c].finished > 0, ~conn[c].early
               PROVE  conn[c].gc = "none"
    BY DEF FinishedAfterPurple
  <2>1. ConnInv(conn[c])
    BY DEF IInv
  <2>2. conn[c] \in ConnState /\ DownInv(conn[c])
    BY <2>1, ShuttingIsDown
  <2>3. conn[c].finished \in 0..2 /\ conn[c].finish_idle \in 0..2
    BY <2>2 DEF ConnState
  <2>. QED BY <2>2, <2>3 DEF DownInv
<1>. QED BY <1>1, Invariance, PTL

\* tp_base_connection_finish_shutdown is called once, on an object that still
\* exists when the idle runs (with the same exception).
THEOREM FinishesOnce == Spec => []FinishedOnce
<1>1. IInv => FinishedOnce
  <2> SUFFICES ASSUME IInv, NEW c \in Conns, ~conn[c].early
               PROVE  /\ conn[c].finish_idle + conn[c].finished <= 1
                      /\ conn[c].finish_idle > 0 => Alive(c)
    BY DEF FinishedOnce
  <2>1. ConnInv(conn[c])
    BY DEF IInv
  <2>2. conn[c] \in ConnState
        /\ conn[c].finished \in 0..2 /\ conn[c].finish_idle \in 0..2
    BY <2>1 DEF ConnInv, ConnState
  <2>3. CASE conn[c].finished > 0 \/ conn[c].finish_idle > 0
    <3>1. DownInv(conn[c])
      BY <2>1, <2>3, ShuttingIsDown
    <3>2. conn[c].finish_idle + conn[c].finished <= 1
      BY <2>2, <3>1 DEF DownInv
    <3>3. conn[c].finish_idle > 0 => conn[c].phase = "alive"
      <4>1. conn[c].finish_idle > 0 => ~(conn[c].finished > 0)
        BY <2>2, <3>2
      <4>. QED BY <2>2, <3>1, <4>1 DEF DownInv, ConnState
    <3>. QED BY <3>2, <3>3 DEF Alive
  <2>4. CASE conn[c].finished = 0 /\ conn[c].finish_idle = 0
    BY <2>4
  <2>. QED BY <2>2, <2>3, <2>4
<1>. QED BY <1>1, Invariance, PTL

\* No shutdown is lost, whichever path the connection went down.
THEOREM ShutdownIsPending == Spec => []ShutdownPending
<1>1. IInv => ShutdownPending
  <2> SUFFICES ASSUME IInv, NEW c \in Conns,
                      conn[c].status = "DISCONNECTED", conn[c].finished = 0
               PROVE  \/ conn[c].finish_idle > 0
                      \/ conn[c].gc # "none" /\ conn[c].errored
    BY DEF ShutdownPending
  <2>1. conn[c] \in ConnState /\ DownInv(conn[c])
    BY DEF IInv, ConnInv
  <2>2. conn[c].finish_idle \in 0..2
    BY <2>1 DEF ConnState
  <2>. QED BY <2>1, <2>2 DEF DownInv
<1>. QED BY <1>1, Invariance, PTL

\* disconnecting and connect_called agree with what libpurple holds.
THEOREM FlagsAreTrue == Spec => []FlagsTellTheTruth
<1>1. IInv => FlagsTellTheTruth
  <2> SUFFICES ASSUME IInv, NEW c \in Conns, Alive(c), ~conn[c].disconnecting
               PROVE  /\ conn[c].connect_called <=> conn[c].gc # "none"
                      /\ ~conn[c].errored
    BY DEF FlagsTellTheTruth
  <2>. QED BY DEF IInv, ConnInv, UpInv, DownInv, RequestInv, ConnState
<1>. QED BY <1>1, Invariance, PTL

\* An account never has two PurpleConnections.
THEOREM OnePurpleConnection == Spec => []OnePurpleConnectionPerAccount
<1>1. IInv => OnePurpleConnectionPerAccount
  <2> SUFFICES ASSUME IInv, NEW c \in Conns, NEW d \in Conns, c # d,
                      AccountOf[c] = AccountOf[d], conn[c].gc # "none"
               PROVE  conn[d].gc = "none" /\ ~Alive(d)
    BY DEF OnePurpleConnectionPerAccount
  <2>1. \A e \in Conns : conn[e].gc # "none" => Alive(e)
    <3> SUFFICES ASSUME NEW e \in Conns, conn[e].gc # "none"
                 PROVE  conn[e].phase = "alive"
      BY DEF Alive
    <3>1. ConnInv(conn[e])
      BY DEF IInv
    <3>2. conn[e].phase # "absent"
      BY <3>1 DEF ConnInv, NoConnection
    <3>. QED BY <3>1, <3>2 DEF ConnInv, UpInv, DownInv, ConnState
  <2>2. Alive(c) /\ ~Alive(d)
    BY <2>1 DEF IInv, OneHolder
  <2>. QED BY <2>1, <2>2
<1>. QED BY <1>1, Invariance, PTL

\* An open password channel is one whose answer the code can use.
THEOREM PromptsAreAnswerable == Spec => []PromptIsAnswerable
<1>1. IInv => PromptIsAnswerable
  <2> SUFFICES ASSUME IInv, NEW c \in Conns
               PROVE  /\ conn[c].password_request => conn[c].pwreq
                      /\ conn[c].prompt =>
                            /\ Alive(c) /\ conn[c].status = "CONNECTING"
                            /\ conn[c].gc # "none" => conn[c].pwreq
    BY DEF PromptIsAnswerable
  <2>1. ConnInv(conn[c])
    BY DEF IInv
  <2>2. CASE conn[c].prompt
    <3>1. conn[c].phase = "alive" /\ conn[c].status # "DISCONNECTED"
      BY <2>1, <2>2, ActiveIsUp
    <3>. QED BY <2>1, <2>2, <3>1 DEF ConnInv, RequestInv, UpInv, Alive
  <2>3. CASE ~conn[c].prompt
    BY <2>1, <2>3 DEF ConnInv, RequestInv
  <2>. QED BY <2>2, <2>3
<1>. QED BY <1>1, Invariance, PTL

-----------------------------------------------------------------------------
(***************************************************************************)
(* The order of the statuses, and the refinement of ConnectionLifecycle:   *)
(* every step is a step of the abstract specification, or changes nothing  *)
(* a client can see.                                                       *)
(*                                                                         *)
(* However the functions of the code are nested inside one event, each of  *)
(* them only moves a connection Forward, and what is Forward composes.     *)
(* The inductive invariant then says when a shutdown can be finished.      *)
(***************************************************************************)

\* A connection in the middle of an event, where the counters need no bound.
Midway ==
    [ phase            : {"absent", "alive", "finalized"},
      status           : {"NEW", "CONNECTING", "CONNECTED", "DISCONNECTED"},
      password         : BOOLEAN,
      connect_called   : BOOLEAN,
      disconnecting    : BOOLEAN,
      password_request : BOOLEAN,
      prompt           : BOOLEAN,
      gc               : {"none", "connecting", "connected"},
      errored          : BOOLEAN,
      pwreq            : BOOLEAN,
      fields           : BOOLEAN,
      destroy_idle     : BOOLEAN,
      finish_idle      : Nat,
      finished         : Nat,
      early            : BOOLEAN ]

\* What a function makes of r: the object stays, the status stays or becomes
\* DISCONNECTED, and a shutdown that is finished stays finished.
Forward(s, r) ==
    /\ s \in Midway
    /\ s.phase = r.phase
    /\ s.status = r.status \/ s.status = "DISCONNECTED"
    /\ s.finished >= r.finished

-----------------------------------------------------------------------------
(* Every function moves a connection forward *)

\* Between two events the counters are bounded.
LEMMA StateIsMidway ==
    ASSUME NEW r \in ConnState
    PROVE  r \in Midway
<1>1. 0..2 \subseteq Nat
  OBVIOUS
<1>. QED BY <1>1 DEF ConnState, Midway

\* One function after another.
LEMMA ForwardComposes ==
    ASSUME NEW r \in Midway, NEW s, NEW t, Forward(s, r), Forward(t, s)
    PROVE  Forward(t, r)
<1>1. r.finished \in Nat /\ s.finished \in Nat /\ t.finished \in Nat
  BY DEF Forward, Midway
<1>. QED BY <1>1 DEF Forward

\* The two handlers of request.c.
LEMMA ClosePasswordRequestForward ==
    ASSUME NEW r \in Midway
    PROVE  Forward(ClosePasswordRequest(r), r)
<1>1. r.finished \in Nat
  BY DEF Midway
<1>2. r.finished >= r.finished
  BY <1>1
<1>3. CASE r.pwreq
  <2>1. ClosePasswordRequest(r) = [r EXCEPT !.pwreq = FALSE, !.password_request = FALSE]
    BY <1>3 DEF ClosePasswordRequest
  <2>. QED BY <1>2, <2>1 DEF Midway, Forward
<1>4. CASE ~r.pwreq
  BY <1>2, <1>4 DEF ClosePasswordRequest, Forward
<1>. QED BY <1>3, <1>4

\* ... and for another request.
LEMMA CloseFieldsRequestForward ==
    ASSUME NEW r \in Midway
    PROVE  Forward(CloseFieldsRequest(r), r)
<1>1. r.finished \in Nat
  BY DEF Midway
<1>2. r.finished >= r.finished
  BY <1>1
<1>3. CASE r.fields
  <2>1. CloseFieldsRequest(r) = [r EXCEPT !.fields = FALSE, !.password_request = FALSE]
    BY <1>3 DEF CloseFieldsRequest
  <2>. QED BY <1>2, <2>1 DEF Midway, Forward
<1>4. CASE ~r.fields
  BY <1>2, <1>4 DEF CloseFieldsRequest, Forward
<1>. QED BY <1>3, <1>4

\* Dropping the PurpleConnection.
LEMMA DropForward ==
    ASSUME NEW r \in Midway
    PROVE  Forward(DropPurpleConnection(r), r)
<1> DEFINE r1 == [r EXCEPT !.gc = "none", !.errored = FALSE]
           r2 == ClosePasswordRequest(r1)
<1>1. r1 \in Midway /\ r1.phase = r.phase /\ r1.status = r.status /\ r1.finished = r.finished
  BY DEF Midway
<1>2. DropPurpleConnection(r) = CloseFieldsRequest(r2)
  BY DEF DropPurpleConnection
<1> HIDE DEF r1
<1>3. r.finished \in Nat
  BY DEF Midway
<1>4. Forward(r1, r)
  BY <1>1, <1>3 DEF Forward
<1>5. Forward(r2, r1)
  BY <1>1, ClosePasswordRequestForward
<1> HIDE DEF r2
<1>6. r2 \in Midway
  BY <1>5 DEF Forward
<1>7. Forward(CloseFieldsRequest(r2), r2)
  BY <1>6, CloseFieldsRequestForward
<1>8. Forward(r2, r)
  BY <1>4, <1>5, ForwardComposes
<1>. QED BY <1>2, <1>7, <1>8, ForwardComposes

\* purple_account_disconnect, once the status is DISCONNECTED.
LEMMA LateAccountDisconnectForward ==
    ASSUME NEW r \in Midway
    PROVE  Forward(LateAccountDisconnect(r), r)
<1> DEFINE n == r.finish_idle + 1
           s == [r EXCEPT !.disconnecting = TRUE, !.finish_idle = n]
<1>1. n \in Nat
  BY DEF Midway
<1>2. LateAccountDisconnect(r) = DropPurpleConnection(s)
  BY DEF LateAccountDisconnect
<1> HIDE DEF n
<1>3. s \in Midway /\ s.phase = r.phase /\ s.status = r.status /\ s.finished = r.finished
  BY <1>1 DEF Midway
<1> HIDE DEF s
<1>4. r.finished \in Nat
  BY DEF Midway
<1>5. Forward(s, r)
  BY <1>3, <1>4 DEF Forward
<1>6. Forward(DropPurpleConnection(s), s)
  BY <1>3, DropForward
<1>. QED BY <1>2, <1>5, <1>6, ForwardComposes

\* The password manager closes its channel.
LEMMA ClosePromptForward ==
    ASSUME NEW r \in Midway, NEW reaction
    PROVE  Forward(ClosePrompt(r, reaction), r)
<1> DEFINE closed == [r EXCEPT !.prompt = FALSE]
           err == LatePurpleError(closed)
           off == LateAccountDisconnect(closed)
           late == LateCancelPasswordRequest(closed, reaction)
<1>1. /\ closed \in Midway /\ closed.phase = r.phase
      /\ closed.status = r.status /\ closed.finished = r.finished
  BY DEF Midway
<1>2. ClosePrompt(r, reaction) = IF r.prompt /\ r.password_request THEN late ELSE closed
  BY DEF ClosePrompt
<1> HIDE DEF closed
<1>3. r.finished \in Nat
  BY DEF Midway
<1>4. Forward(closed, r)
  BY <1>1, <1>3 DEF Forward
<1>5. Forward(off, closed)
  BY <1>1, LateAccountDisconnectForward
<1>6. Forward(err, closed)
  <2>1. /\ err \in Midway /\ err.phase = closed.phase
        /\ err.status = closed.status /\ err.finished = closed.finished
    BY <1>1 DEF LatePurpleError, Midway
  <2>. QED BY <1>1, <1>3, <2>1 DEF Forward
<1>7. late = ClosePasswordRequest(IF reaction = "disconnect" THEN off ELSE err)
  BY DEF LateCancelPasswordRequest
<1> HIDE DEF off, err, late
<1>8. Forward(late, r)
  <2>1. Forward(off, r) /\ Forward(err, r)
    BY <1>4, <1>5, <1>6, ForwardComposes
  <2>2. off \in Midway /\ err \in Midway
    BY <2>1 DEF Forward
  <2>3. CASE reaction = "disconnect"
    <3>1. Forward(late, off)
      BY <1>7, <2>2, <2>3, ClosePasswordRequestForward
    <3>. QED BY <2>1, <3>1, ForwardComposes
  <2>4. CASE reaction # "disconnect"
    <3>1. Forward(late, err)
      BY <1>7, <2>2, <2>4, ClosePasswordRequestForward
    <3>. QED BY <2>1, <3>1, ForwardComposes
  <2>. QED BY <2>3, <2>4
<1>. QED BY <1>2, <1>4, <1>8

\* _haze_connection_shut_down
LEMMA ShutDownForward ==
    ASSUME NEW r \in Midway
    PROVE  Forward(ShutDown(r), r)
<1>1. r.finished \in Nat
  BY DEF Midway
<1>2. CASE ~r.disconnecting /\ r.connect_called
  <2> DEFINE s == [r EXCEPT !.disconnecting = TRUE]
  <2>1. ShutDown(r) = LateAccountDisconnect(s)
    BY <1>2 DEF ShutDown
  <2>2. s \in Midway /\ s.phase = r.phase /\ s.status = r.status /\ s.finished = r.finished
    BY DEF Midway
  <2> HIDE DEF s
  <2>3. Forward(s, r)
    BY <1>1, <2>2 DEF Forward
  <2>4. Forward(LateAccountDisconnect(s), s)
    BY <2>2, LateAccountDisconnectForward
  <2>. QED BY <2>1, <2>3, <2>4, ForwardComposes
<1>3. CASE ~r.connect_called
  <2> DEFINE m == r.finished + 1
             s == [r EXCEPT !.finished = m]
  <2>1. ShutDown(r) = s
    BY <1>3 DEF ShutDown, FinishShutdown
  <2>2. m \in Nat /\ m >= r.finished
    BY <1>1
  <2> HIDE DEF m
  <2>3. s \in Midway /\ s.phase = r.phase /\ s.status = r.status /\ s.finished = m
    BY <2>2 DEF Midway
  <2> HIDE DEF s
  <2>4. Forward(s, r)
    BY <2>2, <2>3 DEF Forward
  <2>. QED BY <2>1, <2>4
<1>4. CASE r.disconnecting /\ r.connect_called
  <2>1. ShutDown(r) = r
    BY <1>4 DEF ShutDown
  <2>. QED BY <1>1, <2>1 DEF Forward
<1>. QED BY <1>2, <1>3, <1>4

\* tp_base_connection_change_status (DISCONNECTED): the only change of status
\* that any nesting of callbacks can make.
LEMMA ChangeStatusForward ==
    ASSUME NEW r \in Midway, NEW reaction
    PROVE  Forward(ChangeStatusDisconnected(r, reaction), r)
<1>1. r.finished \in Nat
  BY DEF Midway
<1>2. CASE r.status = "DISCONNECTED"
  BY <1>1, <1>2 DEF ChangeStatusDisconnected, Forward
<1>3. CASE r.status # "DISCONNECTED"
  <2> DEFINE r1 == [r EXCEPT !.status = "DISCONNECTED"]
             r2 == ClosePrompt(r1, reaction)
  <2>1. ChangeStatusDisconnected(r, reaction) = ShutDown(r2)
    BY <1>3 DEF ChangeStatusDisconnected
  <2>2. /\ r1 \in Midway /\ r1.phase = r.phase
        /\ r1.status = "DISCONNECTED" /\ r1.finished = r.finished
    BY DEF Midway
  <2> HIDE DEF r1
  <2>3. Forward(r1, r)
    BY <1>1, <2>2 DEF Forward
  <2>4. Forward(r2, r1)
    BY <2>2, ClosePromptForward
  <2> HIDE DEF r2
  <2>5. r2 \in Midway
    BY <2>4 DEF Forward
  <2>6. Forward(ShutDown(r2), r2)
    BY <2>5, ShutDownForward
  <2>7. Forward(r2, r)
    BY <2>3, <2>4, ForwardComposes
  <2>. QED BY <2>1, <2>6, <2>7, ForwardComposes
<1>. QED BY <1>2, <1>3

\* haze sets disconnecting and changes the status, as both callbacks of
\* libpurple do.
LEMMA ReportForward ==
    ASSUME NEW r \in Midway, NEW reaction
    PROVE  Forward(ChangeStatusDisconnected([r EXCEPT !.disconnecting = TRUE], reaction), r)
<1> DEFINE s == [r EXCEPT !.disconnecting = TRUE]
<1>1. s \in Midway /\ s.phase = r.phase /\ s.status = r.status /\ s.finished = r.finished
  BY DEF Midway
<1> HIDE DEF s
<1>2. r.finished \in Nat
  BY DEF Midway
<1>3. Forward(s, r)
  BY <1>1, <1>2 DEF Forward
<1>4. Forward(ChangeStatusDisconnected(s, reaction), s)
  BY <1>1, ChangeStatusForward
<1>5. Forward(ChangeStatusDisconnected(s, reaction), r)
  BY <1>3, <1>4, ForwardComposes
<1>. QED BY <1>5 DEF s

\* purple_connection_error_reason
LEMMA PurpleErrorForward ==
    ASSUME NEW r \in Midway, NEW reaction
    PROVE  Forward(PurpleError(r, reaction), r)
<1>1. r.finished \in Nat
  BY DEF Midway
<1>2. CASE r.errored
  BY <1>1, <1>2 DEF PurpleError, Forward
<1>3. CASE ~r.errored
  <2> DEFINE told == ReportDisconnectReason(r, reaction)
             e == told.gc # "none"
             s == [told EXCEPT !.errored = e]
  <2>1. PurpleError(r, reaction) = s
    BY <1>3 DEF PurpleError
  <2>2. Forward(told, r)
    BY ReportForward DEF ReportDisconnectReason
  <2>3. e \in BOOLEAN
    OBVIOUS
  <2> HIDE DEF told, e
  <2>4. told \in Midway /\ told.finished \in Nat
    BY <2>2 DEF Forward, Midway
  <2>5. s \in Midway /\ s.phase = told.phase /\ s.status = told.status /\ s.finished = told.finished
    BY <2>3, <2>4 DEF Midway
  <2> HIDE DEF s
  <2>6. Forward(s, told)
    BY <2>4, <2>5 DEF Forward
  <2>. QED BY <2>1, <2>2, <2>6, ForwardComposes
<1>. QED BY <1>2, <1>3

\* purple_account_disconnect
LEMMA AccountDisconnectForward ==
    ASSUME NEW r \in Midway, NEW reaction
    PROVE  Forward(AccountDisconnect(r, reaction), r)
<1> DEFINE told == ChangeStatusDisconnected([r EXCEPT !.disconnecting = TRUE], reaction)
           n == told.finish_idle + 1
           s == [told EXCEPT !.finish_idle = n]
<1>1. AccountDisconnect(r, reaction) = DropPurpleConnection(s)
  BY DEF AccountDisconnect, DisconnectedCb
<1>2. Forward(told, r)
  BY ReportForward
<1> HIDE DEF told
<1>3. told \in Midway /\ told.finished \in Nat /\ n \in Nat
  BY <1>2 DEF Forward, Midway
<1> HIDE DEF n
<1>4. s \in Midway /\ s.phase = told.phase /\ s.status = told.status /\ s.finished = told.finished
  BY <1>3 DEF Midway
<1> HIDE DEF s
<1>5. Forward(s, told)
  BY <1>3, <1>4 DEF Forward
<1>6. Forward(DropPurpleConnection(s), s)
  BY <1>4, DropForward
<1>7. Forward(s, r)
  BY <1>2, <1>5, ForwardComposes
<1>. QED BY <1>1, <1>6, <1>7, ForwardComposes

\* haze_request_password_cb (request, NULL)
LEMMA CancelForward ==
    ASSUME NEW r \in Midway, NEW reaction
    PROVE  Forward(CancelPasswordRequest(r, reaction), r)
<1> DEFINE s == IF reaction = "disconnect" THEN AccountDisconnect(r, reaction)
                ELSE PurpleError(r, reaction)
<1>1. CancelPasswordRequest(r, reaction) = ClosePasswordRequest(s)
  BY DEF CancelPasswordRequest
<1>2. Forward(s, r)
  BY AccountDisconnectForward, PurpleErrorForward
<1> HIDE DEF s
<1>3. Forward(ClosePasswordRequest(s), s)
  BY <1>2, ClosePasswordRequestForward DEF Forward
<1>. QED BY <1>1, <1>2, <1>3, ForwardComposes

\* purple_account_connect
LEMMA AccountConnectForward ==
    ASSUME NEW r \in Midway, NEW reaction
    PROVE  Forward(AccountConnect(r, reaction), r)
<1> DEFINE started == [r EXCEPT !.gc = "connecting"]
           failing == [started EXCEPT !.early = TRUE]
           ran == IF r.gc # "none" THEN r
                  ELSE IF reaction = "error" THEN PurpleError(failing, reaction) ELSE started
           s == [ran EXCEPT !.connect_called = TRUE]
<1>1. AccountConnect(r, reaction) = s
  BY DEF AccountConnect
<1>2. r.finished \in Nat
  BY DEF Midway
<1>3. /\ started \in Midway /\ started.phase = r.phase
      /\ started.status = r.status /\ started.finished = r.finished
  BY DEF Midway
<1> HIDE DEF started
<1>4. /\ failing \in Midway /\ failing.phase = r.phase
      /\ failing.status = r.status /\ failing.finished = r.finished
  BY <1>3 DEF Midway
<1> HIDE DEF failing
<1>5. Forward(r, r) /\ Forward(started, r) /\ Forward(failing, r)
  BY <1>2, <1>3, <1>4 DEF Forward
<1>6. Forward(PurpleError(failing, reaction), failing)
  BY <1>4, PurpleErrorForward
<1>7. Forward(PurpleError(failing, reaction), r)
  BY <1>5, <1>6, ForwardComposes
<1>8. Forward(ran, r)
  BY <1>5, <1>7
<1> HIDE DEF ran
<1>9. ran \in Midway /\ ran.finished \in Nat
  BY <1>8 DEF Forward, Midway
<1>10. s \in Midway /\ s.phase = ran.phase /\ s.status = ran.status /\ s.finished = ran.finished
  BY <1>9 DEF Midway
<1> HIDE DEF s
<1>11. Forward(s, ran)
  BY <1>9, <1>10 DEF Forward
<1>. QED BY <1>1, <1>8, <1>11, ForwardComposes

-----------------------------------------------------------------------------
(* What a main-loop event makes of one connection *)

\* An event other than Request, Connect, Connected and Finalize.
Quiet(c) == Forward(conn'[c], conn[c])

\* The steps of ConnectionLifecycle, seen from one connection.
LifeMoves(from, to) ==
    \/ to = from
    \/ from = "absent" /\ to = "new"
    \/ from = "new" /\ to = "connecting"
    \/ from = "connecting" /\ to = "connected"
    \/ from \in {"new", "connecting", "connected"} /\ to \in {"disconnected", "released"}
    \/ from = "disconnected" /\ to = "released"
    \/ from = "released" /\ to = "gone"

\* The statuses from s to r are in the order of StatusOrder.
StatusMoves(s, r) ==
    \/ s.status = r.status
    \/ s.status = "DISCONNECTED"
    \/ r.status = "NEW" /\ s.status = "CONNECTING"
    \/ r.status = "CONNECTING" /\ s.status = "CONNECTED"

\* What the life of a connection is, case by case.
LEMMA LifeCases ==
    ASSUME NEW r, ConnInv(r)
    PROVE  /\ r.phase = "absent" => Life(r) = "absent"
           /\ r.phase = "finalized" => Life(r) = "gone"
           /\ r.phase = "alive" /\ r.finished > 0 => Life(r) = "released"
           /\ r.phase = "alive" /\ ~(r.finished > 0) =>
                 /\ r.status = "NEW" => Life(r) = "new"
                 /\ r.status = "CONNECTING" => Life(r) = "connecting"
                 /\ r.status = "CONNECTED" => Life(r) = "connected"
                 /\ r.status = "DISCONNECTED" => Life(r) = "disconnected"
           /\ r.phase \in {"absent", "alive", "finalized"}
           /\ r.status \in {"NEW", "CONNECTING", "CONNECTED", "DISCONNECTED"}
           /\ r.status # "DISCONNECTED" => ~(r.finished > 0)
<1>1. /\ r.phase \in {"absent", "alive", "finalized"}
      /\ r.status \in {"NEW", "CONNECTING", "CONNECTED", "DISCONNECTED"}
  BY DEF ConnInv, ConnState
<1>2. r.status # "DISCONNECTED" => ~(r.finished > 0)
  BY DEF ConnInv, UpInv
<1>3. r.phase = "absent" => Life(r) = "absent"
  BY DEF Life
<1>4. r.phase = "finalized" => Life(r) = "gone"
  BY DEF Life
<1>5. r.phase = "alive" /\ r.finished > 0 => Life(r) = "released"
  BY DEF Life
<1>6. r.phase = "alive" /\ ~(r.finished > 0) =>
          Life(r) = [NEW |-> "new", CONNECTING |-> "connecting",
                     CONNECTED |-> "connected",
                     DISCONNECTED |-> "disconnected"][r.status]
  BY DEF Life
<1>. QED BY <1>1, <1>2, <1>3, <1>4, <1>5, <1>6

\* What goes forward takes a step of its life, or none.
LEMMA ForwardLife ==
    ASSUME NEW r, NEW s, ConnInv(r), ConnInv(s), Forward(s, r)
    PROVE  LifeMoves(Life(r), Life(s)) /\ StatusMoves(s, r) /\ s.phase = r.phase
<1>1. /\ s.phase = r.phase
      /\ s.status = r.status \/ s.status = "DISCONNECTED"
  BY DEF Forward
<1>2. r.finished > 0 => s.finished > 0
  BY DEF Forward, ConnInv, ConnState
<1>3. LifeMoves(Life(r), Life(s))
  BY <1>1, <1>2, LifeCases DEF LifeMoves
<1>. QED BY <1>1, <1>3 DEF StatusMoves

-----------------------------------------------------------------------------
(* The events *)

\* Between two events everything is in place for the lemmas above.
LEMMA BetweenEvents ==
    ASSUME IInv, NEW c \in Conns
    PROVE  ConnInv(conn[c]) /\ conn[c] \in Midway /\ conn[c] \in ConnState
BY StateIsMidway DEF IInv, ConnInv

\* Disconnect
LEMMA RequestDisconnectQuiet ==
    ASSUME IInv, NEW c \in Conns, RequestDisconnect(c)
    PROVE  Quiet(c)
<1>1. PICK reaction : conn' = [conn EXCEPT ![c] = ChangeStatusDisconnected(conn[c], reaction)]
  BY DEF RequestDisconnect
<1>2. conn'[c] = ChangeStatusDisconnected(conn[c], reaction)
  BY <1>1 DEF IInv, TypeOK
<1>. QED BY <1>2, BetweenEvents, ChangeStatusForward DEF Quiet

\* The two answers to the password prompt.
LEMMA PasswordGivenQuiet ==
    ASSUME IInv, NEW c \in Conns, PasswordGiven(c)
    PROVE  Quiet(c)
<1> DEFINE r == [conn[c] EXCEPT !.prompt = FALSE, !.password = TRUE]
           err(reaction) == IF reaction = "error" THEN PurpleError(r, reaction) ELSE r
<1>1. PICK reaction : conn' = [conn EXCEPT ![c] =
                         IF ~r.password_request THEN AccountConnect(r, reaction)
                         ELSE ClosePasswordRequest(err(reaction))]
  BY DEF PasswordGiven
<1>2. conn'[c] = IF ~r.password_request THEN AccountConnect(r, reaction)
                 ELSE ClosePasswordRequest(err(reaction))
  BY <1>1 DEF IInv, TypeOK
<1>3. /\ r \in Midway /\ r.phase = conn[c].phase
      /\ r.status = conn[c].status /\ r.finished = conn[c].finished
  BY BetweenEvents DEF Midway
<1> HIDE DEF r
<1>4. conn[c].finished \in Nat /\ conn[c] \in Midway
  BY BetweenEvents DEF Midway
<1>5. Forward(r, conn[c]) /\ Forward(r, r)
  BY <1>3, <1>4 DEF Forward
<1>6. Forward(AccountConnect(r, reaction), r)
  BY <1>3, AccountConnectForward
<1>7. Forward(err(reaction), r)
  BY <1>3, <1>5, PurpleErrorForward
<1> HIDE DEF err
<1>8. Forward(ClosePasswordRequest(err(reaction)), err(reaction))
  BY <1>7, ClosePasswordRequestForward DEF Forward
<1>9. Forward(ClosePasswordRequest(err(reaction)), r)
  BY <1>3, <1>7, <1>8, ForwardComposes
<1>10. Forward(conn'[c], r)
  BY <1>2, <1>6, <1>9
<1>11. Forward(conn'[c], conn[c])
  BY <1>4, <1>5, <1>10, ForwardComposes
<1>. QED BY <1>11 DEF Quiet

\* The user closes the password channel.
LEMMA PasswordRefusedQuiet ==
    ASSUME IInv, NEW c \in Conns, PasswordRefused(c)
    PROVE  Quiet(c)
<1> DEFINE r == [conn[c] EXCEPT !.prompt = FALSE]
<1>1. PICK reaction : conn' = [conn EXCEPT ![c] =
                         IF r.password_request THEN CancelPasswordRequest(r, reaction)
                         ELSE ChangeStatusDisconnected(r, reaction)]
  BY DEF PasswordRefused
<1>2. conn'[c] = IF r.password_request THEN CancelPasswordRequest(r, reaction)
                 ELSE ChangeStatusDisconnected(r, reaction)
  BY <1>1 DEF IInv, TypeOK
<1>3. /\ r \in Midway /\ r.phase = conn[c].phase
      /\ r.status = conn[c].status /\ r.finished = conn[c].finished
  BY BetweenEvents DEF Midway
<1> HIDE DEF r
<1>4. conn[c].finished \in Nat /\ conn[c] \in Midway
  BY BetweenEvents DEF Midway
<1>5. Forward(r, conn[c])
  BY <1>3, <1>4 DEF Forward
<1>6. Forward(conn'[c], r)
  BY <1>2, <1>3, CancelForward, ChangeStatusForward
<1>7. Forward(conn'[c], conn[c])
  BY <1>4, <1>5, <1>6, ForwardComposes
<1>. QED BY <1>7 DEF Quiet

\* The protocol reports an error, and the timeout it sets runs out.
LEMMA ConnectionErrorQuiet ==
    ASSUME IInv, NEW c \in Conns, ConnectionError(c)
    PROVE  Quiet(c)
<1>1. PICK reaction : conn' = [conn EXCEPT ![c] = PurpleError(conn[c], reaction)]
  BY DEF ConnectionError
<1>2. conn'[c] = PurpleError(conn[c], reaction)
  BY <1>1 DEF IInv, TypeOK
<1>. QED BY <1>2, BetweenEvents, PurpleErrorForward DEF Quiet

\* The timeout after an error.
LEMMA DisconnectTimeoutQuiet ==
    ASSUME IInv, NEW c \in Conns, DisconnectTimeout(c)
    PROVE  Quiet(c)
<1>1. PICK reaction : conn' = [conn EXCEPT ![c] = AccountDisconnect(conn[c], reaction)]
  BY DEF DisconnectTimeout
<1>2. conn'[c] = AccountDisconnect(conn[c], reaction)
  BY <1>1 DEF IInv, TypeOK
<1>. QED BY <1>2, BetweenEvents, AccountDisconnectForward DEF Quiet

\* The requests of the protocol.
LEMMA PurpleRequestQuiet ==
    ASSUME IInv, NEW c \in Conns, PurpleRequestPassword(c) \/ PurpleRequestFields(c)
    PROVE  Quiet(c)
<1>1. conn[c] \in Midway /\ conn[c].finished \in Nat
  BY BetweenEvents DEF Midway
<1>2. \/ conn' = [conn EXCEPT ![c].pwreq = TRUE, ![c].password_request = TRUE,
                              ![c].prompt = TRUE]
      \/ conn' = [conn EXCEPT ![c].fields = TRUE, ![c].destroy_idle = TRUE]
  BY DEF PurpleRequestPassword, PurpleRequestFields
<1> DEFINE p == [conn[c] EXCEPT !.pwreq = TRUE, !.password_request = TRUE, !.prompt = TRUE]
           f == [conn[c] EXCEPT !.fields = TRUE, !.destroy_idle = TRUE]
<1>3. conn'[c] = p \/ conn'[c] = f
  BY <1>1, <1>2 DEF IInv, TypeOK
<1>4. /\ p \in Midway /\ p.phase = conn[c].phase
      /\ p.status = conn[c].status /\ p.finished = conn[c].finished
  BY <1>1 DEF Midway
<1>5. /\ f \in Midway /\ f.phase = conn[c].phase
      /\ f.status = conn[c].status /\ f.finished = conn[c].finished
  BY <1>1 DEF Midway
<1> HIDE DEF p, f
<1>6. Forward(p, conn[c]) /\ Forward(f, conn[c])
  BY <1>1, <1>4, <1>5 DEF Forward
<1>. QED BY <1>3, <1>6 DEF Quiet

\* haze_request_fields_destroy
LEMMA FieldsDestroyQuiet ==
    ASSUME IInv, NEW c \in Conns, FieldsDestroy(c)
    PROVE  Quiet(c)
<1> DEFINE r == [conn[c] EXCEPT !.destroy_idle = FALSE]
<1>1. PICK cancel \in Reactions, reaction \in {"error", "disconnect"} :
          conn' = [conn EXCEPT ![c] =
                      IF r.fields THEN CloseFieldsRequest(CancelFieldsRequest(r, cancel, reaction))
                      ELSE r]
  BY DEF FieldsDestroy
<1> DEFINE s == CancelFieldsRequest(r, cancel, reaction)
<1>2. conn'[c] = IF r.fields THEN CloseFieldsRequest(s) ELSE r
  BY <1>1 DEF IInv, TypeOK
<1>3. /\ r \in Midway /\ r.phase = conn[c].phase
      /\ r.status = conn[c].status /\ r.finished = conn[c].finished
  BY BetweenEvents DEF Midway
<1> HIDE DEF r
<1>4. conn[c].finished \in Nat /\ conn[c] \in Midway
  BY BetweenEvents DEF Midway
<1>5. Forward(r, conn[c]) /\ Forward(r, r)
  BY <1>3, <1>4 DEF Forward
<1>6. Forward(s, r)
  BY <1>1, <1>3, <1>5, PurpleErrorForward, AccountDisconnectForward
     DEF CancelFieldsRequest, Reactions
<1> HIDE DEF s
<1>7. Forward(CloseFieldsRequest(s), s)
  BY <1>6, CloseFieldsRequestForward DEF Forward
<1>8. Forward(conn'[c], r)
  BY <1>2, <1>3, <1>5, <1>6, <1>7, ForwardComposes
<1>9. Forward(conn'[c], conn[c])
  BY <1>4, <1>5, <1>8, ForwardComposes
<1>. QED BY <1>9 DEF Quiet

\* idle_finish_shutdown
LEMMA IdleFinishShutdownQuiet ==
    ASSUME IInv, NEW c \in Conns, IdleFinishShutdown(c)
    PROVE  Quiet(c)
<1> DEFINE q == conn[c]
           n == q.finish_idle - 1
           m == q.finished + 1
           s == [q EXCEPT !.finish_idle = n, !.finished = m]
<1>1. q \in Midway /\ q \in ConnState /\ q.finish_idle > 0
  BY BetweenEvents DEF IdleFinishShutdown
<1>2. conn' = [conn EXCEPT ![c] = s]
  BY <1>1 DEF IdleFinishShutdown, FinishShutdown, ConnState
<1>3. conn'[c] = s
  BY <1>2 DEF IInv, TypeOK
<1> HIDE DEF q
<1>4. n \in Nat /\ m \in Nat /\ m >= q.finished
  BY <1>1 DEF Midway
<1> HIDE DEF n, m
<1>5. s \in Midway /\ s.phase = q.phase /\ s.status = q.status /\ s.finished = m
  BY <1>1, <1>4 DEF Midway
<1> HIDE DEF s
<1>6. Forward(s, q)
  BY <1>4, <1>5 DEF Forward
<1>. QED BY <1>3, <1>6 DEF Quiet, q

-----------------------------------------------------------------------------
(* Every event takes a step of the life of its connection *)

\* What the step of connection c shows: it takes a step of its life, in the
\* order of the statuses, and the other connections stay as they are.
ClientStep(c) ==
    /\ conn' = [conn EXCEPT ![c] = conn'[c]]
    /\ LifeMoves(Life(conn[c]), Life(conn'[c]))
    /\ Life(conn[c]) = "absent" /\ Life(conn'[c]) = "new" =>
          \A d \in Conns : Alive(d) => AccountOf[d] # AccountOf[c]
    /\ Alive(c) => StatusMoves(conn'[c], conn[c])

\* A quiet event.
LEMMA QuietStep ==
    ASSUME IInv, IInv', NEW c \in Conns, Quiet(c),
           conn' = [conn EXCEPT ![c] = conn'[c]]
    PROVE  ClientStep(c)
<1> DEFINE s == conn'[c]
<1>1. ConnInv(conn[c]) /\ ConnInv(s)
  BY DEF IInv
<1>2. Forward(s, conn[c])
  BY DEF Quiet
<1> HIDE DEF s
<1>3. LifeMoves(Life(conn[c]), Life(s)) /\ StatusMoves(s, conn[c]) /\ s.phase = conn[c].phase
  BY <1>1, <1>2, ForwardLife
<1>4. Life(conn[c]) = "absent" => Life(s) # "new"
  BY <1>1, <1>3, LifeCases
<1>. QED BY <1>3, <1>4 DEF ClientStep, s

\* Which connection an event is about.
LEMMA OneConnection ==
    ASSUME IInv, NEW c \in Conns, NEW s, conn' = [conn EXCEPT ![c] = s]
    PROVE  conn'[c] = s /\ conn' = [conn EXCEPT ![c] = conn'[c]]
BY DEF IInv, TypeOK

\* RequestConnection
LEMMA RequestConnectionLife ==
    ASSUME IInv, IInv', NEW c \in Conns, RequestConnection(c)
    PROVE  ClientStep(c)
<1>1. PICK known \in BOOLEAN :
          conn' = [conn EXCEPT ![c] = [NoConnection EXCEPT !.phase = "alive", !.password = known]]
  BY DEF RequestConnection
<1> DEFINE s == [NoConnection EXCEPT !.phase = "alive", !.password = known]
<1>2. conn'[c] = s /\ conn' = [conn EXCEPT ![c] = conn'[c]]
  BY <1>1, OneConnection
<1>3. ~(s.finished > 0) /\ s.phase = "alive" /\ s.status = "NEW"
  BY DEF NoConnection
<1> HIDE DEF s
<1>4. ConnInv(s) /\ ConnInv(conn[c])
  BY <1>2 DEF IInv
<1>5. Life(s) = "new"
  BY <1>3, <1>4, LifeCases
<1>6. conn[c].phase = "absent" /\ \A d \in Conns : Alive(d) => AccountOf[d] # AccountOf[c]
  BY DEF RequestConnection
<1>7. Life(conn[c]) = "absent" /\ ~Alive(c)
  BY <1>4, <1>6, LifeCases DEF Alive
<1>. QED BY <1>2, <1>5, <1>6, <1>7 DEF ClientStep, LifeMoves

\* Connect: the connection is being made, or has already failed.
LEMMA StartConnectingLife ==
    ASSUME IInv, IInv', NEW c \in Conns, StartConnecting(c)
    PROVE  ClientStep(c)
<1> DEFINE q == conn[c]
           r == [q EXCEPT !.status = "CONNECTING"]
           s == conn'[c]
           p == [r EXCEPT !.prompt = TRUE]
<1>1. \/ conn' = [conn EXCEPT ![c] = p]
      \/ \E reaction : conn' = [conn EXCEPT ![c] = AccountConnect(r, reaction)]
  BY DEF StartConnecting
<1>2. q.phase = "alive" /\ q.status = "NEW"
  BY DEF StartConnecting, Alive
<1>3. /\ s = p \/ \E reaction : s = AccountConnect(r, reaction)
      /\ conn' = [conn EXCEPT ![c] = s]
  BY <1>1, OneConnection
<1>4. ConnInv(s) /\ ConnInv(q) /\ q \in Midway
  BY BetweenEvents DEF IInv
<1> HIDE DEF q, s
<1>5. r \in Midway /\ r.phase = "alive" /\ r.status = "CONNECTING" /\ r.finished \in Nat
  BY <1>2, <1>4 DEF Midway
<1> HIDE DEF r
<1>6. p \in Midway /\ p.phase = r.phase /\ p.status = r.status /\ p.finished = r.finished
  BY <1>5 DEF Midway
<1>7. Forward(p, r)
  BY <1>5, <1>6 DEF Forward
<1> HIDE DEF p
<1>8. Forward(s, r)
  BY <1>3, <1>5, <1>7, AccountConnectForward
<1>9. s.phase = "alive" /\ s.status \in {"CONNECTING", "DISCONNECTED"}
  BY <1>5, <1>8 DEF Forward
<1>10. Life(q) = "new" /\ Life(s) \in {"connecting", "disconnected", "released"}
  BY <1>2, <1>4, <1>9, LifeCases
<1>11. LifeMoves(Life(q), Life(s)) /\ StatusMoves(s, q)
  BY <1>2, <1>9, <1>10 DEF LifeMoves, StatusMoves
<1>. QED BY <1>3, <1>10, <1>11 DEF ClientStep, q, s

\* connected_cb
LEMMA ConnectedLife ==
    ASSUME IInv, IInv', NEW c \in Conns, Connected(c)
    PROVE  ClientStep(c)
<1> DEFINE q == conn[c]
           s == [q EXCEPT !.gc = "connected", !.status = "CONNECTED"]
<1>1. ConnInv(q) /\ q \in ConnState /\ q.gc = "connecting" /\ ~q.errored
  BY BetweenEvents DEF Connected, Running
<1>2. conn' = [conn EXCEPT ![c].gc = "connected", ![c].status = "CONNECTED"]
  BY DEF Connected
<1>3. conn' = [conn EXCEPT ![c] = s]
  BY <1>1, <1>2 DEF IInv, TypeOK
<1>4. conn'[c] = s /\ conn' = [conn EXCEPT ![c] = conn'[c]]
  BY <1>3, OneConnection
<1>5. s.status = "CONNECTED" /\ s.phase = q.phase
  BY <1>1 DEF ConnState
<1>6. ConnInv(s)
  BY <1>4 DEF IInv
<1> HIDE DEF q, s
<1>7. q.phase = "alive" /\ q.status # "DISCONNECTED" /\ q.connect_called
  BY <1>1, ActiveIsUp
<1>8. q.status = "CONNECTING"
  BY <1>1, <1>7 DEF ConnInv, UpInv, ConnState
<1>9. Life(q) = "connecting" /\ Life(s) = "connected"
  BY <1>1, <1>5, <1>6, <1>7, <1>8, LifeCases
<1>10. LifeMoves(Life(q), Life(s)) /\ StatusMoves(s, q)
  BY <1>5, <1>8, <1>9 DEF LifeMoves, StatusMoves
<1>. QED BY <1>4, <1>9, <1>10 DEF ClientStep, q

\* haze_connection_finalize
LEMMA FinalizeLife ==
    ASSUME IInv, IInv', NEW c \in Conns, Finalize(c)
    PROVE  ClientStep(c)
<1> DEFINE q == conn[c]
           r == [q EXCEPT !.phase = "finalized"]
           s == IF r.gc = "none" THEN r ELSE LateAccountDisconnect(r)
<1>1. conn' = [conn EXCEPT ![c] = s]
  BY DEF Finalize
<1>2. conn'[c] = s /\ conn' = [conn EXCEPT ![c] = conn'[c]]
  BY <1>1, OneConnection
<1>3. ConnInv(q) /\ q \in Midway /\ q.phase = "alive" /\ q.finished > 0
  BY BetweenEvents DEF Finalize, Alive
<1> HIDE DEF q
<1>4. r \in Midway /\ r.phase = "finalized" /\ r.status = q.status /\ r.finished \in Nat
  BY <1>3 DEF Midway
<1> HIDE DEF r
<1>5. Forward(r, r)
  BY <1>4 DEF Forward
<1>6. Forward(s, r)
  BY <1>4, <1>5, LateAccountDisconnectForward
<1>7. s.phase = "finalized" /\ (s.status = q.status \/ s.status = "DISCONNECTED")
  BY <1>4, <1>6 DEF Forward
<1>8. ConnInv(s)
  BY <1>2 DEF IInv
<1> HIDE DEF s
<1>9. Life(q) = "released" /\ Life(s) = "gone"
  BY <1>3, <1>7, <1>8, LifeCases
<1>10. LifeMoves(Life(q), Life(s)) /\ StatusMoves(s, q)
  BY <1>7, <1>9 DEF LifeMoves, StatusMoves
<1>. QED BY <1>2, <1>9, <1>10 DEF ClientStep, q

\* Every event is a step of one connection.
LEMMA NextIsClientStep ==
    ASSUME IInv, IInv', Next
    PROVE  \E c \in Conns : ClientStep(c)
<1>1. PICK c \in Conns :
        \/ RequestConnection(c) \/ StartConnecting(c) \/ RequestDisconnect(c)
        \/ PasswordGiven(c) \/ PasswordRefused(c)
        \/ Connected(c) \/ ConnectionError(c) \/ DisconnectTimeout(c)
        \/ PurpleRequestPassword(c) \/ PurpleRequestFields(c)
        \/ FieldsDestroy(c) \/ IdleFinishShutdown(c) \/ Finalize(c)
  BY DEF Next
<1>2. CASE \/ RequestConnection(c) \/ StartConnecting(c) \/ Connected(c) \/ Finalize(c)
  BY <1>2, RequestConnectionLife, StartConnectingLife, ConnectedLife, FinalizeLife
<1>3. CASE \/ RequestDisconnect(c) \/ PasswordGiven(c) \/ PasswordRefused(c)
           \/ ConnectionError(c) \/ DisconnectTimeout(c)
           \/ PurpleRequestPassword(c) \/ PurpleRequestFields(c)
           \/ FieldsDestroy(c) \/ IdleFinishShutdown(c)
  <2>1. Quiet(c)
    BY <1>3, RequestDisconnectQuiet, PasswordGivenQuiet, PasswordRefusedQuiet,
       ConnectionErrorQuiet, DisconnectTimeoutQuiet, PurpleRequestQuiet,
       FieldsDestroyQuiet, IdleFinishShutdownQuiet
  <2>2. \E s : conn' = [conn EXCEPT ![c] = s]
    <3>1. CASE PurpleRequestPassword(c)
      BY <3>1 DEF PurpleRequestPassword, IInv, TypeOK
    <3>2. CASE PurpleRequestFields(c)
      BY <3>2 DEF PurpleRequestFields, IInv, TypeOK
    <3>3. CASE ~PurpleRequestPassword(c) /\ ~PurpleRequestFields(c)
      BY <1>3, <3>3 DEF RequestDisconnect, PasswordGiven, PasswordRefused, ConnectionError,
         DisconnectTimeout, FieldsDestroy, IdleFinishShutdown
    <3>. QED BY <3>1, <3>2, <3>3
  <2>3. conn' = [conn EXCEPT ![c] = conn'[c]]
    BY <2>2, OneConnection
  <2>. QED BY <2>1, <2>3, QuietStep
<1>. QED BY <1>1, <1>2, <1>3

-----------------------------------------------------------------------------
(* The two results *)

\* The status that clients see only ever moves forward, whatever is called back
\* inside the event that changes it.
THEOREM StatusesMoveForward == Spec => StatusMovesForward
<1> DEFINE InOrder == \A c \in Conns :
          Alive(c) /\ conn'[c].status # conn[c].status =>
              \E i, j \in 1..4 : /\ i < j
                                  /\ StatusOrder[i] = conn[c].status
                                  /\ StatusOrder[j] = conn'[c].status
<1>1. IInv /\ IInv' /\ [Next]_vars => [InOrder]_vars
  <2> SUFFICES ASSUME IInv, IInv', Next, NEW c \in Conns,
                      Alive(c), conn'[c].status # conn[c].status
               PROVE  \E i, j \in 1..4 : /\ i < j
                                          /\ StatusOrder[i] = conn[c].status
                                          /\ StatusOrder[j] = conn'[c].status
    OBVIOUS
  <2>1. PICK d \in Conns : ClientStep(d)
    BY NextIsClientStep
  <2>2. d = c
    BY <2>1 DEF ClientStep, IInv, TypeOK
  <2>3. StatusMoves(conn'[c], conn[c])
    BY <2>1, <2>2 DEF ClientStep
  <2>4. conn[c].status \in {"NEW", "CONNECTING", "CONNECTED", "DISCONNECTED"}
    BY BetweenEvents DEF ConnState
  <2>5. /\ StatusOrder[1] = "NEW" /\ StatusOrder[2] = "CONNECTING"
        /\ StatusOrder[3] = "CONNECTED" /\ StatusOrder[4] = "DISCONNECTED"
    BY DEF StatusOrder
  <2>6. 1 < 2 /\ 2 < 3 /\ 1 < 4 /\ 2 < 4 /\ 3 < 4 /\ {1, 2, 3, 4} \subseteq 1..4
    OBVIOUS
  <2>. QED BY <2>3, <2>4, <2>5, <2>6 DEF StatusMoves
<1>. QED BY <1>1, Invariance, PTL DEF Spec, StatusMovesForward

\* A step of ConnectionLifecycle for one connection.
LEMMA LifeStep ==
    ASSUME IInv, IInv', NEW c \in Conns, ClientStep(c)
    PROVE  [Lifecycle!Next]_([d \in Conns |-> Life(conn[d])])
<1> DEFINE life == [d \in Conns |-> Life(conn[d])]
           from == Life(conn[c])
           to == Life(conn'[c])
<1>1. LifeMoves(from, to) /\ (from = "absent" /\ to = "new" =>
          \A d \in Conns : Alive(d) => AccountOf[d] # AccountOf[c])
  BY DEF ClientStep
<1>2. life' = [life EXCEPT ![c] = to] /\ life[c] = from
  BY DEF ClientStep, IInv, TypeOK
<1>3. \A d \in Conns : life[d] \notin {"absent", "gone"} => Alive(d)
  <2> SUFFICES ASSUME NEW d \in Conns, Life(conn[d]) \notin {"absent", "gone"}
               PROVE  conn[d].phase = "alive"
    BY DEF Alive
  <2>. QED BY LifeCases DEF IInv
<1>4. CASE to = from
  <2>1. life' = life
    BY <1>2, <1>4
  <2>. QED BY <2>1
<1>5. CASE from = "absent" /\ to = "new"
  <2>1. Lifecycle!Request(c)
    BY <1>1, <1>2, <1>3, <1>5 DEF Lifecycle!Request, Lifecycle!Holds, Lifecycle!Move
  <2>. QED BY <2>1 DEF Lifecycle!Next
<1>6. CASE from = "new" /\ to = "connecting"
  <2>1. Lifecycle!Connect(c)
    BY <1>2, <1>6 DEF Lifecycle!Connect, Lifecycle!Move
  <2>. QED BY <2>1 DEF Lifecycle!Next
<1>7. CASE from = "connecting" /\ to = "connected"
  <2>1. Lifecycle!Establish(c)
    BY <1>2, <1>7 DEF Lifecycle!Establish, Lifecycle!Move
  <2>. QED BY <2>1 DEF Lifecycle!Next
<1>8. CASE from \in {"new", "connecting", "connected"} /\ to \in {"disconnected", "released"}
  <2>1. Lifecycle!Disconnect(c)
    BY <1>2, <1>8 DEF Lifecycle!Disconnect, Lifecycle!Move
  <2>. QED BY <2>1 DEF Lifecycle!Next
<1>9. CASE from = "disconnected" /\ to = "released"
  <2>1. Lifecycle!Release(c)
    BY <1>2, <1>9 DEF Lifecycle!Release, Lifecycle!Move
  <2>. QED BY <2>1 DEF Lifecycle!Next
<1>10. CASE from = "released" /\ to = "gone"
  <2>1. Lifecycle!Remove(c)
    BY <1>2, <1>10 DEF Lifecycle!Remove, Lifecycle!Move
  <2>. QED BY <2>1 DEF Lifecycle!Next
<1>. QED BY <1>1, <1>4, <1>5, <1>6, <1>7, <1>8, <1>9, <1>10 DEF LifeMoves

\* What a client sees of the connections is a behaviour of ConnectionLifecycle:
\* a connection goes through its states once and in one direction, and two
\* connections never hold the same account.
THEOREM RefinesLifecycle == Spec => Lifecycle!Spec
<1>1. Init => Lifecycle!Init
  <2> SUFFICES ASSUME Init PROVE [c \in Conns |-> Life(conn[c])] = [c \in Conns |-> "absent"]
    BY DEF Lifecycle!Init
  <2>1. \A c \in Conns : Life(conn[c]) = "absent"
    BY DEF Init, NoConnection, Life
  <2>. QED BY <2>1
<1>2. IInv /\ IInv' /\ [Next]_vars => [Lifecycle!Next]_([c \in Conns |-> Life(conn[c])])
  <2> SUFFICES ASSUME IInv, IInv', [Next]_vars
               PROVE  [Lifecycle!Next]_([c \in Conns |-> Life(conn[c])])
    OBVIOUS
  <2>1. CASE Next
    BY <2>1, NextIsClientStep, LifeStep
  <2>2. CASE UNCHANGED vars
    BY <2>2 DEF vars
  <2>. QED BY <2>1, <2>2
<1>. QED BY <1>1, <1>2, Invariance, PTL DEF Spec, Lifecycle!Spec
=============================================================================
