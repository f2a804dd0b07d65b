------------------------- MODULE ConnectionLifecycle -------------------------
(***************************************************************************)
(* What a Telepathy client may rely on for every connection it requests,   *)
(* with no libpurple and no callbacks: a connection goes through its       *)
(* states once and in one direction, an account is held by one connection  *)
(* at a time, and a connection that is disconnected, for whatever reason,  *)
(* is eventually gone, which frees its account for the next request.       *)
(***************************************************************************)
CONSTANTS Conns, Accounts, AccountOf

VARIABLE life   \* life[c]: where connection c is in its life

Lives == {"absent", "new", "connecting", "connected", "disconnected", "released", "gone"}

Holds(c) == life[c] \notin {"absent", "gone"}

Move(c, from, to) == life[c] \in from /\ life' = [life EXCEPT ![c] = to]

Init == life = [c \in Conns |-> "absent"]

\* RequestConnection: the account must not be held by another connection.
Request(c) ==
    /\ \A d \in Conns : Holds(d) => AccountOf[d] # AccountOf[c]
    /\ Move(c, {"absent"}, "new")

Connect(c)   == Move(c, {"new"}, "connecting")
Establish(c) == Move(c, {"connecting"}, "connected")

\* Disconnected: asked for, refused, or lost.  Nothing may be left to wait for.
Disconnect(c) ==
    \E to \in {"disconnected", "released"} :
        Move(c, {"new", "connecting", "connected"}, to)

Release(c) == Move(c, {"disconnected"}, "released")   \* shutdown is finished
Remove(c)  == Move(c, {"released"}, "gone")           \* the object is destroyed

Next ==
    \E c \in Conns :
        \/ Request(c) \/ Connect(c) \/ Establish(c) \/ Disconnect(c)
        \/ Release(c) \/ Remove(c)

Fairness == \A c \in Conns : WF_life(Release(c)) /\ WF_life(Remove(c))

Spec == Init /\ [][Next]_life
FairSpec == Spec /\ Fairness
=============================================================================
