------------------------------- MODULE CallLife -------------------------------
(***************************************************************************)
(* What callState of src/src/realtime/socket.ts promises of the 1:1 calls  *)
(* of a conversation, whatever handlers and timers race: one call at a     *)
(* time, which rings for the user and the socket that placed it until it   *)
(* is answered or over, is answered for good, and, once over, is never     *)
(* there again; no call takes the place of one that rings.                 *)
(***************************************************************************)
EXTENDS Naturals

CONSTANTS User, Socket, None

VARIABLES
    call,       \* the call that rings or was answered, or None
    placed      \* how many calls were placed; numbers them

vars == <<call, placed>>

Init == call = None /\ placed = 0

Place(u, s) ==
    /\ call = None \/ call.accepted
    /\ placed' = placed + 1
    /\ call' = [inviter |-> u, sock |-> s, accepted |-> FALSE, call |-> placed']

Answer ==
    /\ call # None /\ ~call.accepted
    /\ call' = [call EXCEPT !.accepted = TRUE]
    /\ UNCHANGED placed

Finish == call' = None /\ UNCHANGED placed

Next ==
    \/ \E u \in User, s \in Socket : Place(u, s)
    \/ Answer \/ Finish

Spec == Init /\ [][Next]_vars
=============================================================================
