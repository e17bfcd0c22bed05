---------------------------- MODULE MCCallsThreads ----------------------------
(***************************************************************************)
(* Direct calls, as MCCalls has them, and the secret chats of two users.   *)
(* The initial state chooses the part that moves.  The tasks of the calls  *)
(* are the chats and the requests, which share their symmetry.             *)
(***************************************************************************)
EXTENDS MCCalls, SecretThread

CONSTANTS c1, c2, e1, e2    \* devices of the two users

VARIABLE chats

AllInit == chats \in BOOLEAN /\ PartsInit /\ ThreadInit /\ (chats => part = "server")

AllNext ==
    /\ UNCHANGED chats
    /\ \/ ~chats /\ PartsNext /\ UNCHANGED threadVars
       \/ chats /\ ThreadNext /\ UNCHANGED <<part, serverVars, callVars>>

AllSpec == AllInit /\ [][AllNext]_<<chats, part, serverVars, callVars, threadVars>>
=============================================================================
