------------------------------- MODULE MCCalls --------------------------------
(***************************************************************************)
(* Direct calls at both ends: the instance of DirectCall in MCDirectCall,  *)
(* and one of CallClient, whose server may send anything.  The initial     *)
(* state chooses the part that moves.  The tasks of the one are the        *)
(* conversations of the other, which share their symmetry.                 *)
(***************************************************************************)
EXTENDS MCDirectCall, CallClient

VARIABLE part

serverVars == vars

PartsInit == part \in {"server", "client"} /\ Init /\ ClientInit

PartsNext ==
    /\ UNCHANGED part
    /\ \/ part = "server" /\ Next /\ UNCHANGED callVars
       \/ part = "client" /\ ClientNext /\ UNCHANGED serverVars

PartsSpec == PartsInit /\ [][PartsNext]_<<part, serverVars, callVars>>

-----------------------------------------------------------------------------
(* TypeOK of DirectCall and of CallClient. *)
PartsTypeOK == IF part = "server" THEN TypeOK ELSE ClientTypeOK
=============================================================================
