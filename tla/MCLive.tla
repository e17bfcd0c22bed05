-------------------------------- MODULE MCLive ---------------------------------
(***************************************************************************)
(* Instances of RefreshSessions and, with one device of each user, of      *)
(* SecretSetup, for what must happen.  The initial state chooses the part  *)
(* that moves.                                                             *)
(***************************************************************************)
EXTENDS RefreshSessions

CONSTANTS t1, t2, s1, d1, p1, p2, a1, k1, k2

VARIABLES
    part,
    conv, req, revived, free, taken, secrets, pub, prekeyRow, known,
    key, share, msgs, events, attempted, receipts, faults, chosen, linked

refreshVars == vars
setupVars == <<conv, req, revived, free, taken, secrets, pub, prekeyRow, known,
               key, share, msgs, events, attempted, receipts, faults, chosen, linked>>

Setup == INSTANCE SecretSetup WITH
    NoId <- Nil, Thread <- {t1}, DeviceA <- {a1}, DeviceB <- {d1}, ThreadReq <- {p1},
    Holder <- {d1}, Prekey <- {k1, k2}, Tab <- {p1}, MaxFree <- 1, MaxLocal <- 2, Batch <- 1,
    Starter <- {a1}, Joiner <- {}, Job <- {p1}, Copy <- {p1},
    AskAt <- 1, Poison <- 1, MinReserve <- 1, MaxFaults <- 1,
    row <- prekeyRow, job <- share

PartsInit == part \in {"refresh", "setup"} /\ Init /\ Setup!Init

(* Both users may be done with a chat; the requests may not stop. *)
PartsNext ==
    /\ UNCHANGED part
    /\ \/ part = "refresh" /\ Next /\ UNCHANGED setupVars
       \/ part = "setup" /\ (Setup!Next \/ UNCHANGED setupVars) /\ UNCHANGED refreshVars

(* The fairness of RefreshSessions, and what is enough of that of SecretSetup in
   so small an instance. *)
Fair(p, actions) == part = p /\ actions

PartsFairness ==
    /\ \A p \in Proc : SF_refreshVars(Fair("refresh", Step(p)))
    /\ WF_setupVars(Fair("setup", Setup!Shares))
    /\ WF_setupVars(Fair("setup", Setup!PublicationServed(p1)))
    /\ WF_setupVars(Fair("setup", \E m \in msgs : Setup!Import(m) \/ Setup!Miss(m)))
    /\ WF_setupVars(Fair("setup", \E m \in msgs : Setup!OnNudge(p1, m)))

PartsSpec ==
    /\ PartsInit /\ [][PartsNext]_<<part, refreshVars, setupVars>>
    /\ PartsFairness

(* KeyArrives of SecretSetup. *)
KeyArrives == Setup!KeyArrives
=============================================================================
