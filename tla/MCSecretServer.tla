---------------------------- MODULE MCSecretServer ----------------------------
(***************************************************************************)
(* The inbox of a device, with a message of a thread, a key package and an *)
(* item of a kind its pump does not know, and the prekeys of a device with *)
(* two tabs.  The initial state chooses the part that moves, and of two    *)
(* messages the one that may be sent again, lose its mark and be purged;   *)
(* the other one, or each of all three, is sent until it is stored.        *)
(***************************************************************************)
EXTENDS SecretInbox, Prekeys

CONSTANTS
    m1, p1,             \* messages, and a request
    d1,                 \* a device
    k1, k2, k3, k4,     \* prekeys
    x1, x2              \* tabs

VARIABLES part, again

inboxVars == vars

Sent == CASE again \in {m1, k1} -> {m1, k1}
          [] again = k2 -> {k1, k2}
          [] again = NoMsg -> Msg

SentOnce(m) ==
    /\ m \in seen => m \in seen'
    /\ m \in stored => m \in stored' /\ \A k \in Pusher : push'[k].msg = m => push[k].msg = m

InboxNext ==
    /\ Next
    /\ \A k \in Pusher : push'[k].msg \in Sent \cup {NoMsg}
    /\ \A m \in Msg \ {again} : SentOnce(m)

PartsInit ==
    /\ part \in {"inbox", "prekeys"}
    /\ again \in IF part = "inbox" THEN Msg \cup {NoMsg} ELSE {NoMsg}
    /\ Init /\ PoolInit({})

PartsNext ==
    /\ UNCHANGED <<part, again>>
    /\ \/ part = "inbox" /\ InboxNext /\ UNCHANGED poolVars
       \/ part = "prekeys" /\ PoolNext /\ UNCHANGED inboxVars

(* The fairness of SecretInbox. *)
Fair(actions) == part = "inbox" /\ actions

PartsFairness ==
    /\ \A p \in Puller :
          WF_inboxVars(Fair(Starts(p))) /\ SF_inboxVars(Fair(Serves(p))) /\ SF_inboxVars(Fair(Handles(p)))
    /\ \A m \in Msg : SF_inboxVars(Fair(AckRemoves(m)))
    /\ <>[][\A m \in Msg : ~Lapses(m)]_inboxVars

PartsSpec == PartsInit /\ [][PartsNext]_<<part, again, inboxVars, poolVars>> /\ PartsFairness
=============================================================================
