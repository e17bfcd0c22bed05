----------------------------- MODULE SecretThread -----------------------------
(***************************************************************************)
(* The secret chats of two users at the server (src/src/routes/threads.ts):*)
(* the conversation rows and the requests that create, accept and decline  *)
(* them, and the older socket events that accept and decline them too      *)
(* (src/src/realtime/socket.ts).  A creation is one transaction under an   *)
(* advisory lock of the pair, hence one step.  An acceptance and a decline *)
(* read the row, await, and then write it without looking again, hence two *)
(* steps of a request.                                                     *)
(*                                                                         *)
(* Abstracted: the order in which a creation prefers one of several        *)
(* threads, and the participants, who are always the two users.            *)
(***************************************************************************)
EXTENDS Naturals

CONSTANTS
    Thread,     \* ids of conversations
    DeviceA, DeviceB,   \* the devices of the two users
    ThreadReq,  \* requests and events handled at the same time
    NoId

ChatDevice == DeviceA \cup DeviceB
SameUser(d, e) == {d, e} \subseteq DeviceA \/ {d, e} \subseteq DeviceB

ASSUME ThreadAssumption == NoId \notin ChatDevice \cup Thread

VARIABLES
    conv,       \* [Thread -> secretStatus, secretInitiatorDeviceId,
                \*   secretPeerDeviceId]; the creator is the initiator's user
    req,        \* [ThreadReq -> a request or an event]
    revived     \* history: threads accepted after they were cancelled

threadVars == <<conv, req, revived>>

Conv == [status : {"absent", "PENDING", "ACTIVE", "CANCELLED"},
         initiator : ChatDevice \cup {NoId},
         pin : ChatDevice \cup {NoId}]
Request == [pc : {"idle", "accept", "event", "decline"},
            thread : Thread \cup {NoId},
            dev : ChatDevice \cup {NoId},
            saw : ChatDevice \cup {NoId}]   \* the pin it read

NoRequest == [pc |-> "idle", thread |-> NoId, dev |-> NoId, saw |-> NoId]

ThreadInit ==
    /\ conv = [t \in Thread |-> [status |-> "absent", initiator |-> NoId, pin |-> NoId]]
    /\ req = [r \in ThreadReq |-> NoRequest]
    /\ revived = {}

-----------------------------------------------------------------------------
(* The threads a creation finds.  Mutant: only those still pending. *)
CandidatesPending == {t \in Thread : conv[t].status = "PENDING"}
Candidates == {t \in Thread : conv[t].status \in {"PENDING", "ACTIVE"}}

Live(t) == conv[t].status \in {"PENDING", "ACTIVE"}
Created(t, d) == SameUser(conv[t].initiator, d)

CreateThread(d, t) ==
    /\ Candidates = {}
    /\ conv[t].status = "absent"
    /\ conv' = [conv EXCEPT ![t] = [status |-> "PENDING", initiator |-> d, pin |-> NoId]]
    /\ UNCHANGED <<req, revived>>

(* An idempotent creation answers with the thread there is. *)
FindThread(t) ==
    /\ t \in Candidates
    /\ UNCHANGED threadVars

(* Accepting is refused to another device of the peer once one is pinned.
   Mutant: it is not. *)
AcceptableByAny(t, d) == Live(t) /\ ~Created(t, d)
Acceptable(t, d) ==
    /\ Live(t) /\ ~Created(t, d)
    /\ conv[t].status = "ACTIVE" => conv[t].pin \in {NoId, d}

AcceptReads(r, t, d) ==
    /\ req[r].pc = "idle"
    /\ Acceptable(t, d)
    /\ req' = [req EXCEPT ![r] =
                  [pc |-> "accept", thread |-> t, dev |-> d, saw |-> conv[t].pin]]
    /\ UNCHANGED <<conv, revived>>

(* The event secret:chat:accept of a device of either user, whatever is pinned
   and whoever created the chat. *)
EventReads(r, t, d) ==
    /\ req[r].pc = "idle"
    /\ Live(t)
    /\ req' = [req EXCEPT ![r] =
                  [NoRequest EXCEPT !.pc = "event", !.thread = t, !.dev = d]]
    /\ UNCHANGED <<conv, revived>>

(* Both pin the device. *)
Pins(r) ==
    LET t == req[r].thread IN
    /\ conv' = [conv EXCEPT ![t].status = "ACTIVE", ![t].pin = req[r].dev]
    /\ revived' = IF conv[t].status = "CANCELLED" THEN revived \cup {t} ELSE revived
    /\ req' = [req EXCEPT ![r] = NoRequest]

AcceptWrites(r) == req[r].pc = "accept" /\ Pins(r)
EventWrites(r) == req[r].pc = "event" /\ Pins(r)

(* A decline, by the route or by the event secret:chat:decline. *)
DeclineReads(r, t) ==
    /\ req[r].pc = "idle"
    /\ Live(t)
    /\ req' = [req EXCEPT ![r] = [NoRequest EXCEPT !.pc = "decline", !.thread = t]]
    /\ UNCHANGED <<conv, revived>>

DeclineWrites(r) ==
    /\ req[r].pc = "decline"
    /\ conv' = [conv EXCEPT ![req[r].thread].status = "CANCELLED"]
    /\ req' = [req EXCEPT ![r] = NoRequest]
    /\ UNCHANGED revived

(* A query throws. *)
RequestFails(r) ==
    /\ req[r].pc # "idle"
    /\ req' = [req EXCEPT ![r] = NoRequest]
    /\ UNCHANGED <<conv, revived>>

ThreadNext ==
    \/ \E d \in ChatDevice, t \in Thread : CreateThread(d, t)
    \/ \E t \in Thread : FindThread(t)
    \/ \E r \in ThreadReq :
          \/ \E t \in Thread, d \in ChatDevice : AcceptReads(r, t, d) \/ EventReads(r, t, d)
          \/ \E t \in Thread : DeclineReads(r, t)
          \/ AcceptWrites(r) \/ EventWrites(r) \/ DeclineWrites(r) \/ RequestFails(r)

ThreadSpec == ThreadInit /\ [][ThreadNext]_threadVars

-----------------------------------------------------------------------------
(* The type of the rows and of the requests. *)
ThreadTypeOK ==
    /\ conv \in [Thread -> Conv]
    /\ req \in [ThreadReq -> Request]
    /\ revived \subseteq Thread

(* The lock of a creation (threads.ts:82): two users who start a chat with
   each other at the same time, repeatedly and after declines, never get two
   live threads, unless an acceptance that had read its thread before a decline
   wrote revived the cancelled one. *)
OneLiveThread ==
    \A t, u \in Thread : Live(t) /\ Live(u) => t = u \/ t \in revived \/ u \in revived

(* What is left of "a second peer device can't hijack the key recipient"
   (threads.ts:179): whatever is done to the chats, a pinned device is replaced
   only by a request of the route that had read the thread before that device
   was pinned, or by the event, which looks at no pin. *)
PinReplacedByOverlapOrEvent ==
    [][\A t \in Thread :
          conv[t].pin # NoId /\ conv'[t].pin # conv[t].pin =>
              \E r \in ThreadReq :
                  /\ req[r].thread = t
                  /\ \/ AcceptWrites(r) /\ req[r].saw # conv[t].pin
                     \/ EventWrites(r)]_threadVars
=============================================================================
