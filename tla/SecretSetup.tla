------------------------------ MODULE SecretSetup ------------------------------
(***************************************************************************)
(* How the devices of two users come to hold the key of a secret chat: the *)
(* threads of the server (SecretThread), the prekeys of the devices        *)
(* (Prekeys), and the clients in between: the page that starts and accepts *)
(* chats (src/frontend/src/ui/pages/ChatsPage.tsx), the key store, the key *)
(* packages (src/frontend/src/domain/secret/) and the pump that imports    *)
(* them, answers requests and acknowledges.                                *)
(*                                                                         *)
(* A key is named after the device that generated it.  A share is an       *)
(* asynchronous job of a device: it claims a prekey of the recipient and   *)
(* posts a package.  Shares of one device to one recipient that wait for a *)
(* claim at the same time wait for the same claim (inFlightClaims).        *)
(*                                                                         *)
(* Abstracted: the inbox (messages are kept until they are acked, in any   *)
(* order, as Mailbox promises; they do not expire), attempts that lapse    *)
(* with time and packages given up for their age, the older socket events  *)
(* that accept and decline chats (SecretThread has them; nothing in the    *)
(* clients calls what would emit them), throttles and delays, staleness of *)
(* the client's list of chats, and the engine that only the flag           *)
(* SECRET_ENGINE_V2 enables, which no build of the repository sets.        *)
(***************************************************************************)
EXTENDS SecretThread, Prekeys

CONSTANTS
    Starter,    \* devices that start chats
    Joiner,     \* devices that ask another device of their user for its keys
    Job,        \* shares in progress
    Copy,       \* copies of a package in an inbox
    AskAt,      \* failed attempts after which a package is asked for again
    Poison,     \* POISON_THRESHOLD
    MinReserve, \* MIN_SERVER_PREKEY_RESERVE
    MaxFaults   \* bound: requests that fail, answers and acks that are lost,
                \*   pages that are closed, invites accepted from a stale list

ASSUME SetupAssumption ==
    /\ Holder \cup Starter \cup Joiner \subseteq ChatDevice
    /\ DeviceA \cap DeviceB = {} /\ NoId \notin Prekey
    /\ {Poison, MaxFaults} \subseteq Nat

VARIABLES
    key,        \* [ChatDevice -> [Thread -> the key the device stores]]
    job,        \* [Job -> a share]
    msgs,       \* messages in the inboxes
    events,     \* secret:chat:accepted on the way to a device
    attempted,  \* [ChatDevice -> secretReconcileAttemptedRef]
    receipts,   \* [ChatDevice -> receipts of secretKeyShareState]
    faults,     \* how many faults there were
    chosen,     \* history: <<thread, device>> that were pinned
    linked      \* history: devices that were sent the keys of another

clientVars == <<key, job, msgs, events, attempted, receipts, faults, chosen, linked>>
vars == <<threadVars, poolVars, clientVars>>

NoKeys == [t \in Thread |-> NoId]
OneKey(d, t) == [NoKeys EXCEPT ![t] = key[d][t]]

Share == [pc : {"idle", "claim", "send"}, from : ChatDevice \cup {NoId}, to : ChatDevice \cup {NoId},
          keys : [Thread -> ChatDevice \cup {NoId}],
          why : {"accepted", "reconcile", "request", "link"},
          thread : Thread \cup {NoId}, opk : Prekey \cup {NoId}]
Message == [kind : {"package", "link", "receipt", "request", "join", "nudge"},
            from : ChatDevice, to : ChatDevice, thread : Thread \cup {NoId},
            keys : [Thread -> ChatDevice \cup {NoId}], opk : Prekey \cup {NoId},
            tries : 0 .. Poison, copy : Copy \cup {NoId}]

NoShare == [pc |-> "idle", from |-> NoId, to |-> NoId, keys |-> NoKeys, why |-> "link", thread |-> NoId, opk |-> NoId]

Control(kind, from, to, t) ==
    [kind |-> kind, from |-> from, to |-> to, thread |-> t, keys |-> NoKeys,
     opk |-> NoId, tries |-> 0, copy |-> NoId]

Fault == faults < MaxFaults /\ faults' = faults + 1

(* Control messages are posted, or are lost. *)
Posted(ms) ==
    \/ msgs' = msgs \cup ms /\ UNCHANGED faults
    \/ Fault /\ UNCHANGED msgs

Init ==
    /\ ThreadInit
    /\ PoolInit(Holder)
    /\ key = [d \in ChatDevice |-> NoKeys]
    /\ job = [j \in Job |-> NoShare]
    /\ msgs = {} /\ events = {}
    /\ attempted = [d \in ChatDevice |-> {}]
    /\ receipts = [d \in ChatDevice |-> {}]
    /\ faults = 0 /\ chosen = {} /\ linked = {}

-----------------------------------------------------------------------------
(* Starting a chat.  Only the device that created the thread, or is recorded
   as its initiator, generates the key.  Mutant: any device of the creator. *)
MintsAsUser(d, t) == SameUser(conv'[t].initiator, d)
MintsAsInitiator(d, t) == conv'[t].initiator = d

Mint(d, t) ==
    key' = IF MintsAsInitiator(d, t) /\ key[d][t] = NoId
           THEN [key EXCEPT ![d][t] = d] ELSE key

(* POST /threads/secret is answered, or its answer is lost. *)
Start(d, t) ==
    /\ CreateThread(d, t) \/ FindThread(t)
    /\ Mint(d, t) \/ UNCHANGED key
    /\ UNCHANGED <<poolVars, job, msgs, events, attempted, receipts, faults, chosen, linked>>

(* The invite is shown to the peer while it has no key and its list of chats,
   which may be stale, says that the thread is pending. *)
Accept(r, t, d) ==
    /\ key[d][t] = NoId
    /\ \/ conv[t].status = "PENDING" /\ UNCHANGED faults
       \/ Fault
    /\ AcceptReads(r, t, d)
    /\ UNCHANGED <<poolVars, key, job, msgs, events, attempted, receipts, chosen, linked>>

(* secret:chat:accepted reaches those of the creator's devices that are
   connected. *)
Accepted(r) ==
    LET t == req[r].thread
        d == req[r].dev IN
    /\ AcceptWrites(r)
    /\ chosen' = chosen \cup {<<t, d>>}
    /\ \E online \in SUBSET {c \in ChatDevice : Created(t, c) /\ key[c][t] # NoId} :
          events' = events \cup {[dev |-> c, thread |-> t, pin |-> d] : c \in online}
    /\ UNCHANGED <<poolVars, key, job, msgs, attempted, receipts, faults, linked>>

Decline(r, t) == DeclineReads(r, t) /\ UNCHANGED <<poolVars, clientVars>>
Declined(r) == DeclineWrites(r) /\ UNCHANGED <<poolVars, clientVars>>
Fails(r) ==
    /\ RequestFails(r) /\ Fault
    /\ UNCHANGED <<poolVars, key, job, msgs, events, attempted, receipts, chosen, linked>>

-----------------------------------------------------------------------------
(* Shares. *)
StartShare(j, d, to, keys, why, t) ==
    /\ job[j].pc = "idle"
    /\ job' = [job EXCEPT ![j] = [pc |-> "claim", from |-> d, to |-> to, keys |-> keys,
                                  why |-> why, thread |-> t, opk |-> NoId]]

(* The key goes to the device that accepted.  Mutant: to any of its user. *)
UserOfPin(e) == {d \in Holder : SameUser(d, e.pin)}
OnlyPin(e) == {e.pin}

OnAccepted(j, e) ==
    /\ e \in events
    /\ events' = events \ {e}
    /\ \E to \in OnlyPin(e) :
          StartShare(j, e.dev, to, OneKey(e.dev, e.thread), "accepted", e.thread)
    /\ UNCHANGED <<threadVars, poolVars, key, msgs, attempted, receipts, faults, chosen, linked>>

(* The effect on the list of chats: the pinned device of an active thread is
   keyed once a session, unless it sent a receipt. *)
Unconfirmed(d, t) ==
    /\ conv[t].status = "ACTIVE"
    /\ Created(t, d) /\ key[d][t] # NoId
    /\ <<t, conv[t].pin>> \notin receipts[d] \cup attempted[d]

Reconcile(j, d, t) ==
    /\ Unconfirmed(d, t)
    /\ attempted' = [attempted EXCEPT ![d] = @ \cup {<<t, conv[t].pin>>}]
    /\ StartShare(j, d, conv[t].pin, OneKey(d, t), "reconcile", t)
    /\ UNCHANGED <<threadVars, poolVars, key, msgs, events, receipts, faults, chosen, linked>>

(* A failed share of the effect may be attempted again.  Mutant: only once a
   session. *)
Waiting(d, to) == {j \in Job : job[j].pc = "claim" /\ job[j].from = d /\ job[j].to = to}
RetryNever(failed) == UNCHANGED attempted
Retry(failed) ==
    attempted' = [d \in ChatDevice |-> attempted[d] \
        {<<job[j].thread, job[j].to>> : j \in {i \in failed : job[i].from = d /\ job[i].why = "reconcile"}}]
Abandon(failed) ==
    /\ job' = [j \in Job |-> IF j \in failed THEN NoShare ELSE job[j]]
    /\ Retry(failed)

(* claimPrekeyRateLimited answers every share that waits for it. *)
Claim(d, to, k) ==
    /\ Waiting(d, to) # {}
    /\ ClaimKey(to, k)
    /\ job' = [j \in Job |-> IF j \in Waiting(d, to)
                             THEN [job[j] EXCEPT !.pc = "send", !.opk = k] ELSE job[j]]
    /\ UNCHANGED <<threadVars, secrets, pub, row, known>>
    /\ UNCHANGED <<key, msgs, events, attempted, receipts, faults, chosen, linked>>

(* No prekey is left: the recipient is asked for more.  Mutant: it is not. *)
NoNudge(failed, d, to) == {}
Nudge(failed, d, to) ==
    {Control("nudge", d, to, job[j].thread) : j \in {i \in failed : job[i].why \in {"accepted", "reconcile"}}}

ClaimEmpty(d, to) ==
    /\ Waiting(d, to) # {}
    /\ free[to] = {}
    /\ Abandon(Waiting(d, to))
    /\ Posted(Nudge(Waiting(d, to), d, to))
    /\ UNCHANGED <<threadVars, poolVars, key, events, receipts, chosen, linked>>

(* The request or its answer is lost, and with the answer a prekey. *)
ClaimFails(d, to) ==
    /\ Waiting(d, to) # {}
    /\ Fault
    /\ Abandon(Waiting(d, to))
    /\ UNCHANGED <<free, taken>> \/ \E k \in Prekey : ClaimKey(to, k)
    /\ UNCHANGED <<threadVars, secrets, pub, row, known>>
    /\ UNCHANGED <<key, msgs, events, receipts, chosen, linked>>

Package(j, c) ==
    [kind |-> IF job[j].why = "link" THEN "link" ELSE "package",
     from |-> job[j].from, to |-> job[j].to, thread |-> job[j].thread,
     keys |-> job[j].keys, opk |-> job[j].opk, tries |-> 0, copy |-> c]

(* POST /secret/send arrives; its answer may be lost. *)
Send(j) ==
    /\ job[j].pc = "send"
    /\ \E c \in Copy :
          /\ \A m \in msgs : m.opk = job[j].opk => m.copy # c
          /\ msgs' = msgs \cup {Package(j, c)}
    /\ job' = [job EXCEPT ![j] = NoShare]
    /\ \/ UNCHANGED <<attempted, faults>>
       \/ Fault /\ Retry({j})
    /\ linked' = IF job[j].why = "link" THEN linked \cup {job[j].to} ELSE linked
    /\ UNCHANGED <<threadVars, poolVars, key, events, receipts, chosen>>

SendFails(j) ==
    /\ job[j].pc = "send"
    /\ Fault
    /\ Abandon({j})
    /\ UNCHANGED <<threadVars, poolVars, key, msgs, events, receipts, chosen, linked>>

(* The page is closed, and opened again. *)
Reload(d) ==
    /\ Fault
    /\ attempted' = [attempted EXCEPT ![d] = {}]
    /\ job' = [j \in Job |-> IF job[j].from = d THEN NoShare ELSE job[j]]
    /\ events' = {e \in events : e.dev # d}
    /\ UNCHANGED <<threadVars, poolVars, key, msgs, receipts, chosen, linked>>

-----------------------------------------------------------------------------
(* New key ids: those that no share and no message names. *)
FreshKeys == Unused \ ({job[j].opk : j \in Job} \cup {m.opk : m \in msgs})

(* The pump.  A message it has handled is acked; the ack may be lost, and the
   message comes again; or the control messages it posts are lost. *)
Acked(m, ms) ==
    \/ msgs' = (msgs \ {m}) \cup ms /\ UNCHANGED faults
    \/ Fault /\ msgs' \in {msgs \cup ms, msgs \ {m}}

(* A package opens with the secret of its prekey, which is then deleted.  A
   thread key replaces the stored one; the keys of a linked device do not. *)
Imported(m) ==
    [t \in Thread |->
        IF m.keys[t] # NoId /\ (m.kind = "package" \/ key[m.to][t] = NoId)
        THEN m.keys[t] ELSE key[m.to][t]]

Opens(m) == m.opk \in secrets[m.to]

Import(m) ==
    /\ m \in msgs /\ m.kind \in {"package", "link"}
    /\ Opens(m)
    /\ ConsumeSecret(m.to, m.opk)
    /\ key' = [key EXCEPT ![m.to] = Imported(m)]
    /\ Acked(m, IF m.kind = "link" THEN {} ELSE {Control("receipt", m.to, m.from, m.thread)})
    /\ UNCHANGED <<threadVars, free, pub, row, known>>
    /\ UNCHANGED <<job, events, attempted, receipts, chosen, linked>>

(* Mutant: a package is given up one attempt too late. *)
GivenUpLate(m) == m.tries > Poison
GivenUp(m) == m.tries = Poison

(* It does not open: prekeys are published, unless they just were, the sender is
   asked again at one of the attempts, and in the end the package is given up. *)
Miss(m) ==
    /\ m \in msgs /\ m.kind \in {"package", "link"}
    /\ ~Opens(m)
    /\ UNCHANGED poolVars \/ \E b \in Tab : Publish(b, m.to, FreshKeys)
    /\ LET ask == IF m.tries + 1 = AskAt /\ m.thread # NoId
                  THEN {Control("request", m.to, m.from, m.thread)} ELSE {} IN
       IF GivenUp(m) THEN Acked(m, ask)
       ELSE LET kept == (msgs \ {m}) \cup {[m EXCEPT !.tries = @ + 1]} IN
            \/ msgs' = kept \cup ask /\ UNCHANGED faults
            \/ Fault /\ msgs' = kept
    /\ UNCHANGED <<threadVars, key, job, events, attempted, receipts, chosen, linked>>

OnReceipt(m) ==
    /\ m \in msgs /\ m.kind = "receipt"
    /\ receipts' = [receipts EXCEPT ![m.to] = @ \cup {<<m.thread, m.from>>}]
    /\ Acked(m, {})
    /\ UNCHANGED <<threadVars, poolVars, key, job, events, attempted, chosen, linked>>

(* key_request: a device without the key ignores it. *)
OnRequest(j, m) ==
    /\ m \in msgs /\ m.kind = "request"
    /\ IF key[m.to][m.thread] = NoId THEN UNCHANGED job
       ELSE StartShare(j, m.to, m.from, OneKey(m.to, m.thread), "request", m.thread)
    /\ Acked(m, {})
    /\ UNCHANGED <<threadVars, poolVars, key, events, attempted, receipts, chosen, linked>>

(* link_device_join: all keys are exported, unless they just were. *)
OnJoin(j, m) ==
    /\ m \in msgs /\ m.kind = "join"
    /\ StartShare(j, m.to, m.from, key[m.to], "link", NoId) \/ UNCHANGED job
    /\ Acked(m, {})
    /\ UNCHANGED <<threadVars, poolVars, key, events, attempted, receipts, chosen, linked>>

(* A new device of a user asks the others for their keys, when its publication
   of prekeys was answered.  Bound: not again after it was sent some. *)
Join(d) ==
    /\ \A b \in Tab : Idle(b) \/ pub[b].dev # d
    /\ d \notin linked
    /\ Posted({Control("join", d, to, NoId) : to \in {e \in ChatDevice \ {d} : SameUser(d, e)}})
    /\ UNCHANGED <<threadVars, poolVars, key, job, events, attempted, receipts, chosen, linked>>

(* prekeys_needed forces a publication, unless too many secrets are stored. *)
OnNudge(b, m) ==
    /\ m \in msgs /\ m.kind = "nudge"
    /\ \/ Publish(b, m.to, FreshKeys)
       \/ Cardinality(secrets[m.to]) >= MaxLocal /\ UNCHANGED poolVars
    /\ Acked(m, {})
    /\ UNCHANGED <<threadVars, key, job, events, attempted, receipts, chosen, linked>>

(* A publication because the reserve is low, or before a device asks. *)
Replenish(b, d) ==
    /\ Cardinality(secrets[d]) < MinReserve \/ d \in Joiner
    /\ Publish(b, d, FreshKeys)
    /\ UNCHANGED <<threadVars, clientVars>>

PublicationServed(b) ==
    /\ CountSlots(b) \/ InsertKeys(b) \/ PublishAnswered(b)
    /\ UNCHANGED <<threadVars, clientVars>>

PublicationFails(b) ==
    /\ Fault
    /\ PublishLost(b) \/ PublishRefused(b)
    /\ UNCHANGED <<threadVars, key, job, msgs, events, attempted, receipts, chosen, linked>>

-----------------------------------------------------------------------------
Threads ==
    \/ \E d \in Starter, t \in Thread : Start(d, t)
    \/ \E r \in ThreadReq :
          \/ \E t \in Thread, d \in ChatDevice : Accept(r, t, d)
          \/ \E t \in Thread : Decline(r, t)
          \/ Accepted(r) \/ Declined(r) \/ Fails(r)

Shares ==
    \/ \E j \in Job :
          \/ \E e \in events : OnAccepted(j, e)
          \/ \E d \in ChatDevice, t \in Thread : Reconcile(j, d, t)
          \/ Send(j) \/ SendFails(j)
    \/ \E d \in ChatDevice, to \in Holder :
          \/ \E k \in Prekey : Claim(d, to, k)
          \/ ClaimEmpty(d, to) \/ ClaimFails(d, to)
    \/ \E d \in ChatDevice : Reload(d)

Handle(m) ==
    \/ Import(m) \/ Miss(m) \/ OnReceipt(m)
    \/ \E j \in Job : OnRequest(j, m) \/ OnJoin(j, m)
    \/ \E b \in Tab : OnNudge(b, m)

Publications ==
    \E b \in Tab : PublicationServed(b) \/ PublicationFails(b) \/ \E d \in Holder : Replenish(b, d)

Next ==
    \/ Threads \/ Shares \/ Publications
    \/ \E m \in msgs : Handle(m)
    \/ \E d \in Joiner : Join(d)

Spec == Init /\ [][Next]_vars

(* The pages run their effects and their shares, the pumps poll, and what is
   published reaches the server: after the last fault nothing else is needed. *)
Fairness ==
    /\ WF_vars(Shares) /\ WF_vars(\E j \in Job : Send(j))
    /\ \A d \in Holder : WF_vars(\E m \in msgs : m.to = d /\ (Import(m) \/ Miss(m)))
    /\ \A d \in Holder : WF_vars(\E m \in msgs, b \in Tab : m.to = d /\ OnNudge(b, m))
    /\ \A b \in Tab : WF_vars(PublicationServed(b))

FairSpec == Spec /\ Fairness

-----------------------------------------------------------------------------
(* The type of every variable. *)
TypeOK ==
    /\ ThreadTypeOK /\ PoolTypeOK
    /\ key \in [ChatDevice -> [Thread -> ChatDevice \cup {NoId}]]
    /\ job \in [Job -> Share]
    /\ msgs \subseteq Message
    /\ events \subseteq [dev : ChatDevice, thread : Thread, pin : ChatDevice]
    /\ {attempted, receipts} \subseteq [ChatDevice -> SUBSET (Thread \X ChatDevice)]
    /\ faults \in 0 .. MaxFaults
    /\ chosen \subseteq Thread \X ChatDevice /\ linked \subseteq ChatDevice

(* Every device that has a key of a chat has the same one (ChatsPage.tsx:1322:
   a second key "would diverge from the real key, and the peer's last-writer-
   wins import would brick earlier ciphertexts"), although several devices of
   the creator may start the chat, packages overtake one another, are sent
   twice or arrive late, and imports overwrite. *)
KeysAgree ==
    \A d, e \in ChatDevice, t \in Thread :
        {key[d][t], key[e][t]} \subseteq ChatDevice => key[d][t] = key[e][t]

(* The key reaches no device but the initiator, those that were pinned by an
   acceptance, and those that were linked to a device of their user: an
   acceptance on one device keys exactly that one (threads.ts:139). *)
OnlyChosenAreKeyed ==
    \A d \in ChatDevice, t \in Thread :
        key[d][t] # NoId => \/ d \in {conv[t].initiator} \cup linked
                           \/ <<t, d>> \in chosen

(* A package that does not open shares its prekey with one that did, or was
   handled before: a sender whose claim several shares waited for uses one
   prekey for all of them, and only the first package can be decrypted.  If
   they were shares of several chats it may be the key of another one that the
   device has. *)
OnlyRepeatsMiss ==
    \A m \in msgs :
        m.kind = "package" /\ ~Opens(m) => \E t \in Thread : key[m.to][t] # NoId

(* The key of an accepted chat is never forgotten.  As long as the pinned device
   has none, each device of the creator that holds it has cause to share it, is
   sharing it, or its package is in the inbox of the pinned device: shares that
   find no prekey, break off or are posted without an answer do not change that,
   nor reloads, replaced pins or lost receipts.  The exception is a device that
   has the key of another chat: a package under a prekey it used may be given up
   (OnlyRepeatsMiss). *)
UnderWay(c, d, t) ==
    \/ \E j \in Job : /\ job[j].pc # "idle" /\ job[j].why = "reconcile"
                      /\ job[j].from = c /\ job[j].to = d /\ job[j].thread = t
    \/ \E m \in msgs : m.kind = "package" /\ m.to = d /\ m.keys[t] # NoId

KeyNotForgotten ==
    \A c, d \in ChatDevice, t \in Thread :
        (/\ conv[t].status = "ACTIVE" /\ conv[t].pin = d
         /\ Created(t, c) /\ key[c][t] # NoId)
            => \/ \E u \in Thread : key[d][u] # NoId
               \/ Unconfirmed(c, t) \/ UnderWay(c, d, t)

(* A pinned device gets the key as long as the chat is active and a device of
   the creator has it: although claims find no prekey, fail or lose one, posts
   fail, two shares use one prekey, the page is reloaded, and acks and
   receipts are lost. *)
KeyArrives ==
    \A t \in Thread, d \in ChatDevice :
        (/\ conv[t].status = "ACTIVE" /\ conv[t].pin = d
         /\ \E c \in ChatDevice : Created(t, c) /\ key[c][t] # NoId)
            ~> (key[d][t] # NoId \/ conv[t].status # "ACTIVE" \/ conv[t].pin # d)
=============================================================================
