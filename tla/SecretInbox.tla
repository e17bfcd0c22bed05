------------------------------ MODULE SecretInbox ------------------------------
(***************************************************************************)
(* The delivery of end-to-end encrypted messages to one device: the routes *)
(* /secret/messages/push, /secret/send, /secret/inbox/pull and /ack        *)
(* (src/src/routes/secret.ts) over the database and the Redis inbox of     *)
(* src/src/lib/secretInbox.ts, and the pump of the client that empties it  *)
(* (src/frontend/src/domain/secret/SecretInboxPump.tsx).                   *)
(*                                                                         *)
(* A request in flight is push[k] or pull[p]; its pc names the await it is *)
(* suspended at.  Any of them may break off there: a query throws, the     *)
(* server is killed, the response is lost.  A sender may repeat a message  *)
(* under the same msgId at any time.                                       *)
(*                                                                         *)
(* An item of /secret/send is a key package or a control message, or of a  *)
(* kind the pump does not know.                                            *)
(*                                                                         *)
(* Abstracted: other devices, contents, notifications (the pump polls),    *)
(* the payload cache (whether it still has an entry is left open), the     *)
(* delivery status, which nothing reads, and times: a key may expire, and  *)
(* a message be too old to be tried again, at any moment its lifetime      *)
(* allows.                                                                 *)
(***************************************************************************)
EXTENDS SequencesExt

CONSTANTS
    Msg,
    Direct,     \* items of /secret/send; the others are messages of a thread
    KeyPackage, \* those of a kind the pump knows; it may fail to decrypt them
    Pusher,     \* requests of senders handled at the same time
    Puller,     \* pulls handled at the same time
    Window,     \* limit of a pull
    Threshold,  \* POISON_THRESHOLD
    MaxList,    \* bound: entries of the inbox list
    NoMsg

ASSUME KeyAssumption == KeyPackage \subseteq Direct /\ Direct \subseteq Msg
ASSUME BoundsAssumption == {Window, MaxList} \subseteq Nat \ {0} /\ Threshold \in Nat

VARIABLES
    stored,     \* database: secretMessage
    rows,       \* database: secretDelivery of the device
    list,       \* Redis: secret_inbox of the device
    seen,       \* Redis: secret_seen of the device
    push,       \* [Pusher -> a request of a sender]
    pull,       \* [Puller -> a pull]
    acks,       \* ids on their way from the client to ackSecretInbox
    attempts,   \* client: failed attempts to decrypt, counted up to one more
                \*   than the threshold
    got,        \* client: messages imported or shown
    given,      \* client: messages given up as poisoned
    excused     \* history: messages whose sender was deleted, or that were
                \*   in the list when it expired

sending == <<stored, rows, push>>
receiving == <<pull, attempts, got, given>>
vars == <<stored, rows, list, seen, push, pull, acks, attempts, got, given, excused>>

Push == [pc : {"idle", "message", "deliveries", "send", "enqueue", "answer"}, msg : Msg \cup {NoMsg}]
Pull == [pc : {"idle", "payloads", "answer"}, ids : SUBSET Msg]

IdlePush == [pc |-> "idle", msg |-> NoMsg]
IdlePull == [pc |-> "idle", ids |-> {}]

Init ==
    /\ stored = {} /\ rows = {}
    /\ list = <<>> /\ seen = {}
    /\ push = [k \in Pusher |-> IdlePush]
    /\ pull = [p \in Puller |-> IdlePull]
    /\ acks = {}
    /\ attempts = [m \in Msg |-> 0]
    /\ got = {} /\ given = {} /\ excused = {}

-----------------------------------------------------------------------------
(* Senders. *)
At(k, pc, m) == push[k] = [pc |-> pc, msg |-> m]
Goto(k, pc) == push' = [push EXCEPT ![k].pc = pc]

Post(k, m) ==
    /\ push[k].pc = "idle"
    /\ m \notin excused
    /\ push' = [push EXCEPT ![k] = [pc |-> IF m \in Direct THEN "send" ELSE "message",
                                    msg |-> m]]
    /\ UNCHANGED <<stored, rows, list, seen, acks, excused>>
    /\ UNCHANGED receiving

(* A query throws, or the server is killed: the request is not answered. *)
PostFails(k) ==
    /\ push[k].pc # "idle"
    /\ push' = [push EXCEPT ![k] = IdlePush]
    /\ UNCHANGED <<stored, rows, list, seen, acks, excused>>
    /\ UNCHANGED receiving

(* /messages/push: the message is created, or it is there already (P2002). *)
CreateMessage(k, m) ==
    /\ At(k, "message", m)
    /\ stored' = stored \cup {m}
    /\ Goto(k, "deliveries")
    /\ UNCHANGED <<rows, list, seen, acks, excused>>
    /\ UNCHANGED receiving

(* createMany, skipDuplicates; it throws if the message is gone. *)
CreateDeliveries(k, m) ==
    /\ At(k, "deliveries", m)
    /\ m \in stored
    /\ rows' = rows \cup {m}
    /\ Goto(k, "enqueue")
    /\ UNCHANGED <<stored, list, seen, acks, excused>>
    /\ UNCHANGED receiving

(* /send: one transaction creates the message and its delivery. *)
SendStores(k, m) ==
    /\ At(k, "send", m)
    /\ stored' = stored \cup {m}
    /\ rows' = IF m \in stored THEN rows ELSE rows \cup {m}
    /\ Goto(k, "enqueue")
    /\ UNCHANGED <<list, seen, acks, excused>>
    /\ UNCHANGED receiving

(* enqueueSecretMessages: one script, run by Redis at once.
   Mutant: its commands sent one by one, of which the last may fail. *)
InsertInSteps(k, m) ==
    /\ seen' = seen \cup {m}
    /\ \/ list' = Append(list, m) /\ Goto(k, "answer")
       \/ UNCHANGED list /\ push' = [push EXCEPT ![k] = IdlePush]

Insert(k, m) ==
    /\ seen' = seen \cup {m}
    /\ list' = Append(list, m)
    /\ Goto(k, "answer")

Enqueue(k, m) ==
    /\ At(k, "enqueue", m)
    /\ IF m \in seen THEN Goto(k, "answer") /\ UNCHANGED <<list, seen>>
       ELSE Len(list) < MaxList /\ Insert(k, m)
    /\ UNCHANGED <<stored, rows, acks, excused>>
    /\ UNCHANGED receiving

PostAnswered(k, m) ==
    /\ At(k, "answer", m)
    /\ push' = [push EXCEPT ![k] = IdlePush]
    /\ UNCHANGED <<stored, rows, list, seen, acks, excused>>
    /\ UNCHANGED receiving

-----------------------------------------------------------------------------
(* The lRem of some ids: kept[i] is what remains of the first i entries. *)
Except(ids) ==
    LET kept[i \in 0 .. Len(list)] ==
          IF i = 0 THEN <<>>
          ELSE IF list[i] \in ids THEN kept[i - 1]
          ELSE Append(kept[i - 1], list[i])
    IN  kept[Len(list)]

(* lRange, whose last index is inclusive.  Mutant: it is taken to be the
   first that is left out. *)
HeadOfInclusive(n) == {list[i] : i \in (1 .. n + 1) \cap DOMAIN list}
HeadOf(n) == {list[i] : i \in (1 .. n) \cap DOMAIN list}

(* A pull, at the server: the head of the list is read, *)
Starts(p) ==
    /\ pull[p].pc = "idle"
    /\ list # <<>>
    /\ pull' = [pull EXCEPT ![p] = [pc |-> "payloads", ids |-> HeadOf(Window)]]
    /\ UNCHANGED <<list, seen, acks, attempts, got, given, excused>>
    /\ UNCHANGED sending

(* ... then the payloads, from the cache if they are still there, else from
   the database.  An id that is in neither can never be served and is dropped
   (the commands are sent at once, without waiting for them; they may fail). *)
Found(ids) == {found \in SUBSET ids : ids \cap rows \subseteq found}

Resolves(p) ==
    /\ pull[p].pc = "payloads"
    /\ \E found \in Found(pull[p].ids) :
          /\ pull' = [pull EXCEPT ![p] = [pc |-> "answer", ids |-> found]]
          /\ list' \in {list, Except(pull[p].ids \ found)}
    /\ UNCHANGED <<seen, acks, attempts, got, given, excused>>
    /\ UNCHANGED sending

(* The pump handles the messages.  Those it cannot decrypt it leaves in the
   inbox until they are poisoned: tried too often, or first tried too long
   ago.  A message without a thread and of no kind it knows it passes over.
   The rest is acked, without waiting.
   Mutants: everything known is acked, poisoned messages are not. *)
Skipped == Direct \ KeyPackage

Bump(failed) ==
    [m \in Msg |-> IF m \in failed /\ attempts[m] <= Threshold THEN attempts[m] + 1 ELSE attempts[m]]

Old(failed) == {m \in failed : attempts[m] > 0}
Poisoned(failed, old) == old \cup {m \in failed : attempts'[m] > Threshold}

AckAll(items, failed, old) == items \ Skipped
AckDecrypted(items, failed, old) == items \ (failed \cup Skipped)
Ackable(items, failed, old) == (items \ (failed \cup Skipped)) \cup Poisoned(failed, old)

Handles(p) ==
    LET items == pull[p].ids IN
    /\ pull[p].pc = "answer"
    /\ \E failed \in SUBSET (items \cap KeyPackage) : \E old \in SUBSET Old(failed) :
          /\ attempts' = Bump(failed)
          /\ got' = got \cup (items \ (failed \cup Skipped))
          /\ given' = given \cup Poisoned(failed, old)
          /\ acks' = acks \cup Ackable(items, failed, old)
    /\ pull' = [pull EXCEPT ![p] = IdlePull]
    /\ UNCHANGED <<list, seen, excused>>
    /\ UNCHANGED sending

(* The record of the attempts at a message is dropped when there was none for
   a while. *)
Lapses(m) ==
    /\ attempts[m] > 0
    /\ attempts' = [attempts EXCEPT ![m] = 0]
    /\ UNCHANGED <<list, seen, pull, acks, got, given, excused>>
    /\ UNCHANGED sending

(* The client does not wait longer, or a query throws. *)
PullFails(p) ==
    /\ pull[p].pc # "idle"
    /\ pull' = [pull EXCEPT ![p] = IdlePull]
    /\ UNCHANGED <<list, seen, acks, attempts, got, given, excused>>
    /\ UNCHANGED sending

-----------------------------------------------------------------------------
(* ackSecretInbox removes the entries of one id after the other; then
   markSecretSeen sets the mark, unless that command fails. *)
AckRemoves(m) ==
    /\ m \in acks
    /\ acks' = acks \ {m}
    /\ list' = Except({m})
    /\ seen' \in {seen, seen \cup {m}}
    /\ UNCHANGED excused
    /\ UNCHANGED receiving /\ UNCHANGED sending

AckLost(m) ==
    /\ m \in acks
    /\ acks' = acks \ {m}
    /\ UNCHANGED <<list, seen, excused>>
    /\ UNCHANGED receiving /\ UNCHANGED sending

(* Lifetimes.  The seen mark of an entry expires before the list, the
   expiry of which every entry puts off. *)
SeenExpires(m) ==
    /\ m \in seen
    /\ seen' = seen \ {m}
    /\ UNCHANGED <<list, acks, excused>>
    /\ UNCHANGED receiving /\ UNCHANGED sending

InboxExpires ==
    /\ list # <<>>
    /\ ToSet(list) \cap seen = {}
    /\ list' = <<>>
    /\ excused' = excused \cup ToSet(list)
    /\ UNCHANGED <<seen, acks>>
    /\ UNCHANGED receiving /\ UNCHANGED sending

(* The sender is deleted with its messages (an operator's script). *)
Purge(m) ==
    /\ m \in stored
    /\ \A k \in Pusher : push[k].msg # m
    /\ stored' = stored \ {m}
    /\ rows' = rows \ {m}
    /\ excused' = excused \cup {m}
    /\ UNCHANGED <<list, seen, push, acks>>
    /\ UNCHANGED receiving

-----------------------------------------------------------------------------
Sender(k, m) ==
    \/ CreateMessage(k, m) \/ CreateDeliveries(k, m) \/ SendStores(k, m)
    \/ Enqueue(k, m) \/ PostAnswered(k, m)

Next ==
    \/ \E k \in Pusher, m \in Msg : Post(k, m) \/ Sender(k, m)
    \/ \E k \in Pusher : PostFails(k)
    \/ \E p \in Puller : Starts(p) \/ Resolves(p) \/ Handles(p) \/ PullFails(p)
    \/ \E m \in Msg :
          \/ Lapses(m) \/ AckRemoves(m) \/ AckLost(m) \/ SeenExpires(m) \/ Purge(m)
    \/ InboxExpires

Spec == Init /\ [][Next]_vars

(* The device is online and its pump polls, often enough that in the end no
   record of attempts lapses; neither pulls nor acks nor drops fail for ever,
   and the payload cache does not outlive that. *)
Serves(p) ==
    /\ Resolves(p)
    /\ pull'[p].ids = pull[p].ids \cap rows
    /\ list' = Except(pull[p].ids \ rows)

Fairness ==
    /\ \A p \in Puller : WF_vars(Starts(p)) /\ SF_vars(Serves(p)) /\ SF_vars(Handles(p))
    /\ \A m \in Msg : SF_vars(AckRemoves(m))
    /\ <>[][\A m \in Msg : ~Lapses(m)]_vars

FairSpec == Spec /\ Fairness

-----------------------------------------------------------------------------
(* The type of every variable; a pull takes no more than its window. *)
TypeOK ==
    /\ {stored, rows, seen, acks, got, given, excused} \subseteq SUBSET Msg
    /\ list \in Seq(Msg) /\ Len(list) <= MaxList
    /\ push \in [Pusher -> Push]
    /\ pull \in [Puller -> Pull]
    /\ \A p \in Puller : Cardinality(pull[p].ids) <= Window
    /\ attempts \in [Msg -> 0 .. Threshold + 1]

(* The inbox keeps the promise of Mailbox: a message leaves the list only when
   the device imported it or gave it up as poisoned, although acks and pulls
   break off and overlap and an id that cannot be resolved is dropped. *)
Box == INSTANCE Mailbox WITH held <- ToSet(list), handled <- got \cup given

KeepsMailbox == Box!Spec

(* A sender is answered only when the message is in the inbox, or was handled:
   a push that broke off anywhere is completed by its repetition, which the
   seen mark does not swallow. *)
AnsweredIsKept ==
    [][\A k \in Pusher, m \in Msg :
          PostAnswered(k, m) => m \in ToSet(list) \cup got \cup given \cup excused]_vars

(* As many entries as a pull takes are of messages the pump passes over: they
   stay, and nothing behind them is ever pulled. *)
Blocked == Cardinality({i \in DOMAIN list : list[i] \in Skipped}) >= Window

(* A message in the inbox of a device that is online is imported or given up
   in the end: neither messages it cannot decrypt nor ids that cannot be
   served block the head of the list.  Messages of an unknown kind do, if there
   are enough of them. *)
InboxDrains ==
    \A m \in Msg \ Skipped :
        m \in ToSet(list) ~> m \in got \cup given \cup excused \/ Blocked
=============================================================================
