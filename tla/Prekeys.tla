-------------------------------- MODULE Prekeys --------------------------------
(***************************************************************************)
(* One-time prekeys: the rows DevicePrekey that a device publishes and     *)
(* others claim (src/src/routes/devices.ts, e2ee.ts), and the secret halves*)
(* the device keeps (src/frontend/src/domain/device/deviceManager.ts).     *)
(*                                                                         *)
(* A publication stores its secrets first, then posts the keys; the server *)
(* counts the free slots, awaits, and inserts as many as it counted; the   *)
(* device drops the secrets of those that were not accepted.  Its answer   *)
(* may be lost, and two tabs may publish at the same time.  A claim is one *)
(* UPDATE, hence one step.                                                 *)
(*                                                                         *)
(* An id that nothing refers to any more may be used again: it stands for  *)
(* a new UUID.                                                             *)
(***************************************************************************)
EXTENDS Naturals, FiniteSets

CONSTANTS
    Holder,     \* devices that publish prekeys
    Prekey,     \* key ids
    Tab,        \* publications at the same time
    MaxFree,    \* MAX_UNCONSUMED_PREKEYS_PER_DEVICE
    MaxLocal,   \* MAX_LOCAL_PREKEY_RESERVE
    Batch       \* keys of a publication

ASSUME PoolAssumption ==
    /\ {MaxFree, MaxLocal, Batch} \subseteq Nat
    /\ IsFiniteSet(Prekey)
    /\ IsFiniteSet(Tab) /\ Tab # {} /\ Holder # {}

VARIABLES
    free,       \* [Holder -> key ids of the rows that are not consumed]
    taken,      \* [Holder -> key ids claimed and not used to decrypt yet]
    secrets,    \* [Holder -> key ids whose secret the device has]
    pub,        \* [Tab -> a publication]
    row,        \* [Holder -> revokedAt of the row userDevice]
    known       \* ids of devices that the client stored

poolVars == <<free, taken, secrets, pub, row, known>>

Publication == [pc : {"idle", "post", "insert", "answer"},
                dev : Holder, keys : SUBSET Prekey, accepted : SUBSET Prekey]

Smaller(m, n) == IF m < n THEN m ELSE n
Idle(b) == pub[b].pc = "idle"
NoPublication ==
    [pc |-> "idle", dev |-> CHOOSE d \in Holder : TRUE, keys |-> {}, accepted |-> {}]

Unused == {k \in Prekey :
              /\ \A d \in Holder : k \notin free[d] \cup taken[d] \cup secrets[d]
              /\ \A b \in Tab : k \notin pub[b].keys}

(* The new keys of a batch: which ids they get does not matter. *)
Some(ids, n) == CHOOSE keys \in SUBSET ids : Cardinality(keys) = n

(* Some devices are registered, without prekeys. *)
PoolInit(registered) ==
    /\ row = [d \in Holder |-> IF d \in registered THEN "live" ELSE "absent"]
    /\ known = registered
    /\ free = [d \in Holder |-> {}]
    /\ taken = [d \in Holder |-> {}]
    /\ secrets = [d \in Holder |-> {}]
    /\ pub = [b \in Tab |-> NoPublication]

-----------------------------------------------------------------------------
(* publishPrekeysBatch: getAllowedPrekeyPublishCount bounds the batch by what
   is stored locally. *)
Allowed(d) == Smaller(Batch, MaxLocal - Cardinality(secrets[d]))

Publish(b, d, ids) ==
    /\ Idle(b) /\ d \in known
    /\ Cardinality(secrets[d]) < MaxLocal /\ Cardinality(ids) >= Allowed(d)
    /\ LET keys == Some(ids, Allowed(d)) IN
       /\ secrets' = [secrets EXCEPT ![d] = @ \cup keys]
       /\ pub' = [pub EXCEPT ![b] = [pc |-> "post", dev |-> d, keys |-> keys, accepted |-> {}]]
    /\ UNCHANGED <<free, taken, row, known>>

(* getAvailablePrekeySlots.  Mutant: one too many. *)
SlotsOffByOne(d) == IF Cardinality(free[d]) > MaxFree THEN 0 ELSE MaxFree + 1 - Cardinality(free[d])
Slots(d) == IF Cardinality(free[d]) > MaxFree THEN 0 ELSE MaxFree - Cardinality(free[d])

CountSlots(b) ==
    LET d == pub[b].dev IN
    /\ pub[b].pc = "post"
    /\ row[d] = "live"
    /\ \E accepted \in SUBSET pub[b].keys :
          /\ Cardinality(accepted) = Smaller(Slots(d), Cardinality(pub[b].keys))
          /\ pub' = [pub EXCEPT ![b].pc = "insert", ![b].accepted = accepted]
    /\ UNCHANGED <<free, taken, secrets, row, known>>

(* The device drops the secrets of some keys. *)
Drop(d, keys) == secrets' = [secrets EXCEPT ![d] = @ \ keys]

Answered(b) == pub' = [pub EXCEPT ![b] = NoPublication]

(* createMany. *)
InsertKeys(b) ==
    /\ pub[b].pc = "insert"
    /\ free' = [free EXCEPT ![pub[b].dev] = @ \cup pub[b].accepted]
    /\ pub' = [pub EXCEPT ![b].pc = "answer"]
    /\ UNCHANGED <<taken, secrets, row, known>>

(* The answer names the accepted keys: the secrets of the others are dropped.
   Mutant: those of the accepted ones. *)
DropsAccepted(b) == Drop(pub[b].dev, pub[b].accepted)
DropsOthers(b) == Drop(pub[b].dev, pub[b].keys \ pub[b].accepted)

PublishAnswered(b) ==
    /\ pub[b].pc = "answer"
    /\ DropsOthers(b)
    /\ Answered(b)
    /\ UNCHANGED <<free, taken, row, known>>

(* The request or its answer is lost: the device cannot know, and keeps the
   secrets.  Mutant: it drops them. *)
ForgetUnanswered(b) == Drop(pub[b].dev, pub[b].keys)
KeepUnanswered(b) == UNCHANGED secrets

PublishLost(b) ==
    /\ pub[b].pc \in {"post", "answer"}
    /\ KeepUnanswered(b)
    /\ Answered(b)
    /\ UNCHANGED <<free, taken, row, known>>

(* The answer says that it failed: a query threw, or the device is revoked. *)
PublishRefused(b) ==
    /\ pub[b].pc \in {"post", "insert"}
    /\ Drop(pub[b].dev, pub[b].keys)
    /\ Answered(b)
    /\ UNCHANGED <<free, taken, row, known>>

(* /prekeys/claim. *)
Claimable(d, k) == k \in free[d] /\ row[d] = "live"
ClaimKey(d, k) ==
    /\ Claimable(d, k)
    /\ free' = [free EXCEPT ![d] = @ \ {k}]
    /\ taken' = [taken EXCEPT ![d] = @ \cup {k}]

(* A package encrypted to a claimed key is decrypted, and the secret deleted. *)
ConsumeSecret(d, k) ==
    /\ k \in secrets[d] \cap taken[d]
    /\ secrets' = [secrets EXCEPT ![d] = @ \ {k}]
    /\ taken' = [taken EXCEPT ![d] = @ \ {k}]

(* A new device registers with its first keys, under a new id.  It stores the
   id and the secrets when it is answered; otherwise it will try with another
   id, and the device stays at the server without an owner. *)
RegisterNew(d) ==
    /\ row[d] = "absent"
    /\ Cardinality(Unused) >= Smaller(Batch, MaxFree)
    /\ row' = [row EXCEPT ![d] = "live"]
    /\ LET keys == Some(Unused, Smaller(Batch, MaxFree)) IN
       /\ free' = [free EXCEPT ![d] = keys]
       /\ \/ known' = known \cup {d} /\ secrets' = [secrets EXCEPT ![d] = keys]
          \/ UNCHANGED <<known, secrets>>
    /\ UNCHANGED <<taken, pub>>

(* DELETE /devices/:id, /devices/revoke-others; a device that registers again
   is valid again. *)
RevokeDevice(d) ==
    /\ row[d] = "live"
    /\ row' = [row EXCEPT ![d] = "revoked"]
    /\ UNCHANGED <<free, taken, secrets, pub, known>>

RegisterAgain(d) ==
    /\ d \in known
    /\ row[d] = "revoked"
    /\ row' = [row EXCEPT ![d] = "live"]
    /\ UNCHANGED <<free, taken, secrets, pub, known>>

-----------------------------------------------------------------------------
PoolNext ==
    \/ \E b \in Tab :
          \/ \E d \in Holder : Publish(b, d, Unused)
          \/ CountSlots(b) \/ InsertKeys(b) \/ PublishAnswered(b)
          \/ PublishLost(b) \/ PublishRefused(b)
    \/ \E d \in Holder, k \in Prekey :
          \/ ClaimKey(d, k) /\ UNCHANGED <<secrets, pub, row, known>>
          \/ ConsumeSecret(d, k) /\ UNCHANGED <<free, pub, row, known>>
    \/ \E d \in Holder :
          \/ RegisterNew(d)
          \/ RevokeDevice(d) \/ RegisterAgain(d)

PoolSpec == (\E registered \in SUBSET Holder : PoolInit(registered)) /\ [][PoolNext]_poolVars

-----------------------------------------------------------------------------
(* The type of the pool. *)
PoolTypeOK ==
    /\ {free, taken, secrets} \subseteq [Holder -> SUBSET Prekey]
    /\ pub \in [Tab -> Publication]
    /\ row \in [Holder -> {"absent", "live", "revoked"}]
    /\ known \in SUBSET Holder

(* A key that a sender can claim, or has claimed, is one its device can decrypt
   with, whatever publications failed, were skipped by the server or went
   unanswered: the secret is there before the key is offered and is dropped
   only when the key is known not to be. *)
ServableHasSecret == \A d \in known : free[d] \cup taken[d] \subseteq secrets[d]

(* The cap of the prekeys of a device is exceeded at most by what overlapping
   publications counted before one another's insertion. *)
OvershootBounded ==
    \A d \in Holder : Cardinality(free[d]) <= MaxFree + (Cardinality(Tab) - 1) * Batch
=============================================================================
