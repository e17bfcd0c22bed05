--------------------------- MODULE SecretSetupProofs ---------------------------
(***************************************************************************)
(* Proofs about SecretSetup and its parts, SecretThread and Prekeys, for   *)
(* any number of devices, threads, requests, tabs, shares, messages and    *)
(* faults.                                                                 *)
(***************************************************************************)
EXTENDS SecretSetup, FiniteSetTheorems, TLAPS

-----------------------------------------------------------------------------
(* Threads. *)

(* A request that read a thread found it there; an acceptance found no device
   pinned, or its own.  A thread is pending only before its first acceptance;
   one that is not there has neither initiator nor pin. *)
ReqInv ==
    \A r \in ThreadReq :
        /\ req[r].pc # "idle" => req[r].thread \in Thread /\ conv[req[r].thread].status # "absent"
        /\ req[r].pc \in {"accept", "event"} => req[r].dev \in ChatDevice
        /\ req[r].pc = "accept" => req[r].saw \in {NoId, req[r].dev}

ConvInv ==
    \A t \in Thread :
        /\ conv[t].status = "absent" => conv[t].initiator = NoId
        /\ conv[t].status \in {"absent", "PENDING"} => conv[t].pin = NoId
        /\ conv[t].status = "ACTIVE" => conv[t].pin \in ChatDevice

ThreadInv ==
    /\ ThreadTypeOK
    /\ ReqInv
    /\ ConvInv
    /\ OneLiveThread

(* Initially. *)
LEMMA ThreadInitInv == ASSUME ThreadInit PROVE ThreadInv
BY DEF ThreadInit, ThreadInv, ThreadTypeOK, ReqInv, ConvInv, OneLiveThread, Live,
   Conv, Request, NoRequest

(* A request is answered or fails. *)
LEMMA RequestEnds ==
    ASSUME ThreadTypeOK, NEW r \in ThreadReq, req' = [req EXCEPT ![r] = NoRequest]
    PROVE /\ req' \in [ThreadReq -> Request]
          /\ req'[r].pc = "idle"
          /\ \A q \in ThreadReq \ {r} : req'[q] = req[q]
BY DEF ThreadTypeOK, Request, NoRequest

(* Creation is one step under the lock of the pair: no other chat lives. *)
LEMMA CreateStep ==
    ASSUME ThreadInv, NEW d \in ChatDevice, NEW t \in Thread, CreateThread(d, t)
    PROVE ThreadInv'
<1>1. /\ conv' \in [Thread -> Conv]
      /\ conv'[t] = [status |-> "PENDING", initiator |-> d, pin |-> NoId]
      /\ \A u \in Thread \ {t} : conv'[u] = conv[u]
    BY DEF ThreadInv, ThreadTypeOK, CreateThread, Conv
<1>2. \A u \in Thread : ~Live(u)
    BY DEF CreateThread, Candidates, Live
<1>3. ThreadTypeOK'  BY <1>1 DEF ThreadInv, ThreadTypeOK, CreateThread
<1>4. ReqInv'  BY <1>1 DEF ThreadInv, ReqInv, CreateThread
<1>5. ConvInv'  BY <1>1 DEF ThreadInv, ConvInv
<1>6. OneLiveThread'  BY <1>1, <1>2 DEF OneLiveThread, Live
<1>7. QED  BY <1>3, <1>4, <1>5, <1>6 DEF ThreadInv

(* An acceptance reads the pin, which is none or its own device. *)
LEMMA AcceptReadsStep ==
    ASSUME ThreadInv, NEW r \in ThreadReq, NEW t \in Thread, NEW d \in ChatDevice,
           AcceptReads(r, t, d)
    PROVE ThreadInv'
<1> DEFINE q == [pc |-> "accept", thread |-> t, dev |-> d, saw |-> conv[t].pin]
<1>1. conv[t].pin \in ChatDevice \cup {NoId} /\ conv[t].status # "absent"
    BY DEF ThreadInv, ThreadTypeOK, Conv, AcceptReads, Acceptable, Live
<1>2. q \in Request  BY <1>1 DEF Request
<1>3. q.saw \in {NoId, d}
    BY DEF ThreadInv, ConvInv, AcceptReads, Acceptable, Live
<1>4. /\ req' \in [ThreadReq -> Request] /\ req'[r] = q
      /\ \A p \in ThreadReq \ {r} : req'[p] = req[p]
    BY <1>2 DEF ThreadInv, ThreadTypeOK, AcceptReads
<1>5. ReqInv'  BY <1>1, <1>3, <1>4 DEF ThreadInv, ReqInv, AcceptReads
<1>6. UNCHANGED <<conv, revived>>  BY DEF AcceptReads
<1>7. QED
    BY <1>4, <1>5, <1>6 DEF ThreadInv, ThreadTypeOK, ConvInv, OneLiveThread, Live

(* So does the event, which may find any. *)
LEMMA EventReadsStep ==
    ASSUME ThreadInv, NEW r \in ThreadReq, NEW t \in Thread, NEW d \in ChatDevice,
           EventReads(r, t, d)
    PROVE ThreadInv'
<1> DEFINE q == [NoRequest EXCEPT !.pc = "event", !.thread = t, !.dev = d]
<1>1. conv[t].pin \in ChatDevice \cup {NoId} /\ conv[t].status # "absent"
    BY DEF ThreadInv, ThreadTypeOK, Conv, EventReads, Live
<1>2. q \in Request  BY DEF Request, NoRequest
<1>3. /\ req' \in [ThreadReq -> Request] /\ req'[r] = q
      /\ \A p \in ThreadReq \ {r} : req'[p] = req[p]
    BY <1>2 DEF ThreadInv, ThreadTypeOK, EventReads
<1>4. ReqInv'  BY <1>1, <1>3 DEF ThreadInv, ReqInv, EventReads
<1>5. UNCHANGED <<conv, revived>>  BY DEF EventReads
<1>6. QED
    BY <1>3, <1>4, <1>5 DEF ThreadInv, ThreadTypeOK, ConvInv, OneLiveThread, Live

(* A decline reads the thread. *)
LEMMA DeclineReadsStep ==
    ASSUME ThreadInv, NEW r \in ThreadReq, NEW t \in Thread, DeclineReads(r, t)
    PROVE ThreadInv'
<1> DEFINE q == [NoRequest EXCEPT !.pc = "decline", !.thread = t]
<1>1. conv[t].status # "absent"  BY DEF DeclineReads, Live
<1>2. q \in Request /\ q.pc = "decline" /\ q.thread = t  BY DEF Request, NoRequest
<1>3. /\ req' \in [ThreadReq -> Request] /\ req'[r] = q
      /\ \A p \in ThreadReq \ {r} : req'[p] = req[p]
    BY <1>2 DEF ThreadInv, ThreadTypeOK, DeclineReads
<1>4. ReqInv'  BY <1>1, <1>2, <1>3 DEF ThreadInv, ReqInv, DeclineReads
<1>5. UNCHANGED <<conv, revived>>  BY DEF DeclineReads
<1>6. QED
    BY <1>3, <1>4, <1>5 DEF ThreadInv, ThreadTypeOK, ConvInv, OneLiveThread, Live

(* An acceptance writes whatever became of the thread meanwhile: it may
   bring a chat back, and revived remembers that. *)
LEMMA PinsStep ==
    ASSUME ThreadInv, NEW r \in ThreadReq, AcceptWrites(r) \/ EventWrites(r)
    PROVE ThreadInv'
<1> USE DEF AcceptWrites, EventWrites, Pins
<1> DEFINE t == req[r].thread
<1>1. t \in Thread /\ req[r].dev \in ChatDevice /\ conv[t].status # "absent"
    BY DEF ThreadInv, ReqInv
<1>2. conv[t] \in Conv  BY <1>1 DEF ThreadInv, ThreadTypeOK
<1>3. /\ conv' \in [Thread -> Conv]
      /\ conv'[t].status = "ACTIVE" /\ conv'[t].pin = req[r].dev
      /\ conv'[t].initiator = conv[t].initiator
      /\ \A u \in Thread \ {t} : conv'[u] = conv[u]
    BY <1>1, <1>2 DEF ThreadInv, ThreadTypeOK, Conv
<1>4. /\ revived' \subseteq Thread /\ revived \subseteq revived'
      /\ conv[t].status = "CANCELLED" => t \in revived'
    BY <1>1 DEF ThreadInv, ThreadTypeOK
<1>5. /\ req' \in [ThreadReq -> Request] /\ req'[r].pc = "idle"
      /\ \A q \in ThreadReq \ {r} : req'[q] = req[q]
    BY RequestEnds DEF ThreadInv
<1> HIDE DEF t
<1>6. ThreadTypeOK'  BY <1>3, <1>4, <1>5 DEF ThreadTypeOK
<1>7. ReqInv'
    <2>1. \A u \in Thread : conv[u].status # "absent" => conv'[u].status # "absent"
        BY <1>3
    <2>2. QED  BY <1>5, <2>1 DEF ThreadInv, ReqInv
<1>8. ConvInv'  BY <1>1, <1>3 DEF ThreadInv, ConvInv
<1>9. OneLiveThread'
    <2>1. Live(t) \/ t \in revived'
        BY <1>1, <1>2, <1>4 DEF Live, Conv
    <2>2. \A u \in Thread \ {t} : Live(u)' <=> Live(u)  BY <1>3 DEF Live
    <2>3. QED  BY <1>1, <1>4, <2>1, <2>2 DEF ThreadInv, OneLiveThread
<1>10. QED  BY <1>6, <1>7, <1>8, <1>9 DEF ThreadInv

(* A decline ends the thread it read. *)
LEMMA DeclineWritesStep ==
    ASSUME ThreadInv, NEW r \in ThreadReq, DeclineWrites(r)
    PROVE ThreadInv'
<1> DEFINE t == req[r].thread
<1>1. t \in Thread /\ conv[t].status # "absent"
    BY DEF ThreadInv, ReqInv, DeclineWrites
<1>2. conv[t] \in Conv  BY <1>1 DEF ThreadInv, ThreadTypeOK
<1>3. /\ conv' \in [Thread -> Conv]
      /\ conv'[t].status = "CANCELLED" /\ conv'[t].initiator = conv[t].initiator
      /\ \A u \in Thread \ {t} : conv'[u] = conv[u]
    BY <1>1, <1>2 DEF ThreadInv, ThreadTypeOK, DeclineWrites, Conv
<1>4. /\ req' \in [ThreadReq -> Request] /\ req'[r].pc = "idle"
      /\ \A q \in ThreadReq \ {r} : req'[q] = req[q]
      /\ revived' = revived
    BY RequestEnds DEF ThreadInv, DeclineWrites
<1> HIDE DEF t
<1>5. ThreadTypeOK'  BY <1>3, <1>4 DEF ThreadInv, ThreadTypeOK
<1>6. ReqInv'
    <2>1. \A u \in Thread : conv[u].status # "absent" => conv'[u].status # "absent"
        BY <1>3
    <2>2. QED  BY <1>4, <2>1 DEF ThreadInv, ReqInv
<1>7. ConvInv'  BY <1>1, <1>3 DEF ThreadInv, ConvInv
<1>8. OneLiveThread'
    <2>1. \A u \in Thread : Live(u)' => Live(u)  BY <1>3 DEF Live
    <2>2. QED  BY <1>4, <2>1 DEF ThreadInv, OneLiveThread
<1>9. QED  BY <1>5, <1>6, <1>7, <1>8 DEF ThreadInv

(* A request may break off. *)
LEMMA RequestFailsStep ==
    ASSUME ThreadInv, NEW r \in ThreadReq, RequestFails(r)
    PROVE ThreadInv'
<1>1. /\ req' \in [ThreadReq -> Request] /\ req'[r].pc = "idle"
      /\ \A q \in ThreadReq \ {r} : req'[q] = req[q]
    BY RequestEnds DEF ThreadInv, RequestFails
<1>2. UNCHANGED <<conv, revived>>  BY DEF RequestFails
<1>3. ReqInv'  BY <1>1, <1>2 DEF ThreadInv, ReqInv
<1>4. QED
    BY <1>1, <1>2, <1>3 DEF ThreadInv, ThreadTypeOK, ConvInv, OneLiveThread, Live

(* Every step of the threads preserves it. *)
LEMMA ThreadStep == ASSUME ThreadInv, [ThreadNext]_threadVars PROVE ThreadInv'
<1>1. CASE UNCHANGED threadVars
    BY <1>1 DEF threadVars, ThreadInv, ThreadTypeOK, ReqInv, ConvInv, OneLiveThread, Live
<1>2. CASE \E d \in ChatDevice, t \in Thread : CreateThread(d, t)
    BY <1>2, CreateStep
<1>3. CASE \E t \in Thread : FindThread(t)
    BY <1>1, <1>3 DEF FindThread
<1>4. ASSUME NEW r \in ThreadReq,
             \/ \E t \in Thread, d \in ChatDevice : AcceptReads(r, t, d) \/ EventReads(r, t, d)
             \/ \E t \in Thread : DeclineReads(r, t)
             \/ AcceptWrites(r) \/ EventWrites(r) \/ DeclineWrites(r) \/ RequestFails(r)
      PROVE ThreadInv'
    BY <1>4, AcceptReadsStep, EventReadsStep, DeclineReadsStep, PinsStep, DeclineWritesStep,
       RequestFailsStep
<1>5. QED  BY <1>1, <1>2, <1>3, <1>4 DEF ThreadNext

(* A step that replaces the pin of a thread is a write of the route, by a
   request that had read another one, or of the event. *)
LEMMA PinStep ==
    ASSUME ThreadInv, ThreadNext, NEW t \in Thread,
           conv[t].pin # NoId, conv'[t].pin # conv[t].pin
    PROVE \E r \in ThreadReq :
              /\ req[r].thread = t
              /\ \/ AcceptWrites(r) /\ req[r].saw # conv[t].pin
                 \/ EventWrites(r)
<1>1. ASSUME NEW d \in ChatDevice, NEW u \in Thread, CreateThread(d, u)
      PROVE FALSE
    <2>1. conv[u].pin = NoId  BY <1>1 DEF ThreadInv, ConvInv, CreateThread
    <2>2. QED  BY <1>1, <2>1 DEF ThreadInv, ThreadTypeOK, CreateThread
<1>2. ASSUME NEW r \in ThreadReq, DeclineWrites(r)
      PROVE FALSE
    BY <1>2 DEF ThreadInv, ThreadTypeOK, Conv, ReqInv, DeclineWrites
<1>3. PICK r \in ThreadReq : AcceptWrites(r) \/ EventWrites(r)
    BY <1>1, <1>2 DEF ThreadNext, FindThread, threadVars, AcceptReads, EventReads,
       DeclineReads, RequestFails
<1>4. req[r].thread = t /\ conv'[t].pin = req[r].dev
    BY <1>3 DEF ThreadInv, ThreadTypeOK, Conv, ReqInv, AcceptWrites, EventWrites, Pins
<1>5. AcceptWrites(r) => req[r].saw # conv[t].pin
    BY <1>4 DEF ThreadInv, ReqInv, AcceptWrites
<1>6. QED  BY <1>3, <1>4, <1>5

(* Two users never get two live threads with each other, however many creations,
   acceptances and declines race, unless a cancelled one was revived. *)
THEOREM OneThread == ThreadSpec => []OneLiveThread
<1>1. ThreadInit => ThreadInv  BY ThreadInitInv
<1>2. ThreadInv /\ [ThreadNext]_threadVars => ThreadInv'  BY ThreadStep
<1>3. ThreadInv => OneLiveThread  BY DEF ThreadInv
<1>4. QED  BY <1>1, <1>2, <1>3, PTL DEF ThreadSpec

(* Whatever is done to the chats, a pinned device is replaced only by a request
   of the route that had read the thread before that device was pinned, or by
   the older event. *)
THEOREM PinReplaced == ThreadSpec => PinReplacedByOverlapOrEvent
<1> DEFINE Ok == \A t \in Thread :
          conv[t].pin # NoId /\ conv'[t].pin # conv[t].pin =>
              \E r \in ThreadReq :
                  /\ req[r].thread = t
                  /\ \/ AcceptWrites(r) /\ req[r].saw # conv[t].pin
                     \/ EventWrites(r)
<1>1. ThreadInit => ThreadInv  BY ThreadInitInv
<1>2. ThreadInv /\ [ThreadNext]_threadVars => ThreadInv'  BY ThreadStep
<1>3. ThreadInv /\ [ThreadNext]_threadVars => [Ok]_threadVars  BY PinStep
<1>4. QED  BY <1>1, <1>2, <1>3, PTL DEF ThreadSpec, PinReplacedByOverlapOrEvent

-----------------------------------------------------------------------------
(* Prekeys. *)

Keys == [Holder -> SUBSET Prekey]
Going(b) == pub[b].pc # "idle"

(* The keys of publications are not those of others, nor of rows, except those
   that were inserted; their secrets are stored until the answer. *)
PubInv ==
    /\ \A b \in Tab :
          /\ pub[b].accepted \subseteq pub[b].keys
          /\ Going(b) => pub[b].dev \in known
          /\ ~Going(b) => pub[b].keys = {}
          /\ pub[b].pc \in {"post", "insert"} =>
                /\ pub[b].keys \subseteq secrets[pub[b].dev]
                /\ pub[b].keys \cap (free[pub[b].dev] \cup taken[pub[b].dev]) = {}
          /\ pub[b].pc = "answer" =>
                (pub[b].keys \ pub[b].accepted) \cap (free[pub[b].dev] \cup taken[pub[b].dev]) = {}
    /\ \A b, c \in Tab : b # c => pub[b].keys \cap pub[c].keys = {}

(* A claimed key is not free; a device that is not registered has no keys. *)
RowInv ==
    \A d \in Holder :
        /\ free[d] \cap taken[d] = {}
        /\ row[d] = "absent" => d \notin known /\ free[d] = {} /\ taken[d] = {}

(* What a device has, and what is about to be inserted for it. *)
Coming(d) == UNION {pub[b].accepted : b \in {c \in Tab : pub[c].pc = "insert" /\ pub[c].dev = d}}
BatchInv == \A b \in Tab : Cardinality(pub[b].keys) <= Batch
Cap == MaxFree + (Cardinality(Tab) - 1) * Batch
CapInv == \A d \in Holder : Cardinality(free[d] \cup Coming(d)) <= Cap

PoolInv ==
    /\ PoolTypeOK
    /\ PubInv
    /\ RowInv
    /\ ServableHasSecret

(* The steps of the pool wherever they are taken: a publication may leave out
   some of the ids that are not used. *)
PoolMove ==
    \/ \E b \in Tab :
          \/ \E d \in Holder, ids \in SUBSET Unused : Publish(b, d, ids)
          \/ CountSlots(b) \/ InsertKeys(b) \/ PublishAnswered(b)
          \/ PublishLost(b) \/ PublishRefused(b)
    \/ \E d \in Holder, k \in Prekey :
          \/ ClaimKey(d, k) /\ UNCHANGED <<secrets, pub, row, known>>
          \/ ConsumeSecret(d, k) /\ UNCHANGED <<free, pub, row, known>>
    \/ \E d \in Holder :
          \/ RegisterNew(d)
          \/ RevokeDevice(d) \/ RegisterAgain(d)

(* Sets of key ids are finite. *)
LEMMA KeysFinite ==
    ASSUME NEW ids \in SUBSET Prekey
    PROVE IsFiniteSet(ids) /\ Cardinality(ids) \in Nat
BY PoolAssumption, FS_Subset, FS_CardinalityType

(* A finite set has subsets of every smaller size. *)
LEMMA SubsetOfSize ==
    ASSUME NEW S, IsFiniteSet(S), NEW n \in Nat, n <= Cardinality(S)
    PROVE \E T \in SUBSET S : Cardinality(T) = n
<1>1. Cardinality(S) \in Nat /\ ExistsBijection(1 .. Cardinality(S), S)
    BY FS_CardinalityType
<1>2. PICK f \in Bijection(1 .. Cardinality(S), S) : TRUE
    BY <1>1 DEF ExistsBijection
<1>3. /\ f \in [1 .. Cardinality(S) -> S]
      /\ \A i, j \in 1 .. Cardinality(S) : f[i] = f[j] => i = j
    BY <1>2 DEF Bijection, Injection, IsInjective
<1> DEFINE T == {f[i] : i \in 1 .. n}
           g == [i \in 1 .. n |-> f[i]]
<1>4. 1 .. n \subseteq 1 .. Cardinality(S)  BY <1>1
<1>5. T \in SUBSET S  BY <1>3, <1>4
<1>6. g \in Bijection(1 .. n, T)
    BY <1>3, <1>4 DEF Bijection, Injection, Surjection, IsInjective
<1>7. IsFiniteSet(1 .. n) /\ Cardinality(1 .. n) = n  BY FS_Interval
<1>8. Cardinality(T) = n  BY <1>6, <1>7, FS_Bijection DEF ExistsBijection
<1>9. QED  BY <1>5, <1>8

(* The keys of a batch. *)
LEMMA SomeFacts ==
    ASSUME NEW ids \in SUBSET Prekey, NEW n \in Nat, n <= Cardinality(ids)
    PROVE Some(ids, n) \in SUBSET ids /\ Cardinality(Some(ids, n)) = n
<1>1. \E keys \in SUBSET ids : Cardinality(keys) = n  BY KeysFinite, SubsetOfSize
<1>2. QED  BY <1>1 DEF Some

(* Smaller is a lower bound of both numbers, and a number. *)
LEMMA SmallerFacts ==
    ASSUME NEW m \in Nat, NEW n \in Nat
    PROVE Smaller(m, n) \in Nat /\ Smaller(m, n) <= m /\ Smaller(m, n) <= n
BY DEF Smaller

(* What a publication publishes: new keys, no more than a batch. *)
LEMMA PublishFacts ==
    ASSUME PoolTypeOK, NEW b \in Tab, NEW d \in Holder, NEW ids \in SUBSET Unused,
           Publish(b, d, ids)
    PROVE \E keys \in SUBSET ids :
              /\ Cardinality(keys) <= Batch
              /\ secrets' = [secrets EXCEPT ![d] = @ \cup keys]
              /\ pub' = [pub EXCEPT ![b] = [pc |-> "post", dev |-> d, keys |-> keys, accepted |-> {}]]
<1>1. secrets[d] \in SUBSET Prekey /\ ids \in SUBSET Prekey
    BY DEF PoolTypeOK, Unused
<1>2. Cardinality(secrets[d]) \in Nat /\ Cardinality(ids) \in Nat  BY <1>1, KeysFinite
<1>3. MaxLocal - Cardinality(secrets[d]) \in Nat
    BY <1>2, PoolAssumption DEF Publish
<1>4. Allowed(d) \in Nat /\ Allowed(d) <= Batch /\ Allowed(d) <= Cardinality(ids)
    BY <1>3, PoolAssumption, SmallerFacts DEF Allowed, Publish
<1>5. Some(ids, Allowed(d)) \in SUBSET ids /\ Cardinality(Some(ids, Allowed(d))) = Allowed(d)
    BY <1>1, <1>4, SomeFacts
<1>6. QED  BY <1>4, <1>5 DEF Publish

(* New keys are nobody's. *)
LEMMA UnusedFacts ==
    ASSUME NEW keys \in SUBSET Unused
    PROVE /\ keys \in SUBSET Prekey
          /\ \A d \in Holder : keys \cap (free[d] \cup taken[d] \cup secrets[d]) = {}
          /\ \A b \in Tab : keys \cap pub[b].keys = {}
BY DEF Unused

(* A publication of the pool, by its fields. *)
LEMMA PubTyped ==
    ASSUME PoolTypeOK
    PROVE \A b \in Tab :
              /\ pub[b] \in Publication
              /\ pub[b].pc \in {"idle", "post", "insert", "answer"} /\ pub[b].dev \in Holder
              /\ pub[b].keys \in SUBSET Prekey /\ pub[b].accepted \in SUBSET Prekey
BY DEF PoolTypeOK, Publication

(* The secrets are stored before the keys are posted. *)
LEMMA PublishStep ==
    ASSUME PoolInv, NEW b \in Tab, NEW d \in Holder, NEW ids \in SUBSET Unused,
           Publish(b, d, ids)
    PROVE PoolInv'
<1>1. PICK keys \in SUBSET ids :
          /\ Cardinality(keys) <= Batch
          /\ secrets' = [secrets EXCEPT ![d] = @ \cup keys]
          /\ pub' = [pub EXCEPT ![b] = [pc |-> "post", dev |-> d, keys |-> keys, accepted |-> {}]]
    BY PublishFacts DEF PoolInv
<1>2. UNCHANGED <<free, taken, row, known>> /\ d \in known
    BY DEF Publish
<1>3. /\ keys \in SUBSET Prekey
      /\ \A e \in Holder : keys \cap (free[e] \cup taken[e] \cup secrets[e]) = {}
      /\ \A c \in Tab : keys \cap pub[c].keys = {}
    <2>1. keys \in SUBSET Unused  OBVIOUS
    <2>2. QED  BY <2>1, UnusedFacts
<1>4. /\ pub' \in [Tab -> Publication]
      /\ pub'[b] = [pc |-> "post", dev |-> d, keys |-> keys, accepted |-> {}]
      /\ \A c \in Tab \ {b} : pub'[c] = pub[c]
    BY <1>1, <1>3 DEF PoolInv, PoolTypeOK, Publication
<1>5. /\ secrets' \in Keys
      /\ secrets'[d] = secrets[d] \cup keys
      /\ \A e \in Holder : secrets[e] \subseteq secrets'[e]
    BY <1>1, <1>3 DEF PoolInv, PoolTypeOK, Keys
<1>6. PoolTypeOK'  BY <1>2, <1>4, <1>5 DEF PoolInv, PoolTypeOK, Keys
<1>7. PubInv'
    <2>1. ASSUME NEW c \in Tab \ {b}
          PROVE /\ pub[c].accepted \subseteq pub[c].keys
                /\ Going(c) => pub[c].dev \in known
                /\ ~Going(c) => pub[c].keys = {}
                /\ pub[c].pc \in {"post", "insert"} =>
                      /\ pub[c].keys \subseteq secrets'[pub[c].dev]
                      /\ pub[c].keys \cap (free[pub[c].dev] \cup taken[pub[c].dev]) = {}
                /\ pub[c].pc = "answer" =>
                      (pub[c].keys \ pub[c].accepted) \cap (free[pub[c].dev] \cup taken[pub[c].dev]) = {}
        BY <1>5, PubTyped DEF PoolInv, PubInv
    <2>2. QED
        BY <1>2, <1>3, <1>4, <1>5, <2>1 DEF PoolInv, PubInv, Going
<1>8. RowInv' /\ ServableHasSecret'
    BY <1>2, <1>5 DEF PoolInv, RowInv, ServableHasSecret, PoolTypeOK
<1>9. QED  BY <1>6, <1>7, <1>8 DEF PoolInv

(* The server counts the slots. *)
LEMMA CountStep ==
    ASSUME PoolInv, NEW b \in Tab, CountSlots(b)
    PROVE PoolInv'
<1>1. PICK accepted \in SUBSET pub[b].keys :
          pub' = [pub EXCEPT ![b].pc = "insert", ![b].accepted = accepted]
    BY DEF CountSlots
<1>2. UNCHANGED <<free, taken, secrets, row, known>> /\ pub[b].pc = "post"
    BY DEF CountSlots
<1>3. pub[b] \in Publication /\ accepted \in SUBSET Prekey
    BY PubTyped DEF PoolInv
<1>4. /\ pub' \in [Tab -> Publication]
      /\ pub'[b].pc = "insert" /\ pub'[b].accepted = accepted
      /\ pub'[b].dev = pub[b].dev /\ pub'[b].keys = pub[b].keys
      /\ \A c \in Tab \ {b} : pub'[c] = pub[c]
    BY <1>1, <1>3 DEF PoolInv, PoolTypeOK, Publication
<1>5. PoolTypeOK'  BY <1>2, <1>4 DEF PoolInv, PoolTypeOK
<1>6. PubInv'  BY <1>2, <1>4 DEF PoolInv, PubInv, Going
<1>7. RowInv' /\ ServableHasSecret'
    BY <1>2 DEF PoolInv, RowInv, ServableHasSecret
<1>8. QED  BY <1>5, <1>6, <1>7 DEF PoolInv

(* The server inserts the keys. *)
LEMMA InsertStep ==
    ASSUME PoolInv, NEW b \in Tab, InsertKeys(b)
    PROVE PoolInv'
<1> DEFINE d == pub[b].dev
           new == pub[b].accepted
<1>1. /\ UNCHANGED <<taken, secrets, row, known>> /\ pub[b].pc = "insert"
      /\ pub' = [pub EXCEPT ![b].pc = "answer"]
      /\ free' = [free EXCEPT ![d] = @ \cup new]
    BY DEF InsertKeys
<1>2. pub[b] \in Publication /\ d \in Holder /\ new \in SUBSET Prekey
    BY PubTyped DEF PoolInv
<1>3. /\ pub' \in [Tab -> Publication]
      /\ pub'[b].pc = "answer" /\ pub'[b].accepted = new
      /\ pub'[b].dev = d /\ pub'[b].keys = pub[b].keys
      /\ \A c \in Tab \ {b} : pub'[c] = pub[c]
    BY <1>1, <1>2 DEF PoolInv, PoolTypeOK, Publication
<1>4. /\ free' \in Keys
      /\ free'[d] = free[d] \cup new
      /\ \A e \in Holder \ {d} : free'[e] = free[e]
    BY <1>1, <1>2 DEF PoolInv, PoolTypeOK, Keys
<1>5. /\ new \subseteq pub[b].keys /\ d \in known
      /\ pub[b].keys \subseteq secrets[d]
      /\ pub[b].keys \cap (free[d] \cup taken[d]) = {}
      /\ \A c \in Tab \ {b} : pub[b].keys \cap pub[c].keys = {}
    BY <1>1 DEF PoolInv, PubInv, Going
<1> HIDE DEF d, new
<1>6. PoolTypeOK'  BY <1>1, <1>3, <1>4 DEF PoolInv, PoolTypeOK, Keys
<1>7. PubInv'
    <2>1. ASSUME NEW c \in Tab \ {b}
          PROVE /\ pub[c].accepted \subseteq pub[c].keys
                /\ Going(c) => pub[c].dev \in known
                /\ ~Going(c) => pub[c].keys = {}
                /\ pub[c].pc \in {"post", "insert"} =>
                      /\ pub[c].keys \subseteq secrets[pub[c].dev]
                      /\ pub[c].keys \cap (free'[pub[c].dev] \cup taken[pub[c].dev]) = {}
                /\ pub[c].pc = "answer" =>
                      (pub[c].keys \ pub[c].accepted) \cap (free'[pub[c].dev] \cup taken[pub[c].dev]) = {}
        <3>1. pub[c].dev \in Holder  BY PubTyped DEF PoolInv
        <3>2. pub[c].keys \cap free'[pub[c].dev] = pub[c].keys \cap free[pub[c].dev]
            BY <1>4, <1>5, <3>1
        <3>3. QED  BY <3>2 DEF PoolInv, PubInv
    <2>2. /\ pub[b].accepted \subseteq pub[b].keys
          /\ (pub[b].keys \ new) \cap (free'[d] \cup taken[d]) = {}
        BY <1>4, <1>5 DEF new
    <2>3. \A c, e \in Tab : c # e => pub[c].keys \cap pub[e].keys = {}
        BY DEF PoolInv, PubInv
    <2>4. QED  BY <1>1, <1>3, <1>5, <2>1, <2>2, <2>3 DEF PubInv, Going, new
<1>8. RowInv'
    BY <1>1, <1>4, <1>5 DEF PoolInv, RowInv
<1>9. ServableHasSecret'
    BY <1>1, <1>4, <1>5 DEF PoolInv, ServableHasSecret, PoolTypeOK
<1>10. QED  BY <1>6, <1>7, <1>8, <1>9 DEF PoolInv

(* A publication is over, and some of its secrets that are not in use may be
   dropped. *)
LEMMA EndPublication ==
    ASSUME PoolInv, NEW b \in Tab, pub[b].pc # "idle",
           pub' = [pub EXCEPT ![b] = NoPublication], UNCHANGED <<free, taken, row, known>>,
           NEW dropped \in SUBSET pub[b].keys,
           dropped \cap (free[pub[b].dev] \cup taken[pub[b].dev]) = {},
           secrets' = [secrets EXCEPT ![pub[b].dev] = @ \ dropped]
    PROVE PoolInv'
<1> DEFINE d == pub[b].dev
<1>1. pub[b] \in Publication /\ d \in Holder
    BY PubTyped DEF PoolInv
<1>2. NoPublication \in Publication /\ NoPublication.pc = "idle" /\ NoPublication.keys = {}
      /\ NoPublication.accepted = {}
    <2>1. (CHOOSE e \in Holder : TRUE) \in Holder  BY PoolAssumption
    <2>2. QED  BY <2>1 DEF NoPublication, Publication
<1>3. /\ pub' \in [Tab -> Publication] /\ pub'[b] = NoPublication
      /\ \A c \in Tab \ {b} : pub'[c] = pub[c]
    BY <1>2 DEF PoolInv, PoolTypeOK
<1>4. /\ secrets' \in Keys
      /\ secrets'[d] = secrets[d] \ dropped
      /\ \A e \in Holder \ {d} : secrets'[e] = secrets[e]
    BY <1>1 DEF PoolInv, PoolTypeOK, Keys
<1>5. /\ \A c \in Tab \ {b} : dropped \cap pub[c].keys = {}
      /\ dropped \cap (free[d] \cup taken[d]) = {}
    BY DEF PoolInv, PubInv
<1> HIDE DEF d
<1>6. PoolTypeOK'  BY <1>3, <1>4 DEF PoolInv, PoolTypeOK, Keys
<1>7. PubInv'
    <2>1. ASSUME NEW c \in Tab \ {b}
          PROVE /\ pub[c].accepted \subseteq pub[c].keys
                /\ Going(c) => pub[c].dev \in known
                /\ ~Going(c) => pub[c].keys = {}
                /\ pub[c].pc \in {"post", "insert"} =>
                      /\ pub[c].keys \subseteq secrets'[pub[c].dev]
                      /\ pub[c].keys \cap (free[pub[c].dev] \cup taken[pub[c].dev]) = {}
                /\ pub[c].pc = "answer" =>
                      (pub[c].keys \ pub[c].accepted) \cap (free[pub[c].dev] \cup taken[pub[c].dev]) = {}
        <3>1. pub[c].dev \in Holder  BY PubTyped DEF PoolInv
        <3>2. pub[c].keys \subseteq secrets[pub[c].dev] => pub[c].keys \subseteq secrets'[pub[c].dev]
            BY <1>4, <1>5, <3>1
        <3>3. QED  BY <3>2 DEF PoolInv, PubInv
    <2>2. \A c, e \in Tab : c # e => pub[c].keys \cap pub[e].keys = {}
        BY DEF PoolInv, PubInv
    <2>3. QED  BY <1>2, <1>3, <2>1, <2>2 DEF PubInv, Going
<1>8. RowInv'  BY DEF PoolInv, RowInv
<1>9. ServableHasSecret'
    BY <1>4, <1>5 DEF PoolInv, ServableHasSecret, PoolTypeOK
<1>10. QED  BY <1>6, <1>7, <1>8, <1>9 DEF PoolInv

(* An answer drops the secrets of keys the server does not have. *)
LEMMA EndsStep ==
    ASSUME PoolInv, NEW b \in Tab, PublishAnswered(b) \/ PublishLost(b) \/ PublishRefused(b)
    PROVE PoolInv'
<1>1. CASE PublishAnswered(b)
    <2> DEFINE dropped == pub[b].keys \ pub[b].accepted
    <2>1. dropped \cap (free[pub[b].dev] \cup taken[pub[b].dev]) = {}
        BY <1>1 DEF PoolInv, PubInv, PublishAnswered
    <2>2. QED
        BY <1>1, <2>1, EndPublication DEF PublishAnswered, Answered, DropsOthers, Drop
<1>2. CASE PublishLost(b)
    <2>1. secrets \in Keys /\ pub[b].dev \in Holder
        BY PubTyped DEF PoolInv, PoolTypeOK, Keys
    <2> DEFINE dropped == {}
    <2>2. secrets' = [secrets EXCEPT ![pub[b].dev] = @ \ dropped]
        BY <1>2, <2>1 DEF PublishLost, KeepUnanswered, Keys
    <2>3. /\ pub[b].pc # "idle" /\ UNCHANGED <<free, taken, row, known>>
          /\ pub' = [pub EXCEPT ![b] = NoPublication]
        BY <1>2 DEF PublishLost, Answered
    <2>4. /\ dropped \in SUBSET pub[b].keys
          /\ dropped \cap (free[pub[b].dev] \cup taken[pub[b].dev]) = {}
        OBVIOUS
    <2> HIDE DEF dropped
    <2>5. QED  BY <2>2, <2>3, <2>4, EndPublication
<1>3. CASE PublishRefused(b)
    <2>1. pub[b].keys \cap (free[pub[b].dev] \cup taken[pub[b].dev]) = {}
        BY <1>3 DEF PoolInv, PubInv, PublishRefused
    <2>2. QED
        BY <1>3, <2>1, EndPublication DEF PublishRefused, Answered, Drop
<1>4. QED  BY <1>1, <1>2, <1>3

(* A key is claimed. *)
LEMMA ClaimStep ==
    ASSUME PoolInv, NEW d \in Holder, NEW k \in Prekey, ClaimKey(d, k),
           UNCHANGED <<secrets, pub, row, known>>
    PROVE PoolInv'
<1>1. k \in free[d] /\ row[d] = "live"  BY DEF ClaimKey, Claimable
<1>2. /\ free' \in Keys /\ taken' \in Keys
      /\ free'[d] = free[d] \ {k} /\ taken'[d] = taken[d] \cup {k}
      /\ \A e \in Holder \ {d} : free'[e] = free[e] /\ taken'[e] = taken[e]
    BY DEF PoolInv, PoolTypeOK, ClaimKey, Keys
<1>3. \A e \in Holder : free'[e] \cup taken'[e] = free[e] \cup taken[e]
    BY <1>1, <1>2
<1>4. PoolTypeOK'  BY <1>2 DEF PoolInv, PoolTypeOK, Keys
<1>5. PubInv'
    <2>1. \A b \in Tab : pub[b].dev \in Holder  BY PubTyped DEF PoolInv
    <2>2. QED  BY <1>3, <2>1 DEF PoolInv, PubInv, Going
<1>6. RowInv'  BY <1>1, <1>2 DEF PoolInv, RowInv
<1>7. ServableHasSecret'  BY <1>3 DEF PoolInv, ServableHasSecret, PoolTypeOK
<1>8. QED  BY <1>4, <1>5, <1>6, <1>7 DEF PoolInv

(* A key is used. *)
LEMMA ConsumeStep ==
    ASSUME PoolInv, NEW d \in Holder, NEW k \in Prekey, ConsumeSecret(d, k),
           UNCHANGED <<free, pub, row, known>>
    PROVE PoolInv'
<1>1. k \in secrets[d] /\ k \in taken[d]  BY DEF ConsumeSecret
<1>2. /\ secrets' \in Keys /\ taken' \in Keys
      /\ secrets'[d] = secrets[d] \ {k} /\ taken'[d] = taken[d] \ {k}
      /\ \A e \in Holder \ {d} : secrets'[e] = secrets[e] /\ taken'[e] = taken[e]
    BY DEF PoolInv, PoolTypeOK, ConsumeSecret, Keys
<1>3. PoolTypeOK'  BY <1>2 DEF PoolInv, PoolTypeOK, Keys
<1>4. PubInv'
    <2>1. ASSUME NEW b \in Tab
          PROVE /\ pub[b].pc \in {"post", "insert"} =>
                      pub[b].keys \subseteq secrets'[pub[b].dev]
                /\ taken'[pub[b].dev] \subseteq taken[pub[b].dev]
        <3>1. pub[b].dev \in Holder  BY PubTyped DEF PoolInv
        <3>2. CASE pub[b].dev # d
            BY <1>2, <3>1, <3>2 DEF PoolInv, PubInv
        <3>3. CASE pub[b].dev = d
            BY <1>1, <1>2, <3>3 DEF PoolInv, PubInv
        <3>4. QED  BY <3>2, <3>3
    <2>2. QED  BY <2>1 DEF PoolInv, PubInv, Going
<1>5. RowInv'  BY <1>2 DEF PoolInv, RowInv
<1>6. ServableHasSecret'
    BY <1>1, <1>2 DEF PoolInv, RowInv, ServableHasSecret, PoolTypeOK
<1>7. QED  BY <1>3, <1>4, <1>5, <1>6 DEF PoolInv

(* A device registers. *)
LEMMA RegisterStep ==
    ASSUME PoolInv, NEW d \in Holder, RegisterNew(d)
    PROVE PoolInv'
<1> DEFINE keys == Some(Unused, Smaller(Batch, MaxFree))
<1>1. /\ row[d] = "absent" /\ row' = [row EXCEPT ![d] = "live"]
      /\ UNCHANGED <<taken, pub>>
      /\ free' = [free EXCEPT ![d] = keys]
      /\ \/ known' = known \cup {d} /\ secrets' = [secrets EXCEPT ![d] = keys]
         \/ UNCHANGED <<known, secrets>>
    BY DEF RegisterNew
<1>2. keys \in SUBSET Unused
    <2>1. Unused \in SUBSET Prekey  BY DEF Unused
    <2>2. Smaller(Batch, MaxFree) \in Nat  BY PoolAssumption, SmallerFacts
    <2>3. QED  BY <2>1, <2>2, SomeFacts DEF RegisterNew
<1>3. /\ keys \in SUBSET Prekey
      /\ \A e \in Holder : keys \cap (free[e] \cup taken[e] \cup secrets[e]) = {}
      /\ \A c \in Tab : keys \cap pub[c].keys = {}
    BY <1>2, UnusedFacts
<1>4. d \notin known /\ free[d] = {} /\ taken[d] = {}
    BY <1>1 DEF PoolInv, RowInv
<1> HIDE DEF keys
<1>5. /\ free' \in Keys /\ free'[d] = keys
      /\ \A e \in Holder \ {d} : free'[e] = free[e]
    BY <1>1, <1>3 DEF PoolInv, PoolTypeOK, Keys
<1>6. /\ row' \in [Holder -> {"absent", "live", "revoked"}] /\ row'[d] = "live"
      /\ \A e \in Holder \ {d} : row'[e] = row[e]
    BY <1>1 DEF PoolInv, PoolTypeOK
<1>7. /\ secrets' \in Keys
      /\ \A e \in Holder \ {d} : secrets'[e] = secrets[e]
      /\ known \subseteq known' /\ known' \subseteq known \cup {d}
      /\ d \in known' => secrets'[d] = keys
    BY <1>1, <1>3, <1>4 DEF PoolInv, PoolTypeOK, Keys
<1>8. PoolTypeOK'  BY <1>1, <1>5, <1>6, <1>7 DEF PoolInv, PoolTypeOK, Keys
<1>9. PubInv'
    <2>1. ASSUME NEW b \in Tab, Going(b)
          PROVE pub[b].dev \in Holder \ {d}
        BY <1>4, <2>1, PubTyped DEF PoolInv, PubInv
    <2>2. \A b \in Tab : Going(b) =>
             /\ secrets'[pub[b].dev] = secrets[pub[b].dev]
             /\ free'[pub[b].dev] = free[pub[b].dev]
        BY <1>5, <1>7, <2>1
    <2>3. QED  BY <1>1, <1>7, <2>2 DEF PoolInv, PubInv, Going
<1>10. RowInv'
    BY <1>1, <1>4, <1>5, <1>6, <1>7 DEF PoolInv, RowInv
<1>11. ServableHasSecret'
    BY <1>1, <1>4, <1>5, <1>7 DEF PoolInv, ServableHasSecret, PoolTypeOK
<1>12. QED  BY <1>8, <1>9, <1>10, <1>11 DEF PoolInv

(* Revocation and the registration after it leave keys and secrets alone. *)
LEMMA RevokeStep ==
    ASSUME PoolInv, NEW d \in Holder, RevokeDevice(d) \/ RegisterAgain(d)
    PROVE PoolInv'
<1>1. /\ UNCHANGED <<free, taken, secrets, pub, known>>
      /\ row' \in [Holder -> {"absent", "live", "revoked"}]
      /\ \A e \in Holder : row'[e] = "absent" => row[e] = "absent"
    BY DEF PoolInv, PoolTypeOK, RevokeDevice, RegisterAgain
<1>2. QED
    BY <1>1 DEF PoolInv, PoolTypeOK, PubInv, Going, RowInv, ServableHasSecret

(* Every step of the pool preserves it. *)
LEMMA PoolStep == ASSUME PoolInv, PoolMove \/ UNCHANGED poolVars PROVE PoolInv'
<1>1. CASE UNCHANGED poolVars
    BY <1>1 DEF poolVars, PoolInv, PoolTypeOK, PubInv, Going, RowInv, ServableHasSecret
<1>2. ASSUME NEW b \in Tab,
             \/ \E d \in Holder, ids \in SUBSET Unused : Publish(b, d, ids)
             \/ CountSlots(b) \/ InsertKeys(b) \/ PublishAnswered(b)
             \/ PublishLost(b) \/ PublishRefused(b)
      PROVE PoolInv'
    BY <1>2, PublishStep, CountStep, InsertStep, EndsStep
<1>3. ASSUME NEW d \in Holder, NEW k \in Prekey,
             \/ ClaimKey(d, k) /\ UNCHANGED <<secrets, pub, row, known>>
             \/ ConsumeSecret(d, k) /\ UNCHANGED <<free, pub, row, known>>
      PROVE PoolInv'
    BY <1>3, ClaimStep, ConsumeStep
<1>4. ASSUME NEW d \in Holder, RegisterNew(d) \/ RevokeDevice(d) \/ RegisterAgain(d)
      PROVE PoolInv'
    BY <1>4, RegisterStep, RevokeStep
<1>5. QED  BY <1>1, <1>2, <1>3, <1>4 DEF PoolMove

(* Initially the pool is empty. *)
LEMMA PoolInitInv ==
    ASSUME NEW registered \in SUBSET Holder, PoolInit(registered)
    PROVE PoolInv
<1>1. NoPublication \in Publication /\ NoPublication.pc = "idle" /\ NoPublication.keys = {}
      /\ NoPublication.accepted = {}
    <2>1. (CHOOSE e \in Holder : TRUE) \in Holder  BY PoolAssumption
    <2>2. QED  BY <2>1 DEF NoPublication, Publication
<1>2. PoolTypeOK  BY <1>1 DEF PoolInit, PoolTypeOK
<1>3. PubInv  BY <1>1 DEF PoolInit, PubInv, Going
<1>4. RowInv /\ ServableHasSecret  BY DEF PoolInit, RowInv, ServableHasSecret
<1>5. QED  BY <1>2, <1>3, <1>4 DEF PoolInv

(* Every step of Prekeys is one of those that SecretSetup takes from it. *)
LEMMA PoolNextMoves == ASSUME PoolNext PROVE PoolMove
<1>1. Unused \in SUBSET Unused  OBVIOUS
<1>2. QED  BY <1>1 DEF PoolNext, PoolMove

(* A device can decrypt with every key of its that was or may be claimed. *)
THEOREM Servable == PoolSpec => []ServableHasSecret
<1>1. (\E registered \in SUBSET Holder : PoolInit(registered)) => PoolInv
    BY PoolInitInv
<1>2. PoolInv /\ [PoolNext]_poolVars => PoolInv'
    BY PoolStep, PoolNextMoves
<1>3. PoolInv => ServableHasSecret  BY DEF PoolInv
<1>4. QED  BY <1>1, <1>2, <1>3, PTL DEF PoolSpec

-----------------------------------------------------------------------------
(* The cap of the prekeys. *)

(* The union of finitely many sets of at most n elements. *)
LEMMA UnionBound ==
    ASSUME NEW S, IsFiniteSet(S), NEW n \in Nat, NEW f,
           \A s \in S : IsFiniteSet(f[s]) /\ Cardinality(f[s]) <= n
    PROVE LET U == UNION {f[s] : s \in S} IN
          IsFiniteSet(U) /\ Cardinality(U) <= Cardinality(S) * n
<1> DEFINE U == UNION {f[s] : s \in S}
           Pairs == S \X (1 .. n)
<1>1. IsFiniteSet(1 .. n) /\ Cardinality(1 .. n) = n  BY FS_Interval
<1>2. IsFiniteSet(Pairs) /\ Cardinality(Pairs) = Cardinality(S) * n
    BY <1>1, FS_Product
<1>3. Cardinality(S) \in Nat  BY FS_CardinalityType
<1>4. CASE U = {}
    <2>1. IsFiniteSet(U) /\ Cardinality(U) = 0  BY <1>4, FS_EmptySet
    <2>2. Cardinality(S) * n \in Nat  BY <1>3
    <2>3. QED  BY <2>1, <2>2
<1>5. CASE U # {}
    <2>1. PICK x \in U : TRUE  BY <1>5
    <2> DEFINE e(s) == CHOOSE g : g \in Bijection(1 .. Cardinality(f[s]), f[s])
               h == [p \in Pairs |-> IF p[2] \in 1 .. Cardinality(f[p[1]]) THEN e(p[1])[p[2]] ELSE x]
    <2>2. ASSUME NEW s \in S
          PROVE /\ Cardinality(f[s]) \in Nat /\ Cardinality(f[s]) <= n
                /\ \A i \in 1 .. Cardinality(f[s]) : e(s)[i] \in f[s]
                /\ \A y \in f[s] : \E i \in 1 .. Cardinality(f[s]) : e(s)[i] = y
        <3>1. Cardinality(f[s]) \in Nat /\ ExistsBijection(1 .. Cardinality(f[s]), f[s])
            BY FS_CardinalityType
        <3>2. \E g : g \in Bijection(1 .. Cardinality(f[s]), f[s])
            BY <3>1 DEF ExistsBijection
        <3>3. e(s) \in Bijection(1 .. Cardinality(f[s]), f[s])  BY <3>2
        <3> HIDE DEF e
        <3>4. e(s) \in Surjection(1 .. Cardinality(f[s]), f[s])  BY <3>3 DEF Bijection
        <3>5. QED  BY <3>1, <3>4 DEF Surjection
    <2> HIDE DEF e
    <2>3. h \in [Pairs -> U]  BY <2>1, <2>2
    <2>4. ASSUME NEW y \in U PROVE \E p \in Pairs : h[p] = y
        <3>1. PICK s \in S : y \in f[s]  OBVIOUS
        <3>2. PICK i \in 1 .. Cardinality(f[s]) : e(s)[i] = y  BY <2>2, <3>1
        <3>3. <<s, i>> \in Pairs  BY <2>2, <3>2
        <3>4. h[<<s, i>>] = y  BY <3>2, <3>3
        <3>5. QED  BY <3>3, <3>4
    <2> HIDE DEF h, U, Pairs
    <2>5. h \in Surjection(Pairs, U)  BY <2>3, <2>4 DEF Surjection
    <2>6. IsFiniteSet(U) /\ Cardinality(U) <= Cardinality(Pairs)
        BY <1>2, <2>5, FS_Surjection
    <2>7. QED  BY <1>2, <2>6 DEF U
<1>6. QED  BY <1>4, <1>5

(* The union of two finite sets. *)
LEMMA TwoBound ==
    ASSUME NEW S, NEW T, IsFiniteSet(S), IsFiniteSet(T)
    PROVE /\ IsFiniteSet(S \cup T)
          /\ Cardinality(S \cup T) <= Cardinality(S) + Cardinality(T)
<1>1. /\ IsFiniteSet(S \cup T)
      /\ Cardinality(S \cup T) = Cardinality(S) + Cardinality(T) - Cardinality(S \cap T)
    BY FS_Union
<1>2. IsFiniteSet(S \cap T)  BY FS_Subset
<1>3. Cardinality(S \cap T) \in Nat /\ Cardinality(S) \in Nat /\ Cardinality(T) \in Nat
    BY <1>2, FS_CardinalityType
<1>4. QED  BY <1>1, <1>3

(* What the publications of all tabs but one may insert for a device. *)
LEMMA OthersBound ==
    ASSUME PoolInv, BatchInv, NEW b \in Tab, NEW d \in Holder
    PROVE \E others \in SUBSET Prekey :
              /\ \A c \in Tab \ {b} : pub[c].pc = "insert" /\ pub[c].dev = d =>
                                         pub[c].accepted \subseteq others
              /\ Cardinality(others) <= (Cardinality(Tab) - 1) * Batch
<1> DEFINE f == [c \in Tab |-> pub[c].accepted]
           others == UNION {f[c] : c \in Tab \ {b}}
<1>1. ASSUME NEW c \in Tab
      PROVE IsFiniteSet(f[c]) /\ Cardinality(f[c]) <= Batch /\ f[c] \in SUBSET Prekey
    <2>1. pub[c].accepted \in SUBSET pub[c].keys /\ pub[c].keys \in SUBSET Prekey
        BY PubTyped DEF PoolInv, PubInv
    <2>2. IsFiniteSet(pub[c].keys) /\ Cardinality(pub[c].keys) \in Nat
        BY <2>1, KeysFinite
    <2>3. IsFiniteSet(pub[c].accepted) /\ Cardinality(pub[c].accepted) <= Cardinality(pub[c].keys)
        BY <2>1, <2>2, FS_Subset
    <2>4. Cardinality(pub[c].accepted) \in Nat  BY <2>3, FS_CardinalityType
    <2>5. QED  BY <2>1, <2>2, <2>3, <2>4, PoolAssumption DEF BatchInv
<1>2. IsFiniteSet(Tab \ {b}) /\ Cardinality(Tab \ {b}) = Cardinality(Tab) - 1
    BY PoolAssumption, FS_RemoveElement
<1>3. Batch \in Nat  BY PoolAssumption
<1> HIDE DEF f
<1>4. Cardinality(others) <= Cardinality(Tab \ {b}) * Batch
    BY <1>1, <1>2, <1>3, UnionBound
<1>5. others \in SUBSET Prekey  BY <1>1
<1>6. \A c \in Tab \ {b} : pub[c].accepted \subseteq others  BY DEF f
<1>7. QED  BY <1>2, <1>4, <1>5, <1>6

(* A step after which a device has no key it did not have or await. *)
LEMMA CapKept ==
    ASSUME PoolTypeOK, PoolTypeOK', CapInv, NEW d \in Holder,
           free'[d] \cup Coming(d)' \subseteq free[d] \cup Coming(d)
    PROVE Cardinality(free'[d] \cup Coming(d)') <= Cap
<1> DEFINE S == free[d] \cup Coming(d)
           T == free'[d] \cup Coming(d)'
<1>1. S \in SUBSET Prekey  BY PubTyped DEF PoolTypeOK, Coming
<1>2. IsFiniteSet(S) /\ Cardinality(S) \in Nat  BY <1>1, KeysFinite
<1>3. Cardinality(T) <= Cardinality(S) /\ IsFiniteSet(T)  BY <1>2, FS_Subset
<1>4. Cardinality(T) \in Nat  BY <1>3, FS_CardinalityType
<1>5. Cap \in Int
    <2>1. Cardinality(Tab) \in Nat  BY PoolAssumption, FS_CardinalityType
    <2>2. QED  BY <2>1, PoolAssumption DEF Cap
<1>6. Cardinality(S) <= Cap  BY DEF CapInv
<1>7. QED  BY <1>2, <1>3, <1>4, <1>5, <1>6

(* The server counts the slots while others that counted have not inserted. *)
LEMMA CountCap ==
    ASSUME PoolInv, BatchInv, CapInv, NEW b \in Tab, CountSlots(b), PoolInv'
    PROVE BatchInv' /\ CapInv'
<1>0. PICK d \in Holder : d = pub[b].dev
    BY PubTyped DEF PoolInv
<1>1. PICK accepted \in SUBSET pub[b].keys :
          /\ Cardinality(accepted) = Smaller(Slots(d), Cardinality(pub[b].keys))
          /\ pub' = [pub EXCEPT ![b].pc = "insert", ![b].accepted = accepted]
    BY <1>0 DEF CountSlots
<1>2. /\ UNCHANGED free /\ pub[b].pc = "post"
      /\ pub[b] \in Publication
    BY PubTyped DEF CountSlots, PoolInv
<1>3. /\ pub'[b].pc = "insert" /\ pub'[b].accepted = accepted
      /\ pub'[b].dev = d /\ pub'[b].keys = pub[b].keys
      /\ \A c \in Tab \ {b} : pub'[c] = pub[c]
    BY <1>0, <1>1, <1>2 DEF PoolInv, PoolTypeOK, Publication
<1>4. /\ accepted \in SUBSET Prekey /\ free[d] \in SUBSET Prekey
      /\ pub[b].keys \in SUBSET Prekey
    BY <1>2, PubTyped DEF PoolInv, PoolTypeOK
<1>5. /\ IsFiniteSet(accepted) /\ Cardinality(accepted) \in Nat
      /\ IsFiniteSet(free[d]) /\ Cardinality(free[d]) \in Nat
      /\ Cardinality(pub[b].keys) \in Nat
    BY <1>4, KeysFinite
<1>6. Slots(d) \in Nat /\ Cardinality(accepted) <= Slots(d)
    <2>1. Slots(d) \in Nat  BY <1>5, PoolAssumption DEF Slots
    <2>2. QED  BY <1>1, <1>5, <2>1, SmallerFacts
<1>7. BatchInv'  BY <1>3 DEF BatchInv
<1>8. ASSUME NEW e \in Holder \ {d} PROVE Coming(e)' \subseteq Coming(e)
    BY <1>3 DEF Coming
<1>9. Cardinality(free'[d] \cup Coming(d)') <= Cap
    <2>1. CASE Cardinality(free[d]) > MaxFree
        <3>1. Slots(d) = 0  BY <2>1 DEF Slots
        <3>2. Cardinality(accepted) = 0  BY <1>5, <1>6, <3>1
        <3>3. accepted = {}  BY <1>5, <3>2, FS_EmptySet
        <3>4. Coming(d)' \subseteq Coming(d)  BY <1>3, <3>3 DEF Coming
        <3>5. QED  BY <1>2, <3>4, CapKept DEF PoolInv
    <2>2. CASE ~(Cardinality(free[d]) > MaxFree)
        <3>1. Slots(d) = MaxFree - Cardinality(free[d])  BY <2>2 DEF Slots
        <3>2. PICK others \in SUBSET Prekey :
                  /\ \A c \in Tab \ {b} : pub[c].pc = "insert" /\ pub[c].dev = d =>
                                             pub[c].accepted \subseteq others
                  /\ Cardinality(others) <= (Cardinality(Tab) - 1) * Batch
            BY OthersBound
        <3>3. IsFiniteSet(others) /\ Cardinality(others) \in Nat  BY <3>2, KeysFinite
        <3> DEFINE own == free[d] \cup accepted
                   all == own \cup others
        <3>4. IsFiniteSet(own) /\ Cardinality(own) <= Cardinality(free[d]) + Cardinality(accepted)
            BY <1>5, TwoBound
        <3>5. IsFiniteSet(all) /\ Cardinality(all) <= Cardinality(own) + Cardinality(others)
            BY <3>3, <3>4, TwoBound
        <3>6. Cardinality(own) \in Nat /\ Cardinality(all) \in Nat
            BY <3>4, <3>5, FS_CardinalityType
        <3>7. Cardinality(own) <= MaxFree
            BY <1>5, <1>6, <3>1, <3>4, <3>6, PoolAssumption
        <3>8. (Cardinality(Tab) - 1) * Batch \in Int
            <4>1. Cardinality(Tab) \in Nat  BY PoolAssumption, FS_CardinalityType
            <4>2. QED  BY <4>1, PoolAssumption
        <3>9. Cardinality(all) <= Cap
            BY <3>2, <3>3, <3>5, <3>6, <3>7, <3>8, PoolAssumption DEF Cap
        <3>10. free'[d] \cup Coming(d)' \in SUBSET all
            BY <1>2, <1>3, <3>2 DEF Coming
        <3> HIDE DEF all
        <3>11. /\ Cardinality(free'[d] \cup Coming(d)') <= Cardinality(all)
               /\ Cardinality(free'[d] \cup Coming(d)') \in Nat
            BY <3>5, <3>10, FS_Subset, FS_CardinalityType
        <3>12. Cap \in Int  BY <3>8, PoolAssumption DEF Cap
        <3>13. QED  BY <3>6, <3>9, <3>11, <3>12
    <2>3. QED  BY <2>1, <2>2
<1>10. ASSUME NEW e \in Holder \ {d} PROVE Cardinality(free'[e] \cup Coming(e)') <= Cap
    BY <1>2, <1>8, CapKept DEF PoolInv
<1>11. CapInv'  BY <1>9, <1>10 DEF CapInv, Cap
<1>12. QED  BY <1>7, <1>11

(* The other steps give no device a key it did not have or await. *)
LEMMA PublishCap ==
    ASSUME PoolInv, BatchInv, CapInv, NEW b \in Tab, NEW d \in Holder,
           NEW ids \in SUBSET Unused, Publish(b, d, ids), PoolInv'
    PROVE BatchInv' /\ CapInv'
<1>1. PICK keys \in SUBSET ids :
          /\ Cardinality(keys) <= Batch
          /\ secrets' = [secrets EXCEPT ![d] = @ \cup keys]
          /\ pub' = [pub EXCEPT ![b] = [pc |-> "post", dev |-> d, keys |-> keys, accepted |-> {}]]
    BY PublishFacts DEF PoolInv
<1>2. /\ pub'[b] = [pc |-> "post", dev |-> d, keys |-> keys, accepted |-> {}]
      /\ \A c \in Tab \ {b} : pub'[c] = pub[c]
    BY <1>1 DEF PoolInv, PoolTypeOK
<1>3. UNCHANGED free  BY DEF Publish
<1>4. BatchInv'  BY <1>1, <1>2 DEF BatchInv
<1>5. ASSUME NEW e \in Holder PROVE Coming(e)' \subseteq Coming(e)
    BY <1>2 DEF Coming
<1>6. ASSUME NEW e \in Holder PROVE Cardinality(free'[e] \cup Coming(e)') <= Cap
    BY <1>3, <1>5, CapKept DEF PoolInv
<1>7. QED  BY <1>4, <1>6 DEF CapInv, Cap

(* What is inserted was accepted for slots that were free when they were
   counted. *)
LEMMA InsertCap ==
    ASSUME PoolInv, BatchInv, CapInv, NEW b \in Tab, InsertKeys(b), PoolInv'
    PROVE BatchInv' /\ CapInv'
<1>1. /\ pub'[b].pc = "answer" /\ pub'[b].keys = pub[b].keys
      /\ \A c \in Tab \ {b} : pub'[c] = pub[c]
    BY PubTyped DEF PoolInv, PoolTypeOK, InsertKeys, Publication
<1>2. BatchInv'  BY <1>1 DEF BatchInv
<1>3. ASSUME NEW d \in Holder
      PROVE free'[d] \cup Coming(d)' \subseteq free[d] \cup Coming(d)
    <2>1. Coming(d)' \subseteq Coming(d)  BY <1>1 DEF Coming
    <2>2. CASE d = pub[b].dev
        <3>1. free'[d] = free[d] \cup pub[b].accepted
            BY <2>2 DEF PoolInv, PoolTypeOK, InsertKeys
        <3>2. pub[b].accepted \subseteq Coming(d)  BY <2>2 DEF Coming, InsertKeys
        <3>3. QED  BY <2>1, <3>1, <3>2
    <2>3. CASE d # pub[b].dev
        BY <2>1, <2>3 DEF PoolInv, PoolTypeOK, InsertKeys
    <2>4. QED  BY <2>2, <2>3
<1>4. ASSUME NEW d \in Holder PROVE Cardinality(free'[d] \cup Coming(d)') <= Cap
    BY <1>3, CapKept DEF PoolInv
<1>5. QED  BY <1>2, <1>4 DEF CapInv, Cap

(* A publication that ends has nothing coming any more. *)
LEMMA EndsCap ==
    ASSUME PoolInv, BatchInv, CapInv, NEW b \in Tab,
           PublishAnswered(b) \/ PublishLost(b) \/ PublishRefused(b), PoolInv'
    PROVE BatchInv' /\ CapInv'
<1>1. UNCHANGED free /\ pub' = [pub EXCEPT ![b] = NoPublication]
    BY DEF PublishAnswered, PublishLost, PublishRefused, Answered
<1>2. /\ pub'[b].pc = "idle" /\ pub'[b].keys = {}
      /\ \A c \in Tab \ {b} : pub'[c] = pub[c]
    BY <1>1 DEF PoolInv, PoolTypeOK, NoPublication
<1>3. Cardinality({}) = 0  BY FS_EmptySet
<1>4. BatchInv'
    <2>1. Batch \in Nat  BY PoolAssumption
    <2>2. Cardinality(pub'[b].keys) <= Batch  BY <1>2, <1>3, <2>1
    <2>3. QED  BY <1>2, <2>2 DEF BatchInv
<1>5. ASSUME NEW d \in Holder PROVE Coming(d)' \subseteq Coming(d)
    BY <1>2 DEF Coming
<1>6. ASSUME NEW d \in Holder PROVE Cardinality(free'[d] \cup Coming(d)') <= Cap
    BY <1>1, <1>5, CapKept DEF PoolInv
<1>7. QED  BY <1>4, <1>6 DEF CapInv, Cap

(* Steps by which keys are only taken do not come near the cap. *)
LEMMA KeysMoveCap ==
    ASSUME PoolInv, BatchInv, CapInv, PoolInv', UNCHANGED pub,
           \A d \in Holder : free'[d] \subseteq free[d]
    PROVE BatchInv' /\ CapInv'
<1>1. BatchInv'  BY DEF BatchInv
<1>2. ASSUME NEW d \in Holder PROVE Coming(d)' = Coming(d)  BY DEF Coming
<1>3. ASSUME NEW d \in Holder PROVE Cardinality(free'[d] \cup Coming(d)') <= Cap
    BY <1>2, CapKept DEF PoolInv
<1>4. QED  BY <1>1, <1>3 DEF CapInv, Cap

(* A new registration starts with no keys and nothing coming. *)
LEMMA RegisterCap ==
    ASSUME PoolInv, BatchInv, CapInv, NEW d \in Holder, RegisterNew(d), PoolInv'
    PROVE BatchInv' /\ CapInv'
<1> DEFINE keys == Some(Unused, Smaller(Batch, MaxFree))
<1>1. row[d] = "absent" /\ UNCHANGED pub /\ free' = [free EXCEPT ![d] = keys]
    BY DEF RegisterNew
<1>2. Unused \in SUBSET Prekey  BY DEF Unused
<1>3. /\ Smaller(Batch, MaxFree) \in Nat /\ Smaller(Batch, MaxFree) <= MaxFree
      /\ Smaller(Batch, MaxFree) <= Cardinality(Unused)
    BY PoolAssumption, SmallerFacts DEF RegisterNew
<1>4. Cardinality(keys) <= MaxFree /\ Cardinality(keys) \in Nat
    BY <1>2, <1>3, SomeFacts
<1> HIDE DEF keys
<1>5. /\ free'[d] = keys
      /\ \A e \in Holder \ {d} : free'[e] = free[e]
    BY <1>1 DEF PoolInv, PoolTypeOK
<1>6. Coming(d)' = {}
    BY <1>1 DEF PoolInv, PubInv, RowInv, Going, Coming
<1>7. Cardinality(free'[d] \cup Coming(d)') <= Cap
    <2>1. Cardinality(Tab) - 1 \in Nat
        <3>1. Cardinality(Tab) \in Nat  BY PoolAssumption, FS_CardinalityType
        <3>2. Cardinality(Tab) # 0  BY PoolAssumption, FS_EmptySet
        <3>3. QED  BY <3>1, <3>2
    <2>2. (Cardinality(Tab) - 1) * Batch \in Nat  BY <2>1, PoolAssumption
    <2>3. free'[d] \cup Coming(d)' = keys  BY <1>5, <1>6
    <2>4. MaxFree \in Nat  BY PoolAssumption
    <2>5. Cap \in Nat /\ MaxFree <= Cap  BY <2>2, <2>4 DEF Cap
    <2>6. QED  BY <1>4, <2>3, <2>4, <2>5
<1>8. ASSUME NEW e \in Holder \ {d} PROVE Cardinality(free'[e] \cup Coming(e)') <= Cap
    <2>1. Coming(e)' = Coming(e)  BY <1>1 DEF Coming
    <2>2. QED  BY <1>5, <2>1, CapKept DEF PoolInv
<1>9. BatchInv'  BY <1>1 DEF BatchInv
<1>10. QED  BY <1>7, <1>8, <1>9 DEF CapInv, Cap

(* Every step on the pool preserves the bound. *)
LEMMA CapStep ==
    ASSUME PoolInv, BatchInv, CapInv, PoolMove \/ UNCHANGED poolVars
    PROVE BatchInv' /\ CapInv'
<1>1. PoolInv'  BY PoolStep
<1>2. CASE UNCHANGED poolVars
    BY <1>1, <1>2, KeysMoveCap DEF poolVars
<1>3. ASSUME NEW b \in Tab,
             \/ \E d \in Holder, ids \in SUBSET Unused : Publish(b, d, ids)
             \/ CountSlots(b) \/ InsertKeys(b) \/ PublishAnswered(b)
             \/ PublishLost(b) \/ PublishRefused(b)
      PROVE BatchInv' /\ CapInv'
    BY <1>1, <1>3, PublishCap, CountCap, InsertCap, EndsCap
<1>4. ASSUME NEW d \in Holder, NEW k \in Prekey,
             \/ ClaimKey(d, k) /\ UNCHANGED <<secrets, pub, row, known>>
             \/ ConsumeSecret(d, k) /\ UNCHANGED <<free, pub, row, known>>
      PROVE BatchInv' /\ CapInv'
    <2>1. \A e \in Holder : free'[e] \subseteq free[e]
        BY <1>4 DEF ClaimKey, PoolInv, PoolTypeOK
    <2>2. QED  BY <1>1, <1>4, <2>1, KeysMoveCap
<1>5. ASSUME NEW d \in Holder, RevokeDevice(d) \/ RegisterAgain(d)
      PROVE BatchInv' /\ CapInv'
    BY <1>1, <1>5, KeysMoveCap DEF RevokeDevice, RegisterAgain
<1>6. QED  BY <1>1, <1>2, <1>3, <1>4, <1>5, RegisterCap DEF PoolMove

(* The bound holds initially. *)
LEMMA CapInit ==
    ASSUME NEW registered \in SUBSET Holder, PoolInit(registered)
    PROVE BatchInv /\ CapInv
<1>1. \A b \in Tab : pub[b].keys = {} /\ pub[b].pc = "idle"
    BY DEF PoolInit, NoPublication
<1>2. Cardinality({}) = 0  BY FS_EmptySet
<1>3. \A d \in Holder : free[d] \cup Coming(d) = {}
    BY <1>1 DEF PoolInit, Coming
<1>4. 0 <= Cap
    <2>1. Cardinality(Tab) - 1 \in Nat
        <3>1. Cardinality(Tab) \in Nat  BY PoolAssumption, FS_CardinalityType
        <3>2. Cardinality(Tab) # 0  BY PoolAssumption, FS_EmptySet
        <3>3. QED  BY <3>1, <3>2
    <2>2. (Cardinality(Tab) - 1) * Batch \in Nat  BY <2>1, PoolAssumption
    <2>3. QED  BY <2>2, PoolAssumption DEF Cap
<1>5. Batch \in Nat  BY PoolAssumption
<1>6. ASSUME NEW b \in Tab PROVE Cardinality(pub[b].keys) <= Batch
    <2>1. pub[b].keys = {}  BY <1>1
    <2>2. Cardinality(pub[b].keys) = 0  BY <1>2, <2>1
    <2>3. QED  BY <1>5, <2>2
<1>7. CapInv  BY <1>2, <1>3, <1>4 DEF CapInv
<1>8. QED  BY <1>6, <1>7 DEF BatchInv

(* A device has no more keys than what is awaited and they may come to. *)
LEMMA CapMeans == ASSUME PoolInv, CapInv PROVE OvershootBounded
<1>1. ASSUME NEW d \in Holder PROVE Cardinality(free[d]) <= Cap
    <2> DEFINE S == free[d] \cup Coming(d)
    <2>1. S \in SUBSET Prekey  BY PubTyped DEF PoolInv, PoolTypeOK, Coming
    <2>2. IsFiniteSet(S) /\ Cardinality(S) \in Nat  BY <2>1, KeysFinite
    <2>3. Cardinality(free[d]) <= Cardinality(S) /\ IsFiniteSet(free[d])
        BY <2>2, FS_Subset
    <2>4. Cardinality(free[d]) \in Nat  BY <2>3, FS_CardinalityType
    <2>5. Cap \in Int
        <3>1. Cardinality(Tab) \in Nat  BY PoolAssumption, FS_CardinalityType
        <3>2. QED  BY <3>1, PoolAssumption DEF Cap
    <2>6. QED  BY <2>2, <2>3, <2>4, <2>5 DEF CapInv
<1>2. QED  BY <1>1 DEF OvershootBounded, Cap

(* The cap of a device's prekeys is exceeded by no more than what the other
   tabs' publications had counted and not inserted. *)
THEOREM Overshoot == PoolSpec => []OvershootBounded
<1> DEFINE Inv == PoolInv /\ BatchInv /\ CapInv
<1>1. (\E registered \in SUBSET Holder : PoolInit(registered)) => Inv
    BY PoolInitInv, CapInit
<1>2. Inv /\ [PoolNext]_poolVars => Inv'
    BY PoolStep, CapStep, PoolNextMoves
<1>3. Inv => OvershootBounded  BY CapMeans
<1>4. QED  BY <1>1, <1>2, <1>3, PTL DEF PoolSpec

-----------------------------------------------------------------------------
(* The clients. *)

(* What was agreed in a chat, and who may hold its key: who starts a chat, who
   accepted it, and who was linked to a device. *)
Minter == [t \in Thread |-> conv[t].initiator]
MayHold == {p \in ChatDevice \X Thread :
               \/ p[1] \in {conv[p[2]].initiator} \cup linked
               \/ <<p[2], p[1]>> \in chosen}

(* A share that is in progress, a message, an event on its way, and a key, when
   the chats were started by the devices `minter' and `may' says who may hold
   their keys. *)
Minted(keys, minter) == \A t \in Thread : keys[t] # NoId => keys[t] = minter[t]
Allows(may, keys, to) == \A t \in Thread : keys[t] # NoId => <<to, t>> \in may

GoodShare(x, minter, may) ==
    /\ x \in Share
    /\ Minted(x.keys, minter)
    /\ x.why # "link" => Allows(may, x.keys, x.to)
    /\ x.pc = "idle" => x.keys = NoKeys
    /\ x.pc # "idle" =>
          /\ {x.from, x.to} \subseteq ChatDevice
          /\ IF x.why = "link" THEN SameUser(x.from, x.to) /\ x.thread = NoId
             ELSE ~SameUser(x.from, x.to) /\ x.thread \in Thread /\ x.keys[x.thread] # NoId
    /\ x.pc = "send" => x.to \in Holder /\ x.opk \in Prekey

GoodMessage(m, minter, may) ==
    /\ m \in Message
    /\ Minted(m.keys, minter) /\ Allows(may, m.keys, m.to)
    /\ m.kind \in {"package", "link"} => m.to \in Holder /\ m.opk \in Prekey
    /\ m.kind \in {"package", "receipt", "request"} => m.thread \in Thread
    /\ m.kind = "package" => ~SameUser(m.from, m.to) /\ m.keys[m.thread] # NoId
    /\ m.kind = "request" => ~SameUser(m.from, m.to) /\ <<m.from, m.thread>> \in may
    /\ m.kind \in {"link", "join"} => SameUser(m.from, m.to) /\ m.thread = NoId

ShareInv == \A j \in Job : GoodShare(job[j], Minter, MayHold)
MessageInv == \A m \in msgs : GoodMessage(m, Minter, MayHold)
KeyInv == \A d \in ChatDevice : Minted(key[d], Minter) /\ Allows(MayHold, key[d], d)

EventInv ==
    \A e \in events :
        /\ key[e.dev][e.thread] # NoId
        /\ <<e.thread, e.pin>> \in chosen /\ ~SameUser(e.dev, e.pin)

(* The device that accepts a chat, and the one that is pinned, are the peer's. *)
PeerInv ==
    /\ \A r \in ThreadReq :
          req[r].pc = "accept" => ~Created(req[r].thread, req[r].dev)
    /\ \A t \in Thread :
          /\ conv[t].pin # NoId => ~Created(t, conv[t].pin)
          /\ conv[t].status = "ACTIVE" => <<t, conv[t].pin>> \in chosen
          /\ conv[t].status # "absent" => conv[t].initiator \in ChatDevice

(* The type of the clients' variables, but the messages. *)
ClientTypeOK ==
    /\ key \in [ChatDevice -> [Thread -> ChatDevice \cup {NoId}]]
    /\ job \in [Job -> Share]
    /\ events \subseteq [dev : ChatDevice, thread : Thread, pin : ChatDevice]
    /\ attempted \in [ChatDevice -> SUBSET (Thread \X ChatDevice)]
    /\ receipts \in [ChatDevice -> SUBSET (Thread \X ChatDevice)]
    /\ faults \in 0 .. MaxFaults
    /\ chosen \subseteq Thread \X ChatDevice /\ linked \subseteq ChatDevice

ClientInv == ClientTypeOK /\ ShareInv /\ MessageInv /\ KeyInv /\ EventInv

SetupInv == ThreadInv /\ PoolInv /\ PeerInv /\ ClientInv

(* A step changes no agreement and takes no right away. *)
Grown ==
    /\ \A t \in Thread : Minter[t] # NoId => Minter'[t] = Minter[t]
    /\ MayHold \subseteq MayHold'

(* What is good stays good. *)
LEMMA GoodKept ==
    ASSUME NEW a, NEW b, NEW m, NEW n, m \subseteq n,
           \A t \in Thread : a[t] # NoId => b[t] = a[t]
    PROVE /\ \A x : GoodShare(x, a, m) => GoodShare(x, b, n)
          /\ \A x : GoodMessage(x, a, m) => GoodMessage(x, b, n)
          /\ \A keys, to : Minted(keys, a) => Minted(keys, b)
          /\ \A keys, to : Allows(m, keys, to) => Allows(n, keys, to)
<1>1. \A keys : Minted(keys, a) => Minted(keys, b)  BY DEF Minted
<1>2. \A keys, to : Allows(m, keys, to) => Allows(n, keys, to)  BY DEF Allows
<1>3. ASSUME NEW x, GoodShare(x, a, m) PROVE GoodShare(x, b, n)
    BY <1>1, <1>2, <1>3 DEF GoodShare
<1>4. ASSUME NEW x, GoodMessage(x, a, m) PROVE GoodMessage(x, b, n)
    BY <1>1, <1>2, <1>4 DEF GoodMessage
<1>5. QED  BY <1>1, <1>2, <1>3, <1>4

(* Users are distinct. *)
LEMMA OtherUser ==
    ASSUME NEW i, NEW c, NEW p, SameUser(i, c), ~SameUser(i, p)
    PROVE ~SameUser(c, p) /\ ~SameUser(p, c)
BY SetupAssumption DEF SameUser

(* A step of the clients, by what becomes of shares and messages. *)
LEMMA ClientStep ==
    ASSUME ClientInv, Grown, ClientTypeOK', KeyInv', EventInv',
           \A j \in Job : job'[j] = job[j] \/ GoodShare(job'[j], Minter', MayHold'),
           \A m \in msgs' : m \in msgs \/ GoodMessage(m, Minter', MayHold')
    PROVE ClientInv'
<1>1. /\ \A x : GoodShare(x, Minter, MayHold) => GoodShare(x, Minter', MayHold')
      /\ \A x : GoodMessage(x, Minter, MayHold) => GoodMessage(x, Minter', MayHold')
    BY GoodKept DEF Grown
<1>2. ShareInv'  BY <1>1 DEF ClientInv, ShareInv
<1>3. MessageInv'  BY <1>1 DEF ClientInv, MessageInv
<1>4. QED  BY <1>2, <1>3 DEF ClientInv

(* A step that sets no key and announces no acceptance. *)
LEMMA ClientKept ==
    ASSUME ClientInv, Grown, ClientTypeOK', key' = key, events' \subseteq events, chosen' = chosen,
           \A j \in Job : job'[j] = job[j] \/ GoodShare(job'[j], Minter', MayHold'),
           \A m \in msgs' : m \in msgs \/ GoodMessage(m, Minter', MayHold')
    PROVE ClientInv'
<1>1. KeyInv'
    <2>1. /\ \A keys, to : Minted(keys, Minter) => Minted(keys, Minter')
          /\ \A keys, to : Allows(MayHold, keys, to) => Allows(MayHold', keys, to)
        BY GoodKept DEF Grown
    <2>2. QED  BY <2>1 DEF ClientInv, KeyInv
<1>2. EventInv'  BY DEF ClientInv, EventInv
<1>3. QED  BY <1>1, <1>2, ClientStep

(* Faults are counted up to their bound. *)
LEMMA FaultType == ASSUME faults \in 0 .. MaxFaults, Fault PROVE faults' \in 0 .. MaxFaults
BY SetupAssumption DEF Fault

(* A post adds its messages or is lost. *)
LEMMA PostedFacts ==
    ASSUME faults \in 0 .. MaxFaults, NEW ms, Posted(ms)
    PROVE faults' \in 0 .. MaxFaults /\ msgs' \subseteq msgs \cup ms
BY FaultType DEF Posted

(* An ack removes its message or is lost, and what was sent in return may be
   added. *)
LEMMA AckedFacts ==
    ASSUME faults \in 0 .. MaxFaults, NEW m, NEW ms, Acked(m, ms)
    PROVE faults' \in 0 .. MaxFaults /\ msgs' \subseteq msgs \cup ms
BY FaultType DEF Acked

(* An idle share is a good one, whoever holds the keys. *)
LEMMA NoShareGood ==
    ASSUME NEW a, NEW m PROVE NoShare \in Share /\ GoodShare(NoShare, a, m)
BY DEF NoShare, GoodShare, Share, NoKeys, Minted, Allows

(* Control messages. *)
LEMMA ControlGood ==
    ASSUME NEW a, NEW m, NEW from \in ChatDevice, NEW to \in ChatDevice, NEW t \in Thread \cup {NoId}
    PROVE /\ Control("nudge", from, to, t) \in Message
          /\ GoodMessage(Control("nudge", from, to, t), a, m)
          /\ t \in Thread => GoodMessage(Control("receipt", from, to, t), a, m)
          /\ t \in Thread /\ ~SameUser(from, to) /\ <<from, t>> \in m =>
                 GoodMessage(Control("request", from, to, t), a, m)
          /\ t = NoId /\ SameUser(from, to) => GoodMessage(Control("join", from, to, t), a, m)
<1> DEFINE Kinds == {"receipt", "request", "join", "nudge"}
<1>1. NoKeys \in [Thread -> ChatDevice \cup {NoId}] /\ 0 \in 0 .. Poison
    BY SetupAssumption DEF NoKeys
<1>2. ASSUME NEW k \in Kinds
      PROVE /\ Control(k, from, to, t) \in Message
            /\ Control(k, from, to, t).kind = k /\ Control(k, from, to, t).keys = NoKeys
            /\ Control(k, from, to, t).from = from /\ Control(k, from, to, t).to = to
            /\ Control(k, from, to, t).thread = t
    BY <1>1 DEF Control, Message
<1>3. ASSUME NEW k \in Kinds
      PROVE /\ Minted(Control(k, from, to, t).keys, a)
            /\ Allows(m, Control(k, from, to, t).keys, to)
    BY <1>2 DEF NoKeys, Minted, Allows
<1> HIDE DEF Kinds
<1>4. {"receipt", "request", "join", "nudge"} \subseteq Kinds  BY DEF Kinds
<1>5. QED  BY <1>2, <1>3, <1>4 DEF GoodMessage

(* A device shares its key of a chat with a device that may have it. *)
LEMMA ShareGood ==
    ASSUME ClientInv, NEW d \in ChatDevice, NEW to \in ChatDevice, NEW t \in Thread,
           NEW why \in {"accepted", "reconcile", "request"},
           key[d][t] # NoId, ~SameUser(d, to), <<to, t>> \in MayHold
    PROVE GoodShare([pc |-> "claim", from |-> d, to |-> to, keys |-> OneKey(d, t),
                     why |-> why, thread |-> t, opk |-> NoId], Minter, MayHold)
<1>1. key[d] \in [Thread -> ChatDevice \cup {NoId}] /\ Minted(key[d], Minter)
    BY DEF ClientInv, ClientTypeOK, KeyInv
<1>2. /\ OneKey(d, t) \in [Thread -> ChatDevice \cup {NoId}]
      /\ OneKey(d, t)[t] = key[d][t]
      /\ \A u \in Thread \ {t} : OneKey(d, t)[u] = NoId
    BY <1>1 DEF OneKey, NoKeys
<1>3. Minted(OneKey(d, t), Minter) /\ Allows(MayHold, OneKey(d, t), to)
    BY <1>1, <1>2 DEF Minted, Allows
<1>4. QED  BY <1>2, <1>3 DEF GoodShare, Share

(* A share is started. *)
LEMMA StartShareFacts ==
    ASSUME job \in [Job -> Share], NEW j \in Job, NEW d, NEW to, NEW keys, NEW why, NEW t,
           StartShare(j, d, to, keys, why, t), NEW a, NEW m,
           GoodShare([pc |-> "claim", from |-> d, to |-> to, keys |-> keys,
                      why |-> why, thread |-> t, opk |-> NoId], a, m)
    PROVE /\ job' \in [Job -> Share]
          /\ \A i \in Job : job'[i] = job[i] \/ GoodShare(job'[i], a, m)
BY DEF StartShare, GoodShare

-----------------------------------------------------------------------------
(* The steps of the threads and of the pool within those of the system. *)

(* A step that leaves the rows alone. *)
LEMMA GrownWhenSame ==
    ASSUME UNCHANGED conv, linked \subseteq linked', chosen \subseteq chosen'
    PROVE Grown /\ Minter' = Minter
BY DEF Grown, Minter, MayHold

(* Creations, acceptances and declines keep who started a chat. *)
LEMMA MinterKept ==
    ASSUME ThreadInv, [ThreadNext]_threadVars
    PROVE \A t \in Thread : conv[t].initiator # NoId => conv'[t].initiator = conv[t].initiator
<1>1. CASE UNCHANGED conv
    BY <1>1
<1>2. ASSUME NEW d \in ChatDevice, NEW u \in Thread, CreateThread(d, u),
             NEW t \in Thread, conv[t].initiator # NoId
      PROVE conv'[t].initiator = conv[t].initiator
    <2>1. t # u  BY <1>2 DEF ThreadInv, ConvInv, CreateThread
    <2>2. QED  BY <1>2, <2>1 DEF ThreadInv, ThreadTypeOK, CreateThread
<1>3. ASSUME NEW r \in ThreadReq, AcceptWrites(r) \/ EventWrites(r), NEW t \in Thread
      PROVE conv'[t].initiator = conv[t].initiator
    BY <1>3 DEF ThreadInv, ThreadTypeOK, Conv, ReqInv, AcceptWrites, EventWrites, Pins
<1>4. ASSUME NEW r \in ThreadReq, DeclineWrites(r), NEW t \in Thread
      PROVE conv'[t].initiator = conv[t].initiator
    BY <1>4 DEF ThreadInv, ThreadTypeOK, Conv, ReqInv, DeclineWrites
<1>5. QED
    BY <1>1, <1>2, <1>3, <1>4
       DEF ThreadNext, threadVars, FindThread, AcceptReads, EventReads, DeclineReads, RequestFails

(* Steps on threads take no right to hold a key away and change no
   initiator. *)
LEMMA GrownByThreads ==
    ASSUME ThreadInv, [ThreadNext]_threadVars, linked \subseteq linked', chosen \subseteq chosen'
    PROVE Grown
<1>1. \A t \in Thread : conv[t].initiator # NoId => conv'[t].initiator = conv[t].initiator
    BY MinterKept
<1>2. \A t \in Thread : Minter[t] # NoId => Minter'[t] = Minter[t]
    BY <1>1 DEF Minter
<1>3. MayHold \subseteq MayHold'
    <2>1. ASSUME NEW p \in MayHold PROVE p \in MayHold'
        <3>1. p \in ChatDevice \X Thread /\ p[1] \in ChatDevice /\ p[2] \in Thread
            BY <2>1 DEF MayHold
        <3>2. p[1] = conv[p[2]].initiator => p[1] = conv'[p[2]].initiator
            BY <1>1, <3>1, ThreadAssumption
        <3>3. QED  BY <2>1, <3>1, <3>2 DEF MayHold
    <2>2. QED  BY <2>1
<1>4. QED  BY <1>2, <1>3 DEF Grown

-----------------------------------------------------------------------------
(* Every action of the clients preserves ClientInv. *)

(* A chat is started. *)
LEMMA StartClient ==
    ASSUME SetupInv, NEW d \in Starter, NEW t \in Thread, Start(d, t)
    PROVE ClientInv'
<1>1. d \in ChatDevice  BY SetupAssumption
<1>2. /\ UNCHANGED <<job, msgs, events, attempted, receipts, faults, chosen, linked>>
      /\ [ThreadNext]_threadVars
    BY <1>1 DEF Start, ThreadNext
<1>3. Grown  BY <1>2, GrownByThreads DEF SetupInv
<1>4. /\ \A keys, to : Minted(keys, Minter) => Minted(keys, Minter')
      /\ \A keys, to : Allows(MayHold, keys, to) => Allows(MayHold', keys, to)
    BY <1>3, GoodKept DEF Grown
<1>5. CASE UNCHANGED key
    BY <1>2, <1>3, <1>5, ClientKept DEF SetupInv, ClientInv, ClientTypeOK
<1>6. CASE conv'[t].initiator = d /\ key[d][t] = NoId /\ key' = [key EXCEPT ![d][t] = d]
    <2>1. /\ key' \in [ChatDevice -> [Thread -> ChatDevice \cup {NoId}]]
          /\ key'[d][t] = d
          /\ \A u \in Thread \ {t} : key'[d][u] = key[d][u]
          /\ \A c \in ChatDevice \ {d} : key'[c] = key[c]
        BY <1>1, <1>6 DEF SetupInv, ClientInv, ClientTypeOK
    <2>2. Minter'[t] = d /\ <<d, t>> \in MayHold'
        BY <1>1, <1>6 DEF Minter, MayHold
    <2>3. KeyInv'
        <3>1. \A c \in ChatDevice : Minted(key[c], Minter') /\ Allows(MayHold', key[c], c)
            BY <1>4 DEF SetupInv, ClientInv, KeyInv
        <3>2. Minted(key'[d], Minter') /\ Allows(MayHold', key'[d], d)
            BY <1>1, <2>1, <2>2, <3>1 DEF Minted, Allows
        <3>3. QED  BY <2>1, <3>1, <3>2 DEF KeyInv
    <2>4. ClientTypeOK'  BY <1>2, <2>1 DEF SetupInv, ClientInv, ClientTypeOK
    <2>5. EventInv'
        <3>1. \A c \in ChatDevice, u \in Thread : key[c][u] # NoId => key'[c][u] # NoId
            BY <1>1, <2>1, ThreadAssumption
        <3>2. QED  BY <1>2, <3>1 DEF SetupInv, ClientInv, ClientTypeOK, EventInv
    <2>6. QED  BY <1>2, <1>3, <2>3, <2>4, <2>5, ClientStep DEF SetupInv
<1>7. QED  BY <1>5, <1>6 DEF Start, Mint, MintsAsInitiator

(* An invitation is answered. *)
LEMMA AcceptedClient ==
    ASSUME SetupInv, NEW r \in ThreadReq, Accepted(r)
    PROVE ClientInv'
<1> DEFINE t == req[r].thread
           d == req[r].dev
<1>1. t \in Thread /\ d \in ChatDevice /\ ~Created(t, d)
    BY DEF SetupInv, ThreadInv, ReqInv, PeerInv, Accepted, AcceptWrites
<1>2. UNCHANGED <<key, job, msgs, attempted, receipts, faults, linked>>
      /\ chosen' = chosen \cup {<<t, d>>}
    BY DEF Accepted
<1>3. PICK online \in SUBSET {c \in ChatDevice : Created(t, c) /\ key[c][t] # NoId} :
          events' = events \cup {[dev |-> c, thread |-> t, pin |-> d] : c \in online}
    BY DEF Accepted
<1>4. [ThreadNext]_threadVars  BY DEF Accepted, ThreadNext
<1>5. Grown  BY <1>2, <1>4, GrownByThreads DEF SetupInv
<1>6. KeyInv'
    <2>1. /\ \A keys, to : Minted(keys, Minter) => Minted(keys, Minter')
          /\ \A keys, to : Allows(MayHold, keys, to) => Allows(MayHold', keys, to)
        BY <1>5, GoodKept DEF Grown
    <2>2. QED  BY <1>2, <2>1 DEF SetupInv, ClientInv, KeyInv
<1>7. ASSUME NEW c \in online
      PROVE c \in ChatDevice /\ key[c][t] # NoId /\ ~SameUser(c, d)
    <2>1. Created(t, c)  BY <1>7
    <2>2. QED  BY <1>1, <1>7, <2>1, OtherUser DEF Created
<1>8. EventInv'
    <2>1. ASSUME NEW e \in events'
          PROVE /\ key[e.dev][e.thread] # NoId
                /\ <<e.thread, e.pin>> \in chosen' /\ ~SameUser(e.dev, e.pin)
        <3>1. CASE e \in events
            BY <1>2, <3>1 DEF SetupInv, ClientInv, EventInv
        <3>2. CASE e \notin events
            <4>1. PICK c \in online : e = [dev |-> c, thread |-> t, pin |-> d]
                BY <1>3, <3>2
            <4>2. e.dev = c /\ e.thread = t /\ e.pin = d  BY <4>1
            <4>3. QED  BY <1>2, <1>7, <4>2
        <3>3. QED  BY <3>1, <3>2
    <2>2. QED  BY <1>2, <2>1 DEF EventInv
<1>9. ClientTypeOK'
    <2>1. events' \subseteq [dev : ChatDevice, thread : Thread, pin : ChatDevice]
        BY <1>1, <1>3, <1>7 DEF SetupInv, ClientInv, ClientTypeOK
    <2>2. QED  BY <1>1, <1>2, <2>1 DEF SetupInv, ClientInv, ClientTypeOK
<1>10. QED  BY <1>2, <1>5, <1>6, <1>8, <1>9, ClientStep DEF SetupInv

(* Accepting and declining a chat leave keys and packages alone. *)
LEMMA InvitesClient ==
    ASSUME SetupInv, NEW r \in ThreadReq,
           \/ \E t \in Thread, d \in ChatDevice : Accept(r, t, d)
           \/ \E t \in Thread : Decline(r, t)
           \/ Declined(r) \/ Fails(r)
    PROVE ClientInv'
<1>1. /\ UNCHANGED <<key, job, msgs, events, attempted, receipts, chosen, linked>>
      /\ faults' \in 0 .. MaxFaults
    BY FaultType DEF SetupInv, ClientInv, ClientTypeOK, Accept, Decline, Declined, Fails, clientVars
<1>2. [ThreadNext]_threadVars
    BY DEF Accept, Decline, Declined, Fails, ThreadNext
<1>3. Grown  BY <1>1, <1>2, GrownByThreads DEF SetupInv
<1>4. ClientTypeOK'  BY <1>1 DEF SetupInv, ClientInv, ClientTypeOK
<1>5. QED  BY <1>1, <1>3, <1>4, ClientKept DEF SetupInv

(* Shares are started. *)
LEMMA OnAcceptedClient ==
    ASSUME SetupInv, NEW j \in Job, NEW e \in events, OnAccepted(j, e)
    PROVE ClientInv'
<1>1. /\ e.dev \in ChatDevice /\ e.thread \in Thread /\ e.pin \in ChatDevice
      /\ key[e.dev][e.thread] # NoId /\ <<e.thread, e.pin>> \in chosen /\ ~SameUser(e.dev, e.pin)
    BY DEF SetupInv, ClientInv, ClientTypeOK, EventInv
<1>2. <<e.pin, e.thread>> \in MayHold  BY <1>1 DEF MayHold
<1>3. /\ UNCHANGED <<conv, key, msgs, attempted, receipts, faults, chosen, linked>>
      /\ events' \subseteq events
      /\ StartShare(j, e.dev, e.pin, OneKey(e.dev, e.thread), "accepted", e.thread)
    BY DEF OnAccepted, OnlyPin, threadVars
<1>4. GoodShare([pc |-> "claim", from |-> e.dev, to |-> e.pin, keys |-> OneKey(e.dev, e.thread),
                 why |-> "accepted", thread |-> e.thread, opk |-> NoId], Minter, MayHold)
    BY <1>1, <1>2, ShareGood DEF SetupInv
<1>5. /\ job' \in [Job -> Share]
      /\ \A i \in Job : job'[i] = job[i] \/ GoodShare(job'[i], Minter, MayHold)
    BY <1>3, <1>4, StartShareFacts DEF SetupInv, ClientInv, ClientTypeOK
<1>6. Grown /\ Minter' = Minter /\ MayHold' = MayHold
    BY <1>3, GrownWhenSame DEF MayHold
<1>7. ClientTypeOK'  BY <1>3, <1>5 DEF SetupInv, ClientInv, ClientTypeOK
<1>8. QED  BY <1>3, <1>5, <1>6, <1>7, ClientKept DEF SetupInv

(* A page that is opened shares the keys its device holds with the devices
   pinned. *)
LEMMA ReconcileClient ==
    ASSUME SetupInv, NEW j \in Job, NEW d \in ChatDevice, NEW t \in Thread, Reconcile(j, d, t)
    PROVE ClientInv'
<1> DEFINE to == conv[t].pin
<1>1. /\ Created(t, d) /\ key[d][t] # NoId
      /\ to \in ChatDevice /\ <<t, to>> \in chosen /\ ~Created(t, to)
    BY ThreadAssumption DEF SetupInv, ThreadInv, ConvInv, PeerInv, Reconcile, Unconfirmed
<1>2. ~SameUser(d, to) /\ <<to, t>> \in MayHold
    BY <1>1, OtherUser DEF Created, MayHold
<1>3. /\ UNCHANGED <<conv, key, msgs, events, receipts, faults, chosen, linked>>
      /\ attempted' = [attempted EXCEPT ![d] = @ \cup {<<t, to>>}]
      /\ StartShare(j, d, to, OneKey(d, t), "reconcile", t)
    BY DEF Reconcile, threadVars
<1>4. GoodShare([pc |-> "claim", from |-> d, to |-> to, keys |-> OneKey(d, t),
                 why |-> "reconcile", thread |-> t, opk |-> NoId], Minter, MayHold)
    BY <1>1, <1>2, ShareGood DEF SetupInv
<1>5. /\ job' \in [Job -> Share]
      /\ \A i \in Job : job'[i] = job[i] \/ GoodShare(job'[i], Minter, MayHold)
    BY <1>3, <1>4, StartShareFacts DEF SetupInv, ClientInv, ClientTypeOK
<1>6. Grown /\ Minter' = Minter /\ MayHold' = MayHold
    BY <1>3, GrownWhenSame DEF MayHold
<1>7. attempted' \in [ChatDevice -> SUBSET (Thread \X ChatDevice)]
    BY <1>1, <1>3 DEF SetupInv, ClientInv, ClientTypeOK
<1>8. ClientTypeOK'  BY <1>3, <1>5, <1>7 DEF SetupInv, ClientInv, ClientTypeOK
<1>9. QED  BY <1>3, <1>5, <1>6, <1>8, ClientKept DEF SetupInv

(* Claims. *)
LEMMA RetryType ==
    ASSUME ClientTypeOK, NEW failed, Retry(failed)
    PROVE attempted' \in [ChatDevice -> SUBSET (Thread \X ChatDevice)]
BY DEF ClientTypeOK, Retry

(* Abandoned shares become idle, and their attempts are marked or forgotten.
   *)
LEMMA AbandonFacts ==
    ASSUME ClientTypeOK, NEW failed, Abandon(failed)
    PROVE /\ attempted' \in [ChatDevice -> SUBSET (Thread \X ChatDevice)]
          /\ job' \in [Job -> Share]
          /\ \A j \in Job : job'[j] = job[j] \/ job'[j] = NoShare
<1>1. job' \in [Job -> Share]
    BY NoShareGood DEF ClientTypeOK, Abandon
<1>2. QED  BY <1>1, RetryType DEF Abandon

(* A claim gives a prekey to every share that waits for it. *)
LEMMA ClaimClient ==
    ASSUME SetupInv, NEW d \in ChatDevice, NEW to \in Holder, NEW k \in Prekey, Claim(d, to, k)
    PROVE ClientInv'
<1>1. /\ UNCHANGED <<conv, key, msgs, events, attempted, receipts, faults, chosen, linked>>
      /\ job' = [j \in Job |-> IF j \in Waiting(d, to)
                               THEN [job[j] EXCEPT !.pc = "send", !.opk = k] ELSE job[j]]
    BY DEF Claim, threadVars
<1>2. Grown /\ Minter' = Minter /\ MayHold' = MayHold
    BY <1>1, GrownWhenSame DEF MayHold
<1>3. ASSUME NEW j \in Waiting(d, to)
      PROVE /\ job'[j] \in Share
            /\ GoodShare(job'[j], Minter, MayHold)
    <2>1. j \in Job /\ job[j].pc = "claim" /\ job[j].to = to  BY DEF Waiting
    <2>2. GoodShare(job[j], Minter, MayHold)  BY <2>1 DEF SetupInv, ClientInv, ShareInv
    <2> DEFINE x == job[j]
               y == [x EXCEPT !.pc = "send", !.opk = k]
    <2>3. x \in Share  BY <2>2 DEF GoodShare
    <2>4. /\ y \in Share /\ y.pc = "send" /\ y.opk = k
          /\ y.from = x.from /\ y.to = x.to /\ y.keys = x.keys
          /\ y.why = x.why /\ y.thread = x.thread
        BY <2>3 DEF Share
    <2>5. job'[j] = y  BY <1>1, <2>1
    <2> HIDE DEF y
    <2>6. QED  BY <2>1, <2>2, <2>4, <2>5 DEF GoodShare
<1>4. /\ job' \in [Job -> Share]
      /\ \A i \in Job : job'[i] = job[i] \/ GoodShare(job'[i], Minter, MayHold)
    BY <1>1, <1>3 DEF SetupInv, ClientInv, ClientTypeOK
<1>5. ClientTypeOK'  BY <1>1, <1>4 DEF SetupInv, ClientInv, ClientTypeOK
<1>6. QED  BY <1>1, <1>2, <1>4, <1>5, ClientKept DEF SetupInv

(* Without a prekey the shares are abandoned, and the peer may be nudged. *)
LEMMA ClaimEmptyClient ==
    ASSUME SetupInv, NEW d \in ChatDevice, NEW to \in Holder, ClaimEmpty(d, to)
    PROVE ClientInv'
<1> DEFINE failed == Waiting(d, to)
<1>1. /\ UNCHANGED <<conv, key, events, receipts, chosen, linked>>
      /\ Abandon(failed) /\ Posted(Nudge(failed, d, to))
    BY DEF ClaimEmpty, threadVars
<1>2. Grown /\ Minter' = Minter /\ MayHold' = MayHold
    BY <1>1, GrownWhenSame DEF MayHold
<1>3. /\ attempted' \in [ChatDevice -> SUBSET (Thread \X ChatDevice)]
      /\ job' \in [Job -> Share]
      /\ \A j \in Job : job'[j] = job[j] \/ job'[j] = NoShare
    BY <1>1, AbandonFacts DEF SetupInv, ClientInv
<1>4. faults' \in 0 .. MaxFaults /\ msgs' \subseteq msgs \cup Nudge(failed, d, to)
    BY <1>1, PostedFacts DEF SetupInv, ClientInv, ClientTypeOK
<1>5. ASSUME NEW m \in Nudge(failed, d, to)
      PROVE GoodMessage(m, Minter, MayHold)
    <2>1. PICK j \in failed : m = Control("nudge", d, to, job[j].thread)
        BY DEF Nudge
    <2>2. j \in Job  BY DEF Waiting
    <2>3. job[j].thread \in Thread \cup {NoId}
        BY <2>2 DEF SetupInv, ClientInv, ClientTypeOK, Share
    <2>4. to \in ChatDevice  BY SetupAssumption
    <2>5. QED  BY <2>1, <2>3, <2>4, ControlGood
<1>6. ClientTypeOK'  BY <1>1, <1>3, <1>4 DEF SetupInv, ClientInv, ClientTypeOK
<1>7. QED  BY <1>1, <1>2, <1>3, <1>4, <1>5, <1>6, NoShareGood, ClientKept DEF SetupInv

(* A claim that fails abandons the shares. *)
LEMMA ClaimFailsClient ==
    ASSUME SetupInv, NEW d \in ChatDevice, NEW to \in Holder, ClaimFails(d, to)
    PROVE ClientInv'
<1>1. /\ UNCHANGED <<conv, key, msgs, events, receipts, chosen, linked>>
      /\ Abandon(Waiting(d, to)) /\ faults' \in 0 .. MaxFaults
    BY FaultType DEF SetupInv, ClientInv, ClientTypeOK, ClaimFails, threadVars
<1>2. Grown /\ Minter' = Minter /\ MayHold' = MayHold
    BY <1>1, GrownWhenSame DEF MayHold
<1>3. /\ attempted' \in [ChatDevice -> SUBSET (Thread \X ChatDevice)]
      /\ job' \in [Job -> Share]
      /\ \A j \in Job : job'[j] = job[j] \/ job'[j] = NoShare
    BY <1>1, AbandonFacts DEF SetupInv, ClientInv
<1>4. ClientTypeOK'  BY <1>1, <1>3 DEF SetupInv, ClientInv, ClientTypeOK
<1>5. QED  BY <1>1, <1>2, <1>3, <1>4, NoShareGood, ClientKept DEF SetupInv

(* Packages are sent. *)
LEMMA PackageGood ==
    ASSUME ClientInv, NEW j \in Job, job[j].pc = "send", NEW c \in Copy, NEW may, MayHold \subseteq may,
           job[j].why = "link" => \A t \in Thread : <<job[j].to, t>> \in may
    PROVE GoodMessage(Package(j, c), Minter, may)
<1> DEFINE x == job[j]
           m == Package(j, c)
<1>1. GoodShare(x, Minter, MayHold)  BY DEF ClientInv, ShareInv
<1>2. /\ x \in Share /\ x.why \in {"accepted", "reconcile", "request", "link"}
      /\ x.keys \in [Thread -> ChatDevice \cup {NoId}]
      /\ x.from \in ChatDevice /\ x.to \in ChatDevice
      /\ x.thread \in Thread \cup {NoId} /\ x.opk \in Prekey
    BY <1>1 DEF GoodShare, Share
<1>3. 0 \in 0 .. Poison  BY SetupAssumption
<1>4. /\ m \in Message
      /\ m.kind = (IF x.why = "link" THEN "link" ELSE "package")
      /\ m.from = x.from /\ m.to = x.to /\ m.thread = x.thread
      /\ m.keys = x.keys /\ m.opk = x.opk
    BY <1>2, <1>3 DEF Package, Message
<1> HIDE DEF m, x
<1>5. Minted(x.keys, Minter)  BY <1>1 DEF GoodShare
<1>6. Allows(may, x.keys, x.to)  BY <1>1 DEF GoodShare, Allows, x
<1>7. x.pc = "send"  BY DEF x
<1>8. GoodMessage(m, Minter, may)
    BY <1>1, <1>4, <1>5, <1>6, <1>7 DEF GoodMessage, GoodShare
<1>9. QED  BY <1>8 DEF m

(* A package carries the keys of its share to the same device. *)
LEMMA SendClient ==
    ASSUME SetupInv, NEW j \in Job, Send(j)
    PROVE ClientInv'
<1>1. /\ UNCHANGED <<conv, key, events, receipts, chosen>>
      /\ job[j].pc = "send" /\ job' = [job EXCEPT ![j] = NoShare]
      /\ linked' = IF job[j].why = "link" THEN linked \cup {job[j].to} ELSE linked
    BY DEF Send, threadVars
<1>2. PICK c \in Copy : msgs' = msgs \cup {Package(j, c)}
    BY DEF Send
<1>3. linked \subseteq linked'  BY <1>1
<1>4. Grown /\ Minter' = Minter
    BY <1>1, <1>3, GrownWhenSame
<1>5. faults' \in 0 .. MaxFaults /\ attempted' \in [ChatDevice -> SUBSET (Thread \X ChatDevice)]
    BY FaultType, RetryType DEF SetupInv, ClientInv, ClientTypeOK, Send
<1>6. job' \in [Job -> Share] /\ \A i \in Job : job'[i] = job[i] \/ job'[i] = NoShare
    BY <1>1, NoShareGood DEF SetupInv, ClientInv, ClientTypeOK
<1>7. job[j].to \in ChatDevice
    BY <1>1 DEF SetupInv, ClientInv, ShareInv, GoodShare
<1>8. ClientTypeOK'
    BY <1>1, <1>5, <1>6, <1>7 DEF SetupInv, ClientInv, ClientTypeOK
<1>9. GoodMessage(Package(j, c), Minter, MayHold')
    <2>1. job[j].why = "link" => \A t \in Thread : <<job[j].to, t>> \in MayHold'
        BY <1>1, <1>7 DEF MayHold
    <2> DEFINE may == MayHold'
    <2>2. MayHold \subseteq may  BY <1>4 DEF Grown
    <2>3. job[j].why = "link" => \A t \in Thread : <<job[j].to, t>> \in may  BY <2>1
    <2> HIDE DEF may
    <2>4. GoodMessage(Package(j, c), Minter, may)
        BY <1>1, <2>2, <2>3, PackageGood DEF SetupInv
    <2>5. QED  BY <2>4 DEF may
<1>10. \A m \in msgs' : m \in msgs \/ GoodMessage(m, Minter', MayHold')
    BY <1>2, <1>4, <1>9
<1>11. QED  BY <1>1, <1>4, <1>6, <1>8, <1>10, NoShareGood, ClientKept DEF SetupInv

(* A package that is not sent leaves no trace but the attempt. *)
LEMMA SendFailsClient ==
    ASSUME SetupInv, NEW j \in Job, SendFails(j)
    PROVE ClientInv'
<1>1. /\ UNCHANGED <<conv, key, msgs, events, receipts, chosen, linked>>
      /\ Abandon({j}) /\ faults' \in 0 .. MaxFaults
    BY FaultType DEF SetupInv, ClientInv, ClientTypeOK, SendFails, threadVars
<1>2. Grown /\ Minter' = Minter /\ MayHold' = MayHold
    BY <1>1, GrownWhenSame DEF MayHold
<1>3. /\ attempted' \in [ChatDevice -> SUBSET (Thread \X ChatDevice)]
      /\ job' \in [Job -> Share]
      /\ \A i \in Job : job'[i] = job[i] \/ job'[i] = NoShare
    BY <1>1, AbandonFacts DEF SetupInv, ClientInv
<1>4. ClientTypeOK'  BY <1>1, <1>3 DEF SetupInv, ClientInv, ClientTypeOK
<1>5. QED  BY <1>1, <1>2, <1>3, <1>4, NoShareGood, ClientKept DEF SetupInv

(* A reload forgets shares and attempts, and keeps the keys. *)
LEMMA ReloadClient ==
    ASSUME SetupInv, NEW d \in ChatDevice, Reload(d)
    PROVE ClientInv'
<1>1. /\ UNCHANGED <<conv, key, msgs, receipts, chosen, linked>>
      /\ faults' \in 0 .. MaxFaults
      /\ attempted' = [attempted EXCEPT ![d] = {}]
      /\ job' = [j \in Job |-> IF job[j].from = d THEN NoShare ELSE job[j]]
      /\ events' = {e \in events : e.dev # d}
    BY FaultType DEF SetupInv, ClientInv, ClientTypeOK, Reload, threadVars
<1>2. Grown /\ Minter' = Minter /\ MayHold' = MayHold
    BY <1>1, GrownWhenSame DEF MayHold
<1>3. /\ job' \in [Job -> Share]
      /\ \A i \in Job : job'[i] = job[i] \/ job'[i] = NoShare
    BY <1>1, NoShareGood DEF SetupInv, ClientInv, ClientTypeOK
<1>4. ClientTypeOK'  BY <1>1, <1>3 DEF SetupInv, ClientInv, ClientTypeOK
<1>5. QED  BY <1>1, <1>2, <1>3, <1>4, NoShareGood, ClientKept DEF SetupInv

(* Messages are handled. *)
LEMMA MessageTyped ==
    ASSUME ClientInv, NEW m \in msgs
    PROVE /\ GoodMessage(m, Minter, MayHold)
          /\ m \in Message
          /\ m.from \in ChatDevice /\ m.to \in ChatDevice
          /\ m.thread \in Thread \cup {NoId} /\ m.opk \in Prekey \cup {NoId}
          /\ m.keys \in [Thread -> ChatDevice \cup {NoId}] /\ m.tries \in 0 .. Poison
BY DEF ClientInv, MessageInv, GoodMessage, Message

(* An import takes over keys that were minted by the initiator, for a device
   that may hold them. *)
LEMMA ImportClient ==
    ASSUME SetupInv, NEW m \in msgs, Import(m)
    PROVE ClientInv'
<1> DEFINE d == m.to
           reply == IF m.kind = "link" THEN {} ELSE {Control("receipt", m.to, m.from, m.thread)}
<1>1. /\ GoodMessage(m, Minter, MayHold)
      /\ m.from \in ChatDevice /\ d \in ChatDevice
      /\ m.keys \in [Thread -> ChatDevice \cup {NoId}]
    BY MessageTyped DEF SetupInv
<1>2. /\ UNCHANGED <<conv, job, events, attempted, receipts, chosen, linked>>
      /\ m.kind \in {"package", "link"}
      /\ key' = [key EXCEPT ![d] = Imported(m)]
      /\ Acked(m, reply)
    BY DEF Import, threadVars
<1>3. Grown /\ Minter' = Minter /\ MayHold' = MayHold
    BY <1>2, GrownWhenSame DEF MayHold
<1>4. Minted(m.keys, Minter) /\ Allows(MayHold, m.keys, d)
    BY <1>1 DEF GoodMessage
<1>5. /\ key[d] \in [Thread -> ChatDevice \cup {NoId}]
      /\ Minted(key[d], Minter) /\ Allows(MayHold, key[d], d)
    BY <1>1 DEF SetupInv, ClientInv, ClientTypeOK, KeyInv
<1> DEFINE new == Imported(m)
<1>6. /\ new \in [Thread -> ChatDevice \cup {NoId}]
      /\ \A t \in Thread : (new[t] = m.keys[t] /\ m.keys[t] # NoId) \/ new[t] = key[d][t]
      /\ \A t \in Thread : key[d][t] # NoId => new[t] # NoId
    BY <1>1, <1>5 DEF Imported
<1> HIDE DEF new
<1>7. Minted(new, Minter) /\ Allows(MayHold, new, d)
    BY <1>4, <1>5, <1>6 DEF Minted, Allows
<1>8. /\ key' \in [ChatDevice -> [Thread -> ChatDevice \cup {NoId}]]
      /\ key'[d] = new /\ \A c \in ChatDevice \ {d} : key'[c] = key[c]
    BY <1>1, <1>2, <1>6 DEF SetupInv, ClientInv, ClientTypeOK, new
<1>9. KeyInv'
    BY <1>3, <1>7, <1>8 DEF SetupInv, ClientInv, KeyInv
<1>10. EventInv'
    <2>1. \A c \in ChatDevice, t \in Thread : key[c][t] # NoId => key'[c][t] # NoId
        BY <1>6, <1>8
    <2>2. QED  BY <1>2, <2>1 DEF SetupInv, ClientInv, ClientTypeOK, EventInv
<1>11. faults' \in 0 .. MaxFaults /\ msgs' \subseteq msgs \cup reply
    BY <1>2, AckedFacts DEF SetupInv, ClientInv, ClientTypeOK
<1>12. \A n \in reply : GoodMessage(n, Minter, MayHold)
    <2>1. CASE m.kind = "link"
        BY <2>1
    <2>2. CASE m.kind = "package"
        <3>1. m.thread \in Thread  BY <1>1, <2>2 DEF GoodMessage
        <3>2. GoodMessage(Control("receipt", m.to, m.from, m.thread), Minter, MayHold)
            BY <1>1, <3>1, ControlGood
        <3>3. QED  BY <2>2, <3>2
    <2>3. QED  BY <1>2, <2>1, <2>2
<1>13. ClientTypeOK'
    BY <1>2, <1>8, <1>11 DEF SetupInv, ClientInv, ClientTypeOK
<1> HIDE DEF reply
<1>14. QED
    BY <1>2, <1>3, <1>9, <1>10, <1>11, <1>12, <1>13, ClientStep DEF SetupInv

(* A step of the clients that only changes messages. *)
LEMMA MessagesOnly ==
    ASSUME ClientInv, UNCHANGED <<conv, key, job, events, attempted, receipts, chosen, linked>>,
           faults' \in 0 .. MaxFaults,
           \A m \in msgs' : m \in msgs \/ GoodMessage(m, Minter, MayHold)
    PROVE ClientInv'
<1>1. Grown /\ Minter' = Minter /\ MayHold' = MayHold
    BY GrownWhenSame DEF MayHold
<1>2. ClientTypeOK'  BY DEF ClientInv, ClientTypeOK
<1>3. QED  BY <1>1, <1>2, ClientKept

(* A package that cannot be opened is reported. *)
LEMMA MissClient ==
    ASSUME SetupInv, NEW m \in msgs, Miss(m)
    PROVE ClientInv'
<1> DEFINE ask == IF m.tries + 1 = AskAt /\ m.thread # NoId
                  THEN {Control("request", m.to, m.from, m.thread)} ELSE {}
           again == [m EXCEPT !.tries = @ + 1]
<1>1. /\ GoodMessage(m, Minter, MayHold) /\ m \in Message
      /\ m.from \in ChatDevice /\ m.to \in ChatDevice /\ m.tries \in 0 .. Poison
      /\ m.thread \in Thread \cup {NoId} /\ m.keys \in [Thread -> ChatDevice \cup {NoId}]
    BY MessageTyped DEF SetupInv
<1>2. /\ UNCHANGED <<conv, key, job, events, attempted, receipts, chosen, linked>>
      /\ m.kind \in {"package", "link"}
      /\ IF GivenUp(m) THEN Acked(m, ask)
         ELSE LET kept == (msgs \ {m}) \cup {again} IN
              \/ msgs' = kept \cup ask /\ UNCHANGED faults
              \/ Fault /\ msgs' = kept
    BY DEF Miss, threadVars
<1>3. \A n \in ask : GoodMessage(n, Minter, MayHold)
    <2>1. CASE m.thread = NoId
        BY <2>1
    <2>2. CASE m.thread # NoId
        <3>1. m.kind = "package" /\ m.thread \in Thread
            BY <1>1, <1>2, <2>2 DEF GoodMessage
        <3>2. ~SameUser(m.from, m.to) /\ <<m.to, m.thread>> \in MayHold
            BY <1>1, <3>1 DEF GoodMessage, Allows
        <3>3. ~SameUser(m.to, m.from)  BY <3>2 DEF SameUser
        <3>4. GoodMessage(Control("request", m.to, m.from, m.thread), Minter, MayHold)
            BY <1>1, <3>1, <3>2, <3>3, ControlGood
        <3>5. QED  BY <3>4
    <2>3. QED  BY <2>1, <2>2
<1>4. ASSUME ~GivenUp(m) PROVE GoodMessage(again, Minter, MayHold)
    <2>1. m.tries + 1 \in 0 .. Poison
        BY <1>1, <1>4, SetupAssumption DEF GivenUp
    <2>2. /\ again \in Message /\ again.kind = m.kind /\ again.from = m.from /\ again.to = m.to
          /\ again.thread = m.thread /\ again.keys = m.keys /\ again.opk = m.opk
        BY <1>1, <2>1 DEF Message
    <2> HIDE DEF again
    <2>3. QED  BY <1>1, <2>2 DEF GoodMessage
<1>5. faults' \in 0 .. MaxFaults
    BY <1>2, AckedFacts, FaultType DEF SetupInv, ClientInv, ClientTypeOK
<1> HIDE DEF ask, again
<1>6. \A n \in msgs' : n \in msgs \/ GoodMessage(n, Minter, MayHold)
    <2>1. CASE GivenUp(m)
        <3>1. msgs' \subseteq msgs \cup ask
            BY <1>2, <2>1, AckedFacts DEF SetupInv, ClientInv, ClientTypeOK
        <3>2. QED  BY <1>3, <3>1
    <2>2. CASE ~GivenUp(m)
        <3>1. msgs' \subseteq msgs \cup {again} \cup ask  BY <1>2, <2>2
        <3>2. QED  BY <1>3, <1>4, <2>2, <3>1
    <2>3. QED  BY <2>1, <2>2
<1>7. QED  BY <1>2, <1>5, <1>6, MessagesOnly DEF SetupInv

(* A receipt is a mark of the sender. *)
LEMMA OnReceiptClient ==
    ASSUME SetupInv, NEW m \in msgs, OnReceipt(m)
    PROVE ClientInv'
<1>1. GoodMessage(m, Minter, MayHold) /\ m.from \in ChatDevice /\ m.to \in ChatDevice
    BY MessageTyped DEF SetupInv
<1>2. /\ UNCHANGED <<conv, key, job, events, attempted, chosen, linked>>
      /\ m.kind = "receipt" /\ Acked(m, {})
      /\ receipts' = [receipts EXCEPT ![m.to] = @ \cup {<<m.thread, m.from>>}]
    BY DEF OnReceipt, threadVars
<1>3. m.thread \in Thread  BY <1>1, <1>2 DEF GoodMessage
<1>4. faults' \in 0 .. MaxFaults /\ msgs' \subseteq msgs \cup {}
    BY <1>2, AckedFacts DEF SetupInv, ClientInv, ClientTypeOK
<1>5. receipts' \in [ChatDevice -> SUBSET (Thread \X ChatDevice)]
    BY <1>1, <1>2, <1>3 DEF SetupInv, ClientInv, ClientTypeOK
<1>6. Grown  BY <1>2, GrownWhenSame
<1>7. ClientTypeOK'  BY <1>2, <1>4, <1>5 DEF SetupInv, ClientInv, ClientTypeOK
<1>8. QED  BY <1>2, <1>4, <1>6, <1>7, ClientKept DEF SetupInv

(* A request starts a share, or is ignored. *)
LEMMA AnswerClient ==
    ASSUME SetupInv, UNCHANGED <<conv, key, events, attempted, receipts, chosen, linked>>,
           job' \in [Job -> Share],
           \A i \in Job : job'[i] = job[i] \/ GoodShare(job'[i], Minter, MayHold),
           NEW m, Acked(m, {})
    PROVE ClientInv'
<1>1. faults' \in 0 .. MaxFaults /\ msgs' \subseteq msgs \cup {}
    BY AckedFacts DEF SetupInv, ClientInv, ClientTypeOK
<1>2. Grown /\ Minter' = Minter /\ MayHold' = MayHold
    BY GrownWhenSame DEF MayHold
<1>3. ClientTypeOK'  BY <1>1 DEF SetupInv, ClientInv, ClientTypeOK
<1>4. QED  BY <1>1, <1>2, <1>3, ClientKept DEF SetupInv

(* A device that asks is sent the key, and only devices that may hold it
   ask. *)
LEMMA OnRequestClient ==
    ASSUME SetupInv, NEW j \in Job, NEW m \in msgs, OnRequest(j, m)
    PROVE ClientInv'
<1>1. GoodMessage(m, Minter, MayHold) /\ m.from \in ChatDevice /\ m.to \in ChatDevice
    BY MessageTyped DEF SetupInv
<1>2. /\ UNCHANGED <<conv, key, events, attempted, receipts, chosen, linked>>
      /\ m.kind = "request" /\ Acked(m, {})
      /\ IF key[m.to][m.thread] = NoId THEN UNCHANGED job
         ELSE StartShare(j, m.to, m.from, OneKey(m.to, m.thread), "request", m.thread)
    BY DEF OnRequest, threadVars
<1>3. m.thread \in Thread /\ ~SameUser(m.to, m.from) /\ <<m.from, m.thread>> \in MayHold
    BY <1>1, <1>2 DEF GoodMessage, SameUser
<1>4. CASE key[m.to][m.thread] = NoId
    BY <1>2, <1>4, AnswerClient DEF SetupInv, ClientInv, ClientTypeOK
<1>5. CASE key[m.to][m.thread] # NoId
    <2>1. GoodShare([pc |-> "claim", from |-> m.to, to |-> m.from, keys |-> OneKey(m.to, m.thread),
                     why |-> "request", thread |-> m.thread, opk |-> NoId], Minter, MayHold)
        BY <1>1, <1>3, <1>5, ShareGood DEF SetupInv
    <2>2. /\ job' \in [Job -> Share]
          /\ \A i \in Job : job'[i] = job[i] \/ GoodShare(job'[i], Minter, MayHold)
        BY <1>2, <1>5, <2>1, StartShareFacts DEF SetupInv, ClientInv, ClientTypeOK
    <2>3. QED  BY <1>2, <2>2, AnswerClient
<1>6. QED  BY <1>4, <1>5

(* A device that joined is sent the keys of its user, who holds them. *)
LEMMA OnJoinClient ==
    ASSUME SetupInv, NEW j \in Job, NEW m \in msgs, OnJoin(j, m)
    PROVE ClientInv'
<1>1. GoodMessage(m, Minter, MayHold) /\ m.from \in ChatDevice /\ m.to \in ChatDevice
    BY MessageTyped DEF SetupInv
<1>2. /\ UNCHANGED <<conv, key, events, attempted, receipts, chosen, linked>>
      /\ m.kind = "join" /\ Acked(m, {})
      /\ StartShare(j, m.to, m.from, key[m.to], "link", NoId) \/ UNCHANGED job
    BY DEF OnJoin, threadVars
<1>3. SameUser(m.to, m.from)  BY <1>1, <1>2 DEF GoodMessage, SameUser
<1>4. CASE UNCHANGED job
    BY <1>2, <1>4, AnswerClient DEF SetupInv, ClientInv, ClientTypeOK
<1>5. CASE StartShare(j, m.to, m.from, key[m.to], "link", NoId)
    <2>1. key[m.to] \in [Thread -> ChatDevice \cup {NoId}] /\ Minted(key[m.to], Minter)
        BY <1>1 DEF SetupInv, ClientInv, ClientTypeOK, KeyInv
    <2>2. GoodShare([pc |-> "claim", from |-> m.to, to |-> m.from, keys |-> key[m.to],
                     why |-> "link", thread |-> NoId, opk |-> NoId], Minter, MayHold)
        BY <1>1, <1>3, <2>1 DEF GoodShare, Share
    <2>3. /\ job' \in [Job -> Share]
          /\ \A i \in Job : job'[i] = job[i] \/ GoodShare(job'[i], Minter, MayHold)
        BY <1>5, <2>2, StartShareFacts DEF SetupInv, ClientInv, ClientTypeOK
    <2>4. QED  BY <1>2, <2>3, AnswerClient
<1>6. QED  BY <1>2, <1>4, <1>5

(* A device that joins asks the other devices of its user. *)
LEMMA JoinClient ==
    ASSUME SetupInv, NEW d \in Joiner, Join(d)
    PROVE ClientInv'
<1> DEFINE asks == {Control("join", d, to, NoId) : to \in {e \in ChatDevice \ {d} : SameUser(d, e)}}
<1>1. /\ UNCHANGED <<conv, key, job, events, attempted, receipts, chosen, linked>>
      /\ Posted(asks)
    BY DEF Join, threadVars
<1>2. d \in ChatDevice  BY SetupAssumption
<1>3. ASSUME NEW m \in asks PROVE GoodMessage(m, Minter, MayHold)
    <2>1. PICK to \in ChatDevice : SameUser(d, to) /\ m = Control("join", d, to, NoId)
        OBVIOUS
    <2>2. QED  BY <1>2, <2>1, ControlGood
<1> HIDE DEF asks
<1>4. faults' \in 0 .. MaxFaults /\ msgs' \subseteq msgs \cup asks
    BY <1>1, PostedFacts DEF SetupInv, ClientInv, ClientTypeOK
<1>5. QED  BY <1>1, <1>3, <1>4, MessagesOnly DEF SetupInv

(* A nudge starts a publication at most. *)
LEMMA OnNudgeClient ==
    ASSUME SetupInv, NEW b \in Tab, NEW m \in msgs, OnNudge(b, m)
    PROVE ClientInv'
<1>1. /\ UNCHANGED <<conv, key, job, events, attempted, receipts, chosen, linked>>
      /\ Acked(m, {})
    BY DEF OnNudge, threadVars
<1>2. faults' \in 0 .. MaxFaults /\ msgs' \subseteq msgs \cup {}
    BY <1>1, AckedFacts DEF SetupInv, ClientInv, ClientTypeOK
<1>3. QED  BY <1>1, <1>2, MessagesOnly DEF SetupInv

(* Publications have no part in the keys of chats. *)
LEMMA PublicationClient ==
    ASSUME SetupInv, NEW b \in Tab,
           PublicationServed(b) \/ PublicationFails(b) \/ \E d \in Holder : Replenish(b, d)
    PROVE ClientInv'
<1>1. UNCHANGED <<conv, key, job, msgs, events, attempted, receipts, chosen, linked>>
    BY DEF PublicationServed, PublicationFails, Replenish, threadVars, clientVars
<1>2. faults' \in 0 .. MaxFaults
    BY FaultType DEF SetupInv, ClientInv, ClientTypeOK, PublicationServed, PublicationFails,
       Replenish, clientVars
<1>3. QED  BY <1>1, <1>2, MessagesOnly DEF SetupInv

-----------------------------------------------------------------------------
(* The invariant of the whole. *)

(* Who takes part in a chat does not change. *)
LEMMA PeerKept ==
    ASSUME ThreadInv, PeerInv, chosen \subseteq chosen', [ThreadNext]_threadVars,
           \A r \in ThreadReq : req'[r].pc = "accept" =>
               /\ req'[r].thread \in Thread /\ conv[req'[r].thread].status # "absent"
               /\ ~Created(req'[r].thread, req'[r].dev),
           \A t \in Thread :
               /\ conv'[t].pin # NoId => ~SameUser(conv'[t].initiator, conv'[t].pin)
               /\ conv'[t].status = "ACTIVE" => <<t, conv'[t].pin>> \in chosen'
               /\ conv'[t].status # "absent" => conv'[t].initiator \in ChatDevice
    PROVE PeerInv'
<1>1. \A t \in Thread : conv[t].initiator # NoId => conv'[t].initiator = conv[t].initiator
    BY MinterKept
<1>2. ASSUME NEW r \in ThreadReq, req'[r].pc = "accept"
      PROVE ~SameUser(conv'[req'[r].thread].initiator, req'[r].dev)
    <2>1. conv[req'[r].thread].initiator \in ChatDevice
        BY <1>2 DEF PeerInv
    <2>2. conv'[req'[r].thread].initiator = conv[req'[r].thread].initiator
        BY <1>1, <1>2, <2>1, ThreadAssumption
    <2>3. QED  BY <1>2, <2>2 DEF Created
<1>3. QED  BY <1>2 DEF PeerInv, Created

(* The steps of the threads but an acceptance that is written. *)
OtherThreadStep ==
    \/ UNCHANGED threadVars
    \/ \E d \in ChatDevice, t \in Thread : CreateThread(d, t)
    \/ \E r \in ThreadReq :
          \/ \E t \in Thread, d \in ChatDevice : AcceptReads(r, t, d)
          \/ \E t \in Thread : DeclineReads(r, t)
          \/ DeclineWrites(r) \/ RequestFails(r)

(* Steps on threads other than an acceptance pin no device. *)
LEMMA PeerByOthers ==
    ASSUME ThreadInv, PeerInv, OtherThreadStep, chosen' = chosen
    PROVE PeerInv'
<1> DEFINE Asks ==
        \A r \in ThreadReq : req'[r].pc = "accept" =>
            /\ req'[r].thread \in Thread /\ conv[req'[r].thread].status # "absent"
            /\ ~Created(req'[r].thread, req'[r].dev)
           Rows ==
        \A t \in Thread :
            /\ conv'[t].pin # NoId => ~SameUser(conv'[t].initiator, conv'[t].pin)
            /\ conv'[t].status = "ACTIVE" => <<t, conv'[t].pin>> \in chosen'
            /\ conv'[t].status # "absent" => conv'[t].initiator \in ChatDevice
<1>1. UNCHANGED req => Asks  BY DEF ThreadInv, ReqInv, PeerInv
<1>2. UNCHANGED conv => Rows  BY DEF PeerInv, Created
<1>3. Asks /\ Rows
    <2>1. CASE UNCHANGED threadVars
        BY <1>1, <1>2, <2>1 DEF threadVars
    <2>2. ASSUME NEW d \in ChatDevice, NEW t \in Thread, CreateThread(d, t) PROVE Asks /\ Rows
        <3>1. /\ conv'[t] = [status |-> "PENDING", initiator |-> d, pin |-> NoId]
              /\ \A u \in Thread \ {t} : conv'[u] = conv[u]
              /\ UNCHANGED req
            BY <2>2 DEF ThreadInv, ThreadTypeOK, CreateThread
        <3>2. Rows  BY <3>1 DEF PeerInv, Created
        <3>3. QED  BY <1>1, <3>1, <3>2
    <2>3. ASSUME NEW r \in ThreadReq, NEW t \in Thread, NEW d \in ChatDevice, AcceptReads(r, t, d)
          PROVE Asks /\ Rows
        <3>1. /\ req'[r] = [pc |-> "accept", thread |-> t, dev |-> d, saw |-> conv[t].pin]
              /\ \A q \in ThreadReq \ {r} : req'[q] = req[q]
              /\ UNCHANGED conv /\ conv[t].status # "absent" /\ ~Created(t, d)
            BY <2>3 DEF ThreadInv, ThreadTypeOK, AcceptReads, Acceptable, Live
        <3>2. Asks  BY <3>1 DEF ThreadInv, ReqInv, PeerInv
        <3>3. QED  BY <1>2, <3>1, <3>2
    <2>4. ASSUME NEW r \in ThreadReq,
                 (\E t \in Thread : DeclineReads(r, t)) \/ RequestFails(r)
          PROVE Asks /\ Rows
        <3>1. /\ req'[r].pc # "accept"
              /\ \A q \in ThreadReq \ {r} : req'[q] = req[q]
              /\ UNCHANGED conv
            <4>1. CASE RequestFails(r)
                BY <4>1, RequestEnds DEF ThreadInv, RequestFails
            <4>2. ASSUME NEW t \in Thread, DeclineReads(r, t)
                  PROVE /\ req'[r].pc = "decline"
                        /\ \A q \in ThreadReq \ {r} : req'[q] = req[q]
                        /\ UNCHANGED conv
                <5> DEFINE x == [NoRequest EXCEPT !.pc = "decline", !.thread = t]
                <5>1. x.pc = "decline"  BY DEF NoRequest
                <5>2. req' = [req EXCEPT ![r] = x] /\ UNCHANGED conv
                    BY <4>2 DEF DeclineReads
                <5> HIDE DEF x
                <5>3. QED  BY <5>1, <5>2 DEF ThreadInv, ThreadTypeOK
            <4>3. QED  BY <2>4, <4>1, <4>2
        <3>2. Asks  BY <3>1 DEF ThreadInv, ReqInv, PeerInv
        <3>3. QED  BY <1>2, <3>1, <3>2
    <2>5. ASSUME NEW r \in ThreadReq, DeclineWrites(r) PROVE Asks /\ Rows
        <3>1. PICK t \in Thread : t = req[r].thread /\ conv[t].status # "absent"
            BY <2>5 DEF ThreadInv, ReqInv, DeclineWrites
        <3>2. /\ \A u \in Thread \ {t} : conv'[u] = conv[u]
              /\ conv'[t].initiator = conv[t].initiator
              /\ conv'[t].status = "CANCELLED" /\ conv'[t].pin = conv[t].pin
            BY <2>5, <3>1 DEF ThreadInv, ThreadTypeOK, Conv, DeclineWrites
        <3>3. /\ \A q \in ThreadReq \ {r} : req'[q] = req[q]
              /\ req'[r].pc = "idle"
            BY <2>5, RequestEnds DEF ThreadInv, DeclineWrites
        <3>4. Asks  BY <3>3 DEF ThreadInv, ReqInv, PeerInv
        <3>5. Rows  BY <3>1, <3>2 DEF PeerInv, Created
        <3>6. QED  BY <3>4, <3>5
    <2>6. QED  BY <2>1, <2>2, <2>3, <2>4, <2>5 DEF OtherThreadStep
<1>4. [ThreadNext]_threadVars  BY DEF OtherThreadStep, ThreadNext
<1>5. QED  BY <1>3, <1>4, PeerKept

(* An acceptance pins a device of the user that did not create the chat. *)
LEMMA PeerByAccept ==
    ASSUME ThreadInv, PeerInv, NEW r \in ThreadReq, AcceptWrites(r),
           chosen' = chosen \cup {<<req[r].thread, req[r].dev>>}
    PROVE PeerInv'
<1>1. PICK t \in Thread : t = req[r].thread /\ conv[t].status # "absent"
    BY DEF ThreadInv, ReqInv, AcceptWrites
<1>2. ~Created(t, req[r].dev)  BY <1>1 DEF PeerInv, AcceptWrites
<1>3. /\ \A u \in Thread \ {t} : conv'[u] = conv[u]
      /\ conv'[t].initiator = conv[t].initiator
      /\ conv'[t].status = "ACTIVE" /\ conv'[t].pin = req[r].dev
    BY <1>1 DEF ThreadInv, ThreadTypeOK, Conv, AcceptWrites, Pins
<1>4. /\ \A q \in ThreadReq \ {r} : req'[q] = req[q]
      /\ req'[r].pc = "idle"
    BY RequestEnds DEF ThreadInv, AcceptWrites, Pins
<1>5. \A q \in ThreadReq : req'[q].pc = "accept" =>
           /\ req'[q].thread \in Thread /\ conv[req'[q].thread].status # "absent"
           /\ ~Created(req'[q].thread, req'[q].dev)
    BY <1>4 DEF ThreadInv, ReqInv, PeerInv
<1>6. \A u \in Thread :
           /\ conv'[u].pin # NoId => ~SameUser(conv'[u].initiator, conv'[u].pin)
           /\ conv'[u].status = "ACTIVE" => <<u, conv'[u].pin>> \in chosen'
           /\ conv'[u].status # "absent" => conv'[u].initiator \in ChatDevice
    BY <1>1, <1>2, <1>3 DEF PeerInv, Created
<1>7. [ThreadNext]_threadVars  BY DEF ThreadNext
<1>8. QED  BY <1>5, <1>6, <1>7, PeerKept

(* Initially. *)
LEMMA SetupInit == ASSUME Init PROVE SetupInv
<1>1. ThreadInv  BY ThreadInitInv DEF Init
<1>2. PoolInv
    <2>1. Holder \in SUBSET Holder  OBVIOUS
    <2>2. QED  BY <2>1, PoolInitInv DEF Init
<1>3. PeerInv  BY DEF Init, ThreadInit, PeerInv, NoRequest
<1>4. ClientTypeOK
    BY NoShareGood, SetupAssumption DEF Init, ClientTypeOK, NoKeys
<1>5. ShareInv  BY NoShareGood DEF Init, ShareInv
<1>6. MessageInv /\ KeyInv /\ EventInv
    BY DEF Init, MessageInv, KeyInv, EventInv, NoKeys, Minted, Allows
<1>7. QED  BY <1>1, <1>2, <1>3, <1>4, <1>5, <1>6 DEF SetupInv, ClientInv

(* What a step of the system is for the threads and for the pool. *)
LEMMA ThreadsPart ==
    ASSUME SetupInv, Threads
    PROVE /\ UNCHANGED poolVars /\ [ThreadNext]_threadVars
          /\ PeerInv' /\ ClientInv'
<1>1. ASSUME NEW d \in Starter, NEW t \in Thread, Start(d, t)
      PROVE UNCHANGED poolVars /\ [ThreadNext]_threadVars /\ PeerInv' /\ ClientInv'
    <2>1. d \in ChatDevice  BY SetupAssumption
    <2>2. OtherThreadStep /\ [ThreadNext]_threadVars
        BY <1>1, <2>1 DEF Start, FindThread, OtherThreadStep, ThreadNext
    <2>3. chosen' = chosen /\ UNCHANGED poolVars  BY <1>1 DEF Start
    <2>4. QED  BY <1>1, <2>2, <2>3, PeerByOthers, StartClient DEF SetupInv
<1>2. ASSUME NEW r \in ThreadReq, Accepted(r)
      PROVE UNCHANGED poolVars /\ [ThreadNext]_threadVars /\ PeerInv' /\ ClientInv'
    <2>1. [ThreadNext]_threadVars  BY <1>2 DEF Accepted, ThreadNext
    <2>2. /\ AcceptWrites(r) /\ UNCHANGED poolVars
          /\ chosen' = chosen \cup {<<req[r].thread, req[r].dev>>}
        BY <1>2 DEF Accepted
    <2>3. QED  BY <1>2, <2>1, <2>2, PeerByAccept, AcceptedClient DEF SetupInv
<1>3. ASSUME NEW r \in ThreadReq,
             \/ \E t \in Thread, d \in ChatDevice : Accept(r, t, d)
             \/ \E t \in Thread : Decline(r, t)
             \/ Declined(r) \/ Fails(r)
      PROVE UNCHANGED poolVars /\ [ThreadNext]_threadVars /\ PeerInv' /\ ClientInv'
    <2>1. UNCHANGED poolVars /\ chosen' = chosen
        BY <1>3 DEF Accept, Decline, Declined, Fails, clientVars
    <2>2. OtherThreadStep /\ [ThreadNext]_threadVars
        BY <1>3 DEF Accept, Decline, Declined, Fails, OtherThreadStep, ThreadNext
    <2>3. QED  BY <1>3, <2>1, <2>2, PeerByOthers, InvitesClient DEF SetupInv
<1>4. QED  BY <1>1, <1>2, <1>3 DEF Threads

(* The shares, the messages and the publications leave the threads alone. *)
LEMMA OthersPart ==
    ASSUME SetupInv,
           Shares \/ Publications \/ (\E m \in msgs : Handle(m)) \/ \E d \in Joiner : Join(d)
    PROVE /\ UNCHANGED <<threadVars, chosen>>
          /\ ClientInv'
          /\ PoolMove \/ UNCHANGED poolVars
<1> DEFINE Goal == /\ UNCHANGED <<threadVars, chosen>>
                   /\ ClientInv'
                   /\ PoolMove \/ UNCHANGED poolVars
<1>1. ASSUME NEW j \in Job,
             \/ \E e \in events : OnAccepted(j, e)
             \/ \E d \in ChatDevice, t \in Thread : Reconcile(j, d, t)
             \/ Send(j) \/ SendFails(j)
      PROVE Goal
    <2>1. ClientInv'
        BY <1>1, OnAcceptedClient, ReconcileClient, SendClient, SendFailsClient
    <2>2. QED  BY <1>1, <2>1 DEF OnAccepted, Reconcile, Send, SendFails
<1>2. ASSUME NEW d \in ChatDevice, NEW to \in Holder,
             \/ \E k \in Prekey : Claim(d, to, k)
             \/ ClaimEmpty(d, to) \/ ClaimFails(d, to)
      PROVE Goal
    <2>1. ClientInv'
        BY <1>2, ClaimClient, ClaimEmptyClient, ClaimFailsClient
    <2>2. UNCHANGED <<threadVars, chosen>>
        BY <1>2 DEF Claim, ClaimEmpty, ClaimFails
    <2>3. PoolMove \/ UNCHANGED poolVars
        BY <1>2 DEF Claim, ClaimEmpty, ClaimFails, PoolMove, poolVars
    <2>4. QED  BY <2>1, <2>2, <2>3
<1>3. ASSUME NEW d \in ChatDevice, Reload(d) PROVE Goal
    BY <1>3, ReloadClient DEF Reload
<1>4. ASSUME NEW m \in msgs, Handle(m) PROVE Goal
    <2>1. m.to \in ChatDevice /\ GoodMessage(m, Minter, MayHold)
        BY MessageTyped DEF SetupInv
    <2>2. FreshKeys \in SUBSET Unused  BY DEF FreshKeys
    <2>3. CASE Import(m)
        <3>1. m.to \in Holder /\ m.opk \in Prekey  BY <2>1, <2>3 DEF GoodMessage, Import
        <3>2. PoolMove  BY <2>3, <3>1 DEF Import, PoolMove
        <3>3. QED  BY <2>3, <3>2, ImportClient DEF Import
    <2>4. CASE Miss(m)
        <3>1. m.to \in Holder  BY <2>1, <2>4 DEF GoodMessage, Miss
        <3>2. PoolMove \/ UNCHANGED poolVars
            BY <2>2, <2>4, <3>1 DEF Miss, PoolMove
        <3>3. UNCHANGED <<threadVars, chosen>>  BY <2>4 DEF Miss
        <3>4. QED  BY <2>4, <3>2, <3>3, MissClient
    <2>5. CASE OnReceipt(m)
        BY <2>5, OnReceiptClient DEF OnReceipt
    <2>6. ASSUME NEW j \in Job, OnRequest(j, m) \/ OnJoin(j, m) PROVE Goal
        BY <2>6, OnRequestClient, OnJoinClient DEF OnRequest, OnJoin
    <2>7. ASSUME NEW b \in Tab, OnNudge(b, m) PROVE Goal
        <3>1. PoolMove \/ UNCHANGED poolVars
            BY <2>2, <2>7 DEF OnNudge, PoolMove, Publish, SetupInv, PoolInv, PoolTypeOK
        <3>2. QED  BY <2>7, <3>1, OnNudgeClient DEF OnNudge
    <2>8. QED  BY <1>4, <2>3, <2>4, <2>5, <2>6, <2>7 DEF Handle
<1>5. ASSUME NEW d \in Joiner, Join(d) PROVE Goal
    BY <1>5, JoinClient DEF Join
<1>6. ASSUME NEW b \in Tab,
             PublicationServed(b) \/ PublicationFails(b) \/ \E d \in Holder : Replenish(b, d)
      PROVE Goal
    <2>1. ClientInv'  BY <1>6, PublicationClient
    <2>2. FreshKeys \in SUBSET Unused  BY DEF FreshKeys
    <2>3. PoolMove
        BY <1>6, <2>2 DEF PublicationServed, PublicationFails, Replenish, PoolMove
    <2>4. UNCHANGED <<threadVars, chosen>>
        BY <1>6 DEF PublicationServed, PublicationFails, Replenish, clientVars
    <2>5. QED  BY <2>1, <2>3, <2>4
<1>7. QED  BY <1>1, <1>2, <1>3, <1>4, <1>5, <1>6 DEF Shares, Publications

(* Every step preserves the invariant. *)
LEMMA SetupStep == ASSUME SetupInv, [Next]_vars PROVE SetupInv'
<1>1. CASE UNCHANGED vars
    <2>1. UNCHANGED threadVars /\ UNCHANGED poolVars /\ UNCHANGED chosen
        BY <1>1 DEF vars, clientVars
    <2>2. ThreadInv' /\ PoolInv'  BY <2>1, ThreadStep, PoolStep DEF SetupInv
    <2>3. PeerInv'  BY <2>1, PeerByOthers DEF SetupInv, OtherThreadStep
    <2>4. ClientInv'
        <3>1. UNCHANGED <<conv, key, job, msgs, events, attempted, receipts, faults, chosen, linked>>
            BY <1>1 DEF vars, threadVars, clientVars
        <3>2. QED  BY <3>1, MessagesOnly DEF SetupInv, ClientInv, ClientTypeOK
    <2>5. QED  BY <2>2, <2>3, <2>4 DEF SetupInv
<1>2. CASE Threads
    <2>1. /\ UNCHANGED poolVars /\ [ThreadNext]_threadVars
          /\ PeerInv' /\ ClientInv'
        BY <1>2, ThreadsPart
    <2>2. ThreadInv' /\ PoolInv'  BY <2>1, ThreadStep, PoolStep DEF SetupInv
    <2>3. QED  BY <2>1, <2>2 DEF SetupInv
<1>3. CASE Shares \/ Publications \/ (\E m \in msgs : Handle(m)) \/ \E d \in Joiner : Join(d)
    <2>1. /\ UNCHANGED <<threadVars, chosen>>
          /\ ClientInv'
          /\ PoolMove \/ UNCHANGED poolVars
        BY <1>3, OthersPart
    <2>2. ThreadInv' /\ PoolInv'  BY <2>1, ThreadStep, PoolStep DEF SetupInv
    <2>3. PeerInv'  BY <2>1, PeerByOthers DEF SetupInv, OtherThreadStep
    <2>4. QED  BY <2>1, <2>2, <2>3 DEF SetupInv
<1>4. QED  BY <1>1, <1>2, <1>3 DEF Next

(* In every behaviour, whatever is shared, claimed, lost or repeated, a key
   or package comes from the initiator of its chat and reaches devices that
   may hold it. *)
THEOREM Inductive == Spec => []SetupInv
<1>1. Init => SetupInv  BY SetupInit
<1>2. SetupInv /\ [Next]_vars => SetupInv'  BY SetupStep
<1>3. QED  BY <1>1, <1>2, PTL DEF Spec

(* The type of every variable. *)
THEOREM TypeCorrect == Spec => []TypeOK
<1>1. SetupInv => TypeOK
    BY MessageTyped DEF SetupInv, ThreadInv, PoolInv, ClientInv, ClientTypeOK, TypeOK
<1>2. QED  BY <1>1, Inductive, PTL

(* All devices that have a key of a chat have the same one. *)
THEOREM OneKeyPerChat == Spec => []KeysAgree
<1>1. SetupInv => KeysAgree
    <2>1. ASSUME SetupInv, NEW d \in ChatDevice, NEW t \in Thread, key[d][t] \in ChatDevice
          PROVE key[d][t] = Minter[t]
        BY <2>1, ThreadAssumption DEF SetupInv, ClientInv, KeyInv, Minted
    <2>2. QED  BY <2>1 DEF KeysAgree
<1>2. QED  BY <1>1, Inductive, PTL

(* The key of a chat is held by no device but those that started it, accepted
   it, or were linked to a device of their user. *)
THEOREM ChosenOnly == Spec => []OnlyChosenAreKeyed
<1>1. SetupInv => OnlyChosenAreKeyed
    BY DEF SetupInv, ClientInv, KeyInv, Allows, MayHold, OnlyChosenAreKeyed
<1>2. QED  BY <1>1, Inductive, PTL

-----------------------------------------------------------------------------
(* Prekeys and packages. *)

(* Key ids of different devices differ. *)
OwnIds(d) == free[d] \cup taken[d] \cup secrets[d]
ApartInv == \A d, e \in Holder : d # e => OwnIds(d) \cap OwnIds(e) = {}

(* The packages that are to be sent or are in an inbox, by the prekey that was
   claimed for them. *)
Sealed ==
    {[from |-> job[j].from, to |-> job[j].to, opk |-> job[j].opk, link |-> job[j].why = "link"] :
        j \in {i \in Job : job[i].pc = "send"}}
    \cup {[from |-> m.from, to |-> m.to, opk |-> m.opk, link |-> m.kind = "link"] :
        m \in {n \in msgs : n.kind \in {"package", "link"}}}

HasKey(d) == \E t \in Thread : key[d][t] # NoId

(* Packages that name the same prekey are of the same devices; a prekey that
   one names is not offered, and nobody is about to offer it; its recipient
   has not used it unless it has a key. *)
SealInv ==
    /\ \A x, y \in Sealed : x.opk = y.opk => x.from = y.from /\ x.to = y.to
    /\ \A x \in Sealed :
          /\ \A d \in Holder : x.opk \notin free[d]
          /\ \A b \in Tab : pub[b].pc \in {"post", "insert"} => x.opk \notin pub[b].keys
          /\ ~x.link => x.opk \in taken[x.to] \/ HasKey(x.to)

(* A step after which one device may have new keys. *)
LEMMA ApartKept ==
    ASSUME ApartInv, NEW d \in Holder, NEW new \in SUBSET Unused,
           OwnIds(d)' \subseteq OwnIds(d) \cup new,
           \A e \in Holder \ {d} : OwnIds(e)' \subseteq OwnIds(e)
    PROVE ApartInv'
<1>1. \A e \in Holder : new \cap OwnIds(e) = {}
    BY UnusedFacts DEF OwnIds
<1>2. ASSUME NEW e \in Holder, NEW f \in Holder, e # f
      PROVE OwnIds(e)' \cap OwnIds(f)' = {}
    <2>1. OwnIds(e) \cap OwnIds(f) = {}  BY <1>2 DEF ApartInv
    <2>2. CASE e = d
        <3>1. OwnIds(e)' \subseteq OwnIds(e) \cup new /\ OwnIds(f)' \subseteq OwnIds(f)
            BY <1>2, <2>2
        <3>2. QED  BY <1>1, <2>1, <3>1
    <2>3. CASE e # d
        <3>1. OwnIds(e)' \subseteq OwnIds(e) /\ OwnIds(f)' \subseteq OwnIds(f) \cup new
            BY <1>2, <2>3
        <3>2. QED  BY <1>1, <2>1, <3>1
    <2>4. QED  BY <2>2, <2>3
<1>3. QED  BY <1>2 DEF ApartInv

(* A step that gives no device new keys. *)
LEMMA ApartShrinks ==
    ASSUME ApartInv, \A e \in Holder : OwnIds(e)' \subseteq OwnIds(e)
    PROVE ApartInv'
BY DEF ApartInv

(* No step gives a prekey of one device to another. *)
LEMMA ApartStep == ASSUME PoolInv, ApartInv, PoolMove \/ UNCHANGED poolVars PROVE ApartInv'
<1>1. CASE UNCHANGED poolVars
    BY <1>1, ApartShrinks DEF poolVars, OwnIds
<1>2. ASSUME NEW b \in Tab, NEW d \in Holder, NEW ids \in SUBSET Unused, Publish(b, d, ids)
      PROVE ApartInv'
    <2>1. PICK keys \in SUBSET ids : secrets' = [secrets EXCEPT ![d] = @ \cup keys]
        BY <1>2, PublishFacts DEF PoolInv
    <2>2. UNCHANGED <<free, taken>>  BY <1>2 DEF Publish
    <2>3. /\ OwnIds(d)' \subseteq OwnIds(d) \cup keys
          /\ \A e \in Holder \ {d} : OwnIds(e)' \subseteq OwnIds(e)
        BY <2>1, <2>2 DEF PoolInv, PoolTypeOK, OwnIds
    <2>4. QED  BY <2>3, ApartKept
<1>3. ASSUME NEW b \in Tab, CountSlots(b) PROVE ApartInv'
    BY <1>3, ApartShrinks DEF CountSlots, OwnIds
<1>4. ASSUME NEW b \in Tab, InsertKeys(b) PROVE ApartInv'
    <2>1. PICK d \in Holder : d = pub[b].dev
        BY PubTyped DEF PoolInv
    <2>2. pub[b].accepted \subseteq secrets[d]
        BY <1>4, <2>1 DEF PoolInv, PubInv, InsertKeys
    <2>3. /\ UNCHANGED <<taken, secrets>>
          /\ free' = [free EXCEPT ![d] = @ \cup pub[b].accepted]
        BY <1>4, <2>1 DEF InsertKeys
    <2>4. \A e \in Holder : OwnIds(e)' \subseteq OwnIds(e)
        BY <2>2, <2>3 DEF PoolInv, PoolTypeOK, OwnIds
    <2>5. QED  BY <2>4, ApartShrinks
<1>5. ASSUME NEW b \in Tab, PublishAnswered(b) \/ PublishLost(b) \/ PublishRefused(b)
      PROVE ApartInv'
    <2>1. UNCHANGED <<free, taken>> /\ \A e \in Holder : secrets'[e] \subseteq secrets[e]
        BY <1>5 DEF PoolInv, PoolTypeOK, PublishAnswered, DropsOthers, PublishLost,
                    KeepUnanswered, PublishRefused, Drop
    <2>2. QED  BY <2>1, ApartShrinks DEF OwnIds
<1>6. ASSUME NEW d \in Holder, NEW k \in Prekey,
             \/ ClaimKey(d, k) /\ UNCHANGED <<secrets, pub, row, known>>
             \/ ConsumeSecret(d, k) /\ UNCHANGED <<free, pub, row, known>>
      PROVE ApartInv'
    <2>1. \A e \in Holder : OwnIds(e)' \subseteq OwnIds(e)
        BY <1>6 DEF PoolInv, PoolTypeOK, ClaimKey, Claimable, ConsumeSecret, OwnIds
    <2>2. QED  BY <2>1, ApartShrinks
<1>7. ASSUME NEW d \in Holder, RegisterNew(d) PROVE ApartInv'
    <2> DEFINE keys == Some(Unused, Smaller(Batch, MaxFree))
    <2>1. keys \in SUBSET Unused
        <3>1. Unused \in SUBSET Prekey  BY DEF Unused
        <3>2. Smaller(Batch, MaxFree) \in Nat  BY PoolAssumption, SmallerFacts
        <3>3. QED  BY <1>7, <3>1, <3>2, SomeFacts DEF RegisterNew
    <2>2. /\ UNCHANGED taken /\ free' = [free EXCEPT ![d] = keys]
          /\ secrets' = [secrets EXCEPT ![d] = keys] \/ UNCHANGED secrets
        BY <1>7 DEF RegisterNew
    <2> HIDE DEF keys
    <2>3. /\ OwnIds(d)' \subseteq OwnIds(d) \cup keys
          /\ \A e \in Holder \ {d} : OwnIds(e)' \subseteq OwnIds(e)
        BY <2>2 DEF PoolInv, PoolTypeOK, OwnIds
    <2>4. QED  BY <2>1, <2>3, ApartKept
<1>8. ASSUME NEW d \in Holder, RevokeDevice(d) \/ RegisterAgain(d) PROVE ApartInv'
    BY <1>8, ApartShrinks DEF RevokeDevice, RegisterAgain, OwnIds
<1>9. QED
    BY <1>1, <1>2, <1>3, <1>4, <1>5, <1>6, <1>7, <1>8 DEF PoolMove

(* What is sealed goes to a device of the other user if it is for a chat, and
   to one of the same user if it is for a linked device. *)
SealOfShare(x) == [from |-> x.from, to |-> x.to, opk |-> x.opk, link |-> x.why = "link"]
SealOfMessage(m) == [from |-> m.from, to |-> m.to, opk |-> m.opk, link |-> m.kind = "link"]

(* Sealed is what is, or is about to be, under way under a prekey. *)
LEMMA SealedMeans ==
    /\ \A j \in Job : job[j].pc = "send" => SealOfShare(job[j]) \in Sealed
    /\ \A m \in msgs : m.kind \in {"package", "link"} => SealOfMessage(m) \in Sealed
    /\ \A x \in Sealed :
          \/ \E j \in Job : job[j].pc = "send" /\ x = SealOfShare(job[j])
          \/ \E m \in msgs : m.kind \in {"package", "link"} /\ x = SealOfMessage(m)
BY DEF Sealed, SealOfShare, SealOfMessage

(* A sealed package goes to a device with prekeys, by a link within a user
   and by a share to the other one. *)
LEMMA SealedTyped ==
    ASSUME SetupInv, NEW x \in Sealed
    PROVE /\ x.to \in Holder /\ x.opk \in Prekey /\ x.link \in BOOLEAN
          /\ x.link => SameUser(x.from, x.to)
          /\ ~x.link => ~SameUser(x.from, x.to)
          /\ x.opk \in {job[j].opk : j \in Job} \cup {m.opk : m \in msgs}
<1>1. CASE \E j \in Job : job[j].pc = "send" /\ x = SealOfShare(job[j])
    <2>1. PICK j \in Job : job[j].pc = "send" /\ x = SealOfShare(job[j])  BY <1>1
    <2>2. GoodShare(job[j], Minter, MayHold)  BY <2>1 DEF SetupInv, ClientInv, ShareInv
    <2>3. /\ x.from = job[j].from /\ x.to = job[j].to /\ x.opk = job[j].opk
          /\ x.link = (job[j].why = "link")
        BY <2>1 DEF SealOfShare
    <2>4. QED  BY <2>1, <2>2, <2>3 DEF GoodShare
<1>2. CASE \E m \in msgs : m.kind \in {"package", "link"} /\ x = SealOfMessage(m)
    <2>1. PICK m \in msgs : m.kind \in {"package", "link"} /\ x = SealOfMessage(m)  BY <1>2
    <2>2. GoodMessage(m, Minter, MayHold)  BY <2>1 DEF SetupInv, ClientInv, MessageInv
    <2>3. /\ x.from = m.from /\ x.to = m.to /\ x.opk = m.opk
          /\ x.link = (m.kind = "link")
        BY <2>1 DEF SealOfMessage
    <2>4. QED  BY <2>1, <2>2, <2>3 DEF GoodMessage
<1>3. QED  BY <1>1, <1>2, SealedMeans

(* A step that seals nothing with another prekey, and forgets no key. *)
Quiet ==
    /\ Sealed' \subseteq Sealed
    /\ \A d \in ChatDevice, t \in Thread : key[d][t] # NoId => key'[d][t] # NoId

(* What sends nothing seals nothing. *)
LEMMA SealedKept ==
    ASSUME \A j \in Job : job'[j].pc = "send" => job'[j] = job[j],
           \A m \in msgs' : m.kind \in {"package", "link"} => SealOfMessage(m) \in Sealed
    PROVE Sealed' \subseteq Sealed
<1>1. ASSUME NEW x \in Sealed' PROVE x \in Sealed
    <2>1. \/ \E j \in Job : job'[j].pc = "send" /\ x = SealOfShare(job'[j])
          \/ \E m \in msgs' : m.kind \in {"package", "link"} /\ x = SealOfMessage(m)
        BY <1>1 DEF Sealed, SealOfShare, SealOfMessage
    <2>2. QED  BY <2>1, SealedMeans
<1>2. QED  BY <1>1

(* The same when no package is added. *)
LEMMA QuietWhen ==
    ASSUME \A j \in Job : job'[j].pc = "send" => job'[j] = job[j],
           \A m \in msgs' : m.kind \in {"package", "link"} => m \in msgs,
           UNCHANGED key
    PROVE Quiet
BY SealedKept, SealedMeans DEF Quiet

(* A control message is of its kind. *)
LEMMA ControlKind ==
    ASSUME NEW kind, NEW from, NEW to, NEW t PROVE Control(kind, from, to, t).kind = kind
BY DEF Control

(* A share that starts has no prekey yet. *)
LEMMA StartShareQuiet ==
    ASSUME job \in [Job -> Share], NEW j \in Job, NEW d, NEW to, NEW keys, NEW why, NEW t,
           StartShare(j, d, to, keys, why, t)
    PROVE \A i \in Job : job'[i].pc = "send" => job'[i] = job[i]
BY DEF StartShare

(* Nor has one that is abandoned. *)
LEMMA AbandonQuiet ==
    ASSUME NEW failed, Abandon(failed)
    PROVE \A i \in Job : job'[i].pc = "send" => job'[i] = job[i]
BY DEF Abandon, NoShare

(* Starting a chat. *)
LEMMA StartQuiet ==
    ASSUME SetupInv, NEW d \in Starter, NEW t \in Thread, Start(d, t)
    PROVE Quiet
<1>1. UNCHANGED <<job, msgs>>  BY DEF Start
<1>2. Sealed' \subseteq Sealed  BY <1>1 DEF Sealed
<1>3. d \in ChatDevice /\ d # NoId  BY SetupAssumption, ThreadAssumption
<1>4. key' = key \/ key' = [key EXCEPT ![d][t] = d]  BY DEF Start, Mint
<1>5. \A c \in ChatDevice, u \in Thread : key[c][u] # NoId => key'[c][u] # NoId
    BY <1>3, <1>4 DEF SetupInv, ClientInv, ClientTypeOK
<1>6. QED  BY <1>2, <1>5 DEF Quiet

(* Accepting and declining send no package. *)
LEMMA InvitesQuiet ==
    ASSUME NEW r \in ThreadReq,
           \/ \E t \in Thread, d \in ChatDevice : Accept(r, t, d)
           \/ \E t \in Thread : Decline(r, t)
           \/ Accepted(r) \/ Declined(r) \/ Fails(r)
    PROVE Quiet
<1>1. UNCHANGED <<key, job, msgs>>
    BY DEF Accept, Decline, Accepted, Declined, Fails, clientVars
<1>2. QED  BY <1>1, QuietWhen

(* Shares. *)
LEMMA SharesQuiet ==
    ASSUME SetupInv,
           \/ \E j \in Job :
                 \/ \E e \in events : OnAccepted(j, e)
                 \/ \E d \in ChatDevice, t \in Thread : Reconcile(j, d, t)
                 \/ Send(j) \/ SendFails(j)
           \/ \E d \in ChatDevice, to \in Holder : ClaimEmpty(d, to) \/ ClaimFails(d, to)
           \/ \E d \in ChatDevice : Reload(d)
    PROVE Quiet
<1>1. ASSUME NEW j \in Job, NEW e \in events, OnAccepted(j, e) PROVE Quiet
    <2>1. /\ UNCHANGED <<key, msgs>>
          /\ StartShare(j, e.dev, e.pin, OneKey(e.dev, e.thread), "accepted", e.thread)
        BY <1>1 DEF OnAccepted, OnlyPin
    <2>2. QED  BY <2>1, StartShareQuiet, QuietWhen DEF SetupInv, ClientInv, ClientTypeOK
<1>2. ASSUME NEW j \in Job, NEW d \in ChatDevice, NEW t \in Thread, Reconcile(j, d, t) PROVE Quiet
    <2>1. /\ UNCHANGED <<key, msgs>>
          /\ StartShare(j, d, conv[t].pin, OneKey(d, t), "reconcile", t)
        BY <1>2 DEF Reconcile
    <2>2. QED  BY <2>1, StartShareQuiet, QuietWhen DEF SetupInv, ClientInv, ClientTypeOK
<1>3. ASSUME NEW j \in Job, Send(j) PROVE Quiet
    <2>1. PICK c \in Copy : msgs' = msgs \cup {Package(j, c)}
        BY <1>3 DEF Send
    <2>2. /\ UNCHANGED key /\ job[j].pc = "send"
          /\ job' = [job EXCEPT ![j] = NoShare]
        BY <1>3 DEF Send
    <2>3. \A i \in Job : job'[i].pc = "send" => job'[i] = job[i]
        BY <2>2 DEF NoShare, SetupInv, ClientInv, ClientTypeOK
    <2>4. SealOfMessage(Package(j, c)) = SealOfShare(job[j])
        BY DEF SealOfMessage, SealOfShare, Package
    <2>5. SealOfShare(job[j]) \in Sealed  BY <2>2, SealedMeans
    <2>6. \A m \in msgs' : m.kind \in {"package", "link"} => SealOfMessage(m) \in Sealed
        BY <2>1, <2>4, <2>5, SealedMeans
    <2>7. QED  BY <2>2, <2>3, <2>6, SealedKept DEF Quiet
<1>4. ASSUME NEW j \in Job, SendFails(j) PROVE Quiet
    BY <1>4, AbandonQuiet, QuietWhen DEF SendFails
<1>5. ASSUME NEW d \in ChatDevice, NEW to \in Holder, ClaimEmpty(d, to) PROVE Quiet
    <2>1. /\ UNCHANGED key /\ Abandon(Waiting(d, to))
          /\ msgs' \subseteq msgs \cup Nudge(Waiting(d, to), d, to)
        BY <1>5, PostedFacts DEF ClaimEmpty, SetupInv, ClientInv, ClientTypeOK
    <2>2. \A m \in Nudge(Waiting(d, to), d, to) : m.kind = "nudge"
        BY ControlKind DEF Nudge
    <2>3. QED  BY <2>1, <2>2, AbandonQuiet, QuietWhen
<1>6. ASSUME NEW d \in ChatDevice, NEW to \in Holder, ClaimFails(d, to) PROVE Quiet
    BY <1>6, AbandonQuiet, QuietWhen DEF ClaimFails
<1>7. ASSUME NEW d \in ChatDevice, Reload(d) PROVE Quiet
    <2>1. /\ UNCHANGED <<key, msgs>>
          /\ \A i \in Job : job'[i].pc = "send" => job'[i] = job[i]
        BY <1>7 DEF Reload, NoShare
    <2>2. QED  BY <2>1, QuietWhen
<1>8. QED  BY <1>1, <1>2, <1>3, <1>4, <1>5, <1>6, <1>7

(* Messages. *)
LEMMA ImportKeys ==
    ASSUME SetupInv, NEW m \in msgs, Import(m)
    PROVE /\ \A d \in ChatDevice, t \in Thread : key[d][t] # NoId => key'[d][t] # NoId
          /\ m.kind = "package" => HasKey(m.to)'
<1>1. /\ GoodMessage(m, Minter, MayHold) /\ m.to \in ChatDevice
      /\ m.keys \in [Thread -> ChatDevice \cup {NoId}]
    BY MessageTyped DEF SetupInv
<1>2. key' = [key EXCEPT ![m.to] = Imported(m)]  BY DEF Import
<1>3. /\ key'[m.to] = Imported(m)
      /\ \A d \in ChatDevice \ {m.to} : key'[d] = key[d]
    BY <1>1, <1>2 DEF SetupInv, ClientInv, ClientTypeOK
<1>4. \A t \in Thread : key[m.to][t] # NoId => Imported(m)[t] # NoId  BY DEF Imported
<1>5. m.kind = "package" => m.thread \in Thread /\ Imported(m)[m.thread] # NoId
    BY <1>1 DEF Imported, GoodMessage
<1>6. QED  BY <1>3, <1>4, <1>5 DEF HasKey

(* Handling a message sends no package, and takes no key away. *)
LEMMA HandleQuiet ==
    ASSUME SetupInv, NEW m \in msgs, Handle(m)
    PROVE Quiet
<1>1. CASE Import(m)
    <2>1. /\ UNCHANGED job
          /\ msgs' \subseteq msgs \cup (IF m.kind = "link" THEN {} ELSE {Control("receipt", m.to, m.from, m.thread)})
        BY <1>1, AckedFacts DEF Import, SetupInv, ClientInv, ClientTypeOK
    <2>2. Control("receipt", m.to, m.from, m.thread).kind = "receipt"  BY ControlKind
    <2>3. \A n \in msgs' : n.kind \in {"package", "link"} => SealOfMessage(n) \in Sealed
        BY <2>1, <2>2, SealedMeans
    <2>4. QED  BY <1>1, <2>1, <2>3, SealedKept, ImportKeys DEF Quiet
<1>2. CASE Miss(m)
    <2> DEFINE ask == IF m.tries + 1 = AskAt /\ m.thread # NoId
                      THEN {Control("request", m.to, m.from, m.thread)} ELSE {}
               again == [m EXCEPT !.tries = @ + 1]
    <2>1. /\ UNCHANGED <<key, job>> /\ m.kind \in {"package", "link"}
          /\ IF GivenUp(m) THEN Acked(m, ask)
             ELSE LET kept == (msgs \ {m}) \cup {again} IN
                  \/ msgs' = kept \cup ask /\ UNCHANGED faults
                  \/ Fault /\ msgs' = kept
        BY <1>2 DEF Miss
    <2>2. SealOfMessage(again) = SealOfMessage(m)
        <3>1. m \in Message  BY MessageTyped DEF SetupInv
        <3>2. QED  BY <3>1 DEF SealOfMessage, Message
    <2>3. \A n \in ask : n.kind = "request"  BY ControlKind
    <2> HIDE DEF ask, again
    <2>4. msgs' \subseteq msgs \cup {again} \cup ask
        <3>1. CASE GivenUp(m)
            BY <2>1, <3>1, AckedFacts DEF SetupInv, ClientInv, ClientTypeOK
        <3>2. CASE ~GivenUp(m)
            BY <2>1, <3>2
        <3>3. QED  BY <3>1, <3>2
    <2>5. \A n \in msgs' : n.kind \in {"package", "link"} => SealOfMessage(n) \in Sealed
        BY <2>1, <2>2, <2>3, <2>4, SealedMeans
    <2>6. QED  BY <2>1, <2>5, SealedKept DEF Quiet
<1>3. ASSUME UNCHANGED key, Acked(m, {}),
             \A i \in Job : job'[i].pc = "send" => job'[i] = job[i]
      PROVE Quiet
    <2>1. msgs' \subseteq msgs \cup {}
        BY <1>3, AckedFacts DEF SetupInv, ClientInv, ClientTypeOK
    <2>2. QED  BY <1>3, <2>1, QuietWhen
<1>4. CASE OnReceipt(m)
    BY <1>3, <1>4 DEF OnReceipt
<1>5. ASSUME NEW j \in Job, OnRequest(j, m) \/ OnJoin(j, m) PROVE Quiet
    <2>1. \A i \in Job : job'[i].pc = "send" => job'[i] = job[i]
        BY <1>5, StartShareQuiet DEF OnRequest, OnJoin, SetupInv, ClientInv, ClientTypeOK
    <2>2. QED  BY <1>3, <1>5, <2>1 DEF OnRequest, OnJoin
<1>6. ASSUME NEW b \in Tab, OnNudge(b, m) PROVE Quiet
    BY <1>3, <1>6 DEF OnNudge
<1>7. QED  BY <1>1, <1>2, <1>4, <1>5, <1>6 DEF Handle

(* Nor does joining. *)
LEMMA JoinQuiet == ASSUME SetupInv, NEW d \in Joiner, Join(d) PROVE Quiet
<1> DEFINE asks == {Control("join", d, to, NoId) : to \in {e \in ChatDevice \ {d} : SameUser(d, e)}}
<1>1. UNCHANGED <<key, job>> /\ msgs' \subseteq msgs \cup asks
    BY PostedFacts DEF Join, SetupInv, ClientInv, ClientTypeOK
<1>2. \A m \in asks : m.kind = "join"  BY ControlKind
<1> HIDE DEF asks
<1>3. QED  BY <1>1, <1>2, QuietWhen

(* Nor does publishing. *)
LEMMA PublicationQuiet ==
    ASSUME NEW b \in Tab,
           PublicationServed(b) \/ PublicationFails(b) \/ \E d \in Holder : Replenish(b, d)
    PROVE Quiet
<1>1. UNCHANGED <<key, job, msgs>>
    BY DEF PublicationServed, PublicationFails, Replenish, clientVars
<1>2. QED  BY <1>1, QuietWhen

(* The steps of the pool when nothing is sealed or opened. *)
SealMove ==
    \/ UNCHANGED poolVars
    \/ \E b \in Tab :
          \/ \E d \in Holder : Publish(b, d, FreshKeys)
          \/ CountSlots(b) \/ InsertKeys(b) \/ PublishAnswered(b)
          \/ PublishLost(b) \/ PublishRefused(b)
    \/ \E d \in Holder, k \in Prekey :
          ClaimKey(d, k) /\ UNCHANGED <<secrets, pub, row, known>>

(* A quiet step that offers no sealed prekey again, and brings no secret
   back, preserves the invariant. *)
LEMMA SealKept ==
    ASSUME SetupInv, SealInv, Quiet,
           \A x \in Sealed :
              /\ \A d \in Holder : x.opk \notin free'[d]
              /\ \A b \in Tab : pub'[b].pc \in {"post", "insert"} => x.opk \notin pub'[b].keys,
           \A x \in Sealed' : ~x.link /\ x.opk \in taken[x.to] =>
                                 x.opk \in taken'[x.to] \/ HasKey(x.to)'
    PROVE SealInv'
<1>1. \A x \in Sealed' : x \in Sealed  BY DEF Quiet
<1>2. ASSUME NEW x \in Sealed', ~x.link
      PROVE x.opk \in taken'[x.to] \/ HasKey(x.to)'
    <2>1. x \in Sealed /\ x.to \in ChatDevice
        BY <1>1, SealedTyped, SetupAssumption
    <2>2. HasKey(x.to) => HasKey(x.to)'  BY <2>1 DEF Quiet, HasKey
    <2>3. x.opk \in taken[x.to] \/ HasKey(x.to)  BY <1>2, <2>1 DEF SealInv
    <2>4. QED  BY <1>2, <2>2, <2>3
<1>3. \A x, y \in Sealed' : x.opk = y.opk => x.from = y.from /\ x.to = y.to
    BY <1>1 DEF SealInv
<1>4. \A x \in Sealed' :
          /\ \A d \in Holder : x.opk \notin free'[d]
          /\ \A b \in Tab : pub'[b].pc \in {"post", "insert"} => x.opk \notin pub'[b].keys
    BY <1>1
<1>5. QED  BY <1>2, <1>3, <1>4 DEF SealInv

(* Every quiet step on the pool is such a step. *)
LEMMA SealMoveStep ==
    ASSUME SetupInv, SealInv, Quiet, SealMove
    PROVE SealInv' /\ known' = known
<1> DEFINE Out ==
        /\ \A x \in Sealed :
              /\ \A d \in Holder : x.opk \notin free'[d]
              /\ \A b \in Tab : pub'[b].pc \in {"post", "insert"} => x.opk \notin pub'[b].keys
        /\ \A d \in Holder : taken[d] \subseteq taken'[d]
        /\ known' = known
<1>1. CASE UNCHANGED poolVars
    <2>1. Out  BY <1>1 DEF poolVars, SealInv
    <2>2. QED  BY <2>1, SealKept, SealedTyped DEF Quiet
<1>2. ASSUME NEW b \in Tab, NEW d \in Holder, Publish(b, d, FreshKeys) PROVE Out
    <2>1. FreshKeys \in SUBSET Unused  BY DEF FreshKeys
    <2>2. PICK keys \in SUBSET FreshKeys :
              pub' = [pub EXCEPT ![b] = [pc |-> "post", dev |-> d, keys |-> keys, accepted |-> {}]]
        BY <1>2, <2>1, PublishFacts DEF SetupInv, PoolInv
    <2>3. /\ pub'[b].keys = keys
          /\ \A c \in Tab \ {b} : pub'[c] = pub[c]
        BY <2>2 DEF SetupInv, PoolInv, PoolTypeOK
    <2>4. \A x \in Sealed : x.opk \notin keys  BY SealedTyped DEF FreshKeys
    <2>5. UNCHANGED <<free, taken, known>>  BY <1>2 DEF Publish
    <2>6. QED  BY <2>3, <2>4, <2>5 DEF SealInv
<1>3. ASSUME NEW b \in Tab, CountSlots(b) PROVE Out
    <2>1. /\ pub'[b].keys = pub[b].keys /\ pub[b].pc = "post"
          /\ \A c \in Tab \ {b} : pub'[c] = pub[c]
        BY <1>3, PubTyped DEF CountSlots, SetupInv, PoolInv, PoolTypeOK, Publication
    <2>2. UNCHANGED <<free, taken, known>>  BY <1>3 DEF CountSlots
    <2>3. QED  BY <2>1, <2>2 DEF SealInv
<1>4. ASSUME NEW b \in Tab, InsertKeys(b) PROVE Out
    <2>1. /\ pub'[b].pc = "answer" /\ pub[b].pc = "insert"
          /\ \A c \in Tab \ {b} : pub'[c] = pub[c]
        BY <1>4, PubTyped DEF InsertKeys, SetupInv, PoolInv, PoolTypeOK, Publication
    <2>2. \A d \in Holder : free'[d] \subseteq free[d] \cup pub[b].keys
        BY <1>4 DEF InsertKeys, SetupInv, PoolInv, PoolTypeOK, PubInv
    <2>3. UNCHANGED <<taken, known>>  BY <1>4 DEF InsertKeys
    <2>4. QED  BY <2>1, <2>2, <2>3 DEF SealInv
<1>5. ASSUME NEW b \in Tab, PublishAnswered(b) \/ PublishLost(b) \/ PublishRefused(b) PROVE Out
    <2>1. /\ pub' = [pub EXCEPT ![b] = NoPublication]
          /\ UNCHANGED <<free, taken, known>>
        BY <1>5 DEF PublishAnswered, PublishLost, PublishRefused, Answered
    <2>2. /\ pub'[b].pc = "idle"
          /\ \A c \in Tab \ {b} : pub'[c] = pub[c]
        BY <2>1 DEF NoPublication, SetupInv, PoolInv, PoolTypeOK
    <2>3. QED  BY <2>1, <2>2 DEF SealInv
<1>6. ASSUME NEW d \in Holder, NEW k \in Prekey,
             ClaimKey(d, k), UNCHANGED <<secrets, pub, row, known>>
      PROVE Out
    <2>1. \A e \in Holder : free'[e] \subseteq free[e] /\ taken[e] \subseteq taken'[e]
        BY <1>6 DEF ClaimKey, SetupInv, PoolInv, PoolTypeOK
    <2>2. QED  BY <1>6, <2>1 DEF SealInv
<1>7. CASE Out
    <2>1. \A x \in Sealed' : x.opk \in taken[x.to] => x.opk \in taken'[x.to]
        BY <1>7, SealedTyped DEF Quiet
    <2>2. QED  BY <1>7, <2>1, SealKept
<1> HIDE DEF Out
<1>8. QED  BY <1>1, <1>2, <1>3, <1>4, <1>5, <1>6, <1>7 DEF SealMove

(* A claim is answered: the packages of all shares that wait for it name the
   prekey, which nothing named. *)
LEMMA SealClaim ==
    ASSUME SetupInv, ApartInv, SealInv,
           NEW d \in ChatDevice, NEW to \in Holder, NEW k \in Prekey, Claim(d, to, k)
    PROVE SealInv' /\ known' = known
<1>1. /\ job' = [j \in Job |-> IF j \in Waiting(d, to)
                               THEN [job[j] EXCEPT !.pc = "send", !.opk = k] ELSE job[j]]
      /\ UNCHANGED <<pub, known, key, msgs>>
      /\ k \in free[to]
      /\ free' = [free EXCEPT ![to] = @ \ {k}] /\ taken' = [taken EXCEPT ![to] = @ \cup {k}]
    BY DEF Claim, ClaimKey, Claimable
<1>2. /\ \A e \in Holder : free'[e] \subseteq free[e] /\ taken[e] \subseteq taken'[e]
      /\ k \notin free'[to] /\ k \in taken'[to]
    BY <1>1 DEF SetupInv, PoolInv, PoolTypeOK
<1>3. ASSUME NEW x \in Sealed', x \notin Sealed
      PROVE x.from = d /\ x.to = to /\ x.opk = k
    <2>1. \/ \E j \in Job : job'[j].pc = "send" /\ x = SealOfShare(job'[j])
          \/ \E m \in msgs' : m.kind \in {"package", "link"} /\ x = SealOfMessage(m)
        BY DEF Sealed, SealOfShare, SealOfMessage
    <2>2. PICK j \in Job : job'[j].pc = "send" /\ x = SealOfShare(job'[j])
        BY <1>1, <1>3, <2>1, SealedMeans
    <2>3. j \in Waiting(d, to)
        BY <1>1, <1>3, <2>2, SealedMeans
    <2>4. job[j] \in Share /\ job[j].from = d /\ job[j].to = to
        BY <2>3 DEF Waiting, SetupInv, ClientInv, ClientTypeOK
    <2>5. job'[j].from = d /\ job'[j].to = to /\ job'[j].opk = k
        BY <1>1, <2>3, <2>4 DEF Share
    <2>6. QED  BY <2>2, <2>5 DEF SealOfShare
<1>4. /\ \A x \in Sealed : x.opk # k
      /\ \A e \in Holder : k \notin free'[e]
      /\ \A b \in Tab : pub'[b].pc \in {"post", "insert"} => k \notin pub'[b].keys
    <2>1. \A x \in Sealed : x.opk # k  BY <1>1 DEF SealInv
    <2>2. \A e \in Holder : k \notin free'[e]
        BY <1>1, <1>2 DEF ApartInv, OwnIds
    <2>3. ASSUME NEW b \in Tab, pub[b].pc \in {"post", "insert"} PROVE k \notin pub[b].keys
        <3>1. /\ pub[b].dev \in Holder /\ pub[b].keys \subseteq secrets[pub[b].dev]
              /\ pub[b].keys \cap free[pub[b].dev] = {}
            BY <2>3, PubTyped DEF SetupInv, PoolInv, PubInv
        <3>2. QED  BY <1>1, <3>1 DEF ApartInv, OwnIds
    <2>4. QED  BY <1>1, <2>1, <2>2, <2>3
<1>5. \A x \in Sealed' : x.opk = k => x.from = d /\ x.to = to
    BY <1>3, <1>4
<1>6. ASSUME NEW x \in Sealed', NEW y \in Sealed', x.opk = y.opk
      PROVE x.from = y.from /\ x.to = y.to
    BY <1>3, <1>4, <1>6 DEF SealInv
<1>7. ASSUME NEW x \in Sealed'
      PROVE /\ \A e \in Holder : x.opk \notin free'[e]
            /\ \A b \in Tab : pub'[b].pc \in {"post", "insert"} => x.opk \notin pub'[b].keys
            /\ ~x.link => x.opk \in taken'[x.to] \/ HasKey(x.to)'
    <2>1. CASE x \in Sealed
        <3>1. x.to \in Holder  BY <2>1, SealedTyped
        <3>2. HasKey(x.to) => HasKey(x.to)'  BY <1>1 DEF HasKey
        <3>3. QED  BY <1>1, <1>2, <2>1, <3>1, <3>2 DEF SealInv
    <2>2. CASE x \notin Sealed
        BY <1>2, <1>3, <1>4, <2>2
    <2>3. QED  BY <2>1, <2>2
<1>8. QED  BY <1>1, <1>6, <1>7 DEF SealInv

(* A package is opened: those that name its prekey go to a device that has a
   key now. *)
LEMMA SealImport ==
    ASSUME SetupInv, SealInv, NEW m \in msgs, Import(m)
    PROVE SealInv' /\ known' = known
<1>1. /\ m.kind \in {"package", "link"}
      /\ UNCHANGED <<free, pub, known>>
      /\ taken' = [taken EXCEPT ![m.to] = @ \ {m.opk}]
    BY DEF Import, ConsumeSecret
<1>2. Quiet  BY HandleQuiet DEF Handle
<1>3. SealOfMessage(m) \in Sealed  BY <1>1, SealedMeans
<1>4. ASSUME NEW x \in Sealed', ~x.link, x.opk \in taken[x.to]
      PROVE x.opk \in taken'[x.to] \/ HasKey(x.to)'
    <2>1. x \in Sealed /\ x.to \in Holder /\ ~SameUser(x.from, x.to)
        BY <1>2, <1>4, SealedTyped DEF Quiet
    <2>2. CASE x.opk # m.opk \/ x.to # m.to
        BY <1>1, <1>4, <2>1, <2>2 DEF SetupInv, PoolInv, PoolTypeOK
    <2>3. CASE x.opk = m.opk /\ x.to = m.to
        <3> DEFINE y == SealOfMessage(m)
        <3>1. y.opk = m.opk /\ y.to = m.to /\ y.link = (m.kind = "link")
            BY DEF SealOfMessage
        <3>2. x.from = y.from /\ x.to = y.to  BY <1>3, <2>1, <2>3, <3>1 DEF SealInv
        <3>3. ~y.link  BY <1>3, <2>1, <3>2, SealedTyped
        <3>4. m.kind = "package"  BY <1>1, <3>1, <3>3
        <3>5. QED  BY <2>3, <3>4, ImportKeys
    <2>4. QED  BY <2>2, <2>3
<1>5. \A x \in Sealed :
         /\ \A d \in Holder : x.opk \notin free'[d]
         /\ \A b \in Tab : pub'[b].pc \in {"post", "insert"} => x.opk \notin pub'[b].keys
    BY <1>1 DEF SealInv
<1>6. QED  BY <1>1, <1>2, <1>4, <1>5, SealKept

PrekeyInv == SetupInv /\ ApartInv /\ SealInv /\ known = Holder

(* Every step preserves the invariant. *)
LEMMA PrekeyStep == ASSUME PrekeyInv, [Next]_vars PROVE PrekeyInv'
<1>1. SetupInv'  BY SetupStep DEF PrekeyInv
<1>2. ASSUME PoolMove \/ UNCHANGED poolVars PROVE ApartInv'
    BY <1>2, ApartStep DEF PrekeyInv, SetupInv
<1>3. ASSUME Quiet, SealMove PROVE SealInv' /\ known' = known
    BY <1>3, SealMoveStep DEF PrekeyInv
<1>4. ApartInv'
    <2>1. CASE UNCHANGED vars
        BY <1>2, <2>1 DEF vars
    <2>2. CASE Threads
        BY <1>2, <2>2, ThreadsPart DEF PrekeyInv
    <2>3. CASE Shares \/ Publications \/ (\E m \in msgs : Handle(m)) \/ \E d \in Joiner : Join(d)
        BY <1>2, <2>3, OthersPart DEF PrekeyInv
    <2>4. QED  BY <2>1, <2>2, <2>3 DEF Next
<1>5. SealInv' /\ known' = known
    <2>1. CASE UNCHANGED vars
        <3>1. UNCHANGED <<key, job, msgs>> /\ SealMove
            BY <2>1 DEF vars, clientVars, SealMove
        <3>2. QED  BY <1>3, <3>1, QuietWhen
    <2>2. CASE Threads
        <3>1. UNCHANGED poolVars  BY <2>2, ThreadsPart DEF PrekeyInv
        <3>2. Quiet  BY <2>2, StartQuiet, InvitesQuiet DEF PrekeyInv, Threads
        <3>3. QED  BY <1>3, <3>1, <3>2 DEF SealMove
    <2>3. ASSUME NEW d \in ChatDevice, NEW to \in Holder, NEW k \in Prekey, Claim(d, to, k)
          PROVE SealInv' /\ known' = known
        BY <2>3, SealClaim DEF PrekeyInv
    <2>4. CASE \/ \E j \in Job :
                     \/ \E e \in events : OnAccepted(j, e)
                     \/ \E d \in ChatDevice, t \in Thread : Reconcile(j, d, t)
                     \/ Send(j) \/ SendFails(j)
               \/ \E d \in ChatDevice, to \in Holder : ClaimEmpty(d, to) \/ ClaimFails(d, to)
               \/ \E d \in ChatDevice : Reload(d)
        <3>1. Quiet  BY <2>4, SharesQuiet DEF PrekeyInv
        <3>2. SealMove
            BY <2>4 DEF OnAccepted, Reconcile, Send, SendFails, ClaimEmpty, ClaimFails, Reload,
               SealMove, poolVars
        <3>3. QED  BY <1>3, <3>1, <3>2
    <2>5. ASSUME NEW m \in msgs, Handle(m) PROVE SealInv' /\ known' = known
        <3>1. CASE Import(m)
            BY <3>1, SealImport DEF PrekeyInv
        <3>2. CASE ~Import(m)
            <4>1. GoodMessage(m, Minter, MayHold)  BY MessageTyped DEF PrekeyInv, SetupInv
            <4>2. CASE Miss(m)
                <5>1. m.to \in Holder  BY <4>1, <4>2 DEF GoodMessage, Miss
                <5>2. SealMove  BY <4>2, <5>1 DEF Miss, SealMove
                <5>3. QED  BY <1>3, <2>5, <5>2, HandleQuiet DEF PrekeyInv
            <4>3. ASSUME NEW b \in Tab, OnNudge(b, m) PROVE SealMove
                BY <4>3 DEF OnNudge, Publish, PrekeyInv, SealMove
            <4>4. CASE OnReceipt(m) \/ \E j \in Job : OnRequest(j, m) \/ OnJoin(j, m)
                BY <1>3, <2>5, <4>4, HandleQuiet
                   DEF OnReceipt, OnRequest, OnJoin, SealMove, PrekeyInv
            <4>5. QED
                BY <1>3, <2>5, <3>2, <4>2, <4>3, <4>4, HandleQuiet DEF Handle, PrekeyInv
        <3>3. QED  BY <3>1, <3>2
    <2>6. ASSUME NEW d \in Joiner, Join(d) PROVE SealInv' /\ known' = known
        BY <1>3, <2>6, JoinQuiet DEF Join, SealMove, PrekeyInv
    <2>7. ASSUME NEW b \in Tab,
                 PublicationServed(b) \/ PublicationFails(b) \/ \E d \in Holder : Replenish(b, d)
          PROVE SealInv' /\ known' = known
        BY <1>3, <2>7, PublicationQuiet
           DEF PublicationServed, PublicationFails, Replenish, SealMove
    <2>8. QED
        BY <2>1, <2>2, <2>3, <2>4, <2>5, <2>6, <2>7 DEF Next, Shares, Publications
<1>6. QED  BY <1>1, <1>4, <1>5 DEF PrekeyInv

(* It holds initially: nothing is sealed. *)
LEMMA PrekeyInit == ASSUME Init PROVE PrekeyInv
<1>1. SetupInv  BY SetupInit
<1>2. ApartInv  BY DEF Init, PoolInit, ApartInv, OwnIds
<1>3. Sealed = {}  BY DEF Init, NoShare, Sealed
<1>4. SealInv /\ known = Holder  BY <1>3 DEF SealInv, Init, PoolInit
<1>5. QED  BY <1>1, <1>2, <1>4 DEF PrekeyInv

(* A package that does not open names the prekey of one that was opened before:
   its recipient has a key. *)
LEMMA MissMeans == PrekeyInv => OnlyRepeatsMiss
<1>1. ASSUME PrekeyInv, NEW m \in msgs, m.kind = "package", ~Opens(m)
      PROVE \E t \in Thread : key[m.to][t] # NoId
    <2> DEFINE x == SealOfMessage(m)
    <2>1. x \in Sealed  BY <1>1, SealedMeans
    <2>2. x.to = m.to /\ x.opk = m.opk /\ ~x.link  BY <1>1 DEF SealOfMessage
    <2>3. x.opk \in taken[x.to] \/ HasKey(x.to)  BY <1>1, <2>1, <2>2 DEF PrekeyInv, SealInv
    <2>4. m.to \in Holder  BY <1>1, <2>1, <2>2, SealedTyped DEF PrekeyInv
    <2>5. taken[m.to] \subseteq secrets[m.to]
        BY <1>1, <2>4 DEF PrekeyInv, SetupInv, PoolInv, ServableHasSecret
    <2>6. QED  BY <1>1, <2>2, <2>3, <2>5 DEF Opens, HasKey
<1>2. QED  BY <1>1 DEF OnlyRepeatsMiss

(* A package that does not open is a repetition: of the packages under one prekey
   its recipient opened one. *)
THEOREM MissesAreRepeats == Spec => []OnlyRepeatsMiss
BY PrekeyInit, PrekeyStep, MissMeans, PTL DEF Spec

-----------------------------------------------------------------------------
(* The marks a client keeps of what it shared. *)

(* A receipt is of a device that has a key. *)
ReceiptInv ==
    /\ \A c, d \in ChatDevice, t \in Thread : <<t, d>> \in receipts[c] => HasKey(d)
    /\ \A m \in msgs : m.kind = "receipt" => HasKey(m.from)

(* A share that was attempted is under way, unless it arrived. *)
MarkInv ==
    \A c, d \in ChatDevice, t \in Thread :
        <<t, d>> \in attempted[c] => HasKey(d) \/ UnderWay(c, d, t)

(* A device that has a key keeps one. *)
KeysKept == \A d \in ChatDevice : HasKey(d) => HasKey(d)'

(* What becomes of a share of the effect: it goes on, its mark is taken back, or
   its package was posted. *)
ShareCarried(j) ==
    job[j].pc # "idle" /\ job[j].why = "reconcile" =>
        \/ /\ job'[j].pc # "idle" /\ job'[j].why = "reconcile"
           /\ job'[j].from = job[j].from /\ job'[j].to = job[j].to
           /\ job'[j].thread = job[j].thread
        \/ <<job[j].thread, job[j].to>> \notin attempted'[job[j].from]
        \/ \E n \in msgs' : /\ n.kind = "package" /\ n.to = job[j].to
                            /\ n.keys[job[j].thread] # NoId

(* And of a package: it stays, or its recipient has a key. *)
PackageCarried(m) ==
    m.kind = "package" =>
        \/ HasKey(m.to)'
        \/ \E n \in msgs' : n.kind = "package" /\ n.to = m.to /\ n.keys = m.keys

(* A step that marks only what is under way, and drops no share or package
   without a trace. *)
LEMMA MarkKept ==
    ASSUME MarkInv, KeysKept,
           \A c, d \in ChatDevice, t \in Thread :
               <<t, d>> \in attempted'[c] => <<t, d>> \in attempted[c] \/ UnderWay(c, d, t)',
           \A j \in Job : ShareCarried(j),
           \A m \in msgs : PackageCarried(m)
    PROVE MarkInv'
<1>1. ASSUME NEW c \in ChatDevice, NEW d \in ChatDevice, NEW t \in Thread,
             <<t, d>> \in attempted'[c]
      PROVE HasKey(d)' \/ UnderWay(c, d, t)'
    <2>1. CASE UnderWay(c, d, t)'  BY <2>1
    <2>2. CASE HasKey(d)  BY <2>2 DEF KeysKept
    <2>3. CASE UnderWay(c, d, t)
        <3>1. ASSUME NEW j \in Job, job[j].pc # "idle", job[j].why = "reconcile",
                     job[j].from = c, job[j].to = d, job[j].thread = t
              PROVE UnderWay(c, d, t)'
            BY <1>1, <3>1 DEF ShareCarried, UnderWay
        <3>2. ASSUME NEW m \in msgs, m.kind = "package", m.to = d, m.keys[t] # NoId
              PROVE HasKey(d)' \/ UnderWay(c, d, t)'
            <4>1. PackageCarried(m)  OBVIOUS
            <4>2. HasKey(m.to)' => HasKey(d)'  BY <3>2 DEF HasKey
            <4>3. QED  BY <3>2, <4>1, <4>2 DEF PackageCarried, UnderWay
        <3>3. QED  BY <2>3, <3>1, <3>2 DEF UnderWay
    <2>4. QED  BY <1>1, <2>1, <2>2, <2>3 DEF MarkInv
<1>2. QED  BY <1>1 DEF MarkInv

(* A step that leaves shares and marks as they are and drops no package without
   a key. *)
LEMMA MarkFrame ==
    ASSUME MarkInv, KeysKept, UNCHANGED <<attempted, job>>,
           \A m \in msgs : PackageCarried(m)
    PROVE MarkInv'
<1>1. \A j \in Job : ShareCarried(j)  BY DEF ShareCarried
<1>2. QED  BY <1>1, MarkKept

(* A step that adds no receipt and none to the marks. *)
LEMMA ReceiptKept ==
    ASSUME ReceiptInv, KeysKept, UNCHANGED receipts, MessageInv',
           \A m \in msgs' : m.kind = "receipt" => m \in msgs
    PROVE ReceiptInv'
<1>1. ASSUME NEW m \in msgs', m.kind = "receipt" PROVE HasKey(m.from)'
    <2>1. m.from \in ChatDevice  BY DEF MessageInv, GoodMessage, Message
    <2>2. HasKey(m.from)  BY <1>1 DEF ReceiptInv
    <2>3. QED  BY <2>1, <2>2 DEF KeysKept
<1>2. \A c, d \in ChatDevice, t \in Thread : <<t, d>> \in receipts'[c] => HasKey(d)'
    BY DEF ReceiptInv, KeysKept
<1>3. QED  BY <1>1, <1>2 DEF ReceiptInv

(* Every package is still there. *)
LEMMA PackagesStay == ASSUME msgs \subseteq msgs' PROVE \A m \in msgs : PackageCarried(m)
BY DEF PackageCarried

(* An ack removes no other message. *)
LEMMA AckedRest == ASSUME NEW m, NEW ms, Acked(m, ms) PROVE msgs \ {m} \subseteq msgs'
BY DEF Acked

(* Keys are never forgotten. *)
LEMMA QuietKeeps == ASSUME Quiet PROVE KeysKept
BY DEF Quiet, KeysKept, HasKey

(* A share that starts is of an idle job. *)
LEMMA StartShareCarries ==
    ASSUME job \in [Job -> Share], NEW j \in Job, NEW d, NEW to, NEW keys, NEW why, NEW t,
           StartShare(j, d, to, keys, why, t)
    PROVE /\ \A i \in Job : ShareCarried(i)
          /\ job'[j].pc = "claim" /\ job'[j].from = d /\ job'[j].to = to
          /\ job'[j].why = why /\ job'[j].thread = t
<1>1. /\ job[j].pc = "idle"
      /\ \A i \in Job \ {j} : job'[i] = job[i]
      /\ job'[j] = [pc |-> "claim", from |-> d, to |-> to, keys |-> keys,
                    why |-> why, thread |-> t, opk |-> NoId]
    BY DEF StartShare
<1>2. ASSUME NEW i \in Job PROVE ShareCarried(i)
    <2>1. CASE i = j  BY <1>1, <2>1 DEF ShareCarried
    <2>2. CASE i # j  BY <1>1, <2>2 DEF ShareCarried
    <2>3. QED  BY <2>1, <2>2
<1>3. QED  BY <1>1, <1>2

(* Shares that failed lose their marks. *)
LEMMA RetryFacts ==
    ASSUME SetupInv, NEW failed \in SUBSET Job, Retry(failed)
    PROVE /\ \A c \in ChatDevice : attempted'[c] \subseteq attempted[c]
          /\ \A j \in failed : job[j].pc # "idle" /\ job[j].why = "reconcile" =>
                <<job[j].thread, job[j].to>> \notin attempted'[job[j].from]
<1>1. \A c \in ChatDevice : attempted'[c] = attempted[c] \
          {<<job[j].thread, job[j].to>> : j \in {i \in failed : job[i].from = c /\ job[i].why = "reconcile"}}
    BY DEF Retry
<1>2. ASSUME NEW j \in failed, job[j].pc # "idle", job[j].why = "reconcile"
      PROVE <<job[j].thread, job[j].to>> \notin attempted'[job[j].from]
    <2>1. job[j].from \in ChatDevice
        BY <1>2 DEF SetupInv, ClientInv, ShareInv, GoodShare
    <2>2. QED  BY <1>1, <1>2, <2>1
<1>3. QED  BY <1>1, <1>2

(* Shares that are abandoned. *)
LEMMA AbandonCarries ==
    ASSUME SetupInv, MarkInv, KeysKept, NEW failed \in SUBSET Job, Abandon(failed), msgs \subseteq msgs'
    PROVE MarkInv'
<1>1. Retry(failed)  BY DEF Abandon
<1>2. \A j \in Job : ShareCarried(j)
    BY <1>1, RetryFacts DEF Abandon, ShareCarried
<1>3. QED  BY <1>1, <1>2, RetryFacts, PackagesStay, MarkKept

(* Threads, publications and joins touch neither shares nor marks. *)
LEMMA MarkOthers ==
    ASSUME MarkInv, ReceiptInv, KeysKept, MessageInv',
           Threads \/ Publications \/ \E d \in Joiner : Join(d)
    PROVE MarkInv' /\ ReceiptInv'
<1>1. UNCHANGED <<attempted, job, receipts>>
    BY DEF Threads, Start, Accept, Decline, Accepted, Declined, Fails, Publications,
       PublicationServed, PublicationFails, Replenish, Join, clientVars
<1>2. UNCHANGED msgs \/ \E d \in Joiner : Join(d)
    BY DEF Threads, Start, Accept, Decline, Accepted, Declined, Fails, Publications,
       PublicationServed, PublicationFails, Replenish, clientVars
<1>3. msgs \subseteq msgs'  BY <1>2 DEF Join, Posted
<1>4. \A m \in msgs' : m.kind = "receipt" => m \in msgs
    BY <1>2, ControlKind DEF Join, Posted
<1>5. QED  BY <1>1, <1>3, <1>4, PackagesStay, MarkFrame, ReceiptKept

(* The shares. *)
LEMMA MarkShares ==
    ASSUME SetupInv, MarkInv, KeysKept, Shares
    PROVE MarkInv'
<1>1. job \in [Job -> Share] /\ attempted \in [ChatDevice -> SUBSET (Thread \X ChatDevice)]
    BY DEF SetupInv, ClientInv, ClientTypeOK
<1>2. ASSUME NEW j \in Job, NEW e \in events, OnAccepted(j, e) PROVE MarkInv'
    <2>1. /\ StartShare(j, e.dev, e.pin, OneKey(e.dev, e.thread), "accepted", e.thread)
          /\ UNCHANGED <<attempted, msgs>>
        BY <1>2 DEF OnAccepted, OnlyPin
    <2>2. \A i \in Job : ShareCarried(i)  BY <1>1, <2>1, StartShareCarries
    <2>3. QED  BY <2>1, <2>2, PackagesStay, MarkKept
<1>3. ASSUME NEW j \in Job, NEW d \in ChatDevice, NEW t \in Thread, Reconcile(j, d, t)
      PROVE MarkInv'
    <2>0. PICK to : to = conv[t].pin  OBVIOUS
    <2>1. /\ StartShare(j, d, to, OneKey(d, t), "reconcile", t)
          /\ attempted' = [attempted EXCEPT ![d] = @ \cup {<<t, to>>}]
          /\ UNCHANGED msgs
        BY <1>3, <2>0 DEF Reconcile
    <2>2. /\ \A i \in Job : ShareCarried(i)
          /\ job'[j].pc = "claim" /\ job'[j].from = d /\ job'[j].to = to
          /\ job'[j].why = "reconcile" /\ job'[j].thread = t
        BY <1>1, <2>1, StartShareCarries
    <2>3. UnderWay(d, to, t)'  BY <2>2 DEF UnderWay
    <2>4. ASSUME NEW c \in ChatDevice, NEW b \in ChatDevice, NEW u \in Thread,
                 <<u, b>> \in attempted'[c]
          PROVE <<u, b>> \in attempted[c] \/ UnderWay(c, b, u)'
        <3>1. <<u, b>> \in attempted[c] \/ (c = d /\ u = t /\ b = to)
            BY <1>1, <2>1, <2>4
        <3>2. QED  BY <2>2, <3>1 DEF UnderWay
    <2>5. QED  BY <2>1, <2>2, <2>4, PackagesStay, MarkKept
<1>4. ASSUME NEW j \in Job, Send(j) PROVE MarkInv'
    <2>1. PICK x \in Copy : msgs' = msgs \cup {Package(j, x)}  BY <1>4 DEF Send
    <2>2. /\ job[j].pc = "send" /\ job' = [job EXCEPT ![j] = NoShare]
          /\ attempted' = attempted \/ Retry({j})
        BY <1>4 DEF Send
    <2>3. \A c \in ChatDevice : attempted'[c] \subseteq attempted[c]
        BY <2>2, RetryFacts
    <2>4. ShareCarried(j)
        <3>1. job[j].why = "reconcile" => job[j].keys[job[j].thread] # NoId
            BY <2>2 DEF SetupInv, ClientInv, ShareInv, GoodShare
        <3>2. /\ Package(j, x) \in msgs' /\ Package(j, x).to = job[j].to
              /\ Package(j, x).keys = job[j].keys
              /\ job[j].why = "reconcile" => Package(j, x).kind = "package"
            BY <2>1 DEF Package
        <3>3. QED  BY <3>1, <3>2 DEF ShareCarried
    <2>5. \A i \in Job \ {j} : ShareCarried(i)  BY <1>1, <2>2 DEF ShareCarried
    <2>6. msgs \subseteq msgs'  BY <2>1
    <2>7. QED  BY <2>3, <2>4, <2>5, <2>6, PackagesStay, MarkKept
<1>5. ASSUME NEW j \in Job, SendFails(j) PROVE MarkInv'
    BY <1>5, AbandonCarries DEF SendFails
<1>6. ASSUME NEW d \in ChatDevice, NEW to \in Holder, ClaimEmpty(d, to) \/ ClaimFails(d, to)
      PROVE MarkInv'
    <2>1. Abandon(Waiting(d, to)) /\ msgs \subseteq msgs'
        BY <1>6 DEF ClaimEmpty, ClaimFails, Posted
    <2>2. Waiting(d, to) \in SUBSET Job  BY DEF Waiting
    <2>3. QED  BY <2>1, <2>2, AbandonCarries
<1>7. ASSUME NEW d \in ChatDevice, Reload(d) PROVE MarkInv'
    <2>1. /\ attempted' = [attempted EXCEPT ![d] = {}] /\ UNCHANGED msgs
          /\ job' = [j \in Job |-> IF job[j].from = d THEN NoShare ELSE job[j]]
        BY <1>7 DEF Reload
    <2>2. attempted'[d] = {} /\ \A c \in ChatDevice : attempted'[c] \subseteq attempted[c]
        BY <1>1, <2>1
    <2>3. \A j \in Job : ShareCarried(j)  BY <2>1, <2>2 DEF ShareCarried
    <2>4. QED  BY <2>1, <2>2, <2>3, PackagesStay, MarkKept
<1>8. ASSUME NEW d \in ChatDevice, NEW to \in Holder, NEW k \in Prekey, Claim(d, to, k)
      PROVE MarkInv'
    <2>1. /\ UNCHANGED <<attempted, msgs>>
          /\ job' = [j \in Job |-> IF j \in Waiting(d, to)
                                   THEN [job[j] EXCEPT !.pc = "send", !.opk = k] ELSE job[j]]
        BY <1>8 DEF Claim
    <2>2. ASSUME NEW j \in Job PROVE ShareCarried(j)
        <3>1. job[j] \in Share  BY <1>1
        <3>2. QED  BY <2>1, <3>1 DEF ShareCarried, Share
    <2>3. QED  BY <2>1, <2>2, PackagesStay, MarkKept
<1>9. QED
    BY <1>2, <1>3, <1>4, <1>5, <1>6, <1>7, <1>8 DEF Shares

(* Shares send no receipts. *)
LEMMA ReceiptShares ==
    ASSUME SetupInv, ReceiptInv, KeysKept, MessageInv', Shares
    PROVE ReceiptInv'
<1>1. UNCHANGED receipts
    BY DEF Shares, OnAccepted, Reconcile, Send, SendFails, Claim, ClaimEmpty, ClaimFails, Reload
<1>2. ASSUME NEW m \in msgs', m.kind = "receipt" PROVE m \in msgs
    <2>1. CASE UNCHANGED msgs  BY <2>1
    <2>2. ASSUME NEW j \in Job, Send(j) PROVE m \in msgs
        <3>1. PICK x \in Copy : msgs' = msgs \cup {Package(j, x)}  BY <2>2 DEF Send
        <3>2. Package(j, x).kind # "receipt"  BY DEF Package
        <3>3. QED  BY <1>2, <3>1, <3>2
    <2>3. ASSUME NEW d \in ChatDevice, NEW to \in Holder, ClaimEmpty(d, to) PROVE m \in msgs
        BY <1>2, <2>3, ControlKind DEF ClaimEmpty, Posted, Nudge
    <2>4. QED
        BY <2>1, <2>2, <2>3 DEF Shares, OnAccepted, Reconcile, SendFails, Claim, ClaimFails, Reload
<1>3. QED  BY <1>1, <1>2, ReceiptKept

(* The pump. *)
LEMMA MarkHandle ==
    ASSUME PrekeyInv, MarkInv, KeysKept, NEW m \in msgs, Handle(m)
    PROVE MarkInv'
<1>0. SetupInv /\ ClientInv /\ GoodMessage(m, Minter, MayHold) /\ m \in Message
    BY MessageTyped DEF PrekeyInv, SetupInv
<1>1. job \in [Job -> Share]  BY <1>0 DEF ClientInv, ClientTypeOK
<1>2. CASE Import(m)
    <2>1. UNCHANGED <<attempted, job>> /\ msgs \ {m} \subseteq msgs'
        BY <1>2, AckedRest DEF Import
    <2>2. PackageCarried(m)  BY <1>0, <1>2, ImportKeys DEF PackageCarried
    <2>3. \A n \in msgs \ {m} : PackageCarried(n)  BY <2>1 DEF PackageCarried
    <2>4. QED  BY <2>1, <2>2, <2>3, MarkFrame
<1>3. CASE Miss(m)
    <2>1. UNCHANGED <<attempted, job, key>> /\ ~Opens(m)  BY <1>3 DEF Miss
    <2>2. m.kind = "package" => HasKey(m.to)
        BY <2>1, MissMeans DEF OnlyRepeatsMiss, HasKey
    <2>3. PackageCarried(m)  BY <2>1, <2>2 DEF PackageCarried, HasKey
    <2>4. msgs \ {m} \subseteq msgs'
        BY <1>3, AckedRest DEF Miss
    <2>5. \A n \in msgs \ {m} : PackageCarried(n)  BY <2>4 DEF PackageCarried
    <2>6. QED  BY <2>1, <2>3, <2>5, MarkFrame
<1>4. ASSUME m.kind # "package", msgs \ {m} \subseteq msgs'
      PROVE \A n \in msgs : PackageCarried(n)
    BY <1>4 DEF PackageCarried
<1>5. CASE OnReceipt(m) \/ \E b \in Tab : OnNudge(b, m)
    <2>1. /\ UNCHANGED <<attempted, job>>
          /\ m.kind # "package" /\ msgs \ {m} \subseteq msgs'
        BY <1>5, AckedRest DEF OnReceipt, OnNudge
    <2>2. QED  BY <1>4, <2>1, MarkFrame
<1>6. ASSUME NEW j \in Job, OnRequest(j, m) \/ OnJoin(j, m) PROVE MarkInv'
    <2>1. /\ UNCHANGED attempted
          /\ m.kind # "package" /\ msgs \ {m} \subseteq msgs'
        BY <1>6, AckedRest DEF OnRequest, OnJoin
    <2>2. \/ UNCHANGED job
          \/ StartShare(j, m.to, m.from, OneKey(m.to, m.thread), "request", m.thread)
          \/ StartShare(j, m.to, m.from, key[m.to], "link", NoId)
        BY <1>6 DEF OnRequest, OnJoin
    <2>3. CASE UNCHANGED job  BY <1>4, <2>1, <2>3, MarkFrame
    <2>4. CASE ~UNCHANGED job
        <3>1. \A i \in Job : ShareCarried(i)  BY <1>1, <2>2, <2>4, StartShareCarries
        <3>2. QED  BY <1>4, <2>1, <3>1, MarkKept
    <2>5. QED  BY <2>3, <2>4
<1>7. QED  BY <1>2, <1>3, <1>5, <1>6 DEF Handle

(* A receipt is posted when a package was opened, and believed. *)
LEMMA ReceiptHandle ==
    ASSUME PrekeyInv, ReceiptInv, KeysKept, MessageInv', NEW m \in msgs, Handle(m)
    PROVE ReceiptInv'
<1>0. /\ SetupInv /\ ClientInv /\ m \in Message /\ faults \in 0 .. MaxFaults
      /\ GoodMessage(m, Minter, MayHold)
    BY MessageTyped DEF PrekeyInv, SetupInv, ClientInv, ClientTypeOK
<1>1. CASE Import(m)
    <2> DEFINE receipt == Control("receipt", m.to, m.from, m.thread)
    <2>1. /\ UNCHANGED receipts
          /\ msgs' \subseteq msgs \cup (IF m.kind = "link" THEN {} ELSE {receipt})
        BY <1>0, <1>1, AckedFacts DEF Import
    <2>2. receipt.from = m.to  BY DEF Control
    <2> HIDE DEF receipt
    <2>3. ASSUME NEW n \in msgs', n.kind = "receipt" PROVE HasKey(n.from)'
        <3>1. CASE n \in msgs
            <4>1. n.from \in ChatDevice /\ HasKey(n.from)
                BY <2>3, <3>1 DEF ReceiptInv, MessageInv, GoodMessage, Message
            <4>2. QED  BY <4>1 DEF KeysKept
        <3>2. CASE n = receipt /\ m.kind # "link"
            <4>1. m.kind = "package"  BY <1>1, <3>2 DEF Import
            <4>2. HasKey(m.to)'  BY <1>0, <1>1, <4>1, ImportKeys
            <4>3. n.from = m.to  BY <2>2, <3>2
            <4>4. QED  BY <4>2, <4>3 DEF HasKey
        <3>3. QED  BY <2>1, <2>3, <3>1, <3>2
    <2>4. \A c, d \in ChatDevice, t \in Thread : <<t, d>> \in receipts'[c] => HasKey(d)'
        BY <2>1 DEF ReceiptInv, KeysKept
    <2>5. QED  BY <2>3, <2>4 DEF ReceiptInv
<1>2. CASE OnReceipt(m)
    <2>1. /\ m.kind = "receipt" /\ m.from \in ChatDevice /\ UNCHANGED key
          /\ receipts' = [receipts EXCEPT ![m.to] = @ \cup {<<m.thread, m.from>>}]
          /\ msgs' \subseteq msgs
        BY <1>0, <1>2, AckedFacts DEF OnReceipt, Message
    <2>2. HasKey(m.from)  BY <2>1 DEF ReceiptInv
    <2>3. ASSUME NEW c \in ChatDevice, NEW d \in ChatDevice, NEW t \in Thread,
                 <<t, d>> \in receipts'[c]
          PROVE HasKey(d)'
        <3>1. <<t, d>> \in receipts[c] \/ d = m.from
            BY <1>0, <2>1, <2>3 DEF ClientInv, ClientTypeOK
        <3>2. HasKey(d)  BY <2>2, <3>1 DEF ReceiptInv
        <3>3. QED  BY <3>2 DEF KeysKept
    <2>4. ASSUME NEW n \in msgs', n.kind = "receipt" PROVE HasKey(n.from)'
        BY <2>1, <2>4 DEF ReceiptInv, HasKey
    <2>5. QED  BY <2>3, <2>4 DEF ReceiptInv
<1>3. CASE Miss(m)
    <2> DEFINE ask == IF m.tries + 1 = AskAt /\ m.thread # NoId
                      THEN {Control("request", m.to, m.from, m.thread)} ELSE {}
    <2>1. /\ UNCHANGED receipts /\ m.kind # "receipt"
          /\ msgs' \subseteq msgs \cup {[m EXCEPT !.tries = @ + 1]} \cup ask
        BY <1>0, <1>3, AckedFacts DEF Miss
    <2>2. [m EXCEPT !.tries = @ + 1].kind # "receipt"  BY <1>0, <2>1 DEF Message
    <2>3. \A n \in ask : n.kind # "receipt"  BY ControlKind
    <2> HIDE DEF ask
    <2>4. QED  BY <2>1, <2>2, <2>3, ReceiptKept
<1>4. CASE \/ \E j \in Job : OnRequest(j, m) \/ OnJoin(j, m)
           \/ \E b \in Tab : OnNudge(b, m)
    <2>1. UNCHANGED receipts /\ msgs' \subseteq msgs
        BY <1>0, <1>4, AckedFacts DEF OnRequest, OnJoin, OnNudge
    <2>2. QED  BY <2>1, ReceiptKept
<1>5. QED  BY <1>1, <1>2, <1>3, <1>4 DEF Handle

(* Every step keeps the keys. *)
LEMMA KeysStay == ASSUME PrekeyInv, [Next]_vars PROVE KeysKept
<1>0. SetupInv  BY DEF PrekeyInv
<1>1. CASE UNCHANGED vars  BY <1>1 DEF vars, clientVars, KeysKept, HasKey
<1>2. CASE Threads  BY <1>0, <1>2, StartQuiet, InvitesQuiet, QuietKeeps DEF Threads
<1>3. CASE Shares
    <2>1. ASSUME NEW d \in ChatDevice, NEW to \in Holder, NEW k \in Prekey, Claim(d, to, k)
          PROVE KeysKept
        BY <2>1 DEF Claim, KeysKept, HasKey
    <2>2. QED  BY <1>0, <1>3, <2>1, SharesQuiet, QuietKeeps DEF Shares
<1>4. CASE Publications  BY <1>4, PublicationQuiet, QuietKeeps DEF Publications
<1>5. ASSUME NEW m \in msgs, Handle(m) PROVE KeysKept
    BY <1>0, <1>5, HandleQuiet, QuietKeeps
<1>6. ASSUME NEW d \in Joiner, Join(d) PROVE KeysKept
    BY <1>0, <1>6, JoinQuiet, QuietKeeps
<1>7. QED  BY <1>1, <1>2, <1>3, <1>4, <1>5, <1>6 DEF Next

(* What the proof carries along. *)
MarksInv == PrekeyInv /\ ReceiptInv /\ MarkInv

(* Every step preserves the marks. *)
LEMMA MarksStep == ASSUME MarksInv, [Next]_vars PROVE MarksInv'
<1>1. PrekeyInv /\ SetupInv /\ ReceiptInv /\ MarkInv  BY DEF MarksInv, PrekeyInv
<1>2. PrekeyInv' /\ KeysKept  BY <1>1, PrekeyStep, KeysStay
<1>3. MessageInv'  BY <1>2 DEF PrekeyInv, SetupInv, ClientInv
<1>4. CASE UNCHANGED vars
    <2>1. UNCHANGED <<key, job, msgs, attempted, receipts>>  BY <1>4 DEF vars, clientVars
    <2>2. QED  BY <1>1, <1>2, <1>3, <2>1, PackagesStay, MarkFrame, ReceiptKept DEF MarksInv
<1>5. CASE Threads \/ Publications \/ \E d \in Joiner : Join(d)
    BY <1>1, <1>2, <1>3, <1>5, MarkOthers DEF MarksInv
<1>6. CASE Shares
    BY <1>1, <1>2, <1>3, <1>6, MarkShares, ReceiptShares DEF MarksInv
<1>7. ASSUME NEW m \in msgs, Handle(m) PROVE MarksInv'
    BY <1>1, <1>2, <1>3, <1>7, MarkHandle, ReceiptHandle DEF MarksInv
<1>8. QED  BY <1>4, <1>5, <1>6, <1>7 DEF Next

(* The key of an accepted chat is never forgotten: what has no cause to be shared
   any more was attempted or confirmed, so it is under way or arrived. *)
THEOREM KeyIsRemembered == Spec => []KeyNotForgotten
<1>1. Init => MarksInv
    <2>1. ASSUME Init PROVE ReceiptInv /\ MarkInv
        BY <2>1 DEF Init, ReceiptInv, MarkInv
    <2>2. QED  BY <2>1, PrekeyInit DEF MarksInv
<1>2. MarksInv /\ [Next]_vars => MarksInv'  BY MarksStep
<1>3. MarksInv => KeyNotForgotten
    BY DEF MarksInv, ReceiptInv, MarkInv, KeyNotForgotten, Unconfirmed, HasKey
<1>4. QED  BY <1>1, <1>2, <1>3, PTL DEF Spec
=============================================================================
