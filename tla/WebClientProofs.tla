---------------------------- MODULE WebClientProofs ----------------------------
(***************************************************************************)
(* Proofs about the parts of the web client.                               *)
(*                                                                         *)
(* Of History, for any number of conversations, messages, size of a page   *)
(* and loads at the same time: the history that is shown has no holes.     *)
(*                                                                         *)
(* Of SessionClient, for any number of logins, requests, rotations and     *)
(* faults: a retry carries a newer token, and the page signs out by        *)
(* itself only for the causes SignedOutOnlyWhenRevoked names.              *)
(*                                                                         *)
(* Of their composition with SecretSetup, the types.                       *)
(***************************************************************************)
EXTENDS MCWebClient, SecretSetupProofs, WellFoundedInduction

-----------------------------------------------------------------------------
(* The history. *)

(* Message n is on the page, or is reached by the page of cursor m. *)
Reaches(page, m, n) == n \in page \/ (m.more /\ n < m.cursor)

(* No cursor is ahead of the messages that were sent. *)
CursorInv ==
    /\ meta.cursor <= Len(owner)
    /\ \A c \in Chat : saved[c].cursor <= Len(owner) /\ fetch[c].meta.cursor <= Len(owner)
    /\ \A l \in Load : load[l].cursor <= Len(owner) /\ load[l].meta.cursor <= Len(owner)

(* The answer on its way has, or reaches, every message up to its last one, and
   no message is missing between two of its own. *)
FetchedInv(c) ==
    LET page == fetch[c].page IN
    /\ page \subseteq Of(c)
    /\ page = {} => fetch[c].meta.cursor = 0 /\ upto[c] = 0
    /\ page # {} => \A n \in Of(c) : n <= Max(page) =>
          /\ Reaches(page, fetch[c].meta, n)
          /\ Min(page) <= n => n \in page

FetchInv == \A c \in Chat : fetch[c].pc = "read" => FetchedInv(c)

(* An older page has, or reaches, every message before its cursor. *)
LoadedInv(l) ==
    \A n \in Of(load[l].conv) : n < load[l].cursor => Reaches(load[l].page, load[l].meta, n)

LoadInv ==
    \A l \in Load :
        /\ load[l].pc # "none" => load[l].conv \in Chat /\ load[l].cursor # 0
        /\ load[l].pc = "read" => LoadedInv(l)

UptoInv == \A c \in Chat : upto[c] \in Of(c) \cup {0}

(* Nothing was fetched: what is cached are at most a page of events, and the
   next answer starts the pagination. *)
FilledInv ==
    \A c \in Chat \ skips : upto[c] = 0 /\ Cached(c) # {} =>
        saved[c].cursor = 0 /\ Cardinality(Cached(c)) <= Page

HistoryInv ==
    /\ HistoryTypeOK
    /\ CursorInv
    /\ FetchInv
    /\ LoadInv
    /\ UptoInv
    /\ FilledInv
    /\ NoHoles

-----------------------------------------------------------------------------
Less == {p \in Nat \X Nat : p[1] < p[2]}

(* Every set of numbers has a least element. *)
LEMMA LeastNat ==
    ASSUME NEW T \in SUBSET Nat, T # {}
    PROVE \E n \in T : \A m \in T : n <= m
<1>1. OpToRel(<, Nat) = Less
    BY Zenon DEF OpToRel, Less
<1>2. IsWellFoundedOn(Less, Nat)
    BY <1>1, NatLessThanWellFounded, Zenon
<1>3. PICK n \in T : \A m \in T : ~ (<<m, n>> \in Less)
    BY <1>2, WFMin
<1>4. ASSUME NEW m \in T PROVE n <= m
    <2>1. n \in Nat /\ m \in Nat  OBVIOUS
    <2>2. ~ (<<m, n>> \in Less)  BY <1>3
    <2>3. ~ (m < n)  BY <2>1, <2>2 DEF Less
    <2>4. QED  BY <2>1, <2>3
<1>5. QED  BY <1>4

(* Every set of numbers with a bound has a greatest element. *)
LEMMA GreatestNat ==
    ASSUME NEW b \in Nat, NEW T \in SUBSET (0 .. b), T # {}
    PROVE \E n \in T : \A m \in T : m <= n
<1> DEFINE U == {k \in Nat : b - k \in T}
<1>1. U # {}
    <2>1. PICK m \in T : TRUE  OBVIOUS
    <2>2. b - m \in Nat /\ b - (b - m) = m  BY <2>1
    <2>3. QED  BY <2>1, <2>2
<1>2. PICK k \in U : \A j \in U : k <= j
    <2>1. U \in SUBSET Nat  OBVIOUS
    <2> HIDE DEF U
    <2>2. QED  BY <1>1, <2>1, LeastNat
<1>3. ASSUME NEW m \in T PROVE m <= b - k
    <2>1. b - m \in Nat /\ b - (b - m) = m  OBVIOUS
    <2>2. b - m \in U  BY <2>1
    <2>3. k <= b - m /\ k \in Nat  BY <1>2, <2>2
    <2>4. QED  BY <2>3
<1>4. b - k \in T  OBVIOUS
<1>5. QED  BY <1>3, <1>4

(* A set of messages has a first and a last one. *)
LEMMA MinMaxFacts ==
    ASSUME NEW n \in Nat, NEW S \in SUBSET (1 .. n), S # {}
    PROVE /\ Min(S) \in S /\ \A x \in S : Min(S) <= x
          /\ Max(S) \in S /\ \A x \in S : x <= Max(S)
<1>1. S \in SUBSET Nat /\ S \in SUBSET (0 .. n)  OBVIOUS
<1>2. \E x \in S : \A y \in S : x <= y  BY <1>1, LeastNat
<1>3. \E x \in S : \A y \in S : x >= y  BY <1>1, GreatestNat
<1>4. Min(S) \in S /\ \A x \in S : Min(S) <= x  BY <1>2 DEF Min
<1>5. Max(S) \in S /\ \A x \in S : x <= Max(S)  BY <1>1, <1>3 DEF Max
<1>6. QED  BY <1>4, <1>5

(* A page has the last messages of ms; those it leaves out are before its cursor. *)
LEMMA PageFacts ==
    ASSUME NEW n \in Nat, NEW ms \in SUBSET (1 .. n)
    PROVE /\ PageOf(ms) \subseteq ms
          /\ PageOf(ms) = {} => ms = {} /\ MetaOf(ms) = NoMeta
          /\ \A p \in PageOf(ms), m \in ms : p <= m => m \in PageOf(ms)
          /\ \A m \in ms \ PageOf(ms) : MetaOf(ms).more /\ m < MetaOf(ms).cursor
          /\ MetaOf(ms).cursor \in PageOf(ms) \cup {0} /\ MetaOf(ms).more \in BOOLEAN
          /\ MetaOf(ms) \in [more : BOOLEAN, cursor : 0 .. n]
<1> DEFINE Above(m) == {k \in ms : k > m}
<1>0. Page \in Nat \ {0}  BY HistoryBounds
<1>1. IsFiniteSet(ms) /\ Cardinality(ms) \in Nat
    <2>1. IsFiniteSet(1 .. n)  BY FS_Interval
    <2>2. QED  BY <2>1, FS_Subset, FS_CardinalityType
<1>2. \A m \in ms : IsFiniteSet(Above(m)) /\ Cardinality(Above(m)) \in Nat
    BY <1>1, FS_Subset, FS_CardinalityType
<1>3. PageOf(ms) = {m \in ms : Cardinality(Above(m)) < Page}
    BY DEF PageOf
<1>4. \A p \in PageOf(ms), m \in ms : p <= m => m \in PageOf(ms)
    <2>1. ASSUME NEW p \in PageOf(ms), NEW m \in ms, p <= m PROVE m \in PageOf(ms)
        <3>0. p \in ms  BY <1>3
        <3>1. ASSUME NEW k \in Above(m) PROVE k \in Above(p)
            <4>1. k \in ms /\ k > m  OBVIOUS
            <4>2. k \in Nat /\ p \in Nat /\ m \in Nat  BY <3>0, <4>1
            <4>3. k > p  BY <2>1, <4>1, <4>2
            <4>4. QED  BY <4>1, <4>3
        <3>2. p \in ms /\ Cardinality(Above(p)) < Page  BY <1>3
        <3>3. Cardinality(Above(m)) <= Cardinality(Above(p))  BY <1>2, <3>0, <3>1, FS_Subset
        <3>4. Cardinality(Above(m)) < Page  BY <1>0, <1>2, <3>2, <3>3
        <3>5. QED  BY <1>3, <3>4
    <2>2. QED  BY <2>1
<1>5. ms # {} => PageOf(ms) # {}
    <2>1. SUFFICES ASSUME ms # {} PROVE PageOf(ms) # {}
        OBVIOUS
    <2>2. Max(ms) \in ms /\ \A x \in ms : x <= Max(ms)  BY <2>1, MinMaxFacts
    <2>3. Above(Max(ms)) = {}
        <3>1. \A x \in ms : x \in Nat  OBVIOUS
        <3>2. ASSUME NEW x \in ms PROVE ~ (x > Max(ms))
            <4>1. x \in Nat /\ Max(ms) \in Nat /\ x <= Max(ms)  BY <2>2, <3>1
            <4> HIDE DEF Above
            <4>2. QED  BY <4>1
        <3>3. QED  BY <3>2
    <2>4. Cardinality(Above(Max(ms))) = 0  BY <2>3, FS_EmptySet
    <2>5. Max(ms) \in PageOf(ms)  BY <1>0, <1>3, <2>2, <2>4
    <2>6. QED  BY <2>5
<1>6. \A m \in ms \ PageOf(ms) : Cardinality(ms) > Page
    <2>1. ASSUME NEW m \in ms \ PageOf(ms) PROVE Cardinality(ms) > Page
        <3>1. ~ (Cardinality(Above(m)) < Page)  BY <1>3
        <3>2. Above(m) \subseteq ms \ {m}  OBVIOUS
        <3>3. IsFiniteSet(ms \ {m}) /\ Cardinality(ms \ {m}) = Cardinality(ms) - 1
            BY <1>1, FS_RemoveElement
        <3>4. Cardinality(Above(m)) <= Cardinality(ms \ {m})  BY <3>2, <3>3, FS_Subset
        <3>5. QED  BY <1>0, <1>1, <1>2, <3>1, <3>3, <3>4
    <2>2. QED  BY <2>1
<1>7. PageOf(ms) \in SUBSET (1 .. n) /\ PageOf(ms) \subseteq ms  BY <1>3
<1>8. \A m \in ms \ PageOf(ms) : PageOf(ms) # {} /\ m < Min(PageOf(ms))
    <2>1. ASSUME NEW m \in ms \ PageOf(ms) PROVE PageOf(ms) # {} /\ m < Min(PageOf(ms))
        <3>1. PageOf(ms) # {}  BY <1>5
        <3>2. Min(PageOf(ms)) \in PageOf(ms)  BY <1>7, <3>1, MinMaxFacts
        <3>3. ~ (Min(PageOf(ms)) <= m)  BY <1>4, <3>2
        <3>4. Min(PageOf(ms)) \in Nat /\ m \in Nat  BY <1>7, <3>2
        <3>5. QED  BY <3>1, <3>3, <3>4
    <2>2. QED  BY <2>1
<1>9. CASE Cardinality(ms) > Page
    <2>1. MetaOf(ms) = [more |-> TRUE, cursor |-> Min(PageOf(ms))]  BY <1>9 DEF MetaOf
    <2>2. ms # {}  BY <1>0, <1>9, FS_EmptySet
    <2>3. Min(PageOf(ms)) \in PageOf(ms)  BY <1>5, <1>7, <2>2, MinMaxFacts
    <2>4. QED  BY <1>4, <1>5, <1>7, <1>8, <2>1, <2>2, <2>3
<1>10. CASE ~ (Cardinality(ms) > Page)
    <2>1. MetaOf(ms) = NoMeta  BY <1>10 DEF MetaOf
    <2>2. ms \ PageOf(ms) = {}  BY <1>6, <1>10
    <2>3. QED  BY <1>4, <1>5, <1>7, <2>1, <2>2 DEF NoMeta
<1>11. QED  BY <1>9, <1>10

-----------------------------------------------------------------------------
(* The messages of a conversation, and what is cached of it. *)
LEMMA OfFacts ==
    ASSUME HistoryTypeOK
    PROVE /\ MaxMsgs \in Nat /\ Page \in Nat \ {0}
          /\ Len(owner) \in Nat /\ Len(owner) <= MaxMsgs
          /\ \A c \in Chat : Of(c) \in SUBSET (1 .. Len(owner)) /\ Of(c) \in SUBSET Msg
          /\ \A c \in Chat : Cached(c) \in SUBSET Msg
<1>1. MaxMsgs \in Nat /\ Page \in Nat \ {0}  BY HistoryBounds
<1>2. Len(owner) \in Nat /\ Len(owner) <= MaxMsgs  BY DEF HistoryTypeOK
<1>3. \A c \in Chat : Of(c) \in SUBSET (1 .. Len(owner)) /\ Of(c) \in SUBSET Msg
    BY <1>1, <1>2 DEF Of, Msg
<1>4. \A c \in Chat : Cached(c) \in SUBSET Msg
    BY DEF HistoryTypeOK, Cached
<1>5. QED  BY <1>1, <1>2, <1>3, <1>4

(* What is added to the cache of one conversation leaves those of the others. *)
LEMMA CacheFacts ==
    ASSUME HistoryTypeOK, NEW c \in Chat, NEW S \in SUBSET Msg,
           cache' = [cache EXCEPT ![c] = Cached(c) \cup S]
    PROVE /\ cache' \in [Chat -> {NoCache} \cup SUBSET Msg]
          /\ Cached(c)' = Cached(c) \cup S
          /\ \A d \in Chat \ {c} : Cached(d)' = Cached(d)
<1>1. Cached(c) \in SUBSET Msg /\ MaxMsgs \in Nat  BY OfFacts
<1>2. cache \in [Chat -> {NoCache} \cup SUBSET Msg]  BY DEF HistoryTypeOK
<1>3. Cached(c) \cup S # NoCache  BY <1>1 DEF Msg, NoCache
<1>4. cache'[c] = Cached(c) \cup S /\ \A d \in Chat \ {c} : cache'[d] = cache[d]
    BY <1>2
<1>5. QED  BY <1>1, <1>2, <1>3, <1>4 DEF Cached

(* A step that changes neither the messages nor what is cached. *)
LEMMA CacheFrame ==
    ASSUME HistoryInv, UNCHANGED <<owner, cache, saved, upto, skips>>
    PROVE /\ \A c \in Chat : Of(c)' = Of(c)
          /\ UptoInv' /\ FilledInv' /\ NoHoles'
<1>1. \A c \in Chat : Of(c)' = Of(c) /\ Cached(c)' = Cached(c)  BY DEF Of, Cached
<1>2. UptoInv'  BY <1>1 DEF HistoryInv, UptoInv
<1>3. FilledInv'  BY <1>1 DEF HistoryInv, FilledInv
<1>4. NoHoles'  BY <1>1 DEF HistoryInv, NoHoles
<1>5. QED  BY <1>1, <1>2, <1>3, <1>4

(* A step that leaves the messages and the fetches, or the older pages. *)
LEMMA FetchFrame ==
    ASSUME FetchInv, UNCHANGED <<owner, fetch, upto>>
    PROVE FetchInv'
<1>1. \A c \in Chat : Of(c)' = Of(c)  BY DEF Of
<1>2. QED  BY <1>1 DEF FetchInv, FetchedInv

(* So what the answers with older pages promise, as long as nothing was sent. *)
LEMMA LoadFrame ==
    ASSUME LoadInv, UNCHANGED <<owner, load>>
    PROVE LoadInv'
<1>1. \A c : Of(c)' = Of(c)  BY DEF Of
<1>2. QED  BY <1>1 DEF LoadInv, LoadedInv

-----------------------------------------------------------------------------

(* The initial states: nothing is cached, no cursor is known. *)
LEMMA InitHistory == HistoryInit => HistoryInv
<1> SUFFICES ASSUME HistoryInit PROVE HistoryInv
    OBVIOUS
<1>0. MaxMsgs \in Nat /\ MaxLoadFaults \in Nat  BY HistoryBounds
<1>1. owner \in Seq(Chat) /\ Len(owner) <= MaxMsgs
    <2>1. PICK n \in 0 .. MaxMsgs : owner \in [1 .. n -> Chat]  BY DEF HistoryInit
    <2>2. n \in Nat /\ n <= MaxMsgs  BY <1>0, <2>1
    <2>3. owner \in Seq(Chat) /\ Len(owner) = n  BY <2>1, <2>2
    <2>4. QED  BY <2>2, <2>3
<1>2. NoMeta \in Meta  BY <1>0 DEF NoMeta, Meta
<1>3. NoFetch \in Fetch  BY <1>2 DEF NoFetch, Fetch
<1>4. NoLoad \in OlderLoad  BY <1>0, <1>2 DEF NoLoad, OlderLoad
<1>5. HistoryTypeOK
    <2>1. upto \in [Chat -> 0 .. MaxMsgs] /\ loadFaults \in 0 .. MaxLoadFaults
        BY <1>0 DEF HistoryInit
    <2>2. cache \in [Chat -> {NoCache} \cup SUBSET Msg] /\ skips \subseteq Chat
        BY DEF HistoryInit
    <2>3. fetch \in [Chat -> Fetch] /\ load \in [Load -> OlderLoad]
        BY <1>3, <1>4 DEF HistoryInit
    <2>4. saved \in [Chat -> Meta] /\ meta \in Meta /\ loading \in BOOLEAN
        BY <1>2 DEF HistoryInit
    <2>5. active \in Chat \cup {NoChat}  BY DEF HistoryInit
    <2>6. QED  BY <1>1, <2>1, <2>2, <2>3, <2>4, <2>5 DEF HistoryTypeOK
<1>6. Len(owner) \in Nat  BY <1>1
<1>7. CursorInv  BY <1>6 DEF HistoryInit, CursorInv, NoMeta, NoFetch, NoLoad
<1>8. FetchInv  BY DEF HistoryInit, FetchInv, NoFetch
<1>9. LoadInv  BY DEF HistoryInit, LoadInv, NoLoad
<1>10. UptoInv  BY DEF HistoryInit, UptoInv
<1>11. \A c \in Chat : Cached(c) = {}  BY DEF HistoryInit, Cached
<1>12. FilledInv  BY <1>11 DEF FilledInv
<1>13. NoHoles
    <2>1. SUFFICES ASSUME NEW c \in Chat, NEW m \in Of(c), m <= upto[c] PROVE FALSE
        BY DEF NoHoles
    <2>2. upto[c] = 0  BY DEF HistoryInit
    <2>3. m \in 1 .. Len(owner)  BY DEF Of
    <2>4. QED  BY <1>6, <2>1, <2>2, <2>3
<1>14. QED  BY <1>5, <1>7, <1>8, <1>9, <1>10, <1>12, <1>13 DEF HistoryInv

-----------------------------------------------------------------------------

(* A message is sent, and its event reaches the page or is lost: it is the newest,
   so no cursor and no page that is on its way passes it. *)
LEMMA ArriveStep ==
    ASSUME HistoryInv, NEW c \in Chat, NEW seen \in BOOLEAN, Arrive(c, seen)
    PROVE HistoryInv'
<1> USE DEF HistoryInv
<1> DEFINE new == Len(owner) + 1
<1>1. HistoryTypeOK /\ MaxMsgs \in Nat /\ Page \in Nat \ {0} /\ Len(owner) \in Nat
      /\ \A d \in Chat : Of(d) \in SUBSET (1 .. Len(owner)) /\ Cached(d) \in SUBSET Msg
    BY OfFacts
<1>2. new \in Msg /\ new <= MaxMsgs /\ new \in Nat  BY <1>1 DEF Arrive, Msg
<1>3. owner' \in Seq(Chat) /\ Len(owner') = new
      /\ owner'[new] = c /\ \A m \in 1 .. Len(owner) : owner'[m] = owner[m]
    BY <1>1 DEF Arrive, HistoryTypeOK
<1>4. 1 .. Len(owner') = (1 .. Len(owner)) \cup {new}  BY <1>1, <1>3
<1>5. Of(c)' = Of(c) \cup {new} /\ \A d \in Chat \ {c} : Of(d)' = Of(d)
    <2> HIDE DEF new
    <2>1. QED  BY <1>3, <1>4 DEF Of
<1>6. \A d \in Chat : Of(d) \subseteq Of(d)' /\ \A m \in Of(d)' : m \in Of(d) \/ m = new
    BY <1>5
<1>7. UNCHANGED <<active, saved, meta, loading, load, loadFaults, upto>>  BY DEF Arrive
<1>8. /\ cache' \in [Chat -> {NoCache} \cup SUBSET Msg]
      /\ \A d \in Chat : Cached(d) \subseteq Cached(d)'
      /\ Cached(c)' \in {Cached(c), Cached(c) \cup {new}}
      /\ \A d \in Chat \ {c} : Cached(d)' = Cached(d)
    <2>1. CASE seen
        <3>1. cache' = [cache EXCEPT ![c] = Cached(c) \cup {new}]  BY <2>1 DEF Arrive
        <3>2. {new} \in SUBSET Msg  BY <1>2
        <3> HIDE DEF new
        <3>3. Cached(c)' = Cached(c) \cup {new} /\ \A d \in Chat \ {c} : Cached(d)' = Cached(d)
            BY <1>1, <3>1, <3>2, CacheFacts
        <3>4. cache' \in [Chat -> {NoCache} \cup SUBSET Msg]
            BY <1>1, <3>1, <3>2, CacheFacts
        <3>5. QED  BY <3>3, <3>4
    <2>2. CASE ~ seen
        <3>1. cache' = cache  BY <2>2 DEF Arrive
        <3>2. QED  BY <1>1, <3>1 DEF HistoryTypeOK, Cached
    <2>3. QED  BY <2>1, <2>2
<1>9. /\ fetch' \in [Chat -> Fetch]
      /\ \A d \in Chat : fetch'[d] = fetch[d] \/ fetch'[d] = [NoFetch EXCEPT !.pc = "sent"]
    <2>1. [NoFetch EXCEPT !.pc = "sent"] \in Fetch
        <3>1. [NoFetch EXCEPT !.pc = "sent"] = [pc |-> "sent", page |-> {}, meta |-> NoMeta]
            BY DEF NoFetch
        <3>2. NoMeta \in Meta  BY <1>1 DEF NoMeta, Meta
        <3>3. QED  BY <3>1, <3>2 DEF Fetch
    <2>2. fetch \in [Chat -> Fetch]  BY <1>1 DEF HistoryTypeOK
    <2>3. fetch' = fetch \/ fetch' = [fetch EXCEPT ![c] = [NoFetch EXCEPT !.pc = "sent"]]
        BY DEF Arrive
    <2>4. QED  BY <2>1, <2>2, <2>3
<1>10. skips' \subseteq Chat /\ skips \subseteq skips'
    BY <1>1 DEF Arrive, HistoryTypeOK
<1>11. HistoryTypeOK'
    BY <1>1, <1>2, <1>3, <1>7, <1>8, <1>9, <1>10 DEF HistoryTypeOK
<1>12. CursorInv'
    <2>1. saved \in [Chat -> Meta] /\ meta \in Meta /\ fetch \in [Chat -> Fetch]
          /\ load \in [Load -> OlderLoad]
        BY <1>1 DEF HistoryTypeOK
    <2>2. meta.cursor \in Nat /\ \A d \in Chat : saved[d].cursor \in Nat /\ fetch[d].meta.cursor \in Nat
        BY <1>1, <2>1 DEF Meta, Fetch
    <2>3. \A l \in Load : load[l].cursor \in Nat /\ load[l].meta.cursor \in Nat
        BY <1>1, <2>1 DEF Meta, OlderLoad
    <2>4. \A d \in Chat : fetch'[d].meta = fetch[d].meta \/ fetch'[d].meta = NoMeta
        BY <1>9 DEF NoFetch
    <2>5. \A d \in Chat : fetch'[d].meta.cursor <= Len(owner')
        BY <1>1, <1>3, <2>2, <2>4 DEF CursorInv, NoMeta
    <2>6. \A x \in Nat : x <= Len(owner) => x <= Len(owner')  BY <1>1, <1>3
    <2>7. QED  BY <1>7, <2>2, <2>3, <2>5, <2>6 DEF CursorInv
<1>13. FetchInv'
    <2>1. SUFFICES ASSUME NEW d \in Chat, fetch'[d].pc = "read" PROVE FetchedInv(d)'
        BY DEF FetchInv
    <2>2. fetch'[d] = fetch[d] /\ FetchedInv(d)  BY <1>9, <2>1 DEF FetchInv, NoFetch
    <2>3. fetch[d].page \subseteq Of(d)' /\ upto' = upto
        BY <1>6, <1>7, <2>2 DEF FetchedInv
    <2>4. ASSUME fetch[d].page # {} PROVE ~ (new <= Max(fetch[d].page))
        <3>1. fetch[d].page \in SUBSET (1 .. Len(owner))  BY <1>1, <2>2 DEF FetchedInv
        <3>2. Max(fetch[d].page) \in 1 .. Len(owner)  BY <1>1, <2>4, <3>1, MinMaxFacts
        <3>3. QED  BY <1>1, <3>2
    <2>5. \A n \in Of(d)' : fetch[d].page # {} /\ n <= Max(fetch[d].page) => n \in Of(d)
        <3> HIDE DEF new
        <3>1. QED  BY <1>6, <2>4
    <2>6. QED  BY <2>2, <2>3, <2>5 DEF FetchedInv
<1>14. LoadInv'
    <2>1. SUFFICES ASSUME NEW l \in Load, load[l].pc = "read" PROVE LoadedInv(l)'
        BY <1>7 DEF LoadInv
    <2>2. PICK k \in Chat : k = load[l].conv  BY <2>1 DEF LoadInv
    <2>3. \A n \in Of(k) : n < load[l].cursor => Reaches(load[l].page, load[l].meta, n)
        BY <2>1, <2>2 DEF LoadInv, LoadedInv
    <2>4. ~ (new < load[l].cursor)
        <3>1. load[l].cursor \in Nat  BY <1>1 DEF HistoryTypeOK, OlderLoad
        <3>2. load[l].cursor <= Len(owner)  BY DEF CursorInv
        <3>3. QED  BY <1>1, <3>1, <3>2
    <2>5. \A n \in Of(k)' : n < load[l].cursor => Reaches(load[l].page, load[l].meta, n)
        <3> HIDE DEF new
        <3>1. QED  BY <1>6, <2>3, <2>4
    <2>6. load' = load /\ k = load'[l].conv  BY <1>7, <2>2
    <2>7. QED  BY <2>2, <2>5, <2>6 DEF LoadedInv
<1>15. UptoInv'  BY <1>6, <1>7 DEF UptoInv
<1>16. FilledInv'
    <2>1. SUFFICES ASSUME NEW d \in Chat, d \notin skips', upto[d] = 0, Cached(d)' # {}
                   PROVE saved[d].cursor = 0 /\ Cardinality(Cached(d)') <= Page
        BY <1>7 DEF FilledInv
    <2>2. d \notin skips  BY <1>10, <2>1
    <2>3. CASE Cached(d)' = Cached(d)
        BY <2>1, <2>2, <2>3 DEF FilledInv
    <2>4. CASE Cached(d)' # Cached(d)
        <3>1. d = c /\ Cached(c)' = Cached(c) \cup {new}  BY <1>8, <2>4
        <3>2. seen  BY <2>4 DEF Arrive, Cached
        <3>3. ~ FilledByEvents(c)  BY <2>1, <3>1, <3>2 DEF Arrive
        <3>4. saved[c].cursor = 0 /\ ~ (Cardinality(Cached(c)) >= Page)
            BY <2>1, <3>1, <3>3 DEF FilledByEvents
        <3>5. IsFiniteSet(Cached(c)) /\ Cardinality(Cached(c)) \in Nat
            <4>1. IsFiniteSet(Msg)  BY <1>1, FS_Interval DEF Msg
            <4>2. QED  BY <1>1, <4>1, FS_Subset, FS_CardinalityType
        <3>6. Cardinality(Cached(c) \cup {new}) <= Cardinality(Cached(c)) + 1
            <4>1. new \notin Cached(c)  BY <2>4, <3>1
            <4>2. Cardinality(Cached(c) \cup {new}) = Cardinality(Cached(c)) + 1
                BY <3>5, <4>1, FS_AddElement
            <4>3. QED  BY <3>5, <4>2
        <3>7. Cardinality(Cached(c) \cup {new}) \in Nat
            BY <3>5, FS_AddElement, FS_CardinalityType
        <3> HIDE DEF new
        <3>8. QED  BY <1>1, <3>1, <3>4, <3>5, <3>6, <3>7
    <2>5. QED  BY <2>3, <2>4
<1>17. NoHoles'
    <2>1. SUFFICES ASSUME NEW d \in Chat, d \notin skips', NEW m \in Of(d)', m <= upto[d]
                   PROVE m \in Cached(d)' \/ (saved[d].more /\ m < saved[d].cursor)
        BY <1>7 DEF NoHoles
    <2>2. upto[d] \in Of(d) \cup {0}  BY DEF UptoInv
    <2>3. ~ (new <= upto[d])  BY <1>1, <2>2
    <2>4. m \in Of(d)
        <3> HIDE DEF new
        <3>1. QED  BY <1>6, <2>1, <2>3
    <2>5. d \notin skips  BY <1>10, <2>1
    <2>6. m \in Cached(d) \/ (saved[d].more /\ m < saved[d].cursor)
        BY <2>1, <2>4, <2>5 DEF NoHoles
    <2>7. QED  BY <1>8, <2>6
<1>18. QED  BY <1>11, <1>12, <1>13, <1>14, <1>15, <1>16, <1>17

(* Another conversation is selected: its cursor is taken from where it was saved. *)
LEMMA SelectStep ==
    ASSUME HistoryInv, NEW c \in Chat, Select(c)
    PROVE HistoryInv'
<1> USE DEF HistoryInv
<1>1. UNCHANGED <<owner, cache, saved, load, loadFaults, upto, skips>>  BY DEF Select
<1>2. fetch \in [Chat -> Fetch] /\ saved \in [Chat -> Meta]  BY DEF HistoryTypeOK
<1>3. fetch' = fetch \/ fetch' = [fetch EXCEPT ![c].pc = "sent"]  BY DEF Select
<1>4. /\ fetch' \in [Chat -> Fetch]
      /\ \A d \in Chat : fetch'[d].meta = fetch[d].meta
      /\ \A d \in Chat : fetch'[d] = fetch[d] \/ fetch'[d].pc = "sent"
    BY <1>2, <1>3 DEF Fetch
<1>5. HistoryTypeOK'  BY <1>1, <1>2, <1>4 DEF Select, HistoryTypeOK
<1>6. CursorInv'  BY <1>1, <1>4 DEF Select, CursorInv
<1>7. FetchInv'
    <2>1. \A d \in Chat : Of(d)' = Of(d)  BY <1>1 DEF Of
    <2>2. QED  BY <1>1, <1>4, <2>1 DEF FetchInv, FetchedInv
<1>8. LoadInv'  BY <1>1, LoadFrame
<1>9. UptoInv' /\ FilledInv' /\ NoHoles'  BY <1>1, CacheFrame
<1>10. QED  BY <1>5, <1>6, <1>7, <1>8, <1>9

(* The page asks for the newest messages again; nothing that is shown changes. *)
LEMMA PollStep ==
    ASSUME HistoryInv, Poll
    PROVE HistoryInv'
<1> USE DEF HistoryInv
<1>1. UNCHANGED <<owner, active, cache, saved, meta, loading, load, loadFaults, upto, skips>>
    BY DEF Poll
<1>2. fetch \in [Chat -> Fetch] /\ active \in Chat  BY DEF Poll, HistoryTypeOK
<1>3. /\ fetch' \in [Chat -> Fetch]
      /\ \A d \in Chat : fetch'[d].meta = fetch[d].meta
      /\ \A d \in Chat : fetch'[d] = fetch[d] \/ fetch'[d].pc = "sent"
    BY <1>2 DEF Poll, Fetch
<1>4. HistoryTypeOK'  BY <1>1, <1>3 DEF HistoryTypeOK
<1>5. CursorInv'  BY <1>1, <1>3 DEF CursorInv
<1>6. FetchInv'
    <2>1. \A d \in Chat : Of(d)' = Of(d)  BY <1>1 DEF Of
    <2>2. QED  BY <1>1, <1>3, <2>1 DEF FetchInv, FetchedInv
<1>7. LoadInv'  BY <1>1, LoadFrame
<1>8. UptoInv' /\ FilledInv' /\ NoHoles'  BY <1>1, CacheFrame
<1>9. QED  BY <1>4, <1>5, <1>6, <1>7, <1>8

(* The server reads the newest page: what it promises is what PageFacts says. *)
LEMMA FetchReadStep ==
    ASSUME HistoryInv, NEW c \in Chat, FetchRead(c)
    PROVE HistoryInv'
<1> USE DEF HistoryInv
<1> DEFINE page == PageOf(Of(c))
           read == MetaOf(Of(c))
<1>1. UNCHANGED <<owner, active, cache, saved, meta, loading, load, loadFaults, upto, skips>>
    BY DEF FetchRead
<1>2. HistoryTypeOK /\ MaxMsgs \in Nat /\ Len(owner) \in Nat /\ Len(owner) <= MaxMsgs
      /\ Of(c) \in SUBSET (1 .. Len(owner))
    BY OfFacts
<1>3. /\ page \subseteq Of(c)
      /\ page = {} => Of(c) = {} /\ read = NoMeta
      /\ \A p \in page, m \in Of(c) : p <= m => m \in page
      /\ \A m \in Of(c) \ page : read.more /\ m < read.cursor
      /\ read \in [more : BOOLEAN, cursor : 0 .. Len(owner)]
    BY <1>2, PageFacts
<1>4. fetch' = [fetch EXCEPT ![c] = [pc |-> "read", page |-> page, meta |-> read]]
    BY DEF FetchRead
<1> HIDE DEF page, read
<1>5. read.cursor \in Nat /\ read.cursor <= Len(owner) /\ read \in Meta
    BY <1>2, <1>3 DEF Meta
<1>6. [pc |-> "read", page |-> page, meta |-> read] \in Fetch
    BY <1>2, <1>3, <1>5 DEF Fetch, Msg
<1>7. fetch \in [Chat -> Fetch]  BY DEF HistoryTypeOK
<1>8. /\ fetch' \in [Chat -> Fetch]
      /\ fetch'[c] = [pc |-> "read", page |-> page, meta |-> read]
      /\ \A d \in Chat \ {c} : fetch'[d] = fetch[d]
    BY <1>4, <1>6, <1>7
<1>9. HistoryTypeOK'  BY <1>1, <1>8 DEF HistoryTypeOK
<1>10. CursorInv'
    <2>1. \A d \in Chat : fetch'[d].meta.cursor <= Len(owner)
        BY <1>5, <1>8 DEF CursorInv
    <2>2. QED  BY <1>1, <2>1 DEF CursorInv
<1>11. \A d \in Chat : Of(d)' = Of(d)  BY <1>1 DEF Of
<1>12. FetchInv'
    <2>1. SUFFICES ASSUME NEW d \in Chat, fetch'[d].pc = "read" PROVE FetchedInv(d)'
        BY DEF FetchInv
    <2>2. CASE d # c
        BY <1>1, <1>8, <1>11, <2>1, <2>2 DEF FetchInv, FetchedInv
    <2>3. CASE d = c
        <3>1. page = {} => read.cursor = 0 /\ upto[c] = 0
            BY <1>3 DEF UptoInv, NoMeta
        <3>2. ASSUME page # {}, NEW n \in Of(c) PROVE Min(page) <= n => n \in page
            <4>1. page \in SUBSET (1 .. Len(owner))  BY <1>2, <1>3
            <4>2. Min(page) \in page  BY <1>2, <3>2, <4>1, MinMaxFacts
            <4>3. QED  BY <1>3, <4>2
        <3>3. \A n \in Of(c) : Reaches(page, read, n)  BY <1>3 DEF Reaches
        <3>4. fetch'[c].page = page /\ fetch'[c].meta = read /\ upto' = upto  BY <1>1, <1>8
        <3>5. QED  BY <1>3, <1>11, <2>3, <3>1, <3>2, <3>3, <3>4 DEF FetchedInv
    <2>4. QED  BY <2>2, <2>3
<1>13. LoadInv'  BY <1>1, LoadFrame
<1>14. UptoInv' /\ FilledInv' /\ NoHoles'  BY <1>1, CacheFrame
<1>15. QED  BY <1>9, <1>10, <1>12, <1>13, <1>14

(* A fetch is lost, and with it what it promised. *)
LEMMA FetchFailsStep ==
    ASSUME HistoryInv, NEW c \in Chat, FetchFails(c)
    PROVE HistoryInv'
<1> USE DEF HistoryInv
<1>1. UNCHANGED <<owner, active, cache, saved, meta, loading, load, upto, skips>>
    BY DEF FetchFails
<1>2. MaxMsgs \in Nat /\ Len(owner) \in Nat /\ MaxLoadFaults \in Nat
    BY HistoryBounds, OfFacts
<1>3. fetch \in [Chat -> Fetch] /\ NoFetch \in Fetch
    BY <1>2 DEF HistoryTypeOK, NoFetch, Fetch, NoMeta, Meta
<1>4. /\ fetch' \in [Chat -> Fetch]
      /\ fetch'[c] = NoFetch /\ \A d \in Chat \ {c} : fetch'[d] = fetch[d]
    BY <1>3 DEF FetchFails
<1>5. loadFaults' \in 0 .. MaxLoadFaults  BY <1>2 DEF FetchFails, HistoryTypeOK
<1>6. HistoryTypeOK'  BY <1>1, <1>4, <1>5 DEF HistoryTypeOK
<1>7. CursorInv'
    <2>1. \A d \in Chat : fetch'[d].meta.cursor <= Len(owner)
        BY <1>2, <1>4 DEF CursorInv, NoFetch, NoMeta
    <2>2. QED  BY <1>1, <2>1 DEF CursorInv
<1>8. FetchInv'
    <2>1. \A d \in Chat : Of(d)' = Of(d)  BY <1>1 DEF Of
    <2>2. QED  BY <1>1, <1>4, <2>1 DEF FetchInv, FetchedInv, NoFetch
<1>9. LoadInv'  BY <1>1, LoadFrame
<1>10. UptoInv' /\ FilledInv' /\ NoHoles'  BY <1>1, CacheFrame
<1>11. QED  BY <1>6, <1>7, <1>8, <1>9, <1>10

(* A cache that nobody looks at is dropped, with all that was said of it. *)
LEMMA EvictStep ==
    ASSUME HistoryInv, NEW c \in Chat, Evict(c)
    PROVE HistoryInv'
<1> USE DEF HistoryInv
<1>1. UNCHANGED <<owner, active, fetch, saved, meta, loading, load, loadFaults>>
    BY DEF Evict
<1>2. MaxMsgs \in Nat /\ Len(owner) \in Nat /\ \A d \in Chat : Of(d) \in SUBSET (1 .. Len(owner))
    BY OfFacts
<1>3. cache \in [Chat -> {NoCache} \cup SUBSET Msg] /\ upto \in [Chat -> 0 .. MaxMsgs]
      /\ skips \subseteq Chat
    BY DEF HistoryTypeOK
<1>4. /\ cache' \in [Chat -> {NoCache} \cup SUBSET Msg]
      /\ cache'[c] = NoCache /\ \A d \in Chat \ {c} : cache'[d] = cache[d]
    BY <1>3 DEF Evict
<1>5. /\ upto' \in [Chat -> 0 .. MaxMsgs]
      /\ upto'[c] = 0 /\ \A d \in Chat \ {c} : upto'[d] = upto[d]
    BY <1>2, <1>3 DEF Evict
<1>6. skips' = skips \ {c}  BY DEF Evict
<1>7. HistoryTypeOK'  BY <1>1, <1>3, <1>4, <1>5, <1>6 DEF HistoryTypeOK
<1>8. CursorInv'  BY <1>1 DEF CursorInv
<1>9. \A d \in Chat : Of(d)' = Of(d)  BY <1>1 DEF Of
<1>10. Cached(c)' = {} /\ \A d \in Chat \ {c} : Cached(d)' = Cached(d)
    BY <1>4 DEF Cached
<1>11. FetchInv'
    <2>1. fetch[c].pc # "read"  BY DEF Evict
    <2>2. QED  BY <1>1, <1>5, <1>9, <2>1 DEF FetchInv, FetchedInv
<1>12. LoadInv'  BY <1>1, LoadFrame
<1>13. UptoInv'  BY <1>5, <1>9 DEF UptoInv
<1>14. FilledInv'  BY <1>1, <1>5, <1>6, <1>10 DEF FilledInv
<1>15. NoHoles'
    <2>1. SUFFICES ASSUME NEW d \in Chat, d \notin skips', NEW m \in Of(d), m <= upto'[d]
                   PROVE m \in Cached(d)' \/ (saved[d].more /\ m < saved[d].cursor)
        BY <1>1, <1>9 DEF NoHoles
    <2>2. d # c  BY <1>2, <1>5, <2>1
    <2>3. d \notin skips /\ m <= upto[d]  BY <1>5, <1>6, <2>1, <2>2
    <2>4. QED  BY <1>10, <2>2, <2>3 DEF NoHoles
<1>16. QED  BY <1>7, <1>8, <1>11, <1>12, <1>13, <1>14, <1>15

(* The answer reaches down to what was fetched before, or starts the pagination,
   unless the conversation is one of which a part was skipped. *)
LEMMA FetchAnsweredStep ==
    ASSUME HistoryInv, NEW c \in Chat, FetchAnswered(c)
    PROVE HistoryInv'
<1> USE DEF HistoryInv
<1> DEFINE page == fetch[c].page
           read == fetch[c].meta
<1>1. UNCHANGED <<owner, active, loading, load, loadFaults>>  BY DEF FetchAnswered
<1>2. HistoryTypeOK /\ MaxMsgs \in Nat /\ Len(owner) \in Nat /\ Len(owner) <= MaxMsgs
      /\ \A d \in Chat : Of(d) \in SUBSET (1 .. Len(owner)) /\ Of(d) \in SUBSET Msg
    BY OfFacts
<1>3. fetch \in [Chat -> Fetch] /\ saved \in [Chat -> Meta] /\ meta \in Meta
      /\ upto \in [Chat -> 0 .. MaxMsgs] /\ skips \subseteq Chat
    BY DEF HistoryTypeOK
<1>4. page \in SUBSET Msg /\ read \in Meta /\ read.cursor <= Len(owner)
    BY <1>3 DEF Fetch, CursorInv
<1>5. FetchedInv(c)  BY DEF FetchAnswered, FetchInv
<1>6. /\ page \subseteq Of(c)
      /\ page = {} => read.cursor = 0 /\ upto[c] = 0
      /\ page # {} => \A n \in Of(c) : n <= Max(page) =>
            Reaches(page, read, n) /\ (Min(page) <= n => n \in page)
    BY <1>5 DEF FetchedInv
<1>7. /\ cache' \in [Chat -> {NoCache} \cup SUBSET Msg]
      /\ Cached(c)' = Cached(c) \cup page
      /\ \A d \in Chat \ {c} : Cached(d)' = Cached(d)
    <2>1. cache' = [cache EXCEPT ![c] = Cached(c) \cup page]  BY DEF FetchAnswered
    <2> HIDE DEF page
    <2>2. QED  BY <1>2, <1>4, <2>1, CacheFacts
<1>8. page # {} =>
        /\ Max(page) \in page /\ Max(page) \in Nat /\ Max(page) # 0
        /\ Min(page) \in page /\ Min(page) \in Nat
    <2>1. page \in SUBSET (1 .. MaxMsgs)  BY <1>4 DEF Msg
    <2> HIDE DEF page
    <2>2. page # {} => Max(page) \in page /\ Min(page) \in page
        BY <1>2, <2>1, MinMaxFacts
    <2>3. \A x \in page : x \in Nat /\ x # 0  BY <1>2, <2>1
    <2>4. QED  BY <2>2, <2>3
<1>9. /\ upto' \in [Chat -> 0 .. MaxMsgs]
      /\ upto'[c] = IF page # {} THEN Max(page) ELSE upto[c]
      /\ \A d \in Chat \ {c} : upto'[d] = upto[d]
    <2>1. Later(upto[c], page) \in 0 .. MaxMsgs  BY <1>2, <1>3, <1>4, <1>8 DEF Later, Msg
    <2>2. upto' = [upto EXCEPT ![c] = Later(upto[c], page)]  BY <1>3 DEF FetchAnswered
    <2> HIDE DEF page
    <2>3. QED  BY <1>3, <2>1, <2>2 DEF Later
<1>10. /\ fetch' \in [Chat -> Fetch]
       /\ fetch'[c] = NoFetch /\ \A d \in Chat \ {c} : fetch'[d] = fetch[d]
    <2>1. NoFetch \in Fetch  BY <1>2 DEF NoFetch, Fetch, NoMeta, Meta
    <2>2. QED  BY <1>3, <2>1 DEF FetchAnswered
<1>11. /\ saved' \in [Chat -> Meta] /\ meta' \in {meta, read}
       /\ saved'[c] = IF Starts(c) THEN read ELSE saved[c]
       /\ \A d \in Chat \ {c} : saved'[d] = saved[d]
    <2>1. CASE Starts(c)
        <3>1. saved' = [saved EXCEPT ![c] = read] /\ meta' = read
            BY <2>1 DEF FetchAnswered, Persist
        <3> HIDE DEF read
        <3>2. QED  BY <1>3, <1>4, <2>1, <3>1
    <2>2. CASE ~ Starts(c)
        BY <1>3, <2>2 DEF FetchAnswered
    <2>3. QED  BY <2>1, <2>2
<1>12. skips' = IF Burst(c, page) THEN skips \cup {c} ELSE skips  BY DEF FetchAnswered
<1>13. skips' \subseteq Chat /\ skips \subseteq skips'  BY <1>3, <1>12
<1> HIDE DEF page, read
<1>14. HistoryTypeOK'
    BY <1>1, <1>2, <1>3, <1>4, <1>7, <1>9, <1>10, <1>11, <1>13 DEF HistoryTypeOK
<1>15. CursorInv'
    <2>1. meta'.cursor <= Len(owner)  BY <1>4, <1>11 DEF CursorInv
    <2>2. \A d \in Chat : saved'[d].cursor <= Len(owner)
        BY <1>4, <1>11 DEF CursorInv
    <2>3. \A d \in Chat : fetch'[d].meta.cursor <= Len(owner)
        BY <1>2, <1>10 DEF CursorInv, NoFetch, NoMeta
    <2>4. QED  BY <1>1, <2>1, <2>2, <2>3 DEF CursorInv
<1>16. \A d \in Chat : Of(d)' = Of(d)  BY <1>1 DEF Of
<1>17. FetchInv'
    BY <1>9, <1>10, <1>16 DEF FetchInv, FetchedInv, NoFetch
<1>18. LoadInv'  BY <1>1, LoadFrame
<1>19. UptoInv'
    <2>1. upto'[c] \in Of(c) \cup {0}  BY <1>6, <1>8, <1>9 DEF UptoInv
    <2>2. QED  BY <1>9, <1>16, <2>1 DEF UptoInv
<1>20. FilledInv'
    <2>1. SUFFICES ASSUME NEW d \in Chat, d \notin skips', upto'[d] = 0, Cached(d)' # {}
                   PROVE saved'[d].cursor = 0 /\ Cardinality(Cached(d)') <= Page
        BY DEF FilledInv
    <2>2. d \notin skips  BY <1>13, <2>1
    <2>3. CASE d # c
        BY <1>7, <1>9, <1>11, <2>1, <2>2, <2>3 DEF FilledInv
    <2>4. CASE d = c
        <3>1. page = {} /\ upto[c] = 0  BY <1>8, <1>9, <2>1, <2>4
        <3>2. Cached(c)' = Cached(c)  BY <1>7, <3>1
        <3>3. saved[c].cursor = 0 /\ Cardinality(Cached(c)) <= Page
            BY <2>1, <2>2, <2>4, <3>1, <3>2 DEF FilledInv
        <3>4. saved'[c] = read  BY <1>11, <3>3 DEF Starts
        <3>5. saved'[c].cursor = 0  BY <1>6, <3>1, <3>4
        <3>6. QED  BY <2>4, <3>2, <3>3, <3>5
    <2>5. QED  BY <2>3, <2>4
<1>21. NoHoles'
    <2>1. SUFFICES ASSUME NEW d \in Chat, d \notin skips', NEW m \in Of(d), m <= upto'[d]
                   PROVE m \in Cached(d)' \/ (saved'[d].more /\ m < saved'[d].cursor)
        BY <1>16 DEF NoHoles
    <2>2. d \notin skips  BY <1>13, <2>1
    <2>3. m \in Nat /\ m # 0  BY <1>2
    <2>4. CASE d # c
        BY <1>7, <1>9, <1>11, <2>1, <2>2, <2>4 DEF NoHoles
    <2>5. CASE d = c
        <3>1. page # {}
            <4>1. page = {} => upto'[c] = 0  BY <1>6, <1>9
            <4>2. QED  BY <2>1, <2>3, <2>5, <4>1
        <3>2. m \in Of(c) /\ m <= Max(page)  BY <1>9, <2>1, <2>5, <3>1
        <3>3. Reaches(page, read, m) /\ (Min(page) <= m => m \in page)
            BY <1>6, <3>1, <3>2
        <3>4. CASE Starts(c)
            <4>1. saved'[c] = read  BY <1>11, <3>4
            <4>2. QED  BY <1>7, <2>5, <3>3, <4>1 DEF Reaches
        <3>5. CASE ~ Starts(c)
            <4>1. saved'[c] = saved[c]  BY <1>11, <3>5
            <4>2. upto[c] # 0
                BY <2>2, <2>5, <3>5 DEF Starts, FilledInv
            <4>3. CASE m <= upto[c]
                <5>1. m \in Cached(c) \/ (saved[c].more /\ m < saved[c].cursor)
                    BY <2>2, <2>5, <3>2, <4>3 DEF NoHoles
                <5>2. QED  BY <1>7, <2>5, <4>1, <5>1
            <4>4. CASE ~ (m <= upto[c])
                <5>1. upto[c] \in Nat /\ m > upto[c]  BY <1>2, <1>3, <2>3, <4>4
                <5>2. ~ Burst(c, page)  BY <1>12, <2>1, <2>5
                <5>3. ~ (m < Min(page))  BY <3>1, <3>2, <4>2, <5>1, <5>2 DEF Burst
                <5>4. Min(page) \in Nat  BY <1>8, <3>1
                <5>5. Min(page) <= m  BY <2>3, <5>3, <5>4
                <5>6. QED  BY <1>7, <2>5, <3>3, <5>5
            <4>5. QED  BY <4>3, <4>4
        <3>6. QED  BY <3>4, <3>5
    <2>6. QED  BY <2>4, <2>5
<1>22. QED  BY <1>14, <1>15, <1>17, <1>18, <1>19, <1>20, <1>21

(* An older page is asked for, before the cursor that is shown. *)
LEMMA LoadOlderStep ==
    ASSUME HistoryInv, NEW l \in Load, LoadOlder(l)
    PROVE HistoryInv'
<1> USE DEF HistoryInv
<1> DEFINE sent == [NoLoad EXCEPT !.pc = "sent", !.conv = active, !.cursor = meta.cursor]
<1>1. UNCHANGED <<owner, active, cache, fetch, saved, meta, loadFaults, upto, skips>>
    BY DEF LoadOlder
<1>2. MaxMsgs \in Nat /\ Len(owner) \in Nat  BY OfFacts
<1>3. active \in Chat /\ meta \in Meta /\ meta.cursor # 0 /\ load \in [Load -> OlderLoad]
    BY DEF LoadOlder, HistoryTypeOK
<1>4. /\ sent.pc = "sent" /\ sent.conv = active /\ sent.cursor = meta.cursor
      /\ sent.meta = NoMeta
    BY DEF NoLoad
<1>5. sent \in OlderLoad
    <2>1. NoMeta \in Meta /\ meta.cursor \in 0 .. MaxMsgs  BY <1>2, <1>3 DEF NoMeta, Meta
    <2>2. NoLoad \in OlderLoad  BY <1>2, <2>1 DEF NoLoad, OlderLoad
    <2>3. QED  BY <1>3, <2>1, <2>2 DEF OlderLoad
<1>6. load' = [load EXCEPT ![l] = sent]  BY DEF LoadOlder
<1> HIDE DEF sent
<1>7. /\ load' \in [Load -> OlderLoad]
      /\ load'[l] = sent /\ \A k \in Load \ {l} : load'[k] = load[k]
    BY <1>3, <1>5, <1>6
<1>8. HistoryTypeOK'  BY <1>1, <1>7 DEF LoadOlder, HistoryTypeOK
<1>9. CursorInv'
    <2>1. sent.cursor <= Len(owner) /\ sent.meta.cursor <= Len(owner)
        BY <1>2, <1>4 DEF CursorInv, NoMeta
    <2>2. QED  BY <1>1, <1>7, <2>1 DEF CursorInv
<1>10. FetchInv'  BY <1>1, FetchFrame
<1>11. LoadInv'
    <2>1. \A c : Of(c)' = Of(c)  BY <1>1 DEF Of
    <2>2. sent.pc = "sent" /\ sent.conv \in Chat /\ sent.cursor # 0  BY <1>3, <1>4
    <2>3. QED  BY <1>7, <2>1, <2>2 DEF LoadInv, LoadedInv
<1>12. UptoInv' /\ FilledInv' /\ NoHoles'  BY <1>1, CacheFrame
<1>13. QED  BY <1>8, <1>9, <1>10, <1>11, <1>12

(* The server reads the page before the cursor of the request. *)
LEMMA OlderReadStep ==
    ASSUME HistoryInv, NEW l \in Load, OlderRead(l)
    PROVE HistoryInv'
<1> USE DEF HistoryInv
<1> DEFINE ms == Before(load[l].conv, load[l].cursor)
           read == [load[l] EXCEPT !.pc = "read", !.page = PageOf(ms), !.meta = MetaOf(ms)]
<1>1. UNCHANGED <<owner, active, cache, fetch, saved, meta, loading, loadFaults, upto, skips>>
    BY DEF OlderRead
<1>2. HistoryTypeOK /\ MaxMsgs \in Nat /\ Len(owner) \in Nat /\ Len(owner) <= MaxMsgs
      /\ \A d \in Chat : Of(d) \in SUBSET (1 .. Len(owner))
    BY OfFacts
<1>3. load \in [Load -> OlderLoad]  BY DEF HistoryTypeOK
<1>4. load[l].conv \in Chat /\ load[l].cursor # 0  BY DEF OlderRead, LoadInv
<1>5. ms \in SUBSET (1 .. Len(owner))  BY <1>2, <1>4 DEF Before
<1>6. /\ PageOf(ms) \subseteq ms
      /\ \A m \in ms \ PageOf(ms) : MetaOf(ms).more /\ m < MetaOf(ms).cursor
      /\ MetaOf(ms) \in [more : BOOLEAN, cursor : 0 .. Len(owner)]
    <2> HIDE DEF ms
    <2>1. QED  BY <1>2, <1>5, PageFacts
<1>7. load' = [load EXCEPT ![l] = read]  BY <1>3 DEF OlderRead
<1>8. \A n \in Of(load[l].conv) : n < load[l].cursor => n \in ms  BY DEF Before
<1> HIDE DEF ms
<1>9. MetaOf(ms).cursor \in Nat /\ MetaOf(ms).cursor <= Len(owner) /\ MetaOf(ms) \in Meta
    BY <1>2, <1>6 DEF Meta
<1>10. /\ read.pc = "read" /\ read.page = PageOf(ms) /\ read.meta = MetaOf(ms)
       /\ read.conv = load[l].conv /\ read.cursor = load[l].cursor
       /\ read \in OlderLoad
    <2>1. PageOf(ms) \in SUBSET Msg
        <3>1. \A m \in 1 .. Len(owner) : m \in Msg  BY <1>2 DEF Msg
        <3>2. QED  BY <1>5, <1>6, <3>1
    <2>2. load[l] \in OlderLoad  BY <1>3
    <2>3. QED  BY <1>9, <2>1, <2>2 DEF OlderLoad
<1> HIDE DEF read
<1>11. /\ load' \in [Load -> OlderLoad]
       /\ load'[l] = read /\ \A k \in Load \ {l} : load'[k] = load[k]
    BY <1>3, <1>7, <1>10
<1>12. HistoryTypeOK'  BY <1>1, <1>11 DEF HistoryTypeOK
<1>13. CursorInv'  BY <1>1, <1>9, <1>10, <1>11 DEF CursorInv
<1>14. FetchInv'  BY <1>1, FetchFrame
<1>15. LoadInv'
    <2>1. \A c : Of(c)' = Of(c)  BY <1>1 DEF Of
    <2>2. \A n \in Of(load[l].conv) : n < load[l].cursor => Reaches(read.page, read.meta, n)
        BY <1>6, <1>8, <1>10 DEF Reaches
    <2>3. QED  BY <1>4, <1>10, <1>11, <2>1, <2>2 DEF LoadInv, LoadedInv
<1>16. UptoInv' /\ FilledInv' /\ NoHoles'  BY <1>1, CacheFrame
<1>17. QED  BY <1>12, <1>13, <1>14, <1>15, <1>16

(* What is shown next starts where the older page ends, if the page was loaded
   from the cursor of the conversation. *)
LEMMA OlderAnsweredStep ==
    ASSUME HistoryInv, NEW l \in Load, OlderAnswered(l)
    PROVE HistoryInv'
<1> USE DEF HistoryInv
<1>1. UNCHANGED <<owner, active, fetch, loadFaults, upto>>  BY DEF OlderAnswered
<1>2. HistoryTypeOK /\ MaxMsgs \in Nat /\ Len(owner) \in Nat  BY OfFacts
<1>3. load \in [Load -> OlderLoad] /\ saved \in [Chat -> Meta] /\ skips \subseteq Chat
    BY DEF HistoryTypeOK
<1>4. PICK c \in Chat : c = load[l].conv  BY DEF OlderAnswered, LoadInv
<1>5. /\ cache' = [cache EXCEPT ![c] = Cached(c) \cup load[l].page]
      /\ saved' = [saved EXCEPT ![c] = load[l].meta] /\ meta' = load[l].meta
      /\ skips' = IF Stray(l) THEN skips \cup {c} ELSE skips
      /\ load' = [load EXCEPT ![l] = NoLoad] /\ loading' = FALSE
    BY <1>4 DEF OlderAnswered, Persist
<1>6. load[l].page \in SUBSET Msg /\ load[l].meta \in Meta /\ load[l].meta.cursor <= Len(owner)
    BY <1>3 DEF OlderLoad, CursorInv
<1>7. /\ cache' \in [Chat -> {NoCache} \cup SUBSET Msg]
      /\ Cached(c)' = Cached(c) \cup load[l].page
      /\ \A d \in Chat \ {c} : Cached(d)' = Cached(d)
    BY <1>2, <1>5, <1>6, CacheFacts
<1>8. /\ saved' \in [Chat -> Meta] /\ saved'[c] = load[l].meta
      /\ \A d \in Chat \ {c} : saved'[d] = saved[d]
    BY <1>3, <1>5, <1>6
<1>9. /\ load' \in [Load -> OlderLoad]
      /\ load'[l] = NoLoad /\ \A k \in Load \ {l} : load'[k] = load[k]
    <2>1. NoLoad \in OlderLoad  BY <1>2 DEF NoLoad, OlderLoad, NoMeta, Meta
    <2>2. QED  BY <1>3, <1>5, <2>1
<1>10. skips' \subseteq Chat /\ skips \subseteq skips'  BY <1>3, <1>5
<1>11. HistoryTypeOK'
    BY <1>1, <1>5, <1>6, <1>7, <1>8, <1>9, <1>10 DEF HistoryTypeOK
<1>12. CursorInv'
    <2>1. \A d \in Chat : saved'[d].cursor <= Len(owner)  BY <1>6, <1>8 DEF CursorInv
    <2>2. \A k \in Load : load'[k].cursor <= Len(owner) /\ load'[k].meta.cursor <= Len(owner)
        BY <1>2, <1>9 DEF CursorInv, NoLoad, NoMeta
    <2>3. QED  BY <1>1, <1>5, <1>6, <2>1, <2>2 DEF CursorInv
<1>13. FetchInv'  BY <1>1, FetchFrame
<1>14. \A d : Of(d)' = Of(d)  BY <1>1 DEF Of
<1>15. LoadInv'  BY <1>9, <1>14 DEF LoadInv, LoadedInv, NoLoad
<1>16. UptoInv'  BY <1>1, <1>14 DEF UptoInv
<1>17. c \notin skips' => upto[c] # 0 /\ load[l].cursor = saved[c].cursor
    BY <1>4, <1>5 DEF Stray
<1>18. FilledInv'
    <2>1. SUFFICES ASSUME NEW d \in Chat, d \notin skips', upto[d] = 0, Cached(d)' # {}
                   PROVE saved'[d].cursor = 0 /\ Cardinality(Cached(d)') <= Page
        BY <1>1 DEF FilledInv
    <2>2. d # c /\ d \notin skips  BY <1>10, <1>17, <2>1
    <2>3. QED  BY <1>7, <1>8, <2>1, <2>2 DEF FilledInv
<1>19. NoHoles'
    <2>1. SUFFICES ASSUME NEW d \in Chat, d \notin skips', NEW m \in Of(d), m <= upto[d]
                   PROVE m \in Cached(d)' \/ (saved'[d].more /\ m < saved'[d].cursor)
        BY <1>1, <1>14 DEF NoHoles
    <2>2. m \in Cached(d) \/ (saved[d].more /\ m < saved[d].cursor)
        BY <1>10, <2>1 DEF NoHoles
    <2>3. CASE d # c  BY <1>7, <1>8, <2>2, <2>3
    <2>4. CASE d = c
        <3>1. CASE m \in Cached(c)  BY <1>7, <2>4, <3>1
        <3>2. CASE m < load[l].cursor
            <4>1. Reaches(load[l].page, load[l].meta, m)
                BY <1>4, <2>1, <2>4, <3>2 DEF OlderAnswered, LoadInv, LoadedInv
            <4>2. QED  BY <1>7, <1>8, <2>4, <4>1 DEF Reaches
        <3>3. QED  BY <1>17, <2>1, <2>2, <2>4, <3>1, <3>2
    <2>5. QED  BY <2>3, <2>4
<1>20. QED  BY <1>11, <1>12, <1>13, <1>15, <1>16, <1>18, <1>19

(* A load is lost; the cursor stays where it is. *)
LEMMA OlderFailsStep ==
    ASSUME HistoryInv, NEW l \in Load, OlderFails(l)
    PROVE HistoryInv'
<1> USE DEF HistoryInv
<1>1. UNCHANGED <<owner, active, cache, fetch, saved, meta, upto, skips>>  BY DEF OlderFails
<1>2. MaxMsgs \in Nat /\ Len(owner) \in Nat /\ MaxLoadFaults \in Nat
    BY HistoryBounds, OfFacts
<1>3. load \in [Load -> OlderLoad] /\ NoLoad \in OlderLoad
    BY <1>2 DEF HistoryTypeOK, NoLoad, OlderLoad, NoMeta, Meta
<1>4. /\ load' \in [Load -> OlderLoad]
      /\ load'[l] = NoLoad /\ \A k \in Load \ {l} : load'[k] = load[k]
    BY <1>3 DEF OlderFails
<1>5. loadFaults' \in 0 .. MaxLoadFaults /\ loading' = FALSE
    BY <1>2 DEF OlderFails, HistoryTypeOK
<1>6. HistoryTypeOK'  BY <1>1, <1>4, <1>5 DEF HistoryTypeOK
<1>7. CursorInv'  BY <1>1, <1>2, <1>4 DEF CursorInv, NoLoad, NoMeta
<1>8. FetchInv'  BY <1>1, FetchFrame
<1>9. LoadInv'
    <2>1. \A c : Of(c)' = Of(c)  BY <1>1 DEF Of
    <2>2. QED  BY <1>4, <2>1 DEF LoadInv, LoadedInv, NoLoad
<1>10. UptoInv' /\ FilledInv' /\ NoHoles'  BY <1>1, CacheFrame
<1>11. QED  BY <1>6, <1>7, <1>8, <1>9, <1>10

-----------------------------------------------------------------------------

(* Nothing changes. *)
LEMMA StutterHistory == HistoryInv /\ UNCHANGED historyVars => HistoryInv'
<1> SUFFICES ASSUME HistoryInv, UNCHANGED historyVars PROVE HistoryInv'
    OBVIOUS
<1>1. UNCHANGED <<owner, active, cache, fetch, saved, meta, loading, load, loadFaults, upto, skips>>
    BY DEF historyVars
<1>2. HistoryTypeOK' /\ CursorInv'  BY <1>1 DEF HistoryInv, HistoryTypeOK, CursorInv
<1>3. FetchInv' /\ LoadInv'  BY <1>1, FetchFrame, LoadFrame DEF HistoryInv
<1>4. UptoInv' /\ FilledInv' /\ NoHoles'  BY <1>1, CacheFrame
<1>5. QED  BY <1>2, <1>3, <1>4 DEF HistoryInv

(* The invariant of the pagination holds in every state. *)
THEOREM HistoryInductive == HistorySpec => []HistoryInv
<1>1. HistoryInv /\ [HistoryNext]_historyVars => HistoryInv'
    <2> SUFFICES ASSUME HistoryInv, [HistoryNext]_historyVars PROVE HistoryInv'
        OBVIOUS
    <2>1. ASSUME NEW c \in Chat, NEW seen \in BOOLEAN, Arrive(c, seen) PROVE HistoryInv'
        BY <2>1, ArriveStep
    <2>2. ASSUME NEW c \in Chat, Select(c) PROVE HistoryInv'  BY <2>2, SelectStep
    <2>3. ASSUME NEW c \in Chat, FetchRead(c) PROVE HistoryInv'  BY <2>3, FetchReadStep
    <2>4. ASSUME NEW c \in Chat, FetchAnswered(c) PROVE HistoryInv'  BY <2>4, FetchAnsweredStep
    <2>5. ASSUME NEW c \in Chat, FetchFails(c) PROVE HistoryInv'  BY <2>5, FetchFailsStep
    <2>6. ASSUME NEW c \in Chat, Evict(c) PROVE HistoryInv'  BY <2>6, EvictStep
    <2>7. CASE Poll  BY <2>7, PollStep
    <2>8. ASSUME NEW l \in Load, LoadOlder(l) PROVE HistoryInv'  BY <2>8, LoadOlderStep
    <2>9. ASSUME NEW l \in Load, OlderRead(l) PROVE HistoryInv'  BY <2>9, OlderReadStep
    <2>10. ASSUME NEW l \in Load, OlderAnswered(l) PROVE HistoryInv'  BY <2>10, OlderAnsweredStep
    <2>11. ASSUME NEW l \in Load, OlderFails(l) PROVE HistoryInv'  BY <2>11, OlderFailsStep
    <2>12. CASE UNCHANGED historyVars  BY <2>12, StutterHistory
    <2>13. QED
        BY <2>1, <2>2, <2>3, <2>4, <2>5, <2>6, <2>7, <2>8, <2>9, <2>10, <2>11, <2>12 DEF HistoryNext
<1>2. QED  BY <1>1, InitHistory, PTL DEF HistorySpec

(* Types, and no holes in the history. *)
THEOREM HistoryTypeCorrect == HistorySpec => []HistoryTypeOK
<1>1. HistoryInv => HistoryTypeOK  BY DEF HistoryInv
<1>2. QED  BY <1>1, HistoryInductive, PTL

(* Each message up to the newest that was fetched is shown, or is still before
   the cursor, where scrolling up reaches it. *)
THEOREM HistoryHasNoHoles == HistorySpec => []NoHoles
<1>1. HistoryInv => NoHoles  BY DEF HistoryInv
<1>2. QED  BY <1>1, HistoryInductive, PTL

-----------------------------------------------------------------------------
(* The session. *)

(* No one holds a token that was not issued, a refresh token or an access
   token; and every rotation has an answer. *)
Known(token) == token # NoToken => token.n <= gen[token.login]
Signed(token) == token # NoToken => token.n <= signed[token.login]

KnownInv ==
    /\ \A l \in Login : /\ expired[l] <= signed[l] /\ gen[l] <= signed[l]
                        /\ gen[l] = 0 => signed[l] = 0
    /\ Signed(store.access) /\ Known(store.refresh)
    /\ Known(refresh.token) /\ Signed(refresh.access) /\ Known(refresh.new)
    /\ \A r \in Req : /\ Signed(xhr[r].access) /\ Signed(xhr[r].first)
                      /\ Signed(xhr[r].snap.access) /\ Known(xhr[r].snap.refresh)

(* The access token of a refresh that was answered is newer than all the page
   has of that login, and is not expired; its refresh token is no older than the
   one that was presented. *)
Older(token) == token.login = refresh.access.login => token.n < refresh.access.n

NewInv ==
    refresh.pc = "done" =>
        /\ refresh.new # NoToken /\ refresh.new.login = refresh.token.login
        /\ refresh.access # NoToken /\ refresh.access.login = refresh.token.login
        /\ refresh.token.n <= refresh.new.n
        /\ Valid(refresh.access)
        /\ Older(store.access)
        /\ \A r \in Req : /\ Older(xhr[r].access) /\ Older(xhr[r].first)
                          /\ Older(xhr[r].snap.access)

(* The type of a request. *)
SessionRequest ==
    [pc : {"idle", "sent", "wait"}, kind : {"call", "timer", "check", "again", "recheck"},
     access : Token, first : Token, snap : StoredSession]

(* The requests: those that wait, wait for a refresh; those that are sent have
   a token, which is valid if they waited for it; the check has the session it
   read. *)
Waited(r) == Retried(r) \/ xhr[r].kind = "recheck"

Orderly(r) ==
    /\ xhr[r].pc = "idle" => xhr[r] = NoCall
    /\ xhr[r].pc = "sent" =>
          xhr[r].access # NoToken /\ xhr[r].kind \in {"call", "check", "recheck"}
    /\ xhr[r].pc = "wait" =>
          refresh.pc # "none" /\ (Retried(r) \/ xhr[r].kind \in {"timer", "again"})
    /\ xhr[r].snap # NoSession <=> xhr[r].kind \in {"check", "recheck"}
    /\ xhr[r].pc = "sent" /\ Waited(r) => Valid(xhr[r].access)

RequestsInv == \A r \in Req : Orderly(r)

Checks == {"check", "again", "recheck"}

OneCheck == \A r, q \in Req : xhr[r].kind \in Checks /\ xhr[q].kind \in Checks => r = q

(* The refresh in flight: a refused token stays refused. *)
RefreshInv ==
    /\ refresh.pc # "none" => refresh.token # NoToken
    /\ refresh.pc = "refused" => ~Accepts(refresh.token)

(* Unless someone signed in during a refresh, the session of the store, the
   one the check has read and the refresh in flight are of one login, u, and
   what the check writes back is no newer than what is being refreshed. *)
OneLogin(u) ==
    /\ SignedIn => store.user = u /\ store.refresh.login = u
    /\ refresh.pc # "none" =>
          /\ refresh.token.login = u
          /\ SignedIn => store.refresh.n <= refresh.token.n
    /\ \A r \in Req : xhr[r].snap # NoSession =>
          /\ xhr[r].snap.user = u /\ xhr[r].snap.refresh.login = u
          /\ SignedIn => xhr[r].snap.refresh.n <= store.refresh.n
          /\ refresh.pc # "none" => xhr[r].snap.refresh.n <= refresh.token.n

LoginInv == ~mixed => \E u \in Login \cup {NoLogin} : OneLogin(u)

SessionInv ==
    /\ SessionTypeOK
    /\ KnownInv
    /\ NewInv
    /\ RequestsInv
    /\ OneCheck
    /\ RefreshInv
    /\ LoginInv
    /\ RetriesWithNewer

-----------------------------------------------------------------------------
(* The parts of a session and of a token. *)
LEMMA TokenParts ==
    ASSUME NEW t \in Token
    PROVE /\ t # NoToken => t.login \in Login /\ t.n \in 1 .. MaxGen
          /\ t = NoToken => t.login = NoLogin /\ t.n = 0
          /\ t.n \in 0 .. MaxGen
          /\ t = [login |-> t.login, n |-> t.n]
BY SessionBounds DEF Token, NoToken

(* A stored session has a user and both tokens, or nothing at all. *)
LEMMA SessionParts ==
    ASSUME NEW s \in StoredSession
    PROVE /\ s.access \in Token /\ s.refresh \in Token
          /\ s # NoSession =>
                s.user \in Login /\ s.access # NoToken /\ s.refresh # NoToken
          /\ s = NoSession => s.access = NoToken /\ s.refresh = NoToken
BY SessionBounds DEF StoredSession, NoSession, Token, NoToken

(* The empty token, session and request are of their types. *)
LEMMA NothingIsTyped ==
    /\ NoToken \in Token /\ NoSession \in StoredSession
    /\ NoCall.pc = "idle" /\ NoCall.kind = "call" /\ NoCall.access = NoToken
    /\ NoCall.first = NoToken /\ NoCall.snap = NoSession
    /\ NoCall \in SessionRequest
BY DEF Token, StoredSession, NoCall, SessionRequest

(* The parts of the store, the refresh and the requests. *)
LEMMA Parts ==
    ASSUME SessionTypeOK
    PROVE /\ store.access \in Token /\ store.refresh \in Token
          /\ SignedIn =>
                store.user \in Login /\ store.access # NoToken /\ store.refresh # NoToken
          /\ refresh.token \in Token /\ refresh.access \in Token /\ refresh.new \in Token
          /\ xhr \in [Req -> SessionRequest]
          /\ \A r \in Req :
                /\ xhr[r].access \in Token /\ xhr[r].first \in Token
                /\ xhr[r].snap \in StoredSession
                /\ xhr[r].snap.access \in Token /\ xhr[r].snap.refresh \in Token
                /\ xhr[r].snap # NoSession =>
                      /\ xhr[r].snap.user \in Login
                      /\ xhr[r].snap.access # NoToken /\ xhr[r].snap.refresh # NoToken
<1>1. xhr \in [Req -> SessionRequest]
    BY DEF SessionTypeOK, SessionRequest
<1>2. \A r \in Req :
         xhr[r].access \in Token /\ xhr[r].first \in Token /\ xhr[r].snap \in StoredSession
    BY <1>1 DEF SessionRequest
<1>3. store \in StoredSession /\ refresh.token \in Token /\ refresh.access \in Token /\ refresh.new \in Token
    BY DEF SessionTypeOK
<1>4. QED  BY <1>1, <1>2, <1>3, SessionParts DEF SignedIn

(* A token of a number that was issued stays one, however many more are. *)
LEMMA KnownStays ==
    ASSUME NEW t \in Token, NEW g \in [Login -> 0 .. MaxGen], NEW h \in [Login -> 0 .. MaxGen],
           \A l \in Login : g[l] <= h[l],
           t # NoToken => t.n <= g[t.login]
    PROVE t # NoToken => t.n <= h[t.login]
<1> SUFFICES ASSUME t # NoToken PROVE t.n <= h[t.login]
    OBVIOUS
<1>1. t.login \in Login /\ t.n \in 1 .. MaxGen
    BY TokenParts
<1>2. g[t.login] \in 0 .. MaxGen /\ h[t.login] \in 0 .. MaxGen
    BY <1>1
<1>3. QED  BY <1>1, <1>2, SessionBounds

(* A token the server refuses is refused for good: rotations only add to the
   chain, and a login that ended starts anew only where no token was handed
   out. *)
LEMMA RefusedStays ==
    ASSUME SessionTypeOK, NEW t \in Token, t # NoToken, Known(t), ~Accepts(t),
           \A l \in Login : gen[l] <= gen'[l],
           gen' \in [Login -> 0 .. MaxGen],
           \A l \in live' \ live : gen[l] = 0
    PROVE ~Accepts(t)'
<1>1. t.login \in Login /\ t.n \in 1 .. MaxGen
    BY TokenParts
<1>2. gen[t.login] \in 0 .. MaxGen /\ gen'[t.login] \in 0 .. MaxGen
    BY <1>1 DEF SessionTypeOK
<1>3. gen[t.login] # 0
    BY <1>1, <1>2 DEF Known
<1>4. QED  BY <1>1, <1>2, <1>3, SessionBounds DEF Accepts

-----------------------------------------------------------------------------
(* Initially nobody is signed in and nothing is in flight. *)
LEMMA SessionInitInv == SessionInit => SessionInv
<1> SUFFICES ASSUME SessionInit PROVE SessionInv
    OBVIOUS
<1> USE NothingIsTyped DEF SessionInit
<1>1. SessionTypeOK
    <2>1. NoRefresh \in [pc : {"none", "sent", "done", "refused"}, token : Token, access : Token, new : Token]
        BY DEF NoRefresh
    <2>2. NoCall \in SessionRequest
        OBVIOUS
    <2>3. sessionFaults \in 0 .. MaxSessionFaults
        BY SessionBounds
    <2>4. gen \in [Login -> 0 .. MaxGen] /\ signed \in [Login -> 0 .. MaxGen] /\ expired \in [Login -> 0 .. MaxGen]
        BY SessionBounds
    <2>5. QED  BY <2>1, <2>2, <2>3, <2>4 DEF SessionTypeOK, SessionRequest
<1>2. KnownInv
    BY DEF KnownInv, Known, Signed, NoSession, NoRefresh
<1>3. NewInv /\ RefreshInv
    BY DEF NewInv, RefreshInv, NoRefresh
<1>4. RequestsInv /\ OneCheck /\ RetriesWithNewer
    BY DEF RequestsInv, Orderly, Waited, Retried, OneCheck, Checks, RetriesWithNewer
<1>5. LoginInv
    BY DEF LoginInv, OneLogin, SignedIn, NoRefresh
<1>6. QED  BY <1>1, <1>2, <1>3, <1>4, <1>5 DEF SessionInv

-----------------------------------------------------------------------------
(* A sign-in has a new login, and during no refresh no one holds another. *)
LEMMA SignInInv ==
    ASSUME SessionInv, NEW l \in Login, SignIn(l)
    PROVE SessionInv'
<1> DEFINE t == [login |-> l, n |-> 1]
<1> USE DEF SessionInv, SignIn
<1>1. /\ gen' \in [Login -> 0 .. MaxGen] /\ gen'[l] = 1
      /\ signed' \in [Login -> 0 .. MaxGen] /\ signed'[l] = 1
      /\ \A x \in Login : gen[x] <= gen'[x] /\ signed[x] <= signed'[x]
      /\ \A x \in Login : x # l => gen'[x] = gen[x] /\ signed'[x] = signed[x]
      /\ live' \ live \subseteq {l} /\ live' \subseteq Login
    BY SessionBounds DEF SessionTypeOK, KnownInv
<1>2. /\ t \in Token /\ t # NoToken
      /\ store' \in StoredSession /\ store' # NoSession
      /\ store'.user = l /\ store'.access = t /\ store'.refresh = t
    BY SessionBounds DEF Token, NoToken, SessionOf, StoredSession, NoSession
<1>3. SessionTypeOK'
    BY <1>1, <1>2 DEF SessionTypeOK
<1>4. KnownInv'
    <2>1. \A x \in Login : /\ expired'[x] <= signed'[x] /\ gen'[x] <= signed'[x]
                           /\ gen'[x] = 0 => signed'[x] = 0
        BY <1>1, SessionBounds DEF SessionTypeOK, KnownInv
    <2>2. Signed(store.access)' /\ Known(store.refresh)'
        BY <1>1, <1>2 DEF Known, Signed
    <2>3. \A u \in Token : (Known(u) => (u # NoToken => u.n <= gen'[u.login]))
                           /\ (Signed(u) => (u # NoToken => u.n <= signed'[u.login]))
        BY <1>1, KnownStays DEF Known, Signed, SessionTypeOK
    <2>4. /\ Known(refresh.token)' /\ Signed(refresh.access)' /\ Known(refresh.new)'
          /\ \A r \in Req : /\ Signed(xhr[r].access)' /\ Signed(xhr[r].first)'
                            /\ Signed(xhr[r].snap.access)' /\ Known(xhr[r].snap.refresh)'
        BY <2>3, Parts DEF KnownInv, Known, Signed
    <2>5. QED  BY <2>1, <2>2, <2>4 DEF KnownInv
<1>5. NewInv'
    <2>1. SUFFICES ASSUME refresh.pc = "done" PROVE Older(store.access)'
        BY DEF NewInv, Older, Valid
    <2>2. refresh.new # NoToken /\ Known(refresh.new) /\ refresh.new \in Token
        BY <2>1, Parts DEF NewInv, KnownInv
    <2>3. refresh.access.login # l
        BY <2>1, <2>2, TokenParts, SessionBounds DEF NewInv, Known, SessionTypeOK
    <2>4. QED  BY <1>2, <2>3 DEF Older
<1>6. RequestsInv' /\ OneCheck'
    BY DEF RequestsInv, Orderly, Waited, Retried, Valid, OneCheck, Checks
<1>7. RefreshInv'
    BY <1>1, Parts, RefusedStays DEF RefreshInv, KnownInv, Accepts
<1>8. LoginInv'
    <2>1. SUFFICES ASSUME ~mixed' PROVE OneLogin(l)'
        BY DEF LoginInv
    <2>2. refresh.pc = "none"
        BY <2>1
    <2>3. \A r \in Req : xhr[r].snap = NoSession
        BY NothingIsTyped DEF RequestsInv, Orderly, Checking
    <2>4. QED  BY <1>2, <2>2, <2>3 DEF OneLogin, SignedIn
<1>9. RetriesWithNewer'
    BY DEF RetriesWithNewer, Retried
<1>10. QED
    BY <1>3, <1>4, <1>5, <1>6, <1>7, <1>8, <1>9

(* The store is emptied; nothing else of the page changes. *)
LEMMA EmptiedInv ==
    ASSUME SessionInv, store' = NoSession, live' \subseteq live,
           UNCHANGED <<gen, signed, expired, refresh, xhr, sessionFaults, mixed>>
    PROVE SessionInv'
<1> USE NothingIsTyped DEF SessionInv
<1>1. SessionTypeOK'
    BY DEF SessionTypeOK
<1>2. KnownInv'
    BY DEF KnownInv, Known, Signed, NoSession
<1>3. NewInv'
    <2>1. refresh.pc = "done" => refresh.access.n > 0
        BY Parts, TokenParts DEF NewInv
    <2>2. QED  BY <2>1 DEF NewInv, Older, Valid, NoSession, NoToken
<1>4. RequestsInv' /\ OneCheck'
    BY DEF RequestsInv, Orderly, Waited, Retried, Valid, OneCheck, Checks
<1>5. RefreshInv'
    BY DEF RefreshInv, Accepts
<1>6. LoginInv'
    BY DEF LoginInv, OneLogin, SignedIn
<1>7. RetriesWithNewer'
    BY DEF RetriesWithNewer, Retried
<1>8. QED
    BY <1>1, <1>2, <1>3, <1>4, <1>5, <1>6, <1>7

(* A revoked login is dead, and its tokens are refused. *)
LEMMA RevokeInv ==
    ASSUME SessionInv, NEW l \in Login, Revoke(l)
    PROVE SessionInv'
<1> USE DEF SessionInv, Revoke
<1>1. SessionTypeOK' /\ KnownInv' /\ NewInv'
    BY DEF SessionTypeOK, KnownInv, Known, Signed, NewInv, Older, Valid
<1>2. RequestsInv' /\ OneCheck'
    BY DEF RequestsInv, Orderly, Waited, Retried, Valid, OneCheck, Checks
<1>3. RefreshInv'
    BY DEF RefreshInv, Accepts
<1>4. LoginInv' /\ RetriesWithNewer'
    BY DEF LoginInv, OneLogin, SignedIn, RetriesWithNewer, Retried
<1>5. QED  BY <1>1, <1>2, <1>3, <1>4

(* Tokens that were just issued are not among those that expire. *)
LEMMA ExpireInv ==
    ASSUME SessionInv, NEW l \in Login, Expire(l)
    PROVE SessionInv'
<1> USE DEF SessionInv, Expire
<1>1. PICK n \in expired[l] + 1 .. signed[l] :
          /\ \A i \in 1 .. n : ~JustIssued([login |-> l, n |-> i])
          /\ expired' = [expired EXCEPT ![l] = n]
    OBVIOUS
<1>2. expired[l] \in 0 .. MaxGen /\ signed[l] \in 0 .. MaxGen /\ n \in 0 .. MaxGen
    BY SessionBounds DEF SessionTypeOK
<1>3. ASSUME NEW t \in Token, t # NoToken, Valid(t), JustIssued(t)
      PROVE Valid(t)'
    <2>1. t.login \in Login /\ t.n \in 1 .. MaxGen /\ t = [login |-> t.login, n |-> t.n]
        BY <1>3, TokenParts
    <2>2. CASE t.login = l
        <3>1. t.n \notin 1 .. n
            BY <1>1, <1>3, <2>1, <2>2
        <3>2. n < t.n
            BY <1>2, <2>1, <3>1, SessionBounds
        <3>3. QED  BY <1>1, <2>1, <2>2, <3>2 DEF SessionTypeOK, Valid
    <2>3. CASE t.login # l
        BY <1>1, <1>3, <2>1, <2>3 DEF SessionTypeOK, Valid
    <2>4. QED  BY <2>2, <2>3
<1>4. SessionTypeOK'
    BY <1>1, <1>2 DEF SessionTypeOK
<1>5. KnownInv'
    BY <1>1 DEF SessionTypeOK, KnownInv, Known, Signed
<1>6. NewInv'
    <2>1. SUFFICES ASSUME refresh.pc = "done" PROVE Valid(refresh.access)'
        BY DEF NewInv, Older
    <2>2. refresh.access \in Token /\ refresh.access # NoToken /\ Valid(refresh.access)
        BY <2>1, Parts DEF NewInv
    <2>3. JustIssued(refresh.access)
        BY <2>1 DEF JustIssued
    <2>4. QED  BY <1>3, <2>2, <2>3 DEF Valid
<1>7. RequestsInv'
    <2>1. SUFFICES ASSUME NEW r \in Req, xhr[r].pc = "sent", Waited(r)
                   PROVE Valid(xhr[r].access)'
        BY DEF RequestsInv, Orderly, Waited, Retried
    <2>2. /\ xhr[r].access \in Token /\ xhr[r].access # NoToken
          /\ Valid(xhr[r].access) /\ JustIssued(xhr[r].access)
        BY <2>1, Parts DEF RequestsInv, Orderly, Waited, Retried, JustIssued
    <2>3. QED  BY <1>3, <2>2 DEF Valid
<1>8. OneCheck' /\ RefreshInv' /\ LoginInv' /\ RetriesWithNewer'
    BY DEF OneCheck, Checks, RefreshInv, Accepts, LoginInv, OneLogin, SignedIn,
        RetriesWithNewer, Retried
<1>9. QED  BY <1>4, <1>5, <1>6, <1>7, <1>8

-----------------------------------------------------------------------------
(* The refresh in flight. *)
LEMMA RefreshServedInv ==
    ASSUME SessionInv, RefreshServed
    PROVE SessionInv'
<1> DEFINE l == refresh.token.login
           access == [login |-> l, n |-> signed'[l]]
           new == [login |-> l, n |-> gen'[l]]
<1> USE DEF SessionInv, RefreshServed
<1>1. /\ refresh.token \in Token /\ refresh.token # NoToken /\ l \in Login
      /\ gen[l] \in 0 .. MaxGen /\ signed[l] \in 0 .. MaxGen
    BY Parts, TokenParts DEF RefreshInv, SessionTypeOK
<1>2. refresh'.token = refresh.token /\ refresh'.pc \in {"done", "refused"}
    BY DEF SessionTypeOK
<1>3. ASSUME Accepts(refresh.token)
      PROVE SessionTypeOK' /\ KnownInv' /\ NewInv' /\ RefreshInv'
    <2>1. /\ signed[l] < MaxGen /\ signed' = [signed EXCEPT ![l] = @ + 1]
          /\ gen' = IF refresh.token.n = gen[l] THEN [gen EXCEPT ![l] = @ + 1] ELSE gen
          /\ refresh' = [refresh EXCEPT !.pc = "done", !.access = access, !.new = new]
        BY <1>3
    <2>2. /\ gen[l] <= signed[l] /\ expired[l] <= signed[l] /\ expired[l] \in 0 .. MaxGen
          /\ refresh.token.n \in 1 .. MaxGen /\ refresh.token.n <= gen[l]
        BY <1>1, TokenParts DEF KnownInv, Known, SessionTypeOK
    <2>3. /\ signed' \in [Login -> 0 .. MaxGen] /\ signed'[l] = signed[l] + 1
          /\ gen' \in [Login -> 0 .. MaxGen] /\ gen'[l] \in {gen[l], gen[l] + 1}
          /\ \A x \in Login : x # l => gen'[x] = gen[x] /\ signed'[x] = signed[x]
        BY <1>1, <2>1, <2>2, SessionBounds DEF SessionTypeOK
    <2>4. \A x \in Login : gen[x] <= gen'[x] /\ signed[x] <= signed'[x]
        BY <1>1, <2>3, SessionBounds DEF SessionTypeOK
    <2>5. /\ access \in Token /\ access # NoToken /\ new \in Token /\ new # NoToken
          /\ access.login = l /\ access.n = signed[l] + 1 /\ new.login = l
          /\ refresh.token.n <= new.n
          /\ new.n = gen'[l]
        BY <1>1, <2>1, <2>2, <2>3, SessionBounds DEF Token, NoToken
    <2> HIDE DEF access, new
    <2>6. refresh'.pc = "done" /\ refresh'.access = access /\ refresh'.new = new
        BY <2>1 DEF SessionTypeOK
    <2>7. SessionTypeOK'
        BY <2>1, <2>3, <2>5 DEF SessionTypeOK
    <2>8. ASSUME NEW t \in Token, Signed(t) PROVE t.login = l => t.n < signed[l] + 1
        BY <1>1, <2>8, TokenParts, SessionBounds DEF Signed
    <2>9. KnownInv'
        <3>1. \A x \in Login : /\ expired'[x] <= signed'[x] /\ gen'[x] <= signed'[x]
                               /\ gen'[x] = 0 => signed'[x] = 0
            BY <1>1, <2>2, <2>3, SessionBounds DEF SessionTypeOK, KnownInv
        <3>2. \A t \in Token : (Known(t) => (t # NoToken => t.n <= gen'[t.login]))
                               /\ (Signed(t) => (t # NoToken => t.n <= signed'[t.login]))
            BY <2>3, <2>4, KnownStays DEF Known, Signed, SessionTypeOK
        <3>3. new.n <= gen'[new.login] /\ access.n <= signed'[access.login]
            BY <1>1, <2>3, <2>5, SessionBounds
        <3>4. QED
            BY <1>2, <2>6, <3>1, <3>2, <3>3, Parts DEF KnownInv, Known, Signed
    <2>10. NewInv'
        <3>1. expired'[l] < access.n
            BY <1>1, <2>2, <2>5, SessionBounds
        <3>2. QED
            BY <1>2, <2>5, <2>6, <2>8, <3>1, Parts DEF NewInv, Older, KnownInv, Valid
    <2>11. RefreshInv'
        BY <1>1, <1>2, <2>6 DEF RefreshInv
    <2>12. QED  BY <2>7, <2>9, <2>10, <2>11
<1>4. ASSUME ~Accepts(refresh.token)
      PROVE SessionTypeOK' /\ KnownInv' /\ NewInv' /\ RefreshInv'
    <2>1. refresh' = [refresh EXCEPT !.pc = "refused"] /\ UNCHANGED <<gen, signed>>
        BY <1>4
    <2>2. SessionTypeOK' /\ KnownInv' /\ NewInv'
        BY <2>1 DEF SessionTypeOK, KnownInv, Known, Signed, NewInv
    <2>3. RefreshInv'
        BY <1>1, <1>4, <2>1 DEF SessionTypeOK, RefreshInv, Accepts
    <2>4. QED  BY <2>2, <2>3
<1>5. SessionTypeOK' /\ KnownInv' /\ NewInv' /\ RefreshInv'
    BY <1>3, <1>4
<1>6. RequestsInv' /\ OneCheck'
    BY <1>2 DEF RequestsInv, Orderly, Waited, Retried, Valid, OneCheck, Checks
<1>7. LoginInv' /\ RetriesWithNewer'
    BY <1>2 DEF LoginInv, OneLogin, SignedIn, RetriesWithNewer, Retried
<1>8. QED  BY <1>5, <1>6, <1>7

(* The requests that wait for a refresh that is over, and the others. *)
LEMMA GivesUpInv ==
    ASSUME SessionInv, refresh' = NoRefresh, store' \in {store, NoSession},
           xhr' = [r \in Req |-> GivesUp(r)], sessionFaults' \in 0 .. MaxSessionFaults,
           UNCHANGED <<gen, signed, live, expired, mixed>>
    PROVE SessionInv'
<1> USE NothingIsTyped DEF SessionInv
<1>1. \A r \in Req : (xhr'[r] = xhr[r] /\ xhr[r].pc # "wait") \/ xhr'[r] = NoCall
    BY DEF GivesUp
<1>2. refresh'.pc = "none" /\ refresh'.token = NoToken /\ refresh'.access = NoToken /\ refresh'.new = NoToken
    BY DEF NoRefresh
<1>3. SessionTypeOK'
    <2>1. refresh' \in [pc : {"none", "sent", "done", "refused"}, token : Token, access : Token, new : Token]
        BY DEF NoRefresh
    <2>2. NoCall \in SessionRequest
        OBVIOUS
    <2>3. xhr' \in [Req -> SessionRequest]
        BY <2>2 DEF GivesUp, SessionTypeOK, SessionRequest
    <2>4. QED  BY <2>1, <2>3 DEF SessionTypeOK, SessionRequest
<1>4. KnownInv'
    BY <1>1, <1>2 DEF KnownInv, Known, Signed, NoSession
<1>5. NewInv' /\ RefreshInv'
    BY <1>2 DEF NewInv, RefreshInv
<1>6. RequestsInv' /\ OneCheck'
    BY <1>1 DEF RequestsInv, Orderly, Waited, Retried, Valid, OneCheck, Checks
<1>7. LoginInv'
    BY <1>1, <1>2 DEF LoginInv, OneLogin, SignedIn
<1>8. RetriesWithNewer'
    BY <1>1 DEF RetriesWithNewer, Retried
<1>9. QED  BY <1>3, <1>4, <1>5, <1>6, <1>7, <1>8

(* The check at the start waits for another refresh, the others for none. *)
LEMMA ChecksAgainInv ==
    ASSUME SessionInv, SignedIn,
           refresh' = [NoRefresh EXCEPT !.pc = "sent", !.token = store.refresh],
           xhr' = [r \in Req |-> IF ChecksAgain(r) THEN Again ELSE GivesUp(r)],
           sessionFaults' \in 0 .. MaxSessionFaults, UNCHANGED <<gen, signed, live, expired, store, mixed>>
    PROVE SessionInv'
<1> USE NothingIsTyped DEF SessionInv
<1>1. /\ Again \in SessionRequest /\ Again.pc = "wait" /\ Again.kind = "again"
      /\ Again.access = NoToken /\ Again.first = NoToken /\ Again.snap = NoSession
    BY DEF Again, NoCall, SessionRequest
<1>2. \A r \in Req : \/ xhr'[r] = xhr[r] /\ xhr[r].pc # "wait"
                     \/ xhr'[r] = NoCall
                     \/ xhr'[r] = Again /\ xhr[r].kind = "check" /\ xhr[r].pc = "wait"
    BY DEF GivesUp, ChecksAgain
<1>3. /\ refresh'.pc = "sent" /\ refresh'.token = store.refresh
      /\ refresh'.access = NoToken /\ refresh'.new = NoToken
      /\ refresh' \in [pc : {"none", "sent", "done", "refused"}, token : Token, access : Token, new : Token]
      /\ store.refresh # NoToken
    BY Parts DEF NoRefresh, SessionTypeOK
<1>4. SessionTypeOK'
    <2>1. NoCall \in SessionRequest /\ Again \in SessionRequest
        BY <1>1
    <2>2. \A r \in Req : xhr[r] \in SessionRequest
        BY DEF SessionTypeOK, SessionRequest
    <2>3. xhr' \in [Req -> SessionRequest]
        BY <2>1, <2>2 DEF GivesUp
    <2>4. QED  BY <1>3, <2>3 DEF SessionTypeOK, SessionRequest
<1> HIDE DEF Again
<1>5. KnownInv'
    BY <1>1, <1>2, <1>3 DEF KnownInv, Known, Signed, NoSession
<1>6. NewInv'
    BY <1>3 DEF NewInv
<1>7. RequestsInv' /\ OneCheck'
    BY <1>1, <1>2, <1>3 DEF RequestsInv, Orderly, Waited, Retried, Valid, OneCheck, Checks
<1>8. RefreshInv'
    BY <1>3 DEF RefreshInv, Accepts
<1>9. LoginInv'
    <2>1. store.refresh.n <= store.refresh.n
        BY Parts, TokenParts, SessionBounds
    <2>2. QED
        BY <1>1, <1>2, <1>3, <2>1 DEF LoginInv, OneLogin, SignedIn
<1>10. RetriesWithNewer'
    BY <1>1, <1>2 DEF RetriesWithNewer, Retried
<1>11. QED
    BY <1>4, <1>5, <1>6, <1>7, <1>8, <1>9, <1>10

(* A refresh that is refused or lost lets those who wait go. *)
LEMMA DropsRefreshInv ==
    ASSUME SessionInv, RefreshRefused \/ RefreshLost
    PROVE SessionInv'
<1>1. sessionFaults' \in 0 .. MaxSessionFaults
    BY SessionBounds DEF RefreshRefused, RefreshLost, SessionFault, SessionInv, SessionTypeOK
<1>2. CASE RefreshRefused
    BY <1>1, <1>2, GivesUpInv DEF RefreshRefused
<1>3. CASE RefreshLost /\ \E r \in Req : ChecksAgain(r)
    BY <1>1, <1>3, ChecksAgainInv DEF RefreshLost, KeepsSession, ChecksAgain
<1>4. CASE RefreshLost /\ ~\E r \in Req : ChecksAgain(r)
    <2>1. xhr' = [r \in Req |-> GivesUp(r)]
        BY <1>4 DEF RefreshLost
    <2>2. QED
        BY <1>1, <1>4, <2>1, GivesUpInv DEF RefreshLost, KeepsSession
<1>5. QED  BY <1>2, <1>3, <1>4

(* A request that goes on after the refresh has the token of the refresh. *)
LEMMA ResendParts ==
    ASSUME SessionInv, NEW r \in Req, NEW s \in StoredSession, s # NoSession, s.access = refresh.access,
           refresh.pc = "done"
    PROVE LET q == Resend(r, s) IN
          /\ q \in SessionRequest
          /\ \/ xhr[r].pc # "wait" /\ q = xhr[r]
             \/ xhr[r].pc = "wait" /\ q = NoCall
             \/ /\ xhr[r].kind = "again" /\ q.kind = "recheck"
                /\ q.pc = "sent" /\ q.access = refresh.access
                /\ q.first = NoToken /\ q.snap = s
             \/ /\ xhr[r].pc = "wait" /\ Retried(r) /\ xhr[r].kind \in {"call", "check", "recheck"}
                /\ q.kind = xhr[r].kind /\ q.pc = "sent" /\ q.access = refresh.access
                /\ q.first = xhr[r].first /\ q.snap = xhr[r].snap
<1> USE DEF SessionInv, Resend
<1>1. s.access \in Token
    BY SessionParts
<1>2. CASE xhr[r].pc # "wait"
    BY <1>2 DEF SessionTypeOK, SessionRequest
<1>3. CASE xhr[r].pc = "wait" /\ xhr[r].kind = "timer"
    BY <1>3, NothingIsTyped DEF NoCall
<1>4. CASE xhr[r].pc = "wait" /\ xhr[r].kind = "again"
    BY <1>1, <1>4, NothingIsTyped DEF SessionRequest
<1>5. CASE xhr[r].pc = "wait" /\ xhr[r].kind \notin {"timer", "again"}
    <2>1. Resend(r, s) = [xhr[r] EXCEPT !.pc = "sent", !.access = s.access]
        BY <1>5
    <2>2. Retried(r) /\ xhr[r].kind \in {"call", "check", "recheck"}
        BY <1>5 DEF RequestsInv, Orderly, SessionTypeOK
    <2>3. xhr[r] \in SessionRequest
        BY DEF SessionTypeOK, SessionRequest
    <2>4. QED  BY <1>1, <1>5, <2>1, <2>2, <2>3 DEF SessionRequest
<1>6. QED  BY <1>2, <1>3, <1>4, <1>5

(* A refresh that succeeds gives a newer token to all who wait for it. *)
LEMMA RefreshSucceedsInv ==
    ASSUME SessionInv, RefreshSucceeds
    PROVE SessionInv'
<1> DEFINE updated == [store EXCEPT !.access = refresh.access, !.refresh = refresh.new]
<1>1. CASE ~SignedIn
    BY <1>1, GivesUpInv DEF RefreshSucceeds, Writes, SessionInv, SessionTypeOK
<1>2. CASE SignedIn
    <2> USE NothingIsTyped DEF SessionInv
    <2>1. /\ refresh.pc = "done" /\ refresh' = NoRefresh
          /\ store' = updated /\ xhr' = [r \in Req |-> Resend(r, updated)]
          /\ UNCHANGED <<gen, signed, live, expired, sessionFaults, mixed>>
        BY <1>2 DEF RefreshSucceeds, Writes
    <2>2. /\ refresh'.pc = "none" /\ refresh'.token = NoToken /\ refresh'.access = NoToken /\ refresh'.new = NoToken
          /\ refresh' \in [pc : {"none", "sent", "done", "refused"}, token : Token, access : Token, new : Token]
        BY <2>1 DEF NoRefresh
    <2>3. /\ refresh.new \in Token /\ refresh.new # NoToken /\ Known(refresh.new)
          /\ refresh.access \in Token /\ refresh.access # NoToken
          /\ Valid(refresh.access) /\ Signed(refresh.access)
        BY <2>1, Parts DEF NewInv, KnownInv
    <2>4. /\ updated \in StoredSession /\ updated # NoSession
          /\ updated.access = refresh.access /\ updated.refresh = refresh.new
          /\ updated.user = store.user
        BY <1>2, <2>3 DEF SignedIn, SessionTypeOK, StoredSession, NoSession
    <2> HIDE DEF updated
    <2>5. \A r \in Req :
             /\ xhr'[r] \in SessionRequest
             /\ \/ xhr[r].pc # "wait" /\ xhr'[r] = xhr[r]
                \/ xhr[r].pc = "wait" /\ xhr'[r] = NoCall
                \/ /\ xhr[r].kind = "again" /\ xhr'[r].kind = "recheck"
                   /\ xhr'[r].pc = "sent" /\ xhr'[r].access = refresh.access
                   /\ xhr'[r].first = NoToken /\ xhr'[r].snap = updated
                \/ /\ xhr[r].pc = "wait" /\ Retried(r)
                   /\ xhr[r].kind \in {"call", "check", "recheck"}
                   /\ xhr'[r].kind = xhr[r].kind
                   /\ xhr'[r].pc = "sent" /\ xhr'[r].access = refresh.access
                   /\ xhr'[r].first = xhr[r].first /\ xhr'[r].snap = xhr[r].snap
        BY <2>1, <2>4, ResendParts
    <2>6. SessionTypeOK'
        <3>1. xhr' \in [Req -> SessionRequest]
            BY <2>1, <2>5
        <3>2. QED  BY <2>1, <2>2, <2>4, <3>1 DEF SessionTypeOK, SessionRequest
    <2>7. KnownInv'
        BY <2>1, <2>2, <2>3, <2>4, <2>5 DEF KnownInv, Known, Signed, NoSession
    <2>8. NewInv' /\ RefreshInv'
        BY <2>2 DEF NewInv, RefreshInv
    <2>9. RequestsInv'
        <3>1. SUFFICES ASSUME NEW r \in Req PROVE Orderly(r)'
            BY DEF RequestsInv
        <3>2. Orderly(r)
            BY DEF RequestsInv
        <3>3. expired'[refresh.access.login] < refresh.access.n
            BY <2>1, <2>3 DEF Valid
        <3>4. QED
            BY <2>1, <2>3, <2>4, <2>5, <3>2, <3>3 DEF Orderly, Waited, Retried, Valid
    <2>10. OneCheck'
        BY <2>5 DEF OneCheck, Checks
    <2>11. LoginInv'
        <3>1. SUFFICES ASSUME ~mixed PROVE \E u \in Login \cup {NoLogin} : OneLogin(u)'
            BY <2>1 DEF LoginInv
        <3>2. PICK u \in Login \cup {NoLogin} : OneLogin(u)
            BY <3>1 DEF LoginInv
        <3>3. refresh.new.login = u /\ store.user = u
            BY <1>2, <2>1, <3>2 DEF NewInv, OneLogin
        <3>4. ASSUME NEW r \in Req, xhr[r].snap # NoSession
              PROVE xhr[r].snap.refresh.n <= refresh.new.n
            <4>1. xhr[r].snap.refresh.n <= refresh.token.n
                BY <2>1, <3>2, <3>4 DEF OneLogin
            <4>2. refresh.token.n <= refresh.new.n
                BY <2>1 DEF NewInv
            <4>3. QED
                BY <4>1, <4>2, Parts, TokenParts, SessionBounds
        <3>5. refresh.new.n <= refresh.new.n
            BY <2>3, TokenParts, SessionBounds
        <3>6. OneLogin(u)'
            BY <2>1, <2>2, <2>4, <2>5, <3>2, <3>3, <3>4, <3>5 DEF OneLogin, SignedIn
        <3>7. QED  BY <3>6
    <2>12. RetriesWithNewer'
        BY <2>1, <2>5 DEF RetriesWithNewer, Retried, NewInv, Older
    <2>13. QED
        BY <2>6, <2>7, <2>8, <2>9, <2>10, <2>11, <2>12
<1>3. QED  BY <1>1, <1>2

-----------------------------------------------------------------------------
(* The requests. *)

(* A request waits for the refresh in flight or for one of the tokens of the
   store. *)
LEMMA WaitsInv ==
    ASSUME SessionInv, SignedIn, StartsOrJoins, NEW r \in Req, NEW q \in SessionRequest,
           xhr' = [xhr EXCEPT ![r] = q], q.pc = "wait",
           {q.access, q.first} \subseteq {NoToken, xhr[r].access},
           q.first # NoToken \/ q.kind \in {"timer", "again"},
           \/ q.snap = NoSession /\ q.kind \notin {"check", "recheck"}
           \/ q.snap = xhr[r].snap /\ q.kind = xhr[r].kind,
           q.kind \in Checks => xhr[r].kind \in Checks,
           sessionFaults' \in 0 .. MaxSessionFaults, UNCHANGED <<gen, signed, live, expired, store, mixed>>
    PROVE SessionInv'
<1> USE NothingIsTyped DEF SessionInv
<1>1. /\ xhr' \in [Req -> SessionRequest] /\ xhr'[r] = q
      /\ \A p \in Req : p # r => xhr'[p] = xhr[p]
    BY DEF SessionTypeOK, SessionRequest
<1>2. /\ refresh' \in [pc : {"none", "sent", "done", "refused"}, token : Token, access : Token, new : Token]
      /\ refresh'.pc # "none" /\ refresh'.token # NoToken
      /\ \/ refresh.pc # "none" /\ refresh' = refresh
         \/ /\ refresh.pc = "none" /\ refresh'.pc = "sent"
            /\ refresh'.token = store.refresh /\ refresh'.access = NoToken
            /\ refresh'.new = NoToken
    BY Parts DEF StartsOrJoins, NoRefresh, SessionTypeOK, RefreshInv
<1>3. SessionTypeOK'
    BY <1>1, <1>2 DEF SessionTypeOK, SessionRequest
<1>4. KnownInv'
    BY <1>1, <1>2 DEF KnownInv, Known, Signed, NoSession
<1>5. NewInv'
    <2>1. SUFFICES ASSUME refresh'.pc = "done" PROVE NewInv'
        BY DEF NewInv
    <2>2. refresh' = refresh /\ refresh.access.n > 0
        BY <1>2, <2>1, Parts, TokenParts, SessionBounds DEF NewInv
    <2>3. QED  BY <1>1, <2>1, <2>2 DEF NewInv, Older, Valid, NoToken, NoSession
<1>6. RequestsInv' /\ OneCheck'
    BY <1>1, <1>2 DEF RequestsInv, Orderly, Waited, Retried, Valid, OneCheck, Checks
<1>7. RefreshInv'
    BY <1>2 DEF RefreshInv, Accepts
<1>8. LoginInv'
    <2>1. store.refresh.n <= store.refresh.n
        BY Parts, TokenParts, SessionBounds
    <2>2. QED
        BY <1>1, <1>2, <2>1 DEF LoginInv, OneLogin, SignedIn
<1>9. RetriesWithNewer'
    BY <1>1 DEF RetriesWithNewer, Retried
<1>10. QED
    BY <1>3, <1>4, <1>5, <1>6, <1>7, <1>8, <1>9

(* A request is over; the session may be, too. *)
LEMMA EndsInv ==
    ASSUME SessionInv, NEW r \in Req, xhr' = [xhr EXCEPT ![r] = NoCall],
           store' \in {store, NoSession}, sessionFaults' \in 0 .. MaxSessionFaults,
           UNCHANGED <<gen, signed, live, expired, refresh, mixed>>
    PROVE SessionInv'
<1> USE NothingIsTyped DEF SessionInv
<1>1. /\ xhr' \in [Req -> SessionRequest] /\ xhr'[r] = NoCall
      /\ \A p \in Req : p # r => xhr'[p] = xhr[p]
    BY DEF SessionTypeOK, SessionRequest, NoCall
<1>2. SessionTypeOK'
    BY <1>1 DEF SessionTypeOK, SessionRequest
<1>3. KnownInv'
    BY <1>1 DEF KnownInv, Known, Signed, NoSession
<1>4. NewInv'
    <2>1. refresh.pc = "done" => refresh.access.n > 0
        BY Parts, TokenParts, SessionBounds DEF NewInv
    <2>2. QED  BY <1>1, <2>1 DEF NewInv, Older, Valid, NoToken, NoSession
<1>5. RequestsInv' /\ OneCheck'
    BY <1>1 DEF RequestsInv, Orderly, Waited, Retried, Valid, OneCheck, Checks
<1>6. RefreshInv'
    BY DEF RefreshInv, Accepts
<1>7. LoginInv'
    BY <1>1 DEF LoginInv, OneLogin, SignedIn
<1>8. RetriesWithNewer'
    BY <1>1 DEF RetriesWithNewer, Retried
<1>9. QED
    BY <1>2, <1>3, <1>4, <1>5, <1>6, <1>7, <1>8

(* A request is sent with the tokens of the store. *)
LEMMA CallInv ==
    ASSUME SessionInv, NEW r \in Req, Call(r)
    PROVE SessionInv'
<1> DEFINE q == [NoCall EXCEPT !.pc = "sent", !.access = store.access]
<1> USE NothingIsTyped DEF SessionInv, Call
<1>1. /\ q \in SessionRequest /\ q.pc = "sent" /\ q.kind = "call" /\ q.access = store.access
      /\ q.first = NoToken /\ q.snap = NoSession
    BY Parts DEF NoCall, SessionRequest
<1> HIDE DEF q
<1>2. /\ xhr' \in [Req -> SessionRequest] /\ xhr'[r] = q
      /\ \A p \in Req : p # r => xhr'[p] = xhr[p]
    BY <1>1 DEF SessionTypeOK, SessionRequest, q
<1>3. SessionTypeOK'
    BY <1>2 DEF SessionTypeOK, SessionRequest
<1>4. KnownInv'
    BY <1>1, <1>2 DEF KnownInv, Known, Signed, NoSession
<1>5. NewInv'
    <2>1. refresh.pc = "done" => refresh.access.n > 0
        BY Parts, TokenParts, SessionBounds DEF NewInv
    <2>2. QED  BY <1>1, <1>2, <2>1 DEF NewInv, Older, Valid, NoToken, NoSession
<1>6. RequestsInv' /\ OneCheck'
    BY <1>1, <1>2, Parts DEF RequestsInv, Orderly, Waited, Retried, Valid, OneCheck, Checks
<1>7. RefreshInv' /\ LoginInv'
    BY <1>1, <1>2 DEF RefreshInv, Accepts, LoginInv, OneLogin, SignedIn
<1>8. RetriesWithNewer'
    BY <1>1, <1>2 DEF RetriesWithNewer, Retried
<1>9. QED
    BY <1>3, <1>4, <1>5, <1>6, <1>7, <1>8

(* The page starts anew, with the session it finds in the store. *)
LEMMA LoadPageInv ==
    ASSUME SessionInv, NEW r \in Req, LoadPage(r)
    PROVE SessionInv'
<1> DEFINE q == [pc |-> "sent", kind |-> "check", access |-> store.access,
                 first |-> NoToken, snap |-> store]
<1> USE NothingIsTyped DEF SessionInv, LoadPage
<1>1. /\ q \in SessionRequest /\ q.pc = "sent" /\ q.kind = "check" /\ q.access = store.access
      /\ q.first = NoToken /\ q.snap = store
    BY Parts DEF SessionRequest, SessionTypeOK
<1> HIDE DEF q
<1>2. /\ xhr' \in [Req -> SessionRequest] /\ xhr'[r] = q
      /\ \A p \in Req : p # r => xhr'[p] = NoCall
    <2>1. NoCall \in SessionRequest
        BY DEF NoCall, SessionRequest
    <2>2. QED  BY <1>1, <2>1 DEF q
<1>3. refresh'.pc = "none" /\ refresh'.token = NoToken /\ refresh'.access = NoToken /\ refresh'.new = NoToken
    BY DEF NoRefresh
<1>4. SessionTypeOK'
    <2>1. sessionFaults' \in 0 .. MaxSessionFaults
        BY SessionBounds DEF SessionTypeOK, SessionFault
    <2>2. refresh' \in [pc : {"none", "sent", "done", "refused"}, token : Token, access : Token, new : Token]
        BY DEF NoRefresh
    <2>3. QED  BY <1>2, <2>1, <2>2 DEF SessionTypeOK, SessionRequest
<1>5. KnownInv'
    BY <1>1, <1>2, <1>3 DEF KnownInv, Known, Signed, NoSession
<1>6. NewInv' /\ RefreshInv'
    BY <1>3 DEF NewInv, RefreshInv
<1>7. RequestsInv' /\ OneCheck'
    BY <1>1, <1>2, Parts DEF RequestsInv, Orderly, Waited, Retried, SignedIn, OneCheck, Checks
<1>8. LoginInv'
    <2>1. store.refresh.n <= store.refresh.n
        BY Parts, TokenParts, SessionBounds
    <2>2. QED
        BY <1>1, <1>2, <1>3, <2>1 DEF LoginInv, OneLogin, SignedIn
<1>9. RetriesWithNewer'
    BY <1>1, <1>2 DEF RetriesWithNewer, Retried
<1>10. QED
    BY <1>4, <1>5, <1>6, <1>7, <1>8, <1>9

(* A check writes back the session it has read: there is no other check, and
   no refresh in flight is of a token older than that. *)
LEMMA SucceedsInv ==
    ASSUME SessionInv, NEW r \in Req, Succeeds(r)
    PROVE SessionInv'
<1>1. CASE xhr[r].snap = NoSession
    BY <1>1, EndsInv DEF Succeeds, SessionInv, SessionTypeOK
<1>2. CASE xhr[r].snap # NoSession
    <2> USE NothingIsTyped DEF SessionInv, Succeeds
    <2>1. store' = xhr[r].snap
        BY <1>2
    <2>2. /\ xhr' \in [Req -> SessionRequest] /\ xhr'[r] = NoCall
          /\ \A p \in Req : p # r => xhr'[p] = xhr[p]
        BY DEF SessionTypeOK, SessionRequest, NoCall
    <2>3. \A p \in Req : xhr'[p].snap = NoSession
        BY <1>2, <2>2 DEF RequestsInv, Orderly, OneCheck, Checks
    <2>4. SessionTypeOK'
        BY <2>1, <2>2, Parts DEF SessionTypeOK, SessionRequest
    <2>5. KnownInv'
        BY <2>1, <2>2 DEF KnownInv, Known, Signed, NoSession
    <2>6. NewInv'
        <3>1. refresh.pc = "done" => refresh.access.n > 0
            BY Parts, TokenParts, SessionBounds DEF NewInv
        <3>2. QED  BY <2>1, <2>2, <3>1 DEF NewInv, Older, Valid, NoToken, NoSession
    <2>7. RequestsInv' /\ OneCheck'
        BY <2>2 DEF RequestsInv, Orderly, Waited, Retried, Valid, OneCheck, Checks
    <2>8. RefreshInv'
        BY DEF RefreshInv, Accepts
    <2>9. LoginInv'
        BY <1>2, <2>1, <2>3 DEF LoginInv, OneLogin, SignedIn
    <2>10. RetriesWithNewer'
        BY <2>2 DEF RetriesWithNewer, Retried
    <2>11. QED
        BY <2>4, <2>5, <2>6, <2>7, <2>8, <2>9, <2>10
<1>3. QED  BY <1>1, <1>2

(* The timer starts a refresh or joins the one in flight. *)
LEMMA TimerRefreshInv ==
    ASSUME SessionInv, NEW r \in Req, TimerRefresh(r)
    PROVE SessionInv'
<1> DEFINE q == [NoCall EXCEPT !.pc = "wait", !.kind = "timer"]
<1>1. /\ q \in SessionRequest /\ q.pc = "wait" /\ q.kind = "timer" /\ q.access = NoToken
      /\ q.first = NoToken /\ q.snap = NoSession
    BY NothingIsTyped DEF NoCall, SessionRequest
<1>2. /\ SignedIn /\ StartsOrJoins /\ xhr' = [xhr EXCEPT ![r] = q]
      /\ sessionFaults' \in 0 .. MaxSessionFaults /\ UNCHANGED <<gen, signed, live, expired, store, mixed>>
    BY DEF TimerRefresh, SessionInv, SessionTypeOK
<1> HIDE DEF q
<1>3. QED
    BY <1>1, <1>2, WaitsInv DEF Checks

(* A check that failed waits for a refresh of its own. *)
LEMMA CheckFailedInv ==
    ASSUME SessionInv, NEW r \in Req, CheckFailed(r), sessionFaults' \in 0 .. MaxSessionFaults,
           UNCHANGED <<gen, signed, live, expired, store, mixed>>
    PROVE SessionInv'
<1>1. /\ Again \in SessionRequest /\ Again.pc = "wait" /\ Again.kind = "again"
      /\ Again.access = NoToken /\ Again.first = NoToken /\ Again.snap = NoSession
    BY NothingIsTyped DEF Again, NoCall, SessionRequest
<1>2. SignedIn /\ StartsOrJoins /\ xhr' = [xhr EXCEPT ![r] = Again] /\ xhr[r].kind = "check"
    BY DEF CheckFailed
<1>3. QED
    BY <1>1, <1>2, WaitsInv DEF Checks

(* A request that was refused waits for a refresh, or fails when nobody is
   signed in. *)
LEMMA UnauthorizedInv ==
    ASSUME SessionInv, NEW r \in Req, Unauthorized(r)
    PROVE SessionInv'
<1> USE DEF Unauthorized
<1>1. sessionFaults' \in 0 .. MaxSessionFaults
    BY SessionBounds DEF Answers401, SessionFault, SessionInv, SessionTypeOK
<1>2. CASE ~SignedIn
    BY <1>1, <1>2, EndsInv
<1>3. CASE SignedIn
    <2> DEFINE q == [xhr[r] EXCEPT !.pc = "wait", !.first = xhr[r].access]
    <2>1. StartsOrJoins /\ xhr' = [xhr EXCEPT ![r] = q]
        BY <1>3 DEF SessionInv, SessionTypeOK
    <2>2. /\ q \in SessionRequest /\ q.pc = "wait" /\ q.kind = xhr[r].kind
          /\ q.access = xhr[r].access /\ q.first = xhr[r].access /\ q.snap = xhr[r].snap
          /\ xhr[r].access # NoToken
        BY DEF SessionInv, SessionTypeOK, SessionRequest, RequestsInv, Orderly, Answers401
    <2> HIDE DEF q
    <2>3. QED
        BY <1>1, <1>3, <2>1, <2>2, WaitsInv
<1>4. QED  BY <1>2, <1>3

(* A retry that is refused, or lost, ends; a check goes on to its refresh.
   *)
LEMMA FailsAgainInv ==
    ASSUME SessionInv, NEW r \in Req, RefusedAgain(r) \/ CallLost(r)
    PROVE SessionInv'
<1>1. sessionFaults' \in 0 .. MaxSessionFaults
    BY SessionBounds DEF RefusedAgain, CallLost, Answers401, SessionFault, SessionInv, SessionTypeOK
<1>2. CASE CheckFailed(r) /\ UNCHANGED store
    BY <1>1, <1>2, CheckFailedInv DEF RefusedAgain, CallLost
<1>3. CASE /\ xhr' = [xhr EXCEPT ![r] = NoCall] /\ UNCHANGED refresh
           /\ store' \in {store, NoSession}
    BY <1>1, <1>3, EndsInv DEF RefusedAgain, CallLost
<1>4. QED
    BY <1>2, <1>3 DEF RefusedAgain, CallLost

-----------------------------------------------------------------------------
(* Every step preserves the invariant. *)
LEMMA StepInv == SessionInv /\ [SessionNext]_sessionVars => SessionInv'
<1> SUFFICES ASSUME SessionInv, [SessionNext]_sessionVars PROVE SessionInv'
    OBVIOUS
<1>1. CASE UNCHANGED sessionVars
    BY <1>1 DEF sessionVars, SessionInv, SessionTypeOK, KnownInv, Known, Signed, NewInv, Older, Valid, RequestsInv, Orderly,
        Waited, Retried, OneCheck, Checks, RefreshInv, Accepts, LoginInv, OneLogin, SignedIn,
        RetriesWithNewer
<1>2. ASSUME NEW l \in Login, SignIn(l) \/ Revoke(l) \/ Expire(l)
      PROVE SessionInv'
    BY <1>2, SignInInv, RevokeInv, ExpireInv
<1>3. CASE SignOut
    BY <1>3, EmptiedInv DEF SignOut
<1>4. CASE DeviceRevoked
    BY <1>4, EmptiedInv DEF DeviceRevoked
<1>5. CASE Refreshes
    BY <1>5, RefreshServedInv, RefreshSucceedsInv, DropsRefreshInv DEF Refreshes
<1>6. ASSUME NEW r \in Req, Call(r) \/ LoadPage(r) \/ TimerRefresh(r)
      PROVE SessionInv'
    BY <1>6, CallInv, LoadPageInv, TimerRefreshInv
<1>7. ASSUME NEW r \in Req, Succeeds(r) \/ Unauthorized(r) \/ RefusedAgain(r) \/ CallLost(r)
      PROVE SessionInv'
    BY <1>7, SucceedsInv, UnauthorizedInv, FailsAgainInv
<1>8. QED
    BY <1>1, <1>2, <1>3, <1>4, <1>5, <1>6, <1>7 DEF SessionNext

(* The inductive invariant holds of every run. *)
THEOREM SessionInductive == SessionSpec => []SessionInv
BY SessionInitInv, StepInv, PTL DEF SessionSpec

(* Every variable has its type. *)
THEOREM SessionTypeCorrect == SessionSpec => []SessionTypeOK
<1>1. SessionInv => SessionTypeOK  BY DEF SessionInv
<1>2. QED  BY <1>1, SessionInductive, PTL

(* A request that is sent again has waited for a token newer than the one that
   was refused, or of another login: the tokens a refresh brings are newer than
   all that the page has. *)
THEOREM RetryIsNewer == SessionSpec => []RetriesWithNewer
<1>1. SessionInv => RetriesWithNewer  BY DEF SessionInv
<1>2. QED  BY <1>1, SessionInductive, PTL

(* The page signs out by itself only for a cause: the refused refresh was of
   the login of the store, and of a token no older than the one of the store,
   whatever the check has written back meanwhile; and the tokens of a request
   that waited are valid. *)
THEOREM SignOutHasCause == SessionSpec => SignedOutOnlyWhenRevoked
<1> DEFINE Cause == \/ store.user \notin live
                    \/ gen[store.user] >= store.refresh.n + MaxHops
                    \/ mixed
                    \/ \E r \in Req :
                          xhr[r].kind = "recheck" /\ RefusedAgain(r) /\ Valid(xhr[r].access)
           A == SignedIn /\ store' = NoSession /\ ~SignOut => Cause
<1>1. SessionInv /\ [SessionNext]_sessionVars => [A]_sessionVars
    <2> SUFFICES ASSUME SessionInv, SessionNext, SignedIn, store' = NoSession, ~SignOut
                 PROVE Cause
        OBVIOUS
    <2> USE DEF SessionInv
    <2>1. store # NoSession /\ store' # store
        BY DEF SignedIn
    <2>2. CASE DeviceRevoked
        BY <2>2 DEF DeviceRevoked
    <2>3. CASE RefreshRefused
        <3>1. SUFFICES ASSUME ~mixed PROVE Cause
            OBVIOUS
        <3>2. PICK u \in Login \cup {NoLogin} : OneLogin(u)
            BY <3>1 DEF LoginInv
        <3>3. /\ ~Accepts(refresh.token) /\ refresh.token.login = store.user
              /\ store.refresh.n <= refresh.token.n
            BY <2>3, <3>2 DEF RefreshRefused, RefreshInv, OneLogin
        <3>4. store.user \in Login /\ gen[store.user] \in 0 .. MaxGen
            BY Parts DEF SessionTypeOK
        <3>5. store.refresh.n \in 0 .. MaxGen /\ refresh.token.n \in 0 .. MaxGen
            BY Parts, TokenParts
        <3>6. QED
            BY <3>3, <3>4, <3>5, SessionBounds DEF Accepts
    <2>4. CASE RefreshSucceeds
        <3>1. store' = [store EXCEPT !.access = refresh.access, !.refresh = refresh.new]
            BY <2>4 DEF RefreshSucceeds, Writes
        <3>2. store'.access # NoToken
            BY <2>1, <2>4, <3>1 DEF RefreshSucceeds, NewInv, SessionTypeOK, StoredSession
        <3>3. QED  BY <3>2 DEF NoSession
    <2>5. ASSUME NEW r \in Req, RefusedAgain(r) PROVE Cause
        <3>1. xhr[r].kind = "recheck"
            BY <2>1, <2>5 DEF RefusedAgain
        <3>2. Valid(xhr[r].access)
            BY <2>5, <3>1 DEF RefusedAgain, Answers401, RequestsInv, Orderly, Waited
        <3>3. QED  BY <2>5, <3>1, <3>2
    <2>6. CASE \/ \E l \in Login : SignIn(l) \/ Revoke(l) \/ Expire(l)
               \/ RefreshServed \/ RefreshLost
               \/ \E r \in Req : \/ Call(r) \/ LoadPage(r) \/ TimerRefresh(r)
                                 \/ Unauthorized(r) \/ CallLost(r)
        BY <2>1, <2>6 DEF SignIn, SignedIn, Revoke, Expire, RefreshServed, RefreshLost,
            KeepsSession, Call, LoadPage, TimerRefresh, Unauthorized, CallLost
    <2>7. ASSUME NEW r \in Req, Succeeds(r) PROVE FALSE
        BY <2>1, <2>7 DEF Succeeds
    <2>8. QED
        BY <2>2, <2>3, <2>4, <2>5, <2>6, <2>7 DEF SessionNext, Refreshes
<1>2. QED
    BY <1>1, SessionInductive, PTL DEF SessionSpec, SignedOutOnlyWhenRevoked

-----------------------------------------------------------------------------
(* The refinement of SessionStore by the server of a client. *)
Tips(l) == IF l \in live THEN {Newest(l)} ELSE {}

(* Whoever adds a row to a live login issues its token. *)
LEMMA RowIssues ==
    ASSUME SessionInv, NEW l \in Login, gen' = [gen EXCEPT ![l] = @ + 1], gen[l] < MaxGen,
           live' = live \cup {l}, NEW t \in Token, t = [login |-> l, n |-> gen[l] + 1]
    PROVE Store!Issue(l, t)
<1>1. /\ gen \in [Login -> 0 .. MaxGen] /\ gen[l] \in 0 .. MaxGen
      /\ \A r \in Login : gen'[r] = IF r = l THEN gen[l] + 1 ELSE gen[r]
    BY DEF SessionInv, SessionTypeOK
<1>2. \A r \in Login : t \notin Rows(r)
    <2>1. \A r \in Login : \A i \in 1 .. gen[r] : t # [login |-> r, n |-> i]
        BY <1>1, SessionBounds
    <2>2. QED  BY <2>1 DEF Rows
<1>3. [r \in Login |-> Tips(r)]' = [[r \in Login |-> Tips(r)] EXCEPT ![l] = {t}]
    <2>1. \A r \in Login : Tips(r)' = IF r = l THEN {t} ELSE Tips(r)
        BY <1>1 DEF Tips, Newest
    <2>2. QED  BY <2>1
<1>4. [r \in Login |-> Rows(r)]'
        = [[r \in Login |-> Rows(r)] EXCEPT ![l] = [r \in Login |-> Rows(r)][l] \cup {t}]
    <2>1. \A i \in Nat : i \in 1 .. gen[l] + 1 <=> i \in 1 .. gen[l] \/ i = gen[l] + 1
        BY <1>1, SessionBounds
    <2>2. Rows(l)' = Rows(l) \cup {t}
        BY <1>1, <2>1 DEF Rows
    <2>3. \A r \in Login : r # l => Rows(r)' = Rows(r)
        BY <1>1 DEF Rows
    <2>4. QED  BY <2>2, <2>3
<1>5. QED  BY <1>2, <1>3, <1>4 DEF Store!Issue, Tips

(* A sign-in opens the login, which had no row. *)
LEMMA SignInOpens ==
    ASSUME SessionInv, NEW l \in Login, SignIn(l)
    PROVE Store!Next
<1>1. /\ gen[l] = 0 /\ gen' = [gen EXCEPT ![l] = 1] /\ live' = live \cup {l}
      /\ gen \in [Login -> 0 .. MaxGen]
    BY DEF SignIn, SessionInv, SessionTypeOK
<1>2. gen' = [gen EXCEPT ![l] = @ + 1] /\ gen[l] < MaxGen
    BY <1>1, SessionBounds
<1>3. PICK t \in Token : t = [login |-> l, n |-> gen[l] + 1]
    <2>1. gen[l] + 1 \in 1 .. MaxGen
        BY <1>1, SessionBounds
    <2>2. [login |-> l, n |-> gen[l] + 1] \in Token
        BY <2>1 DEF Token
    <2>3. QED  BY <2>2
<1>4. Store!Issue(l, t)
    BY <1>1, <1>2, <1>3, RowIssues
<1>5. Rows(l) = {}
    BY <1>1 DEF Rows
<1>6. QED  BY <1>4, <1>5 DEF Store!Next, Store!Open

(* A refresh rotates the newest row, or changes no row at all. *)
LEMMA ServedRotates ==
    ASSUME SessionInv, RefreshServed
    PROVE Store!Next \/ UNCHANGED <<gen, live>>
<1>1. PICK l \in Login : l = refresh.token.login
    BY Parts, TokenParts DEF SessionInv, RefreshInv, RefreshServed
<1>2. live' = live /\ gen \in [Login -> 0 .. MaxGen] /\ gen[l] \in 0 .. MaxGen
      /\ gen[l] <= signed[l]
    BY DEF RefreshServed, SessionInv, SessionTypeOK, KnownInv
<1>3. CASE Accepts(refresh.token) /\ refresh.token.n = gen[l]
    <2>1. gen' = [gen EXCEPT ![l] = @ + 1] /\ signed[l] < MaxGen /\ l \in live
        BY <1>1, <1>3 DEF RefreshServed, Accepts
    <2>2. gen[l] < MaxGen /\ live' = live \cup {l}
        BY <1>2, <2>1, SessionBounds DEF SessionInv, SessionTypeOK
    <2>3. PICK t \in Token : t = [login |-> l, n |-> gen[l] + 1]
        <3>1. gen[l] + 1 \in 1 .. MaxGen
            BY <1>2, <2>2, SessionBounds
        <3>2. [login |-> l, n |-> gen[l] + 1] \in Token
            BY <3>1 DEF Token
        <3>3. QED  BY <3>2
    <2>4. Store!Issue(l, t)
        BY <2>1, <2>2, <2>3, RowIssues
    <2>5. {Newest(l)} # {}
        OBVIOUS
    <2>6. QED  BY <2>1, <2>4, <2>5 DEF Store!Next, Store!Rotate
<1>4. CASE ~(Accepts(refresh.token) /\ refresh.token.n = gen[l])
    BY <1>1, <1>2, <1>4 DEF RefreshServed
<1>5. QED  BY <1>3, <1>4

(* A login that is revoked is closed. *)
LEMMA RevokedCloses ==
    ASSUME NEW ss \in SUBSET Login, live' = live \ ss, gen' = gen
    PROVE Store!Next
<1>1. [l \in Login |-> Tips(l)]'
        = [l \in Login |-> IF l \in ss THEN {} ELSE [r \in Login |-> Tips(r)][l]]
    BY DEF Tips, Newest
<1>2. [l \in Login |-> Rows(l)]' = [l \in Login |-> Rows(l)]
    BY DEF Rows
<1>3. Store!Close(ss)
    BY <1>1, <1>2 DEF Store!Close, Tips
<1>4. QED  BY <1>3 DEF Store!Next

(* What this module lets the server give a client keeps to SessionStore, as
   RefreshSessions does: a login has one newest row, a refresh rotates it or
   answers with it, and a login that was revoked has none again. *)
THEOREM ClientIsServedByStore == SessionSpec => ServedByStore
<1>1. SessionInit => Store!Init
    <2> SUFFICES ASSUME SessionInit PROVE Store!Init
        OBVIOUS
    <2>1. \A l \in Login : Rows(l) = {} /\ l \notin live
        BY DEF SessionInit, Rows
    <2>2. QED  BY <2>1 DEF Store!Init
<1>2. SessionInv /\ [SessionNext]_sessionVars => [Store!Next]_(Store!vars)
    <2> SUFFICES ASSUME SessionInv, [SessionNext]_sessionVars
                 PROVE  Store!Next \/ UNCHANGED Store!vars
        OBVIOUS
    <2>1. CASE UNCHANGED <<gen, live>>
        BY <2>1 DEF Store!vars, Rows, Newest
    <2>2. ASSUME NEW l \in Login, SignIn(l) PROVE Store!Next
        BY <2>2, SignInOpens
    <2>3. ASSUME NEW l \in Login, Revoke(l) PROVE Store!Next
        BY <2>3, RevokedCloses DEF Revoke
    <2>4. CASE SignOut
        <3>1. PICK l \in Login : l = store.refresh.login
            BY <2>4, Parts, TokenParts DEF SignOut, SessionInv
        <3>2. gen' = gen /\ (live' = live \/ live' = live \ {l})
            BY <2>4, <3>1 DEF SignOut
        <3>3. QED  BY <2>1, <3>2, RevokedCloses
    <2>5. CASE RefreshServed
        BY <2>1, <2>5, ServedRotates
    <2>6. CASE \/ \E l \in Login : Expire(l)
               \/ DeviceRevoked \/ RefreshSucceeds \/ RefreshRefused \/ RefreshLost
               \/ \E r \in Req : \/ Call(r) \/ LoadPage(r) \/ TimerRefresh(r) \/ Succeeds(r)
                                 \/ Unauthorized(r) \/ RefusedAgain(r) \/ CallLost(r)
               \/ UNCHANGED sessionVars
        <3>1. UNCHANGED <<gen, live>>
            BY <2>6 DEF Expire, DeviceRevoked, RefreshSucceeds, RefreshRefused, RefreshLost, Call,
                LoadPage, TimerRefresh, Succeeds, Unauthorized, RefusedAgain, CallLost, sessionVars
        <3>2. QED  BY <2>1, <3>1
    <2>7. QED
        BY <2>2, <2>3, <2>4, <2>5, <2>6 DEF SessionNext, Refreshes
<1>3. QED
    BY <1>1, <1>2, SessionInductive, PTL DEF SessionSpec, ServedByStore, Store!Spec

-----------------------------------------------------------------------------
(* The three together. *)

(* A behaviour of the composition is one of each part, and the part that moves
   is one of the four. *)
THEOREM PartsBehave ==
    PartsSpec =>
        /\ Spec /\ HistorySpec /\ SessionSpec
        /\ [](part \in {"setup", "link", "history", "session"})
<1> DEFINE Named == part \in {"setup", "link", "history", "session"}
<1>1. PartsInit => Init /\ HistoryInit /\ SessionInit /\ Named
    BY DEF PartsInit
<1>2. [PartsNext]_<<part, setupVars, historyVars, sessionVars>>
        => /\ [Next]_vars /\ [HistoryNext]_historyVars /\ [SessionNext]_sessionVars
           /\ Named => Named'
    BY DEF PartsNext, setupVars
<1>3. QED  BY <1>1, <1>2, PTL DEF PartsSpec, Spec, HistorySpec, SessionSpec

(* Every variable of the part that moves keeps its type. *)
THEOREM PartsTypeCorrect == PartsSpec => []PartsTypeOK
<1>1. TypeOK /\ HistoryTypeOK /\ SessionTypeOK /\ part \in {"setup", "link", "history", "session"}
        => PartsTypeOK
    <2> SUFFICES ASSUME TypeOK, HistoryTypeOK, SessionTypeOK,
                        part \in {"setup", "link", "history", "session"}
                 PROVE  PartsTypeOK
        OBVIOUS
    <2>1. CASE part \in {"setup", "link"}  BY <2>1 DEF PartsTypeOK
    <2>2. CASE part = "history"  BY <2>2 DEF PartsTypeOK
    <2>3. CASE part = "session"  BY <2>3 DEF PartsTypeOK
    <2>4. QED  BY <2>1, <2>2, <2>3
<1>2. QED
    BY <1>1, PartsBehave, TypeCorrect, HistoryTypeCorrect, SessionTypeCorrect, PTL
=============================================================================
