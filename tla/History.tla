-------------------------------- MODULE History --------------------------------
(***************************************************************************)
(* The history of conversations in a page of the web client: the newest    *)
(* page, which is polled and merged with what is cached, the messages that *)
(* events append, and the older pages loaded by scrolling, each from the   *)
(* cursor the one before it left (src/frontend/src/ui/pages/ChatsPage.tsx, *)
(* GET /conversations/:id/messages of src/src/routes/conversations.ts).    *)
(*                                                                         *)
(* What was loaded last is kept per conversation (olderMetaByConvRef), and *)
(* once more for the one that is shown (olderMeta).  Answers arrive after  *)
(* another conversation was selected.                                      *)
(*                                                                         *)
(* A message is the number of its createdAt among all conversations, and a *)
(* cursor is such a number: 0 is none.                                     *)
(*                                                                         *)
(* Abstracted: ChatsPage stays mounted.  What happens when it is left and  *)
(* shown again within the lifetime of the query cache, with several pages  *)
(* cached and no cursor kept, is not modelled.                             *)
(***************************************************************************)
EXTENDS Naturals, Sequences, FiniteSetsExt

CONSTANTS
    Chat,       \* conversations of the user
    NoChat,
    Page,       \* MESSAGES_PAGE_SIZE
    MaxMsgs,    \* bound: messages that are sent
    Load,       \* loads of older pages at the same time
    MaxLoadFaults   \* bound: requests that fail

ASSUME HistoryBounds ==
    Page \in Nat \ {0} /\ {MaxMsgs, MaxLoadFaults} \subseteq Nat /\ NoChat \notin Chat

VARIABLES
    owner,      \* the conversation of each message
    active,     \* activeId
    cache,      \* [Chat -> the cache of ['messages', conversation]]
    fetch,      \* [Chat -> the fetch of the newest page]
    saved,      \* [Chat -> olderMetaByConvRef]
    meta,       \* olderMeta
    loading,    \* olderLoadingRef
    load,       \* [Load -> an older page on its way]
    loadFaults,
    upto,       \* history: [Chat -> the newest message fetched into the cache]
    skips       \* history: conversations of which a part was skipped

historyVars == <<owner, active, cache, fetch, saved, meta, loading, load, loadFaults, upto, skips>>

Msg == 1 .. MaxMsgs
NoCache == {0}
Meta == [more : BOOLEAN, cursor : 0 .. MaxMsgs]
NoMeta == [more |-> FALSE, cursor |-> 0]
Fetch == [pc : {"none", "sent", "read"}, page : SUBSET Msg, meta : Meta]
OlderLoad == [pc : {"none", "sent", "read"}, conv : Chat \cup {NoChat}, cursor : 0 .. MaxMsgs,
              page : SUBSET Msg, meta : Meta]
NoFetch == [pc |-> "none", page |-> {}, meta |-> NoMeta]
NoLoad == [pc |-> "none", conv |-> NoChat, cursor |-> 0, page |-> {}, meta |-> NoMeta]

HistoryInit ==
    /\ owner \in UNION {[1 .. n -> Chat] : n \in 0 .. MaxMsgs}
    /\ active = NoChat
    /\ cache = [c \in Chat |-> NoCache]
    /\ fetch = [c \in Chat |-> NoFetch]
    /\ saved = [c \in Chat |-> NoMeta]
    /\ meta = NoMeta
    /\ loading = FALSE
    /\ load = [l \in Load |-> NoLoad]
    /\ loadFaults = 0 /\ upto = [c \in Chat |-> 0] /\ skips = {}

-----------------------------------------------------------------------------
(* GET /conversations/:id/messages: the newest messages before the cursor. *)
Of(c) == {m \in 1 .. Len(owner) : owner[m] = c}
Before(c, cursor) == {m \in Of(c) : cursor = 0 \/ m < cursor}
PageOf(ms) == {m \in ms : Cardinality({n \in ms : n > m}) < Page}
MetaOf(ms) ==
    IF Cardinality(ms) > Page THEN [more |-> TRUE, cursor |-> Min(PageOf(ms))] ELSE NoMeta

Cached(c) == IF cache[c] = NoCache THEN {} ELSE cache[c]

(* persistOlderMeta: kept for the conversation, and shown whatever is shown. *)
Persist(c, new) == saved' = [saved EXCEPT ![c] = new] /\ meta' = new

-----------------------------------------------------------------------------
(* A message is sent, and the page may see the event: it is appended, and the
   newest page fetched again. *)
FilledByEvents(c) ==
    /\ upto[c] = 0
    /\ saved[c].cursor # 0 \/ Cardinality(Cached(c)) >= Page

Arrive(c, seen) ==
    /\ Len(owner) < MaxMsgs
    /\ owner' = Append(owner, c)
    /\ IF seen
       THEN /\ active = c
            /\ cache' = [cache EXCEPT ![c] = Cached(c) \cup {Len(owner) + 1}]
            /\ fetch' = [fetch EXCEPT ![c] = [NoFetch EXCEPT !.pc = "sent"]]
            /\ skips' = IF FilledByEvents(c) THEN skips \cup {c} ELSE skips
       ELSE UNCHANGED <<cache, fetch, skips>>
    /\ UNCHANGED <<active, saved, meta, loading, load, loadFaults, upto>>

(* A conversation is selected: its pagination is restored. *)
Select(c) ==
    /\ active # c
    /\ active' = c
    /\ meta' = saved[c]
    /\ loading' = FALSE
    /\ fetch' \in {fetch} \cup (IF fetch[c].pc = "none"
                                THEN {[fetch EXCEPT ![c].pc = "sent"]} ELSE {})
    /\ UNCHANGED <<owner, cache, saved, load, loadFaults, upto, skips>>

Poll ==
    /\ active # NoChat /\ fetch[active].pc = "none"
    /\ fetch' = [fetch EXCEPT ![active].pc = "sent"]
    /\ UNCHANGED <<owner, active, cache, saved, meta, loading, load, loadFaults, upto, skips>>

FetchRead(c) ==
    /\ fetch[c].pc = "sent"
    /\ fetch' = [fetch EXCEPT ![c] =
                    [pc |-> "read", page |-> PageOf(Of(c)), meta |-> MetaOf(Of(c))]]
    /\ UNCHANGED <<owner, active, cache, saved, meta, loading, load, loadFaults, upto, skips>>

(* The pagination starts with the first load, and with a cache of at most one
   page that was filled by events.  Mutant: only with the first load. *)
StartsEmpty(c) == Cached(c) = {}
Starts(c) ==
    \/ Cached(c) = {}
    \/ saved[c].cursor = 0 /\ Cardinality(Cached(c)) <= Page

(* The page does not reach down to the last one that was fetched. *)
Burst(c, page) ==
    upto[c] # 0 /\ \E m \in Of(c) : m > upto[c] /\ page # {} /\ m < Min(page)

Later(m, page) == IF page # {} THEN Max(page) ELSE m

FetchAnswered(c) ==
    LET f == fetch[c] IN
    /\ f.pc = "read"
    /\ cache' = [cache EXCEPT ![c] = Cached(c) \cup f.page]
    /\ fetch' = [fetch EXCEPT ![c] = NoFetch]
    /\ IF Starts(c) THEN Persist(c, f.meta) ELSE UNCHANGED <<saved, meta>>
    /\ upto' = [upto EXCEPT ![c] = Later(@, f.page)]
    /\ skips' = IF Burst(c, f.page) THEN skips \cup {c} ELSE skips
    /\ UNCHANGED <<owner, active, loading, load, loadFaults>>

FetchFails(c) ==
    /\ fetch[c].pc # "none"
    /\ loadFaults < MaxLoadFaults /\ loadFaults' = loadFaults + 1
    /\ fetch' = [fetch EXCEPT ![c] = NoFetch]
    /\ UNCHANGED <<owner, active, cache, saved, meta, loading, load, upto, skips>>

(* An unused cache is dropped after five minutes. *)
Evict(c) ==
    /\ active # c /\ fetch[c].pc = "none" /\ cache[c] # NoCache
    /\ cache' = [cache EXCEPT ![c] = NoCache]
    /\ upto' = [upto EXCEPT ![c] = 0]
    /\ skips' = skips \ {c}
    /\ UNCHANGED <<owner, active, fetch, saved, meta, loading, load, loadFaults>>

-----------------------------------------------------------------------------
(* loadOlderMessages. *)
LoadOlder(l) ==
    /\ active # NoChat /\ ~loading /\ load[l].pc = "none"
    /\ meta.more /\ meta.cursor # 0
    /\ loading' = TRUE
    /\ load' = [load EXCEPT ![l] = [NoLoad EXCEPT !.pc = "sent", !.conv = active, !.cursor = meta.cursor]]
    /\ UNCHANGED <<owner, active, cache, fetch, saved, meta, loadFaults, upto, skips>>

OlderRead(l) ==
    LET ms == Before(load[l].conv, load[l].cursor) IN
    /\ load[l].pc = "sent"
    /\ load' = [load EXCEPT ![l].pc = "read", ![l].page = PageOf(ms), ![l].meta = MetaOf(ms)]
    /\ UNCHANGED <<owner, active, cache, fetch, saved, meta, loading, loadFaults, upto, skips>>

(* The cursor was another conversation's, or from before the cache was dropped. *)
Stray(l) == upto[load[l].conv] = 0 \/ load[l].cursor # saved[load[l].conv].cursor

OlderAnswered(l) ==
    LET c == load[l].conv IN
    /\ load[l].pc = "read"
    /\ cache' = [cache EXCEPT ![c] = Cached(c) \cup load[l].page]
    /\ Persist(c, load[l].meta)
    /\ loading' = FALSE
    /\ load' = [load EXCEPT ![l] = NoLoad]
    /\ skips' = IF Stray(l) THEN skips \cup {c} ELSE skips
    /\ UNCHANGED <<owner, active, fetch, loadFaults, upto>>

OlderFails(l) ==
    /\ load[l].pc # "none"
    /\ loadFaults < MaxLoadFaults /\ loadFaults' = loadFaults + 1
    /\ loading' = FALSE
    /\ load' = [load EXCEPT ![l] = NoLoad]
    /\ UNCHANGED <<owner, active, cache, fetch, saved, meta, upto, skips>>

-----------------------------------------------------------------------------
HistoryNext ==
    \/ \E c \in Chat :
          \/ \E seen \in BOOLEAN : Arrive(c, seen)
          \/ Select(c) \/ FetchRead(c) \/ FetchAnswered(c) \/ FetchFails(c) \/ Evict(c)
    \/ Poll
    \/ \E l \in Load : LoadOlder(l) \/ OlderRead(l) \/ OlderAnswered(l) \/ OlderFails(l)

HistorySpec == HistoryInit /\ [][HistoryNext]_historyVars

-----------------------------------------------------------------------------
(* The type of every variable. *)
HistoryTypeOK ==
    /\ owner \in Seq(Chat) /\ Len(owner) <= MaxMsgs
    /\ active \in Chat \cup {NoChat}
    /\ cache \in [Chat -> {NoCache} \cup SUBSET Msg] /\ upto \in [Chat -> 0 .. MaxMsgs]
    /\ fetch \in [Chat -> Fetch] /\ load \in [Load -> OlderLoad]
    /\ saved \in [Chat -> Meta] /\ meta \in Meta
    /\ loading \in BOOLEAN /\ loadFaults \in 0 .. MaxLoadFaults /\ skips \subseteq Chat

(* What the page shows of a conversation has no holes: of the messages up to
   the newest that was fetched, each one is there or can still be reached by
   scrolling up, whatever events and answers came in between, also those of
   other conversations.  The cases in which the code does skip a part, and
   which end with the next removal of the cache, are the ones named above: a
   burst of more than a page between two fetches (Burst), a cache that events
   filled before its first fetch with a page or more, or whose older cursor
   outlived it (FilledByEvents), and an older page loaded from a cursor that is
   not the conversation's (Stray: the answer for another conversation is shown
   as the pagination of this one, ChatsPage.tsx:1721-1724). *)
NoHoles ==
    \A c \in Chat \ skips : \A m \in Of(c) :
        m <= upto[c] => m \in Cached(c) \/ (saved[c].more /\ m < saved[c].cursor)
=============================================================================
