-------------------------------- MODULE ChatSync --------------------------------
(***************************************************************************)
(* How one page of the web client follows one group conversation: the      *)
(* requests that change it (src/src/routes/conversations.ts), the socket   *)
(* and its rooms (src/src/realtime/socket.ts), and the page with its       *)
(* queries, polls and handlers (src/frontend/src/ui/pages/ChatsPage.tsx).  *)
(*                                                                         *)
(* Every request of the server is split at its awaits: what it writes and  *)
(* what it announces are different steps, and it may fail in between.  The *)
(* socket delivers in order, and drops what is on the way when it is       *)
(* disconnected; it reconnects by itself.                                  *)
(*                                                                         *)
(* Messages are numbers in the order of createdAt, and are sent by others. *)
(* Of other conversations only the change of the list is modelled.         *)
(* Abstracted: older pages (module History), staleTime, by which the page  *)
(* may skip a fetch when it opens a conversation, and the removal of an    *)
(* unused cache after five minutes.                                        *)
(***************************************************************************)
EXTENDS Naturals, Sequences, FiniteSets

CONSTANTS
    MaxMsgs,    \* bound: messages that are sent
    Page,       \* MESSAGES_PAGE_SIZE
    MaxActs,    \* bound: messages sent, and times the user leaves, is added or
                \*   returns to the tab
    MaxFaults   \* bound: disconnections and requests that fail

ASSUME ChatBounds == {MaxMsgs, Page, MaxActs, MaxFaults} \subseteq Nat

VARIABLES
    member,     \* there is a row conversationParticipant
    sent,       \* how many messages there are
    post,       \* [message -> where the request that sends it is]
    moving,     \* changes of the membership that were not announced yet
    room,       \* the socket is in the room of the conversation
    joins,      \* conversation:join in progress
    wire,       \* events on the way to the page
    online,       \* socket.connected
    wasConn,    \* wasConnectedRef
    pending,    \* a join waits for the connection
    marked,     \* joinedConversationIds
    listed,     \* the conversation in the cache of ['conversations']
    listReq,    \* GET /conversations
    open,       \* activeId
    cache,      \* the cache of ['messages', activeId]
    msgReq,     \* GET /conversations/:id/messages
    answer,     \* the page it has read
    acts, faults,
    missed      \* history: since the list was read, a change was not announced
                \*   to the page, or the page could not act on it

serverVars == <<member, sent, post, moving, acts>>
socketVars == <<room, joins, wire, online, wasConn, pending>>
pageVars == <<marked, listed, listReq, open, cache, msgReq, answer>>
chatVars == <<serverVars, socketVars, pageVars, faults, missed>>

Msg == 1 .. MaxMsgs
NoCache == {0}      \* undefined
Newest == {m \in 1 .. sent : m + Page > sent}
Event == [kind : {"new", "notify"}, msg : Msg] \cup [kind : {"added", "deleted"}]

ChatInit ==
    /\ member \in BOOLEAN
    /\ sent = 0 /\ post = [m \in Msg |-> "none"]
    /\ moving = {} /\ acts = 0
    /\ room = FALSE /\ joins = {} /\ wire = <<>>
    /\ online = FALSE /\ wasConn = FALSE /\ pending = FALSE
    /\ marked = FALSE /\ listed = "unknown" /\ listReq = "sent"
    /\ open = FALSE /\ cache = NoCache /\ msgReq = "none" /\ answer = {}
    /\ faults = 0 /\ missed = FALSE

Fault == faults < MaxFaults /\ faults' = faults + 1

-----------------------------------------------------------------------------
(* Emissions reach a socket that is connected, and, to the conversation, one
   that is in its room. *)
Emit(e) == wire' = IF online THEN Append(wire, e) ELSE wire
EmitToRoom(e) == wire' = IF room THEN Append(wire, e) ELSE wire

(* POST /conversations/send of another member. *)
Create ==
    /\ sent < MaxMsgs /\ acts < MaxActs
    /\ sent' = sent + 1 /\ acts' = acts + 1
    /\ post' = [post EXCEPT ![sent + 1] = "created"]
    /\ UNCHANGED <<member, moving, socketVars, pageVars, faults, missed>>

AnnounceMsg(m) ==
    /\ post[m] = "created"
    /\ post' = [post EXCEPT ![m] = "announced"]
    /\ EmitToRoom([kind |-> "new", msg |-> m])
    /\ UNCHANGED <<member, sent, moving, acts, room, joins, online, wasConn, pending>>
    /\ UNCHANGED <<pageVars, faults, missed>>

(* The participants are read, and each is notified. *)
Notify(m) ==
    /\ post[m] = "announced"
    /\ post' = [post EXCEPT ![m] = "done"]
    /\ IF member THEN Emit([kind |-> "notify", msg |-> m]) ELSE UNCHANGED wire
    /\ UNCHANGED <<member, sent, moving, acts, room, joins, online, wasConn, pending>>
    /\ UNCHANGED <<pageVars, faults, missed>>

PostFails(m) ==
    /\ post[m] \in {"created", "announced"}
    /\ Fault
    /\ post' = [post EXCEPT ![m] = "done"]
    /\ UNCHANGED <<member, sent, moving, acts, socketVars, pageVars, missed>>

(* The user leaves, on another device, or is added. *)
LeaveChat ==
    /\ member /\ acts < MaxActs /\ "deleted" \notin moving
    /\ member' = FALSE
    /\ moving' = moving \cup {"deleted"} /\ acts' = acts + 1
    /\ UNCHANGED <<sent, post, socketVars, pageVars, faults, missed>>

Add ==
    /\ ~member /\ acts < MaxActs /\ "added" \notin moving
    /\ member' = TRUE
    /\ moving' = moving \cup {"added"} /\ acts' = acts + 1
    /\ UNCHANGED <<sent, post, socketVars, pageVars, faults, missed>>

Moved(kind) ==
    /\ kind \in moving
    /\ moving' = moving \ {kind}
    /\ Emit([kind |-> kind])
    /\ missed' = (missed \/ ~online)
    /\ UNCHANGED <<member, sent, post, acts, room, joins, online, wasConn, pending>>
    /\ UNCHANGED <<pageVars, faults>>

MoveFails(kind) ==
    /\ kind \in moving
    /\ Fault
    /\ moving' = moving \ {kind}
    /\ missed' = TRUE
    /\ UNCHANGED <<member, sent, post, acts, socketVars, pageVars>>

(* conversation:join looks for the participant, and joins after the await. *)
JoinReads ==
    /\ "sent" \in joins
    /\ joins' = (joins \ {"sent"}) \cup (IF member THEN {"checked"} ELSE {})
    /\ UNCHANGED <<serverVars, room, wire, online, wasConn, pending, pageVars, faults, missed>>

JoinDone ==
    /\ "checked" \in joins
    /\ joins' = joins \ {"checked"}
    /\ room' = TRUE
    /\ UNCHANGED <<serverVars, wire, online, wasConn, pending, pageVars, faults, missed>>

-----------------------------------------------------------------------------
(* joinConversation: at once, or when the socket is connected. *)
JoinRoom(wanted) ==
    /\ joins' = IF wanted /\ online THEN joins \cup {"sent"} ELSE joins
    /\ pending' = (pending \/ (wanted /\ ~online))

(* refetch() and invalidateQueries(): a fetch in progress is abandoned, except
   the first one.  Mutant: it never is. *)
RefetchJoins(req, loaded) == IF req = "none" THEN "sent" ELSE req
Refetch(req, loaded) == IF req # "none" /\ ~loaded THEN req ELSE "sent"

RefetchList == listReq' = Refetch(listReq, listed # "unknown")
RefetchMsgs(data) ==
    /\ msgReq' = Refetch(msgReq, data # NoCache)
    /\ answer' = IF msgReq' = "read" THEN answer ELSE {}

(* An enabled query fetches what is not fetched already, unless it is fresh. *)
MayFetch == msgReq' \in (IF msgReq = "none" THEN {"none", "sent"} ELSE {msgReq})

(* The reconnection of ChatsPage.  wasConn, which is to make it join the rooms
   again, is reset by every disconnection: the page is in no room until the tab
   is focused or the list changes, and lives on notifications and polls. *)
SocketConnects ==
    /\ ~online
    /\ online' = TRUE /\ wasConn' = TRUE /\ pending' = FALSE
    /\ joins' = IF pending \/ (wasConn /\ listed = "yes") THEN joins \cup {"sent"} ELSE joins
    /\ UNCHANGED <<serverVars, room, wire, pageVars, faults, missed>>

MembershipNews == \E i \in DOMAIN wire : wire[i].kind \in {"added", "deleted"}

SocketDrops ==
    /\ online /\ Fault
    /\ online' = FALSE /\ wasConn' = FALSE
    /\ room' = FALSE /\ joins' = {} /\ wire' = <<>>
    /\ missed' = (missed \/ MembershipNews)
    /\ UNCHANGED <<serverVars, pending, pageVars>>

(* The tab is focused, or the browser is online: syncAfterResume. *)
Resume ==
    /\ acts < MaxActs /\ acts' = acts + 1
    /\ JoinRoom(marked \/ open)
    /\ RefetchList
    /\ IF open /\ listed = "yes" THEN RefetchMsgs(cache) ELSE UNCHANGED <<msgReq, answer>>
    /\ UNCHANGED <<member, sent, post, moving, room, wire, online, wasConn>>
    /\ UNCHANGED <<marked, listed, open, cache, faults, missed>>

(* Another conversation enters or leaves the list: every room is joined again. *)
OthersChange ==
    /\ listed = "yes"
    /\ JoinRoom(TRUE)
    /\ UNCHANGED <<serverVars, room, wire, online, wasConn, pageVars, faults, missed>>

-----------------------------------------------------------------------------
(* The list of conversations: read at the server, and answered. *)
ListRead ==
    /\ listReq = "sent"
    /\ listReq' = IF member THEN "yes" ELSE "no"
    /\ missed' = FALSE
    /\ UNCHANGED <<serverVars, socketVars, marked, listed, open, cache, msgReq, answer, faults>>

ListAnswered ==
    /\ listReq \in {"yes", "no"}
    /\ listed' = listReq /\ listReq' = "none"
    /\ LET appears == listReq = "yes" /\ listed # "yes" IN
       /\ JoinRoom(appears)
       /\ marked' = (marked \/ appears)
       /\ IF appears /\ open THEN MayFetch ELSE UNCHANGED msgReq
    /\ UNCHANGED <<serverVars, room, wire, online, wasConn, open, cache, answer, faults, missed>>

ListFails ==
    /\ listReq # "none" /\ Fault
    /\ listReq' = "none" /\ missed' = TRUE
    /\ UNCHANGED <<serverVars, socketVars, marked, listed, open, cache, msgReq, answer>>

(* The messages of the open conversation are polled.  Mutant: only while the
   socket does not deliver them. *)
PolledOffline == open /\ listed = "yes" /\ ~online
Polled == open /\ listed = "yes"

Poll ==
    /\ Polled /\ msgReq = "none"
    /\ msgReq' = "sent"
    /\ UNCHANGED <<serverVars, socketVars, marked, listed, listReq, open, cache, answer, faults, missed>>

MsgsRead ==
    /\ msgReq = "sent"
    /\ IF member THEN msgReq' = "read" /\ answer' = Newest
                 ELSE msgReq' = "forbidden" /\ UNCHANGED answer
    /\ UNCHANGED <<serverVars, socketVars, marked, listed, listReq, open, cache, faults, missed>>

(* Mutant: undefined is taken for a list. *)
CachedRaw == cache
Cached == IF cache = NoCache THEN {} ELSE cache

(* The page is merged with what is cached. *)
MsgsAnswered ==
    /\ msgReq = "read"
    /\ cache' = Cached \cup answer
    /\ msgReq' = "none" /\ answer' = {}
    /\ UNCHANGED <<serverVars, socketVars, marked, listed, listReq, open, faults, missed>>

(* 403: the view of the conversation is closed. *)
MsgsForbidden ==
    /\ msgReq = "forbidden"
    /\ msgReq' = "none"
    /\ IF open THEN open' = FALSE /\ cache' = NoCache ELSE UNCHANGED <<open, cache>>
    /\ UNCHANGED <<serverVars, socketVars, marked, listed, listReq, answer, faults, missed>>

MsgsFail ==
    /\ msgReq # "none" /\ Fault
    /\ msgReq' = "none" /\ answer' = {}
    /\ UNCHANGED <<serverVars, socketVars, marked, listed, listReq, open, cache, missed>>

(* A conversation is selected, or named by the URL. *)
Open ==
    /\ ~open
    /\ open' = TRUE
    /\ IF listed = "yes" THEN MayFetch ELSE UNCHANGED msgReq
    /\ UNCHANGED <<serverVars, socketVars, marked, listed, listReq, cache, answer, faults, missed>>

Close ==
    /\ open
    /\ open' = FALSE
    /\ UNCHANGED <<serverVars, socketVars, marked, listed, listReq, cache, msgReq, answer, faults, missed>>

-----------------------------------------------------------------------------
(* The handlers of the events. *)
Receives(kind) ==
    /\ wire # <<>> /\ Head(wire).kind = kind
    /\ wire' = Tail(wire)
    /\ UNCHANGED <<serverVars, room, joins, online, wasConn, pending, marked, faults>>

ShowMsg == cache' = Cached \cup {Head(wire).msg} /\ RefetchMsgs(cache')

OnNew ==
    /\ Receives("new")
    /\ IF open THEN ShowMsg /\ UNCHANGED listReq
       ELSE RefetchList /\ UNCHANGED <<cache, msgReq, answer>>
    /\ UNCHANGED <<listed, open, missed>>

OnNotify ==
    /\ Receives("notify")
    /\ IF open THEN ShowMsg ELSE UNCHANGED <<cache, msgReq, answer>>
    /\ UNCHANGED <<listed, listReq, open, missed>>

(* A refetch that joins the first fetch may get what that one has read. *)
JoinsRead == listed = "unknown" /\ listReq \in {"yes", "no"}

OnAdded ==
    /\ Receives("added")
    /\ RefetchList
    /\ missed' = (missed \/ JoinsRead)
    /\ UNCHANGED <<listed, open, cache, msgReq, answer>>

OnDeleted ==
    /\ Receives("deleted")
    /\ cache' = NoCache /\ msgReq' = "none" /\ answer' = {}
    /\ listed' = IF listed = "yes" THEN "no" ELSE listed
    /\ open' = FALSE
    /\ RefetchList
    /\ missed' = (missed \/ JoinsRead)

-----------------------------------------------------------------------------
Server ==
    \/ \E m \in Msg : AnnounceMsg(m) \/ Notify(m) \/ PostFails(m)
    \/ \E kind \in moving : Moved(kind) \/ MoveFails(kind)

Joining == JoinReads \/ JoinDone

Lists == ListRead \/ ListAnswered \/ ListFails
Messages == Poll \/ MsgsRead \/ MsgsAnswered \/ MsgsForbidden \/ MsgsFail
Events == OnNew \/ OnNotify \/ OnAdded \/ OnDeleted

ChatNext ==
    \/ Create \/ LeaveChat \/ Add \/ Server
    \/ Joining \/ SocketConnects \/ SocketDrops
    \/ Lists \/ Messages \/ Events
    \/ Open \/ Close \/ Resume \/ OthersChange

ChatSpec == ChatInit /\ [][ChatNext]_chatVars

(* What is written is announced, the socket reconnects, what is sent arrives,
   and the page polls; the user need not do anything. *)
ChatFairness ==
    /\ WF_chatVars(Server) /\ WF_chatVars(Joining) /\ WF_chatVars(SocketConnects)
    /\ WF_chatVars(Lists) /\ WF_chatVars(Messages) /\ WF_chatVars(Events)

ChatFairSpec == ChatSpec /\ ChatFairness

-----------------------------------------------------------------------------
(* The type of every variable. *)
ChatTypeOK ==
    /\ {member, room, online, wasConn, pending, marked, open, missed} \subseteq BOOLEAN
    /\ sent \in 0 .. MaxMsgs /\ acts \in 0 .. MaxActs /\ faults \in 0 .. MaxFaults
    /\ post \in [Msg -> {"none", "created", "announced", "done"}]
    /\ moving \subseteq {"added", "deleted"} /\ joins \subseteq {"sent", "checked"}
    /\ wire \in Seq(Event)
    /\ listed \in {"unknown", "yes", "no"} /\ listReq \in {"none", "sent", "yes", "no"}
    /\ cache = NoCache \/ cache \subseteq Msg
    /\ msgReq \in {"none", "sent", "read", "forbidden"} /\ answer \subseteq Msg

(* The list of conversations comes to show the user's membership, although
   events overtake the requests that read it and memberships change while they
   are read, unless the change was never announced to this page, or while the
   first list was on its way. *)
Membership == IF member THEN "yes" ELSE "no"
ListBehind == member # (listed = "yes")
ListSettled == listed = Membership \/ missed

ListConverges == ListBehind ~> ListSettled

(* At no moment is the list wrong for good: what it shows, or will show by the
   answer that is on its way, is the user's membership, or it is still to be read,
   or the news of a change are still to come, with the exceptions of missed. *)
Upcoming == IF listReq = "none" THEN listed ELSE listReq

ListIsCorrected ==
    Upcoming \in {"sent", Membership} \/ moving # {} \/ MembershipNews \/ missed

(* A message of the newest page gets into an open conversation, whatever events
   were lost and whatever fetches were abandoned for others. *)
NewestArrive ==
    \A m \in Msg :
        (open /\ member /\ listed = "yes" /\ m \in Newest)
            ~> (m \in Cached \/ m \notin Newest \/ ~open \/ ~member \/ listed # "yes")
=============================================================================
