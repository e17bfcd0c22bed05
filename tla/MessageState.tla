------------------------------ MODULE MessageState ------------------------------
(***************************************************************************)
(* One message of others or of oneself, at the server and in one page of   *)
(* the web client: editing, deleting, reacting and receipts                *)
(* (src/src/routes/messages.ts), and the page that has the conversation    *)
(* open (src/frontend/src/ui/pages/ChatsPage.tsx and its hooks).  The page *)
(* is that of the author of the message or of its reader; the other user,  *)
(* and other devices of the same one, send requests too.                   *)
(*                                                                         *)
(* What a request writes and what it announces are different steps, so     *)
(* that rows are announced in another order than they were written; and no *)
(* write looks again at what was checked before an await.  (Looking for    *)
(* unread messages and marking them is one step: no receipt is withdrawn.) *)
(*                                                                         *)
(* Abstracted: the message is in the newest page, which is polled (older   *)
(* ones are not); the metadata of the message, and with it the preview of  *)
(* its links; the receipts sent for bubbles scrolled into view, besides    *)
(* those for all that are loaded; counts of unread messages; how a socket  *)
(* gets back into the room (ChatSync).  Requests that are alike and have   *)
(* come as far as each other count as one: they would do the same again.   *)
(* What one write or one query touches, it touches at once.                *)
(***************************************************************************)
EXTENDS Naturals, Sequences, FiniteSets

CONSTANTS
    MaxMsgActs,     \* bound: things the users do
    MaxMsgFaults    \* bound: requests that fail, and disconnections

ASSUME MessageBounds == {MaxMsgActs, MaxMsgFaults} \subseteq Nat

VARIABLES
    mine,       \* the user of the page wrote the message
    row,        \* the row of the message, with its reactions and receipts
    reqs,       \* the requests at the server
    copy,       \* the message in the cache of ['messages', activeId]
    fetched,    \* {} or the message as GET /conversations/:id/messages has read it
    announced,  \* events on the way to the page
    inRoom,     \* the socket is connected, and in the room
    focused,    \* canAutoMarkRead()
    msgActs, msgFaults

rowVars == <<row, reqs>>
copyVars == <<copy, fetched, focused>>
messageVars == <<mine, rowVars, copyVars, announced, inRoom, msgActs, msgFaults>>

(* Texts are numbered; 0 is null. *)
Row == [text : 0 .. MaxMsgActs + 1, deleted : BOOLEAN, reacted : BOOLEAN, read : BOOLEAN]
NoCopy == [text |-> 0, deleted |-> FALSE, reacted |-> FALSE, read |-> FALSE]
Sent == [NoCopy EXCEPT !.text = 1]
RowEvent == [kind : {"new", "update"}, row : Row] \cup [kind : {"deleted", "reaction", "receipts"}]

Edit == [kind : {"edit"}, pc : {"read", "write", "emit"}, row : Row]
Write == [kind : {"delete", "react", "unreact", "receipts", "mark"},
          pc : {"write", "emit", "answer"}, own : BOOLEAN]

NewEdit(n) == [kind |-> "edit", pc |-> "read", row |-> [NoCopy EXCEPT !.text = n]]
NewWrite(kind, own) == [kind |-> kind, pc |-> "write", own |-> own]
NewMark == NewWrite("mark", FALSE)

(* The author's page shows the message; the reader's is about to. *)
MessageInit ==
    /\ mine \in BOOLEAN
    /\ row = Sent /\ reqs = {}
    /\ copy = (IF mine THEN Sent ELSE NoCopy)
    /\ announced = (IF mine THEN <<>> ELSE <<[kind |-> "new", row |-> Sent]>>)
    /\ inRoom = TRUE /\ focused \in BOOLEAN /\ (mine => focused)
    /\ fetched = {}
    /\ msgActs = 0 /\ msgFaults = 0

MsgFault == msgFaults < MaxMsgFaults /\ msgFaults' = msgFaults + 1
Acts == msgActs < MaxMsgActs /\ msgActs' = msgActs + 1
Publish(e) == announced' = IF inRoom THEN Append(announced, e) ELSE announced

-----------------------------------------------------------------------------
(* The effects of a change of what the page shows: the reader's marks the
   message, unless it is, and the conversation as read.  Mutant: only what comes
   with message:new. *)
MarksUnread(c) == IF mine \/ c = NoCopy \/ c.read THEN {} ELSE {NewMark}
Marks(c) ==
    IF mine \/ c = NoCopy THEN {}
    ELSE {NewMark} \cup (IF c.read THEN {} ELSE {NewWrite("receipts", TRUE)})

Show(c) ==
    /\ copy' = c
    /\ reqs' = reqs \cup (IF c # copy /\ focused THEN Marks(c) ELSE {})

(* The query runs every 15 s and may begin at any time.  refetch() and
   invalidateQueries() abandon the one in progress, for one that begins later. *)
RefetchRow == fetched' = {}

RowRead ==
    /\ fetched = {} /\ fetched' = {row}
    /\ UNCHANGED <<mine, rowVars, copy, focused, announced, inRoom, msgActs, msgFaults>>

(* What is fetched replaces what is cached, even if that is newer.  Mutant: a
   message that is cached is kept, as when older pages are loaded. *)
KeepsCached(c) == IF copy = NoCopy THEN c ELSE copy
Merged(c) == c

RowAnswered ==
    /\ \E m \in fetched : Show(Merged(m))
    /\ fetched' = {}
    /\ UNCHANGED <<mine, row, focused, announced, inRoom, msgActs, msgFaults>>

RowFails ==
    /\ fetched # {} /\ MsgFault
    /\ fetched' = {}
    /\ UNCHANGED <<mine, rowVars, copy, focused, announced, inRoom, msgActs>>

-----------------------------------------------------------------------------
(* The events.  appendMessageToCache keeps a message it has, and
   updateMessageInCache ignores one it has not. *)
Takes(kind) ==
    /\ announced # <<>> /\ Head(announced).kind = kind
    /\ announced' = Tail(announced)
    /\ UNCHANGED <<mine, row, focused, inRoom, msgActs, msgFaults>>

OnNewRow ==
    /\ Takes("new")
    /\ Show(IF copy = NoCopy THEN Head(announced).row ELSE copy)
    /\ RefetchRow

OnUpdate ==
    /\ Takes("update")
    /\ Show(IF copy = NoCopy THEN copy ELSE Head(announced).row)
    /\ UNCHANGED fetched

OnDeletedOrReaction ==
    /\ Takes("deleted") \/ Takes("reaction")
    /\ RefetchRow
    /\ UNCHANGED <<reqs, copy>>

OnReceipts ==
    /\ Takes("receipts")
    /\ Show(IF copy = NoCopy THEN copy ELSE [copy EXCEPT !.read = TRUE])
    /\ RefetchRow

RoomDrops ==
    /\ inRoom /\ MsgFault
    /\ inRoom' = FALSE /\ announced' = <<>>
    /\ UNCHANGED <<mine, rowVars, copyVars, msgActs>>

Rejoin ==
    /\ ~inRoom /\ inRoom' = TRUE
    /\ UNCHANGED <<mine, rowVars, copyVars, announced, msgActs, msgFaults>>

-----------------------------------------------------------------------------
(* What the users do.  Only the author edits and deletes. *)
Post(q) ==
    /\ Acts
    /\ reqs' = reqs \cup {q}
    /\ UNCHANGED <<mine, row, copyVars, announced, inRoom, msgFaults>>

Act ==
    \/ Post(NewEdit(msgActs + 2))
    \/ \E own \in BOOLEAN : (own => mine) /\ Post(NewWrite("delete", own))
    \/ \E own \in BOOLEAN, kind \in {"react", "unreact"} :
        (own => copy # NoCopy) /\ Post(NewWrite(kind, own))
    \/ Post(NewWrite("receipts", FALSE))

Focus ==
    /\ ~focused /\ Acts
    /\ focused' = TRUE
    /\ reqs' = reqs \cup Marks(copy)
    /\ UNCHANGED <<mine, row, copy, fetched, announced, inRoom, msgFaults>>

Blur ==
    /\ focused /\ ~mine /\ Acts
    /\ focused' = FALSE
    /\ UNCHANGED <<mine, rowVars, copy, fetched, announced, inRoom, msgFaults>>

-----------------------------------------------------------------------------
(* The requests at the server, from one await to the next. *)
Served(q) == reqs \ {q}
Becomes(q, r) == reqs' = Served(q) \cup {r}
AtServer == UNCHANGED <<mine, copyVars, inRoom, msgActs, msgFaults>>

EditReads(q) ==
    /\ q.kind = "edit" /\ q.pc = "read"
    /\ IF row.deleted THEN reqs' = Served(q) ELSE Becomes(q, [q EXCEPT !.pc = "write"])
    /\ UNCHANGED <<row, announced>> /\ AtServer

(* The row may have been deleted since. *)
EditWrites(q) ==
    /\ q.kind = "edit" /\ q.pc = "write"
    /\ row' = [row EXCEPT !.text = q.row.text]
    /\ Becomes(q, [q EXCEPT !.pc = "emit", !.row = row'])
    /\ UNCHANGED announced /\ AtServer

EditEmits(q) ==
    /\ q.kind = "edit" /\ q.pc = "emit"
    /\ Publish([kind |-> "update", row |-> q.row])
    /\ reqs' = Served(q)
    /\ UNCHANGED row /\ AtServer

Written(kind) ==
    CASE kind = "delete"             -> [row EXCEPT !.text = 0, !.deleted = TRUE, !.reacted = FALSE]
      [] kind \in {"receipts", "mark"} -> [row EXCEPT !.read = TRUE]
      [] OTHER                       -> [row EXCEPT !.reacted = (kind = "react")]

Announced(kind) ==
    CASE kind = "delete"             -> "deleted"
      [] kind \in {"receipts", "mark"} -> "receipts"
      [] OTHER                       -> "reaction"

(* mark-conversation-read announces only what it finds unread. *)
Writes(q) ==
    /\ q \in Write /\ q.pc = "write"
    /\ row' = Written(q.kind)
    /\ IF q.kind = "mark" /\ row.read THEN reqs' = Served(q) ELSE Becomes(q, [q EXCEPT !.pc = "emit"])
    /\ UNCHANGED announced /\ AtServer

Emits(q) ==
    /\ q \in Write /\ q.pc = "emit"
    /\ Publish([kind |-> Announced(q.kind)])
    /\ IF q.own THEN Becomes(q, [q EXCEPT !.pc = "answer"]) ELSE reqs' = Served(q)
    /\ UNCHANGED row /\ AtServer

Answered(q) ==
    /\ q \in Write /\ q.pc = "answer"
    /\ reqs' = Served(q)
    /\ RefetchRow
    /\ UNCHANGED <<mine, row, copy, focused, announced, inRoom, msgActs, msgFaults>>

(* A request or its answer is lost. *)
ReqFails(q) ==
    /\ MsgFault
    /\ reqs' = Served(q)
    /\ UNCHANGED <<mine, row, copyVars, announced, inRoom, msgActs>>

Serve(q) ==
    \/ EditReads(q) \/ EditWrites(q) \/ EditEmits(q)
    \/ Writes(q) \/ Emits(q) \/ Answered(q)

-----------------------------------------------------------------------------
Fetches == RowRead \/ RowAnswered
RowEvents == OnNewRow \/ OnUpdate \/ OnDeletedOrReaction \/ OnReceipts

MessageNext ==
    \/ Act \/ Focus \/ Blur
    \/ \E q \in reqs : Serve(q) \/ ReqFails(q)
    \/ Fetches \/ RowFails \/ RowEvents
    \/ RoomDrops \/ Rejoin

MessageSpec == MessageInit /\ [][MessageNext]_messageVars

(* Requests are served, events arrive and the page polls. *)
Serving == \E q \in reqs : Serve(q)
MessageFairness == WF_messageVars(Serving) /\ WF_messageVars(Fetches) /\ WF_messageVars(RowEvents)
MessageFairSpec == MessageSpec /\ MessageFairness

-----------------------------------------------------------------------------
(* The type of every variable. *)
MessageTypeOK ==
    /\ {mine, inRoom, focused} \subseteq BOOLEAN
    /\ {row, copy} \cup fetched \subseteq Row
    /\ reqs \subseteq Edit \cup Write
    /\ announced \in Seq(RowEvent)
    /\ msgActs \in 0 .. MaxMsgActs /\ msgFaults \in 0 .. MaxMsgFaults

(* The page comes to show what the server stores, although events are lost,
   announce rows in another order than they were written, and are overtaken by
   fetches; and the server comes to know what its reader was shown, even if one
   of the requests that say so fails. *)
Agreed ==
    /\ copy = row
    /\ (focused /\ ~mine) => row.read

PageAndServerAgree == ~Agreed ~> Agreed

(* A reader who looks at the message is reported to have read it: as long as the
   server does not know, the two requests that say so are on their way, but for
   those that failed.  So it takes two failures to leave a message that is shown
   unread, whatever is fetched, announced or lost meanwhile. *)
Reports == {NewMark, NewWrite("receipts", TRUE)}

UnreadIsReported ==
    focused /\ ~mine /\ copy # NoCopy /\ ~row.read => Cardinality(Reports \ reqs) <= msgFaults
=============================================================================
