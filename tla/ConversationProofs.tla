--------------------------- MODULE ConversationProofs ----------------------------
(***************************************************************************)
(* Proofs about a conversation, for all values of the constants: the group *)
(* call in it (GroupCall), the page that follows it (ChatSync), and one of *)
(* its messages (MessageState).                                            *)
(***************************************************************************)
EXTENDS MCConversation, FiniteSetTheorems, TLAPS

-----------------------------------------------------------------------------
(***************************************************************************)
(* GroupCall: for any number of users, of sockets of each, of handlers     *)
(* suspended at the same time and of calls.                                *)
(***************************************************************************)

(* A suspended handler serves the event of a socket. *)
SockInv == \A k \in Task : task[k].pc # "idle" => task[k].sock \in Socket /\ task[k].op \in Op

GroupInv ==
    /\ TypeOK
    /\ SockInv
    /\ AloneHasTimer
    /\ NoEmptyCall

Parts == [User -> SUBSET Socket]

-----------------------------------------------------------------------------
(* Adding and removing a participant; somebody added is present. *)
LEMMA PartsTyped ==
  ASSUME NEW parts \in Parts, NEW s \in Socket
  PROVE  /\ With(parts, s) \in Parts /\ Without(parts, s) \in Parts
         /\ Present(With(parts, s)) # {}
<1>1. Owner[s] \in User
  BY OwnerAssumption
<1>2. With(parts, s)[Owner[s]] = parts[Owner[s]] \cup {s}
  BY <1>1 DEF With, Parts
<1>3. Owner[s] \in Present(With(parts, s))
  BY <1>1, <1>2 DEF Present
<1>4. With(parts, s) \in Parts /\ Without(parts, s) \in Parts
  BY <1>1 DEF With, Without, Parts
<1> QED BY <1>3, <1>4

(* A call without participants is typed. *)
LEMMA NobodyTyped == Nobody \in Parts
  BY DEF Nobody, Parts

(* A handler goes on to its next await. *)
LEMMA Awaits ==
  ASSUME TypeOK, SockInv, NEW k \in Task, task[k].pc # "idle",
         NEW pc \in {"lookup", "caller", "message", "clear"}, Await(k, pc)
  PROVE  /\ task' \in [Task -> Suspended] /\ SockInv'
         /\ task'[k].op = task[k].op /\ task'[k].pc = pc
         /\ \A q \in Task \ {k} : task'[q] = task[q]
  BY DEF TypeOK, SockInv, Await, Suspended

(* A handler returns. *)
LEMMA Ends ==
  ASSUME TypeOK, SockInv, NEW k \in Task, Done(k)
  PROVE  /\ task' \in [Task -> Suspended] /\ SockInv'
         /\ \A q \in Task \ {k} : task'[q] = task[q]
  BY DEF TypeOK, SockInv, Done, Suspended, Idle

(* The clock gives a time. *)
LEMMA Ticks == ASSUME TypeOK, Tick PROVE clock' \in Time /\ clock' \in 0 .. MaxClock
<1>1. clock \in 0 .. MaxClock
  BY DEF TypeOK
<1> QED BY <1>1, ClockAssumption DEF Tick, Time

(* A step that touches neither the participants nor the alone timer, and does
   not wake the handler that is to arm it. *)
LEMMA QuietStep ==
  ASSUME GroupInv, TypeOK', SockInv', UNCHANGED <<group, alone>>,
         \A k \in Task : At(k, "invite", "message") => At(k, "invite", "message")'
  PROVE  GroupInv'
  BY DEF GroupInv, AloneHasTimer, NoEmptyCall, Solo

(* A step that ends in syncGroupAloneTimer. *)
LEMMA SyncedStep ==
  ASSUME TypeOK', SockInv', SyncAlone, NoEmptyCall'
  PROVE  GroupInv'
  BY DEF GroupInv, AloneHasTimer, SyncAlone, Solo

(* finishGroupCall, wherever it is called from. *)
LEMMA FinishStep ==
  ASSUME GroupInv, Finish, SockInv', task' \in [Task -> Suspended],
         conn' \in [Socket -> {"new", "on", "off"}],
         grace' \in Socket \cup {None}, UNCHANGED clock
  PROVE  GroupInv'
<1>1. record' \in [from : Time, call : 0 .. MaxClock] \cup {None}
  <2>1. CASE callState = None /\ group = None
    BY <2>1 DEF GroupInv, TypeOK, Finish
  <2>2. CASE callState # None \/ group # None
    <3>1. callState # None => callState.startedAt \in Time
      BY DEF GroupInv, TypeOK, State
    <3>2. group # None => group.startedAt \in Time
      BY DEF GroupInv, TypeOK
    <3>3. Time \subseteq 0 .. MaxClock /\ 0 \in 0 .. MaxClock
      BY ClockAssumption DEF Time
    <3> QED BY <2>2, <3>1, <3>2, <3>3 DEF Finish
  <2> QED BY <2>1, <2>2
<1>2. TypeOK'
  BY <1>1 DEF GroupInv, TypeOK, Finish
<1> QED BY <1>2 DEF GroupInv, Finish, AloneHasTimer, NoEmptyCall, Solo

(* A socket leaves the call; the last one finishes it. *)
LEMMA LeaveStep ==
  ASSUME GroupInv, NEW s \in Socket, group # None, Leaves(s),
         conn' \in [Socket -> {"new", "on", "off"}],
         grace' \in Socket \cup {None}, UNCHANGED <<task, clock>>
  PROVE  GroupInv'
<1> DEFINE left == Without(group.parts, s)
<1>1. SockInv' /\ task' \in [Task -> Suspended]
  BY DEF GroupInv, TypeOK, SockInv
<1>2. CASE Present(left) = {}
  BY <1>1, <1>2, FinishStep DEF Leaves
<1>3. CASE Present(left) # {}
  <2>1. group.parts \in Parts /\ group \in [startedAt : Time, parts : Parts]
    BY DEF GroupInv, TypeOK, Parts
  <2>2. left \in Parts
    BY <2>1, PartsTyped
  <2> HIDE DEF left
  <2>3. /\ group' = [group EXCEPT !.parts = left]
        /\ SyncAlone
        /\ UNCHANGED <<callState, record>>
    BY <1>3 DEF Leaves, left
  <2>4. group' \in [startedAt : Time, parts : Parts] /\ group'.parts = left
    BY <2>1, <2>2, <2>3
  <2>5. TypeOK'
    BY <1>1, <2>3, <2>4 DEF GroupInv, TypeOK, Parts, SyncAlone, Solo
  <2>6. NoEmptyCall'
    BY <1>3, <2>4 DEF NoEmptyCall, Present
  <2> QED BY <1>1, <2>3, <2>5, <2>6, SyncedStep
<1> QED BY <1>2, <1>3

-----------------------------------------------------------------------------
(* The invariant holds in the initial states. *)
LEMMA GroupInitInv == Init => GroupInv
<1> SUFFICES ASSUME Init PROVE GroupInv
  OBVIOUS
<1>1. clock \in 0 .. MaxClock
  BY ClockAssumption DEF Init
<1>2. task \in [Task -> Suspended] /\ SockInv
  BY DEF Init, Suspended, SockInv, Idle
<1>3. TypeOK
  BY <1>1, <1>2 DEF Init, TypeOK
<1> QED BY <1>2, <1>3 DEF Init, GroupInv, AloneHasTimer, NoEmptyCall, Solo

(* What an invite announces is typed. *)
LEMMA Announces ==
  ASSUME NEW s \in Socket, NEW a \in BOOLEAN, Announce(s, a), clock' \in Time
  PROVE  callState' \in State
<1>1. Owner[s] \in User
  BY OwnerAssumption
<1> QED BY <1>1 DEF Announce, State

(* The step of a handler keeps the invariant: the handlers that only pass an
   await, *)
LEMMA PassingInv ==
  ASSUME GroupInv, NEW k \in Task,
         InviteThrottled(k) \/ InviteAdmitted(k) \/ Accept(k) \/ EndClears(k) \/ JoinFirst(k)
  PROVE  GroupInv'
<1> USE DEF GroupInv
<1>1. ASSUME InviteThrottled(k) \/ InviteAdmitted(k) \/ EndClears(k) \/ JoinFirst(k) PROVE GroupInv'
  <2>1. /\ task' \in [Task -> Suspended] /\ SockInv'
        /\ \A q \in Task \ {k} : task'[q] = task[q]
    BY <1>1, Awaits, Ends DEF InviteThrottled, InviteAdmitted, EndClears, JoinFirst, At
  <2>2. TypeOK'
    BY <1>1, <2>1 DEF InviteThrottled, InviteAdmitted, EndClears, JoinFirst, TypeOK
  <2>3. \A q \in Task : At(q, "invite", "message") => At(q, "invite", "message")'
    BY <1>1, <2>1 DEF InviteThrottled, InviteAdmitted, EndClears, JoinFirst, At
  <2>4. UNCHANGED <<group, alone>>
    BY <1>1 DEF InviteThrottled, InviteAdmitted, EndClears, JoinFirst
  <2> QED BY <2>1, <2>2, <2>3, <2>4, QuietStep
<1>2. ASSUME Accept(k) PROVE GroupInv'
  <2>1. /\ task' \in [Task -> Suspended] /\ SockInv'
        /\ \A q \in Task \ {k} : task'[q] = task[q]
    BY <1>2, Ends DEF Accept
  <2>2. callState' \in State \cup {None}
    BY <1>2 DEF Accept, TypeOK, State
  <2>3. TypeOK'
    BY <1>2, <2>1, <2>2 DEF Accept, TypeOK
  <2>4. \A q \in Task : At(q, "invite", "message") => At(q, "invite", "message")'
    BY <1>2, <2>1 DEF Accept, At
  <2> QED BY <1>2, <2>1, <2>3, <2>4, QuietStep DEF Accept
<1> QED BY <1>1, <1>2

(* ... those that finish the call, *)
LEMMA FinishingInv == ASSUME GroupInv, NEW k \in Task, Decline(k) \/ End(k) PROVE GroupInv'
<1>1. task' \in [Task -> Suspended] /\ SockInv'
  BY Ends DEF GroupInv, Decline, End
<1> QED BY <1>1, FinishStep DEF GroupInv, TypeOK, Decline, End

(* ... and those that enter somebody into the call: the one that opens it
   has its await before the timer is armed, the others arm it at once. *)
LEMMA OpensInv == ASSUME GroupInv, NEW k \in Task, InviteOpens(k) PROVE GroupInv'
<1> USE DEF GroupInv
<1>1. /\ task' \in [Task -> Suspended] /\ SockInv'
      /\ At(k, "invite", "message")'
      /\ task[k].sock \in Socket
  BY Awaits DEF InviteOpens, At, SockInv
<1>2. clock' \in Time /\ clock' \in 0 .. MaxClock
  BY Ticks DEF InviteOpens
<1>3. callState' \in State
  BY <1>1, <1>2, Announces DEF InviteOpens
<1>4. With(Nobody, task[k].sock) \in Parts /\ Present(With(Nobody, task[k].sock)) # {}
  BY <1>1, NobodyTyped, PartsTyped
<1>5. group' = [startedAt |-> clock', parts |-> With(Nobody, task[k].sock)]
  BY DEF InviteOpens
<1>6. group' \in [startedAt : Time, parts : Parts] /\ NoEmptyCall'
  BY <1>2, <1>4, <1>5 DEF NoEmptyCall, Present
<1>7. TypeOK'
  BY <1>1, <1>2, <1>3, <1>6 DEF InviteOpens, TypeOK, Parts
<1>8. ~alone'
  BY DEF InviteOpens, AloneHasTimer, Solo
<1>9. AloneHasTimer'
  BY <1>1, <1>8 DEF AloneHasTimer
<1> QED BY <1>1, <1>6, <1>7, <1>9

(* The invite that opened the call resumes and arms the timer. *)
LEMMA OpenedInv == ASSUME GroupInv, NEW k \in Task, InviteOpened(k) PROVE GroupInv'
<1>1. task' \in [Task -> Suspended] /\ SockInv'
  BY Ends DEF GroupInv, InviteOpened
<1>2. alone' \in BOOLEAN
  BY DEF InviteOpened, SyncAlone, Solo
<1>3. TypeOK'
  BY <1>1, <1>2 DEF GroupInv, TypeOK, InviteOpened
<1>4. NoEmptyCall'
  BY DEF GroupInv, InviteOpened, NoEmptyCall
<1> QED BY <1>1, <1>3, <1>4, SyncedStep DEF InviteOpened

(* A participant enters: what its step has to do. *)
LEMMA EntersStep ==
  ASSUME GroupInv, NEW s \in Socket, NEW parts \in Parts, NEW t \in Time,
         group' = [startedAt |-> t, parts |-> With(parts, s)], SyncAlone,
         SockInv', task' \in [Task -> Suspended], UNCHANGED <<conn, record>>,
         callState' \in State \cup {None}, grace' \in Socket \cup {None},
         clock' \in 0 .. MaxClock
  PROVE  GroupInv'
<1>1. With(parts, s) \in Parts /\ Present(With(parts, s)) # {}
  BY PartsTyped
<1>2. group' \in [startedAt : Time, parts : Parts] /\ NoEmptyCall'
  BY <1>1 DEF NoEmptyCall, Present
<1>3. alone' \in BOOLEAN
  BY DEF SyncAlone, Solo
<1>4. TypeOK'
  BY <1>2, <1>3 DEF GroupInv, TypeOK, Parts
<1> QED BY <1>2, <1>4, SyncedStep

(* The handlers that enter a participant, by an accept or a join. *)
LEMMA EnteringInv ==
  ASSUME GroupInv, NEW k \in Task, InviteAgain(k) \/ Join(k) \/ JoinOpens(k)
  PROVE  GroupInv'
<1> USE DEF GroupInv
<1>1. task' \in [Task -> Suspended] /\ SockInv' /\ task[k].sock \in Socket
  BY Ends DEF InviteAgain, Join, JoinOpens, At, SockInv
<1>2. group # None => group = [startedAt |-> group.startedAt, parts |-> group.parts]
                      /\ group.startedAt \in Time /\ group.parts \in Parts
  BY DEF TypeOK, Parts
<1>3. callState # None => callState \in State /\ callState.startedAt \in Time
  BY DEF TypeOK, State
<1>4. clock \in 0 .. MaxClock
  BY DEF TypeOK
<1>5. CASE InviteAgain(k)
  <2>1. group' = [startedAt |-> group.startedAt, parts |-> With(group.parts, task[k].sock)]
    BY <1>2, <1>5 DEF InviteAgain
  <2>2. clock' \in Time /\ clock' \in 0 .. MaxClock
    BY <1>5, Ticks DEF InviteAgain
  <2>3. callState' \in State
    BY <1>1, <1>5, <2>2, Announces DEF InviteAgain
  <2> QED BY <1>1, <1>2, <1>5, <2>1, <2>2, <2>3, EntersStep DEF InviteAgain, TypeOK
<1>6. CASE Join(k)
  <2>1. callState' \in State \cup {None}
    BY <1>3, <1>6 DEF Join, State
  <2>2. CASE group = None
    <3>1. group' = [startedAt |-> callState.startedAt, parts |-> With(Nobody, task[k].sock)]
      BY <1>6, <2>2 DEF Join
    <3> QED BY <1>1, <1>3, <1>4, <1>6, <2>1, <2>2, <3>1, NobodyTyped, EntersStep DEF Join
  <2>3. CASE group # None
    <3>1. group' = [startedAt |-> group.startedAt, parts |-> With(group.parts, task[k].sock)]
      BY <1>2, <1>6, <2>3 DEF Join
    <3> QED BY <1>1, <1>2, <1>4, <1>6, <2>1, <2>3, <3>1, EntersStep DEF Join
  <2> QED BY <2>2, <2>3
<1>7. CASE JoinOpens(k)
  <2>1. clock' \in 0 .. MaxClock /\ (callState = None => clock' \in Time)
    BY <1>4, <1>7, Ticks DEF JoinOpens
  <2> DEFINE t == IF callState # None THEN callState.startedAt ELSE clock'
  <2>2. t \in Time
    BY <1>3, <2>1
  <2>3. group' = [startedAt |-> t, parts |-> With(Nobody, task[k].sock)]
    BY <1>7 DEF JoinOpens
  <2> HIDE DEF t
  <2> QED BY <1>1, <1>7, <2>1, <2>2, <2>3, NobodyTyped, EntersStep DEF JoinOpens, TypeOK
<1> QED BY <1>5, <1>6, <1>7

(* The join of the first participant resumes after its message was created. *)
LEMMA AnnouncesInv == ASSUME GroupInv, NEW k \in Task, JoinAnnounces(k) PROVE GroupInv'
<1> USE DEF GroupInv
<1>1. /\ task' \in [Task -> Suspended] /\ SockInv' /\ task[k].sock \in Socket
      /\ \A q \in Task \ {k} : task'[q] = task[q]
  BY Awaits DEF JoinAnnounces, At, SockInv
<1>2. clock' \in Time /\ clock' \in 0 .. MaxClock
  BY Ticks DEF JoinAnnounces
<1>3. callState' \in State
  BY <1>1, <1>2, Announces DEF JoinAnnounces
<1>4. TypeOK'
  BY <1>1, <1>2, <1>3 DEF JoinAnnounces, TypeOK
<1>5. \A q \in Task : At(q, "invite", "message") => At(q, "invite", "message")'
  BY <1>1 DEF JoinAnnounces, At
<1> QED BY <1>1, <1>4, <1>5, QuietStep DEF JoinAnnounces

(* Every step keeps the invariant. *)
LEMMA GroupStep == ASSUME GroupInv, [Next]_vars PROVE GroupInv'
<1> USE DEF GroupInv
<1>1. ASSUME NEW s \in Socket, Connect(s) PROVE GroupInv'
  <2>1. conn' \in [Socket -> {"new", "on", "off"}]
    BY <1>1 DEF Connect, TypeOK
  <2>2. TypeOK' /\ SockInv'
    BY <1>1, <2>1 DEF Connect, TypeOK, SockInv
  <2> QED BY <1>1, <2>2, QuietStep DEF Connect, At
<1>2. ASSUME NEW s \in Socket, Disconnect(s) PROVE GroupInv'
  <2>1. /\ conn' \in [Socket -> {"new", "on", "off"}]
        /\ grace' \in Socket \cup {None}
        /\ UNCHANGED <<task, clock>>
    BY <1>2 DEF Disconnect, TypeOK
  <2>2. CASE group # None /\ Leaves(s)
    BY <2>1, <2>2, LeaveStep
  <2>3. CASE UNCHANGED <<callState, group, alone, record>>
    <3>1. TypeOK' /\ SockInv'
      BY <2>1, <2>3 DEF TypeOK, SockInv
    <3> QED BY <2>1, <2>3, <3>1, QuietStep DEF At
  <2> QED BY <1>2, <2>2, <2>3 DEF Disconnect
<1>3. ASSUME NEW s \in Socket, Leave(s) PROVE GroupInv'
  <2>1. UNCHANGED <<conn, grace, task, clock>>
    BY <1>3 DEF Leave
  <2>2. CASE group # None
    BY <1>3, <2>1, <2>2, LeaveStep DEF Leave, TypeOK
  <2>3. CASE group = None
    <3>1. ~alone
      BY <2>3 DEF AloneHasTimer, Solo
    <3>2. alone' = alone /\ UNCHANGED <<group, record>> /\ callState' = None
      BY <1>3, <2>3, <3>1 DEF Leave, TypeOK
    <3>3. TypeOK' /\ SockInv'
      BY <2>1, <3>2 DEF TypeOK, SockInv
    <3> QED BY <2>1, <3>2, <3>3, QuietStep DEF At
  <2> QED BY <2>2, <2>3
<1>4. ASSUME NEW k \in Task, NEW s \in Socket, NEW op \in Op, Receive(k, s, op) PROVE GroupInv'
  <2>1. /\ task' \in [Task -> Suspended] /\ SockInv'
        /\ \A q \in Task \ {k} : task'[q] = task[q]
    BY <1>4 DEF Receive, TypeOK, SockInv, Suspended
  <2>2. TypeOK'
    BY <1>4, <2>1 DEF Receive, TypeOK
  <2>3. \A q \in Task : At(q, "invite", "message") => At(q, "invite", "message")'
    BY <1>4, <2>1 DEF Receive, At, Idle
  <2> QED BY <1>4, <2>1, <2>2, <2>3, QuietStep DEF Receive
<1>5. ASSUME NEW k \in Task, Handler(k) PROVE GroupInv'
  BY <1>5, PassingInv, FinishingInv, OpensInv, OpenedInv, EnteringInv, AnnouncesInv
     DEF Handler
<1>6. CASE AloneTimeout
  <2>1. SockInv' /\ task' \in [Task -> Suspended]
    BY <1>6 DEF AloneTimeout, SockInv, TypeOK
  <2>2. Solo(group)
    BY <1>6 DEF AloneTimeout, AloneHasTimer
  <2> QED BY <1>6, <2>1, <2>2, FinishStep DEF AloneTimeout, TypeOK
<1>7. CASE GraceOver
  <2>1. TypeOK' /\ SockInv'
    BY <1>7 DEF GraceOver, TypeOK, SockInv
  <2> QED BY <1>7, <2>1, QuietStep DEF GraceOver, At
<1>8. CASE UNCHANGED vars
  <2>1. TypeOK' /\ SockInv'
    BY <1>8 DEF vars, TypeOK, SockInv
  <2> QED BY <1>8, <2>1, QuietStep DEF vars, At
<1> QED BY <1>1, <1>2, <1>3, <1>4, <1>5, <1>6, <1>7, <1>8 DEF Next

(* So it holds in every state of every behaviour. *)
THEOREM GroupInductive == Spec => []GroupInv
  BY GroupInitInv, GroupStep, PTL DEF Spec

(* Every variable of GroupCall keeps its type. *)
THEOREM GroupTypeCorrect == Spec => []TypeOK
  BY GroupInductive, PTL DEF GroupInv

(* The alone timer of a group call is armed while one user is in it, and only
   then, whatever handlers and timers interleave (syncGroupAloneTimer). *)
THEOREM TimerFitsCall == Spec => []AloneHasTimer
  BY GroupInductive, PTL DEF GroupInv

(* No call without participants stays in activeGroupCalls. *)
THEOREM CallHasSomebody == Spec => []NoEmptyCall
  BY GroupInductive, PTL DEF GroupInv

-----------------------------------------------------------------------------
(***************************************************************************)
(* ChatSync: for any number of messages, of things the users do and of     *)
(* faults.                                                                 *)
(***************************************************************************)

(* The types, and the property itself, which is inductive. *)
ChatInv == ChatTypeOK /\ ListIsCorrected

-----------------------------------------------------------------------------
(* What is appended to the events on the way, and what is taken from them,
   leaves the other news of a membership where they are. *)
LEMMA NewsAppended ==
  ASSUME wire \in Seq(Event), NEW e \in Event, wire' = Append(wire, e)
  PROVE  /\ wire' \in Seq(Event)
         /\ MembershipNews => MembershipNews'
         /\ e.kind \in {"added", "deleted"} => MembershipNews'
<1>1. /\ wire' \in Seq(Event) /\ Len(wire') = Len(wire) + 1
      /\ \A i \in 1 .. Len(wire) : wire'[i] = wire[i]
      /\ wire'[Len(wire) + 1] = e
  OBVIOUS
<1>2. DOMAIN wire = 1 .. Len(wire) /\ DOMAIN wire' = 1 .. (Len(wire) + 1) /\ Len(wire) \in Nat
  BY <1>1
<1>3. DOMAIN wire \subseteq DOMAIN wire' /\ Len(wire) + 1 \in DOMAIN wire'
  BY <1>2
<1> QED BY <1>1, <1>2, <1>3 DEF MembershipNews

(* An event of another kind is taken. *)
LEMMA NewsTaken ==
  ASSUME wire \in Seq(Event), wire # <<>>, wire' = Tail(wire),
         Head(wire).kind \notin {"added", "deleted"}, MembershipNews
  PROVE  MembershipNews'
<1>1. PICK i \in DOMAIN wire : wire[i].kind \in {"added", "deleted"}
  BY DEF MembershipNews
<1>2. i \in 1 .. Len(wire) /\ i # 1 /\ Len(wire) \in Nat
  BY <1>1
<1>3. i - 1 \in 1 .. Len(wire') /\ wire'[i - 1] = wire[i]
  BY <1>2
<1>4. i - 1 \in DOMAIN wire'
  BY <1>3
<1> QED BY <1>1, <1>3, <1>4 DEF MembershipNews

(* What goes to the page is typed. *)
LEMMA Typed ==
  ASSUME NEW m \in Msg
  PROVE  /\ [kind |-> "new", msg |-> m] \in Event
         /\ [kind |-> "notify", msg |-> m] \in Event
  BY DEF Event

(* So is the news of a membership. *)
LEMMA TypedNews ==
  ASSUME NEW kind \in {"added", "deleted"} PROVE [kind |-> kind] \in Event
  BY DEF Event

(* A step that leaves alone what the list shows and reads, and no news less on
   the way. *)
LEMMA ListKept ==
  ASSUME ListIsCorrected, UNCHANGED <<member, listed, listReq, moving>>,
         missed => missed', MembershipNews => MembershipNews'
  PROVE  ListIsCorrected'
  BY DEF ListIsCorrected, Upcoming, Membership

(* A refetch reads the list again, unless it joins the first fetch. *)
LEMMA Refetched ==
  ASSUME ChatTypeOK, RefetchList
  PROVE  /\ listReq' \in {"none", "sent", "yes", "no"}
         /\ listReq' = "sent" \/ (listReq' = listReq /\ listReq \in {"yes", "no"} /\ listed = "unknown")
  BY DEF ChatTypeOK, RefetchList, Refetch

(* It leaves the list right, or to be read again. *)
LEMMA ListRefetched ==
  ASSUME ChatInv, RefetchList, UNCHANGED <<member, listed, moving>>,
         missed => missed', MembershipNews => MembershipNews'
  PROVE  ListIsCorrected'
<1>1. CASE listReq' = "sent"
  BY <1>1 DEF ListIsCorrected, Upcoming
<1>2. CASE listReq' = listReq
  BY <1>2, ListKept DEF ChatInv
<1> QED BY <1>1, <1>2, Refetched DEF ChatInv

(* The messages of a refetch are typed. *)
LEMMA MsgsRefetched ==
  ASSUME ChatTypeOK, NEW data, RefetchMsgs(data)
  PROVE  msgReq' \in {"none", "sent", "read", "forbidden"} /\ answer' \subseteq Msg
  BY DEF ChatTypeOK, RefetchMsgs, Refetch

(* The newest page. *)
LEMMA NewestTyped == ASSUME ChatTypeOK PROVE Newest \subseteq Msg
<1>1. sent \in 0 .. MaxMsgs /\ MaxMsgs \in Nat
  BY ChatBounds DEF ChatTypeOK
<1>2. 1 .. sent \subseteq 1 .. MaxMsgs
  BY <1>1
<1> QED BY <1>2 DEF Newest, Msg

(* A count that may still be raised. *)
LEMMA ChatFaultCounts == ASSUME ChatTypeOK, Fault PROVE faults' \in 0 .. MaxFaults
<1>1. faults \in 0 .. MaxFaults /\ MaxFaults \in Nat
  BY ChatBounds DEF ChatTypeOK
<1> QED BY <1>1 DEF Fault

(* So may this one. *)
LEMMA ChatActCounts == ASSUME ChatTypeOK, acts < MaxActs PROVE acts + 1 \in 0 .. MaxActs
<1>1. acts \in 0 .. MaxActs /\ MaxActs \in Nat
  BY ChatBounds DEF ChatTypeOK
<1> QED BY <1>1

-----------------------------------------------------------------------------

(* The initial states: the list is still to be read. *)
LEMMA ChatInitInv == ChatInit => ChatInv
<1> SUFFICES ASSUME ChatInit PROVE ChatInv
  OBVIOUS
<1>1. 0 \in 0 .. MaxMsgs /\ 0 \in 0 .. MaxActs /\ 0 \in 0 .. MaxFaults
  BY ChatBounds
<1>2. wire \in Seq(Event) /\ answer \subseteq Msg
  BY DEF ChatInit
<1>3. ChatTypeOK
  BY <1>1, <1>2 DEF ChatInit, ChatTypeOK
<1> QED BY <1>3 DEF ChatInit, ChatInv, ListIsCorrected, Upcoming

(* Sending a message. *)
LEMMA SendingInv ==
  ASSUME ChatInv, Create \/ \E m \in Msg : AnnounceMsg(m) \/ Notify(m) \/ PostFails(m)
  PROVE  ChatInv'
<1> USE DEF ChatInv
<1>1. CASE Create
  <2>1. acts' \in 0 .. MaxActs
    BY <1>1, ChatActCounts DEF Create
  <2>2. sent' \in 0 .. MaxMsgs
    <3>1. sent \in 0 .. MaxMsgs /\ MaxMsgs \in Nat
      BY ChatBounds DEF ChatTypeOK
    <3> QED BY <1>1, <3>1 DEF Create
  <2>3. ChatTypeOK'
    BY <1>1, <2>1, <2>2 DEF Create, ChatTypeOK, socketVars, pageVars
  <2>4. ListIsCorrected'
    BY <1>1, ListKept DEF Create, socketVars, pageVars, MembershipNews
  <2> QED BY <2>3, <2>4
<1>2. ASSUME NEW m \in Msg, AnnounceMsg(m) PROVE ChatInv'
  <2>1. wire' \in Seq(Event) /\ (MembershipNews => MembershipNews')
    BY <1>2, Typed, NewsAppended DEF AnnounceMsg, EmitToRoom, MembershipNews, ChatTypeOK
  <2>2. ChatTypeOK'
    BY <1>2, <2>1 DEF AnnounceMsg, ChatTypeOK, pageVars
  <2>3. ListIsCorrected'
    BY <1>2, <2>1, ListKept DEF AnnounceMsg, pageVars
  <2> QED BY <2>2, <2>3
<1>3. ASSUME NEW m \in Msg, Notify(m) PROVE ChatInv'
  <2>1. wire' \in Seq(Event) /\ (MembershipNews => MembershipNews')
    BY <1>3, Typed, NewsAppended DEF Notify, Emit, MembershipNews, ChatTypeOK
  <2>2. ChatTypeOK'
    BY <1>3, <2>1 DEF Notify, ChatTypeOK, pageVars
  <2>3. ListIsCorrected'
    BY <1>3, <2>1, ListKept DEF Notify, pageVars
  <2> QED BY <2>2, <2>3
<1>4. ASSUME NEW m \in Msg, PostFails(m) PROVE ChatInv'
  <2>1. ChatTypeOK'
    BY <1>4, ChatFaultCounts DEF PostFails, ChatTypeOK, socketVars, pageVars
  <2>2. ListIsCorrected'
    BY <1>4, ListKept DEF PostFails, socketVars, pageVars, MembershipNews
  <2> QED BY <2>1, <2>2
<1> QED BY <1>1, <1>2, <1>3, <1>4

(* A change of the membership, and its announcement. *)
LEMMA MovingInv ==
  ASSUME ChatInv, LeaveChat \/ Add \/ \E kind \in moving : Moved(kind) \/ MoveFails(kind)
  PROVE  ChatInv'
<1> USE DEF ChatInv
<1>1. CASE LeaveChat \/ Add
  <2>1. acts' \in 0 .. MaxActs
    BY <1>1, ChatActCounts DEF LeaveChat, Add
  <2>2. ChatTypeOK'
    BY <1>1, <2>1 DEF LeaveChat, Add, ChatTypeOK, socketVars, pageVars
  <2>3. ListIsCorrected'
    BY <1>1 DEF LeaveChat, Add, ListIsCorrected
  <2> QED BY <2>2, <2>3
<1>2. ASSUME NEW kind \in moving, Moved(kind) PROVE ChatInv'
  <2>1. kind \in {"added", "deleted"}
    BY DEF ChatTypeOK
  <2>2. wire' \in Seq(Event) /\ (MembershipNews' \/ missed')
    BY <1>2, <2>1, TypedNews, NewsAppended DEF Moved, Emit, ChatTypeOK
  <2>3. ChatTypeOK'
    BY <1>2, <2>2 DEF Moved, ChatTypeOK, pageVars
  <2> QED BY <2>2, <2>3 DEF ListIsCorrected
<1>3. ASSUME NEW kind \in moving, MoveFails(kind) PROVE ChatInv'
  <2>1. ChatTypeOK'
    BY <1>3, ChatFaultCounts DEF MoveFails, ChatTypeOK, socketVars, pageVars
  <2> QED BY <1>3, <2>1 DEF MoveFails, ListIsCorrected
<1> QED BY <1>1, <1>2, <1>3

(* The socket and its room. *)
LEMMA SocketInv ==
  ASSUME ChatInv, Joining \/ SocketConnects \/ SocketDrops \/ Resume \/ OthersChange
  PROVE  ChatInv'
<1> USE DEF ChatInv
<1>1. CASE Joining \/ SocketConnects \/ OthersChange
  <2>1. ChatTypeOK'
    BY <1>1 DEF Joining, JoinReads, JoinDone, SocketConnects, OthersChange, JoinRoom,
                ChatTypeOK, serverVars, pageVars
  <2>2. UNCHANGED <<member, listed, listReq, moving, missed, wire>>
    BY <1>1 DEF Joining, JoinReads, JoinDone, SocketConnects, OthersChange, serverVars, pageVars
  <2> QED BY <2>1, <2>2, ListKept DEF MembershipNews
<1>2. CASE SocketDrops
  <2>1. ChatTypeOK'
    <3>1. wire' \in Seq(Event) /\ MembershipNews \in BOOLEAN
      BY <1>2 DEF SocketDrops, MembershipNews
    <3> QED BY <1>2, <3>1, ChatFaultCounts DEF SocketDrops, ChatTypeOK, serverVars, pageVars
  <2>2. ListIsCorrected'
    BY <1>2 DEF SocketDrops, ListIsCorrected, Upcoming, Membership, serverVars, pageVars
  <2> QED BY <2>1, <2>2
<1>3. CASE Resume
  <2>1. acts' \in 0 .. MaxActs
    BY <1>3, ChatActCounts DEF Resume
  <2>2. listReq' \in {"none", "sent", "yes", "no"}
    BY <1>3, Refetched DEF Resume
  <2>3. msgReq' \in {"none", "sent", "read", "forbidden"} /\ answer' \subseteq Msg
    BY <1>3, MsgsRefetched DEF Resume, ChatTypeOK
  <2>4. ChatTypeOK'
    BY <1>3, <2>1, <2>2, <2>3 DEF Resume, JoinRoom, ChatTypeOK
  <2>5. ListIsCorrected'
    BY <1>3, ListRefetched DEF Resume, MembershipNews
  <2> QED BY <2>4, <2>5
<1> QED BY <1>1, <1>2, <1>3

(* The list and its answer. *)
LEMMA ListsInv == ASSUME ChatInv, Lists PROVE ChatInv'
<1> USE DEF ChatInv
<1>1. CASE ListRead
  <2>1. ChatTypeOK'
    BY <1>1 DEF ListRead, ChatTypeOK, serverVars, socketVars
  <2> QED BY <1>1, <2>1 DEF ListRead, ListIsCorrected, Upcoming, Membership, serverVars
<1>2. CASE ListAnswered
  <2>1. ChatTypeOK'
    BY <1>2 DEF ListAnswered, JoinRoom, MayFetch, ChatTypeOK, serverVars
  <2>2. Upcoming' = Upcoming /\ UNCHANGED <<member, moving, missed, wire>>
    BY <1>2 DEF ListAnswered, JoinRoom, Upcoming, serverVars
  <2> QED BY <2>1, <2>2 DEF ListIsCorrected, Membership, MembershipNews
<1>3. CASE ListFails
  <2>1. ChatTypeOK'
    BY <1>3, ChatFaultCounts DEF ListFails, ChatTypeOK, serverVars, socketVars
  <2> QED BY <1>3, <2>1 DEF ListFails, ListIsCorrected
<1> QED BY <1>1, <1>2, <1>3 DEF Lists

(* The messages of the open conversation, and opening it. *)
LEMMA MessagesInv == ASSUME ChatInv, Messages \/ Open \/ Close PROVE ChatInv'
<1> USE DEF ChatInv
<1>1. ChatTypeOK'
  <2>1. CASE MsgsRead
    BY <2>1, NewestTyped DEF MsgsRead, ChatTypeOK, serverVars, socketVars
  <2>2. CASE MsgsAnswered
    <3>1. cache' \subseteq Msg
      BY <2>2 DEF MsgsAnswered, Cached, ChatTypeOK
    <3>2. cache' = NoCache \/ cache' \subseteq Msg
      BY <3>1
    <3> QED BY <2>2, <3>2 DEF MsgsAnswered, ChatTypeOK, serverVars, socketVars
  <2>3. CASE MsgsFail
    BY <2>3, ChatFaultCounts DEF MsgsFail, ChatTypeOK, serverVars, socketVars
  <2>4. CASE Poll \/ MsgsForbidden \/ Open \/ Close
    BY <2>4 DEF Poll, MsgsForbidden, Open, Close, MayFetch, ChatTypeOK, serverVars, socketVars
  <2> QED BY <2>1, <2>2, <2>3, <2>4 DEF Messages
<1>2. UNCHANGED <<member, listed, listReq, moving, missed, wire>>
  BY DEF Messages, Poll, MsgsRead, MsgsAnswered, MsgsForbidden, MsgsFail, Open, Close,
         serverVars, socketVars
<1> QED BY <1>1, <1>2, ListKept DEF MembershipNews

(* An event that is taken. *)
LEMMA Taken ==
  ASSUME ChatTypeOK, NEW kind, Receives(kind)
  PROVE  /\ wire' \in Seq(Event) /\ Head(wire) \in Event /\ Head(wire).kind = kind
         /\ UNCHANGED <<serverVars, room, joins, online, wasConn, pending, marked, faults>>
         /\ kind \notin {"added", "deleted"} => (MembershipNews => MembershipNews')
<1>1. wire \in Seq(Event)
  BY DEF ChatTypeOK
<1>2. Head(wire) \in Event /\ Tail(wire) \in Seq(Event)
  BY <1>1 DEF Receives
<1> QED BY <1>1, <1>2, NewsTaken DEF Receives

(* A message that is shown is typed. *)
LEMMA Shown ==
  ASSUME ChatTypeOK, ShowMsg, Head(wire) \in Event, Head(wire).kind \in {"new", "notify"}
  PROVE  /\ cache' \subseteq Msg
         /\ msgReq' \in {"none", "sent", "read", "forbidden"} /\ answer' \subseteq Msg
<1>1. Head(wire).msg \in Msg
  BY DEF Event
<1>2. cache' \subseteq Msg
  BY <1>1 DEF ShowMsg, Cached, ChatTypeOK
<1> QED BY <1>2, MsgsRefetched DEF ShowMsg

(* The handlers of the events: news that are taken have the list read again. *)
LEMMA EventsInv == ASSUME ChatInv, Events PROVE ChatInv'
<1> USE DEF ChatInv
<1>1. CASE OnNew
  <2>1. /\ wire' \in Seq(Event) /\ Head(wire) \in Event /\ Head(wire).kind = "new"
        /\ UNCHANGED <<serverVars, room, joins, online, wasConn, pending, marked, faults>>
        /\ MembershipNews => MembershipNews'
    BY <1>1, Taken DEF OnNew
  <2>2. listReq' \in {"none", "sent", "yes", "no"}
    BY <1>1, Refetched DEF OnNew, ChatTypeOK
  <2>3. /\ cache' = NoCache \/ cache' \subseteq Msg
        /\ msgReq' \in {"none", "sent", "read", "forbidden"} /\ answer' \subseteq Msg
    BY <1>1, <2>1, Shown DEF OnNew, ChatTypeOK
  <2>4. ChatTypeOK'
    BY <1>1, <2>1, <2>2, <2>3 DEF OnNew, ChatTypeOK, serverVars
  <2>5. ListIsCorrected'
    BY <1>1, <2>1, ListKept, ListRefetched DEF OnNew, serverVars
  <2> QED BY <2>4, <2>5
<1>2. CASE OnNotify
  <2>1. /\ wire' \in Seq(Event) /\ Head(wire) \in Event /\ Head(wire).kind = "notify"
        /\ UNCHANGED <<serverVars, room, joins, online, wasConn, pending, marked, faults>>
        /\ MembershipNews => MembershipNews'
    BY <1>2, Taken DEF OnNotify
  <2>2. /\ cache' = NoCache \/ cache' \subseteq Msg
        /\ msgReq' \in {"none", "sent", "read", "forbidden"} /\ answer' \subseteq Msg
    BY <1>2, <2>1, Shown DEF OnNotify, ChatTypeOK
  <2>3. ChatTypeOK'
    BY <1>2, <2>1, <2>2 DEF OnNotify, ChatTypeOK, serverVars
  <2>4. ListIsCorrected'
    BY <1>2, <2>1, ListKept DEF OnNotify, serverVars
  <2> QED BY <2>3, <2>4
<1>3. CASE OnAdded \/ OnDeleted
  <2>1. /\ wire' \in Seq(Event)
        /\ UNCHANGED <<serverVars, room, joins, online, wasConn, pending, marked, faults>>
    BY <1>3, Taken DEF OnAdded, OnDeleted
  <2>2. listReq' \in {"none", "sent", "yes", "no"} /\ (listReq' = "sent" \/ missed')
    BY <1>3, Refetched DEF OnAdded, OnDeleted, JoinsRead
  <2>3. missed' \in BOOLEAN
    BY <1>3 DEF OnAdded, OnDeleted, JoinsRead, ChatTypeOK
  <2>4. ChatTypeOK'
    BY <1>3, <2>1, <2>2, <2>3 DEF OnAdded, OnDeleted, ChatTypeOK, serverVars
  <2>5. ListIsCorrected'
    BY <2>2 DEF ListIsCorrected, Upcoming
  <2> QED BY <2>4, <2>5
<1> QED BY <1>1, <1>2, <1>3 DEF Events

(* Every step of ChatSync. *)
LEMMA ChatStep == ASSUME ChatInv, [ChatNext]_chatVars PROVE ChatInv'
<1>1. CASE UNCHANGED chatVars
  <2>1. ChatTypeOK'
    BY <1>1 DEF ChatInv, ChatTypeOK, chatVars, serverVars, socketVars, pageVars
  <2> QED BY <1>1, <2>1, ListKept
          DEF ChatInv, chatVars, serverVars, socketVars, pageVars, MembershipNews
<1>2. CASE ChatNext
  BY <1>2, SendingInv, MovingInv, SocketInv, ListsInv, MessagesInv, EventsInv DEF ChatNext, Server
<1> QED BY <1>1, <1>2

(* So the invariant holds in every state. *)
THEOREM ChatInductive == ChatSpec => []ChatInv
  BY ChatInitInv, ChatStep, PTL DEF ChatSpec

(* Every variable of ChatSync keeps its type. *)
THEOREM ChatTypeCorrect == ChatSpec => []ChatTypeOK
  BY ChatInductive, PTL DEF ChatInv

(* What the page shows of the user's membership is never wrong for good. *)
THEOREM ListNeverStuck == ChatSpec => []ListIsCorrected
  BY ChatInductive, PTL DEF ChatInv

-----------------------------------------------------------------------------
(***************************************************************************)
(* MessageState: for any number of things the users do and of faults.      *)
(***************************************************************************)

(* An event, or a request at the server, that says the message is read. *)
SaysRead(e) == e.kind = "receipts" \/ (e.kind \in {"new", "update"} /\ e.row.read)
HasRead(q) ==
    \/ q.kind = "edit" /\ q.row.read
    \/ q.kind \in {"receipts", "mark"} /\ q.pc # "write"

(* Nothing says the message is read before the server has stored that it is. *)
NobodySaysRead ==
    ~row.read =>
        /\ ~copy.read
        /\ \A m \in fetched : ~m.read
        /\ \A i \in DOMAIN announced : ~SaysRead(announced[i])
        /\ \A q \in reqs : ~HasRead(q)

MessageInv == MessageTypeOK /\ NobodySaysRead /\ UnreadIsReported

-----------------------------------------------------------------------------
(* The two reports, and how many of them are missing. *)
LEMMA ReportsTyped ==
  /\ Reports \subseteq Write
  /\ \A r \in Reports : r.pc = "write" /\ r.kind \in {"receipts", "mark"} /\ ~HasRead(r)
  /\ IsFiniteSet(Reports)
<1>1. IsFiniteSet({NewMark}) /\ IsFiniteSet({NewWrite("receipts", TRUE)})
  BY FS_Singleton
<1>2. IsFiniteSet({NewMark} \cup {NewWrite("receipts", TRUE)})
  BY <1>1, FS_Union
<1>3. Reports = {NewMark} \cup {NewWrite("receipts", TRUE)}
  BY DEF Reports
<1> QED BY <1>2, <1>3 DEF Reports, NewMark, NewWrite, Write, HasRead

(* Fewer are missing of a set that has no fewer. *)
LEMMA FewerMissing ==
  ASSUME NEW old, NEW new, Reports \ new \subseteq Reports \ old
  PROVE  Cardinality(Reports \ new) <= Cardinality(Reports \ old)
<1>1. IsFiniteSet(Reports \ old)
  BY ReportsTyped, FS_Subset
<1> QED BY <1>1, FS_Subset

(* A request that fails is at most one of them. *)
LEMMA OneMoreMissing ==
  ASSUME NEW old, NEW q
  PROVE  Cardinality(Reports \ (old \ {q})) <= Cardinality(Reports \ old) + 1
<1> DEFINE missing == Reports \ old
<1>1. IsFiniteSet(missing)
  BY ReportsTyped, FS_Subset
<1>2. /\ IsFiniteSet(missing \cup {q}) /\ Cardinality(missing) \in Nat
      /\ Cardinality(missing \cup {q}) <= Cardinality(missing) + 1
  BY <1>1, FS_AddElement, FS_CardinalityType
<1>3. Reports \ (old \ {q}) \subseteq missing \cup {q}
  OBVIOUS
<1>4. Cardinality(Reports \ (old \ {q})) <= Cardinality(missing \cup {q})
  BY <1>2, <1>3, FS_Subset
<1>5. IsFiniteSet(Reports \ (old \ {q})) /\ Cardinality(missing \cup {q}) \in Nat
  BY <1>2, <1>3, FS_Subset, FS_CardinalityType
<1>6. Cardinality(Reports \ (old \ {q})) \in Nat
  BY <1>5, FS_CardinalityType
<1> QED BY <1>2, <1>4, <1>5, <1>6

(* None is missing of a set that has both. *)
LEMMA NoneMissing == ASSUME NEW old, Reports \subseteq old PROVE Cardinality(Reports \ old) = 0
<1>1. Reports \ old = {}
  OBVIOUS
<1> QED BY <1>1, FS_EmptySet

(* Their number is a number. *)
LEMMA MissingCounts == ASSUME NEW old PROVE Cardinality(Reports \ old) \in Nat
<1>1. IsFiniteSet(Reports \ old)
  BY ReportsTyped, FS_Subset
<1> QED BY <1>1, FS_CardinalityType

(* A step that leaves what the reader sees alone keeps the property if it takes
   none of the reports away, or one of them and counts a fault. *)
LEMMA StillReported ==
  ASSUME UnreadIsReported, msgFaults \in Nat, msgFaults' \in Nat, msgFaults <= msgFaults',
         ~row'.read => ~row.read, UNCHANGED <<mine, focused, copy>>,
         ~row'.read => Reports \ reqs' \subseteq Reports \ reqs
  PROVE  UnreadIsReported'
<1> SUFFICES ASSUME focused', ~mine', copy' # NoCopy, ~row'.read
             PROVE  Cardinality(Reports \ reqs') <= msgFaults'
  BY DEF UnreadIsReported, Reports, NewMark, NewWrite, NoCopy
<1>1. Cardinality(Reports \ reqs) <= msgFaults
  BY DEF UnreadIsReported
<1>2. Cardinality(Reports \ reqs') <= Cardinality(Reports \ reqs)
  BY FewerMissing
<1> QED BY <1>1, <1>2, MissingCounts

(* The other case: a request fails, and the failure counts. *)
LEMMA FailureReported ==
  ASSUME UnreadIsReported, msgFaults \in Nat, msgFaults' = msgFaults + 1,
         NEW q, reqs' = reqs \ {q}, UNCHANGED <<mine, row, focused, copy>>
  PROVE  UnreadIsReported'
<1> SUFFICES ASSUME focused', ~mine', copy' # NoCopy, ~row'.read
             PROVE  Cardinality(Reports \ reqs') <= msgFaults'
  BY DEF UnreadIsReported, Reports, NewMark, NewWrite, NoCopy
<1>1. Cardinality(Reports \ reqs) <= msgFaults
  BY DEF UnreadIsReported
<1>2. Cardinality(Reports \ reqs') <= Cardinality(Reports \ reqs) + 1
  BY OneMoreMissing
<1> QED BY <1>1, <1>2, MissingCounts

(* What comes to be shown while the reader looks is reported. *)
LEMMA MarksReport ==
  ASSUME NEW c, ~mine, c # NoCopy, ~c.read PROVE Marks(c) = Reports
  BY DEF Marks, Reports

(* The requests for it are new. *)
LEMMA MarksTyped ==
  ASSUME NEW c PROVE Marks(c) \subseteq Write /\ \A r \in Marks(c) : ~HasRead(r)
<1>1. Marks(c) \subseteq Reports
  BY DEF Marks, Reports
<1> QED BY <1>1, ReportsTyped

(* What is shown is typed, known to be read only if it is, and reported. *)
LEMMA ShowsReported ==
  ASSUME MessageInv, NEW c \in Row, Show(c), c.read => row.read,
         UNCHANGED <<mine, row, focused, msgFaults>>
  PROVE  /\ copy' \in Row /\ reqs' \subseteq Edit \cup Write
         /\ ~row.read => ~copy'.read /\ \A q \in reqs' : ~HasRead(q)
         /\ UnreadIsReported'
<1>1. copy' = c /\ reqs' \subseteq reqs \cup Marks(c)
  BY DEF Show
<1>2. reqs' \subseteq Edit \cup Write
  BY <1>1, MarksTyped DEF MessageInv, MessageTypeOK
<1>3. ~row.read => ~copy'.read /\ \A q \in reqs' : ~HasRead(q)
  BY <1>1, MarksTyped DEF MessageInv, NobodySaysRead
<1>4. msgFaults \in Nat
  BY MessageBounds DEF MessageInv, MessageTypeOK
<1>5. UnreadIsReported'
  <2>1. CASE c = copy
    <3>1. copy' = copy /\ reqs \subseteq reqs'
      BY <2>1 DEF Show
    <3> QED BY <1>4, <3>1, StillReported DEF MessageInv
  <2>2. CASE c # copy
    <3> SUFFICES ASSUME focused', ~mine', copy' # NoCopy, ~row'.read
                 PROVE  Cardinality(Reports \ reqs') <= msgFaults'
      BY DEF UnreadIsReported, Reports, NewMark, NewWrite, NoCopy
    <3>1. Marks(c) = Reports
      BY <1>1, MarksReport
    <3>2. Reports \subseteq reqs'
      BY <2>2, <3>1 DEF Show
    <3> QED BY <1>4, <3>2, NoneMissing
  <2> QED BY <2>1, <2>2
<1> QED BY <1>1, <1>2, <1>3, <1>5

-----------------------------------------------------------------------------
(* The types of rows, events and requests. *)
LEMMA RowsTyped == NoCopy \in Row /\ Sent \in Row /\ ~NoCopy.read /\ ~Sent.read
<1>1. 0 \in 0 .. MaxMsgActs + 1 /\ 1 \in 0 .. MaxMsgActs + 1
  BY MessageBounds
<1>2. NoCopy \in Row /\ ~NoCopy.read
  BY <1>1 DEF Row, NoCopy
<1>3. Sent \in Row /\ ~Sent.read
  BY <1>1, <1>2 DEF Row, Sent
<1> QED BY <1>2, <1>3

(* A fault that may still happen. *)
LEMMA MsgFaultCounts ==
  ASSUME MessageTypeOK, MsgFault
  PROVE  /\ msgFaults \in Nat /\ msgFaults' = msgFaults + 1 /\ msgFaults' \in 0 .. MaxMsgFaults
<1>1. msgFaults \in 0 .. MaxMsgFaults /\ MaxMsgFaults \in Nat
  BY MessageBounds DEF MessageTypeOK
<1> QED BY <1>1 DEF MsgFault

(* An act that may still happen, and the text it writes. *)
LEMMA MsgActCounts ==
  ASSUME MessageTypeOK, Acts
  PROVE  /\ msgActs' \in 0 .. MaxMsgActs
         /\ msgActs + 2 \in 0 .. MaxMsgActs + 1
<1>1. msgActs \in 0 .. MaxMsgActs /\ MaxMsgActs \in Nat
  BY MessageBounds DEF MessageTypeOK
<1> QED BY <1>1 DEF Acts

(* The initial states: nobody has read the message. *)
LEMMA MessageInitInv == MessageInit => MessageInv
<1> SUFFICES ASSUME MessageInit PROVE MessageInv
  OBVIOUS
<1>1. 0 \in 0 .. MaxMsgActs /\ 0 \in 0 .. MaxMsgFaults
  BY MessageBounds
<1>2. [kind |-> "new", row |-> Sent] \in RowEvent /\ ~SaysRead([kind |-> "new", row |-> Sent])
  BY RowsTyped DEF RowEvent, SaysRead
<1>3. announced \in Seq(RowEvent) /\ \A i \in DOMAIN announced : ~SaysRead(announced[i])
  <2>1. CASE mine
    BY <2>1 DEF MessageInit
  <2>2. CASE ~mine
    BY <1>2, <2>2 DEF MessageInit
  <2> QED BY <2>1, <2>2
<1>4. copy \in Row /\ ~copy.read /\ (~mine => copy = NoCopy)
  BY RowsTyped DEF MessageInit
<1>5. MessageTypeOK
  BY <1>1, <1>3, <1>4, RowsTyped DEF MessageInit, MessageTypeOK
<1>6. NobodySaysRead
  BY <1>3, <1>4 DEF MessageInit, NobodySaysRead
<1>7. UnreadIsReported
  BY <1>4 DEF UnreadIsReported
<1> QED BY <1>5, <1>6, <1>7 DEF MessageInv

(* What the users do. *)
LEMMA PostInv ==
  ASSUME MessageInv, NEW q \in Edit \cup Write, ~HasRead(q), Post(q) PROVE MessageInv'
<1> USE DEF MessageInv
<1>1. MessageTypeOK'
  BY MsgActCounts DEF Post, MessageTypeOK, copyVars
<1>2. NobodySaysRead'
  BY DEF Post, NobodySaysRead, copyVars
<1>3. UnreadIsReported'
  <2>1. msgFaults \in Nat
    BY MessageBounds DEF MessageTypeOK
  <2> QED BY <2>1, StillReported DEF Post, copyVars
<1> QED BY <1>1, <1>2, <1>3

(* All that they may post. *)
LEMMA ActInv == ASSUME MessageInv, Act PROVE MessageInv'
<1>1. ASSUME Post(NewEdit(msgActs + 2)) PROVE MessageInv'
  <2> DEFINE text == [NoCopy EXCEPT !.text = msgActs + 2]
  <2>1. msgActs + 2 \in 0 .. MaxMsgActs + 1
    BY <1>1, MsgActCounts DEF Post, MessageInv
  <2>3. text \in Row /\ ~text.read
    BY <2>1, RowsTyped DEF Row
  <2>4. PICK q : q = NewEdit(msgActs + 2)
    OBVIOUS
  <2>5. q = [kind |-> "edit", pc |-> "read", row |-> text]
    BY <2>4 DEF NewEdit
  <2>6. q \in Edit /\ ~HasRead(q)
    BY <2>3, <2>5 DEF Edit, HasRead
  <2> QED BY <1>1, <2>4, <2>6, PostInv
<1>2. ASSUME NEW own \in BOOLEAN,
             NEW kind \in {"delete", "react", "unreact", "receipts"},
             Post(NewWrite(kind, own))
      PROVE  MessageInv'
  <2>1. NewWrite(kind, own) \in Write /\ ~HasRead(NewWrite(kind, own))
    BY DEF NewWrite, Write, HasRead
  <2> QED BY <1>2, <2>1, PostInv
<1> QED BY <1>1, <1>2 DEF Act

(* Looking at the message, and looking away. *)
LEMMA FocusInv == ASSUME MessageInv, Focus \/ Blur PROVE MessageInv'
<1> USE DEF MessageInv
<1>1. CASE Focus
  <2>1. MessageTypeOK'
    BY <1>1, MsgActCounts, MarksTyped DEF Focus, MessageTypeOK
  <2>2. NobodySaysRead'
    BY <1>1, MarksTyped DEF Focus, NobodySaysRead
  <2>3. UnreadIsReported'
    <3> SUFFICES ASSUME focused', ~mine', copy' # NoCopy, ~row'.read
                 PROVE  Cardinality(Reports \ reqs') <= msgFaults'
      BY DEF UnreadIsReported, Reports, NewMark, NewWrite, NoCopy
    <3>1. Marks(copy) = Reports
      BY <1>1, MarksReport DEF Focus, NobodySaysRead
    <3>2. Reports \subseteq reqs' /\ msgFaults' \in Nat
      BY <1>1, <3>1, MessageBounds DEF Focus, MessageTypeOK
    <3> QED BY <3>2, NoneMissing
  <2> QED BY <2>1, <2>2, <2>3
<1>2. CASE Blur
  <2>1. MessageTypeOK'
    BY <1>2, MsgActCounts DEF Blur, MessageTypeOK, rowVars
  <2>2. NobodySaysRead'
    BY <1>2 DEF Blur, NobodySaysRead, rowVars
  <2>3. UnreadIsReported'
    BY <1>2 DEF Blur, UnreadIsReported
  <2> QED BY <2>1, <2>2, <2>3
<1> QED BY <1>1, <1>2

(* The query, and the room. *)
LEMMA FetchesInv ==
  ASSUME MessageInv, Fetches \/ RowFails \/ RoomDrops \/ Rejoin PROVE MessageInv'
<1> USE DEF MessageInv
<1>1. CASE RowAnswered
  <2>1. PICK m \in fetched : Show(m)
    BY <1>1 DEF RowAnswered, Merged
  <2>2. m \in Row /\ (m.read => row.read)
    BY DEF MessageTypeOK, NobodySaysRead
  <2>3. UNCHANGED <<mine, row, focused, msgFaults>>
    BY <1>1 DEF RowAnswered
  <2>4. /\ copy' \in Row /\ reqs' \subseteq Edit \cup Write
        /\ ~row.read => ~copy'.read /\ \A q \in reqs' : ~HasRead(q)
        /\ UnreadIsReported'
    BY <2>1, <2>2, <2>3, ShowsReported
  <2>5. MessageTypeOK'
    BY <1>1, <2>4 DEF RowAnswered, MessageTypeOK
  <2>6. NobodySaysRead'
    BY <1>1, <2>4 DEF RowAnswered, NobodySaysRead
  <2> QED BY <2>4, <2>5, <2>6
<1>2. CASE RowRead \/ RowFails \/ RoomDrops \/ Rejoin
  <2>1. msgFaults' \in 0 .. MaxMsgFaults /\ msgFaults \in Nat /\ msgFaults <= msgFaults'
    <3>1. msgFaults \in 0 .. MaxMsgFaults /\ MaxMsgFaults \in Nat
      BY MessageBounds DEF MessageTypeOK
    <3> QED BY <1>2, <3>1 DEF RowRead, RowFails, RoomDrops, Rejoin, MsgFault
  <2>2. fetched' \subseteq fetched \cup {row} /\ announced' \in {announced, <<>>}
    BY <1>2 DEF RowRead, RowFails, RoomDrops, Rejoin, copyVars
  <2>3. UNCHANGED <<mine, row, reqs, copy, focused, msgActs>> /\ inRoom' \in BOOLEAN
    BY <1>2 DEF RowRead, RowFails, RoomDrops, Rejoin, copyVars, rowVars, MessageTypeOK
  <2>4. MessageTypeOK'
    <3>1. announced' \in Seq(RowEvent)
      <4>1. <<>> \in Seq(RowEvent) /\ announced \in Seq(RowEvent)
        BY DEF MessageTypeOK
      <4> QED BY <2>2, <4>1
    <3>2. {row, copy} \cup fetched \subseteq Row /\ {row, copy}' \cup fetched' \subseteq Row
      BY <2>2, <2>3 DEF MessageTypeOK
    <3> QED BY <2>1, <2>3, <3>1, <3>2 DEF MessageTypeOK
  <2>5. NobodySaysRead'
    BY <2>2, <2>3 DEF NobodySaysRead
  <2> QED BY <2>1, <2>3, <2>4, <2>5, StillReported
<1> QED BY <1>1, <1>2 DEF Fetches

-----------------------------------------------------------------------------
(* An event that is taken. *)
LEMMA RowTaken ==
  ASSUME MessageInv, NEW kind, Takes(kind)
  PROVE  /\ announced' \in Seq(RowEvent) /\ Head(announced) \in RowEvent
         /\ Head(announced).kind = kind
         /\ UNCHANGED <<mine, row, focused, inRoom, msgActs, msgFaults>>
         /\ ~row.read => /\ ~SaysRead(Head(announced))
                         /\ \A i \in DOMAIN announced' : ~SaysRead(announced'[i])
<1>1. announced \in Seq(RowEvent) /\ announced # <<>> /\ announced' = Tail(announced)
  BY DEF Takes, MessageInv, MessageTypeOK
<1>2. /\ announced' \in Seq(RowEvent) /\ Head(announced) \in RowEvent
      /\ Head(announced) = announced[1] /\ 1 \in DOMAIN announced
      /\ \A i \in DOMAIN announced' : i + 1 \in DOMAIN announced /\ announced'[i] = announced[i + 1]
  BY <1>1
<1>3. ~row.read => \A i \in DOMAIN announced : ~SaysRead(announced[i])
  BY DEF MessageInv, NobodySaysRead
<1> QED BY <1>2, <1>3 DEF Takes

(* What an event brings is typed, and not read before the row is. *)
LEMMA RowEventsInv == ASSUME MessageInv, RowEvents PROVE MessageInv'
<1>1. ASSUME NEW kind, Takes(kind), NEW c \in Row, Show(c), c.read => row.read,
             fetched' \subseteq fetched
      PROVE  MessageInv'
  <2>1. /\ announced' \in Seq(RowEvent)
        /\ UNCHANGED <<mine, row, focused, inRoom, msgActs, msgFaults>>
        /\ ~row.read => \A i \in DOMAIN announced' : ~SaysRead(announced'[i])
    BY <1>1, RowTaken
  <2>2. /\ copy' \in Row /\ reqs' \subseteq Edit \cup Write
        /\ ~row.read => ~copy'.read /\ \A q \in reqs' : ~HasRead(q)
        /\ UnreadIsReported'
    BY <1>1, <2>1, ShowsReported
  <2>3. MessageTypeOK'
    BY <1>1, <2>1, <2>2 DEF MessageInv, MessageTypeOK
  <2>4. NobodySaysRead'
    BY <1>1, <2>1, <2>2 DEF MessageInv, NobodySaysRead
  <2> QED BY <2>2, <2>3, <2>4 DEF MessageInv
<1>2. copy \in Row /\ (copy.read => row.read)
  BY DEF MessageInv, MessageTypeOK, NobodySaysRead
<1>3. CASE OnNewRow \/ OnUpdate
  <2>1. PICK kind \in {"new", "update"} : Takes(kind)
    BY <1>3 DEF OnNewRow, OnUpdate
  <2>2. Head(announced).row \in Row /\ (Head(announced).row.read => row.read)
    BY <2>1, RowTaken DEF RowEvent, SaysRead
  <2>3. Show(copy) \/ Show(Head(announced).row)
    BY <1>3 DEF OnNewRow, OnUpdate
  <2>4. fetched' \subseteq fetched
    BY <1>3 DEF OnNewRow, OnUpdate, RefetchRow
  <2>5. PICK c : c \in {copy, Head(announced).row} /\ Show(c)
    BY <2>3
  <2> QED BY <1>1, <1>2, <2>1, <2>2, <2>4, <2>5
<1>4. CASE OnReceipts
  <2>1. Takes("receipts") /\ fetched' \subseteq fetched
    BY <1>4 DEF OnReceipts, RefetchRow
  <2>2. row.read
    BY <2>1, RowTaken DEF SaysRead, MessageInv, MessageTypeOK
  <2>3. PICK c \in Row : Show(c)
    <3>1. [copy EXCEPT !.read = TRUE] \in Row
      BY <1>2 DEF Row
    <3> QED BY <1>2, <1>4, <3>1 DEF OnReceipts
  <2> QED BY <1>1, <2>1, <2>2, <2>3
<1>5. CASE OnDeletedOrReaction
  <2>1. PICK kind : Takes(kind)
    BY <1>5 DEF OnDeletedOrReaction
  <2>2. /\ announced' \in Seq(RowEvent)
        /\ UNCHANGED <<mine, row, focused, inRoom, msgActs, msgFaults, reqs, copy>>
        /\ ~row.read => \A i \in DOMAIN announced' : ~SaysRead(announced'[i])
        /\ fetched' = {}
    BY <1>5, <2>1, RowTaken DEF OnDeletedOrReaction, RefetchRow
  <2>3. MessageTypeOK'
    BY <2>2 DEF MessageInv, MessageTypeOK
  <2>4. NobodySaysRead'
    BY <2>2 DEF MessageInv, NobodySaysRead
  <2>5. UnreadIsReported'
    BY <2>2, StillReported, MessageBounds DEF MessageInv, MessageTypeOK
  <2> QED BY <2>3, <2>4, <2>5 DEF MessageInv
<1> QED BY <1>3, <1>4, <1>5 DEF RowEvents

-----------------------------------------------------------------------------
(* A request that leaves the server, for another of its kind or for none. *)
LEMMA ServedTypes ==
  ASSUME MessageInv, NEW q \in reqs, NEW r \in Edit \cup Write,
         reqs' \in {reqs \ {q}, (reqs \ {q}) \cup {r}}, UNCHANGED <<mine, copy, focused, inRoom, msgActs, msgFaults>>,
         row' \in Row, announced' \in Seq(RowEvent), fetched' \subseteq fetched
  PROVE  MessageTypeOK'
  BY DEF MessageInv, MessageTypeOK

(* If it is no report, no report is missing for it. *)
LEMMA ServedReports ==
  ASSUME MessageInv, NEW q \in reqs, q \notin Reports,
         Served(q) \subseteq reqs', UNCHANGED <<mine, copy, focused, msgFaults>>,
         ~row'.read => ~row.read
  PROVE  UnreadIsReported'
<1>1. Reports \ reqs' \subseteq Reports \ reqs
  BY DEF Served
<1>2. msgFaults \in Nat
  BY MessageBounds DEF MessageInv, MessageTypeOK
<1> QED BY <1>1, <1>2, StillReported DEF MessageInv

(* What it announces is typed, and says no more than is stored. *)
LEMMA Published ==
  ASSUME MessageInv, NEW e \in RowEvent, Publish(e), ~row.read => ~SaysRead(e)
  PROVE  /\ announced' \in Seq(RowEvent)
         /\ ~row.read => \A i \in DOMAIN announced' : ~SaysRead(announced'[i])
<1>1. announced \in Seq(RowEvent) /\ (~row.read => \A i \in DOMAIN announced : ~SaysRead(announced[i]))
  BY DEF MessageInv, MessageTypeOK, NobodySaysRead
<1>2. CASE announced' = announced
  BY <1>1, <1>2
<1>3. CASE announced' = Append(announced, e)
  <2>1. announced' \in Seq(RowEvent)
    BY <1>1, <1>3
  <2>2. \A i \in DOMAIN announced' :
           announced'[i] = e \/ (i \in DOMAIN announced /\ announced'[i] = announced[i])
    BY <1>1, <1>3
  <2> QED BY <1>1, <2>1, <2>2
<1> QED BY <1>2, <1>3 DEF Publish

(* An edit. *)
LEMMA EditingInv ==
  ASSUME MessageInv, NEW q \in reqs, EditReads(q) \/ EditWrites(q) \/ EditEmits(q)
  PROVE  MessageInv'
<1>1. /\ q.kind = "edit" /\ q \notin Write /\ q \in Edit /\ q \notin Reports
      /\ q.row \in Row /\ row \in Row /\ (q.row.read => row.read)
  BY ReportsTyped DEF EditReads, EditWrites, EditEmits, MessageInv, MessageTypeOK, Write, Edit,
     NobodySaysRead, HasRead
<1>2. UNCHANGED <<mine, copy, fetched, focused, inRoom, msgActs, msgFaults>>
  BY DEF EditReads, EditWrites, EditEmits, AtServer, copyVars
<1>3. CASE EditReads(q)
  <2>1. PICK r : r = [q EXCEPT !.pc = "write"]
    OBVIOUS
  <2>2. r \in Edit /\ r.kind = "edit" /\ r.row = q.row
    BY <1>1, <2>1 DEF Edit
  <2>3. UNCHANGED <<row, announced>> /\ reqs' \in {reqs \ {q}, (reqs \ {q}) \cup {r}}
    BY <1>3, <2>1 DEF EditReads, Becomes, Served
  <2>4. MessageTypeOK'
    <3>1. announced \in Seq(RowEvent)
      BY DEF MessageInv, MessageTypeOK
    <3> QED BY <1>1, <1>2, <2>2, <2>3, <3>1, ServedTypes
  <2>5. NobodySaysRead'
    BY <1>1, <1>2, <2>2, <2>3 DEF MessageInv, NobodySaysRead, HasRead
  <2>6. UnreadIsReported'
    BY <1>1, <1>2, <2>3, ServedReports DEF Served
  <2> QED BY <2>4, <2>5, <2>6 DEF MessageInv
<1>4. CASE EditWrites(q)
  <2>1. row' \in Row /\ row'.read = row.read
    BY <1>1, <1>4 DEF EditWrites, Row
  <2>2. PICK r : r = [q EXCEPT !.pc = "emit", !.row = row']
    OBVIOUS
  <2>3. r \in Edit /\ r.kind = "edit" /\ r.row = row'
    BY <1>1, <2>1, <2>2 DEF Edit
  <2>4. UNCHANGED announced /\ reqs' = (reqs \ {q}) \cup {r}
    BY <1>4, <2>2 DEF EditWrites, Becomes, Served
  <2>5. MessageTypeOK'
    <3>1. announced \in Seq(RowEvent)
      BY DEF MessageInv, MessageTypeOK
    <3> QED BY <1>2, <2>1, <2>3, <2>4, <3>1, ServedTypes
  <2>6. NobodySaysRead'
    BY <1>2, <2>1, <2>3, <2>4 DEF MessageInv, NobodySaysRead, HasRead
  <2>7. UnreadIsReported'
    BY <1>1, <1>2, <2>1, <2>4, ServedReports DEF Served
  <2> QED BY <2>5, <2>6, <2>7 DEF MessageInv
<1>5. CASE EditEmits(q)
  <2>1. PICK e : e = [kind |-> "update", row |-> q.row]
    OBVIOUS
  <2>2. e \in RowEvent /\ (~row.read => ~SaysRead(e)) /\ Publish(e)
    BY <1>1, <1>5, <2>1 DEF RowEvent, SaysRead, EditEmits
  <2>3. UNCHANGED row /\ reqs' = reqs \ {q}
    BY <1>5 DEF EditEmits, Served
  <2>4. /\ announced' \in Seq(RowEvent)
        /\ ~row.read => \A i \in DOMAIN announced' : ~SaysRead(announced'[i])
    BY <2>2, Published
  <2>5. MessageTypeOK'
    BY <1>1, <1>2, <2>3, <2>4, ServedTypes
  <2>6. NobodySaysRead'
    BY <1>2, <2>3, <2>4 DEF MessageInv, NobodySaysRead
  <2>7. UnreadIsReported'
    BY <1>1, <1>2, <2>3, ServedReports DEF Served
  <2> QED BY <2>5, <2>6, <2>7 DEF MessageInv
<1> QED BY <1>3, <1>4, <1>5

(* The other requests. *)
LEMMA WritesInv == ASSUME MessageInv, NEW q \in reqs, Writes(q) PROVE MessageInv'
<1>1. q \in Write /\ q.pc = "write" /\ row \in Row /\ announced \in Seq(RowEvent)
  BY DEF Writes, MessageInv, MessageTypeOK
<1>2. /\ UNCHANGED <<mine, copy, fetched, focused, inRoom, msgActs, msgFaults, announced>>
  BY DEF Writes, AtServer, copyVars
<1>3. /\ row' \in Row /\ (row.read => row'.read)
      /\ q.kind \in {"receipts", "mark"} => row'.read
  <2>1. /\ [row EXCEPT !.text = 0, !.deleted = TRUE, !.reacted = FALSE] \in Row
        /\ [row EXCEPT !.text = 0, !.deleted = TRUE, !.reacted = FALSE].read = row.read
    <3>1. 0 \in 0 .. MaxMsgActs + 1
      BY MessageBounds
    <3> QED BY <1>1, <3>1 DEF Row
  <2>2. [row EXCEPT !.read = TRUE] \in Row /\ [row EXCEPT !.read = TRUE].read
    BY <1>1 DEF Row
  <2>3. /\ [row EXCEPT !.reacted = (q.kind = "react")] \in Row
        /\ [row EXCEPT !.reacted = (q.kind = "react")].read = row.read
    BY <1>1 DEF Row
  <2>4. CASE q.kind = "delete"
    BY <2>1, <2>4 DEF Writes, Written
  <2>5. CASE q.kind \in {"receipts", "mark"}
    BY <2>2, <2>5 DEF Writes, Written
  <2>6. CASE q.kind \in {"react", "unreact"}
    BY <2>3, <2>6 DEF Writes, Written
  <2> QED BY <1>1, <2>4, <2>5, <2>6 DEF Write
<1>4. PICK r : r = [q EXCEPT !.pc = "emit"]
  OBVIOUS
<1>5. r \in Write /\ r.kind = q.kind /\ r.kind # "edit"
  BY <1>1, <1>4 DEF Write
<1>6. reqs' \in {reqs \ {q}, (reqs \ {q}) \cup {r}}
  BY <1>4 DEF Writes, Becomes, Served
<1>7. MessageTypeOK'
  BY <1>1, <1>2, <1>3, <1>5, <1>6, ServedTypes
<1>8. NobodySaysRead'
  BY <1>2, <1>3, <1>5, <1>6 DEF MessageInv, NobodySaysRead, HasRead
<1>9. UnreadIsReported'
  <2>1. CASE q \in Reports
    BY <1>3, <2>1, ReportsTyped DEF UnreadIsReported
  <2>2. CASE q \notin Reports
    BY <1>2, <1>3, <1>6, <2>2, ServedReports DEF Served
  <2> QED BY <2>1, <2>2
<1> QED BY <1>7, <1>8, <1>9 DEF MessageInv

(* After the write. *)
LEMMA EmitsInv == ASSUME MessageInv, NEW q \in reqs, Emits(q) \/ Answered(q) PROVE MessageInv'
<1>1. q \in Write /\ q.pc # "write" /\ q \notin Reports /\ row \in Row
  BY ReportsTyped DEF Emits, Answered, MessageInv, MessageTypeOK
<1>2. UNCHANGED <<mine, row, copy, focused, inRoom, msgActs, msgFaults>> /\ fetched' \subseteq fetched
  BY DEF Emits, Answered, AtServer, copyVars, RefetchRow
<1>3. PICK r : r = [q EXCEPT !.pc = "answer"]
  OBVIOUS
<1>4. r \in Write /\ r.kind = q.kind /\ r.kind # "edit"
  BY <1>1, <1>3 DEF Write
<1>5. reqs' \in {reqs \ {q}, (reqs \ {q}) \cup {r}}
  BY <1>3 DEF Emits, Answered, Becomes, Served
<1>6. /\ announced' \in Seq(RowEvent)
      /\ ~row.read => \A i \in DOMAIN announced' : ~SaysRead(announced'[i])
  <2>1. CASE Emits(q)
    <3>1. PICK e : e = [kind |-> Announced(q.kind)]
      OBVIOUS
    <3>2. e \in RowEvent /\ e.kind \in {"deleted", "receipts", "reaction"}
      BY <3>1 DEF RowEvent, Announced
    <3>3. e.kind = "receipts" => q.kind \in {"receipts", "mark"}
      BY <3>1 DEF Announced
    <3>4. ~row.read => ~SaysRead(e)
      BY <1>1, <3>2, <3>3 DEF SaysRead, MessageInv, NobodySaysRead, HasRead
    <3> QED BY <2>1, <3>1, <3>2, <3>4, Published DEF Emits
  <2>2. CASE Answered(q)
    BY <2>2 DEF Answered, MessageInv, MessageTypeOK, NobodySaysRead
  <2> QED BY <2>1, <2>2
<1>7. MessageTypeOK'
  BY <1>1, <1>2, <1>4, <1>5, <1>6, ServedTypes
<1>8. NobodySaysRead'
  BY <1>1, <1>2, <1>4, <1>5, <1>6 DEF MessageInv, NobodySaysRead, HasRead
<1>9. UnreadIsReported'
  BY <1>1, <1>2, <1>5, ServedReports DEF Served
<1> QED BY <1>7, <1>8, <1>9 DEF MessageInv

(* A request fails, perhaps a report. *)
LEMMA ReqFailsInv == ASSUME MessageInv, NEW q \in reqs, ReqFails(q) PROVE MessageInv'
<1>1. /\ msgFaults \in Nat /\ msgFaults' = msgFaults + 1 /\ msgFaults' \in 0 .. MaxMsgFaults
  BY MsgFaultCounts DEF ReqFails, MessageInv
<1>2. UNCHANGED <<mine, row, copy, fetched, focused, announced, inRoom, msgActs>> /\ reqs' = reqs \ {q}
  BY DEF ReqFails, Served, copyVars
<1>3. MessageTypeOK'
  BY <1>1, <1>2 DEF MessageInv, MessageTypeOK
<1>4. NobodySaysRead'
  BY <1>2 DEF MessageInv, NobodySaysRead
<1> QED BY <1>1, <1>2, <1>3, <1>4, FailureReported DEF MessageInv

(* Every step of MessageState. *)
LEMMA MessageStep == ASSUME MessageInv, [MessageNext]_messageVars PROVE MessageInv'
<1>1. CASE UNCHANGED messageVars
  BY <1>1 DEF MessageInv, MessageTypeOK, NobodySaysRead, UnreadIsReported, Reports, NewMark,
              NewWrite, NoCopy, messageVars, rowVars, copyVars
<1>2. CASE MessageNext
  BY <1>2, ActInv, FocusInv, FetchesInv, RowEventsInv, EditingInv, WritesInv, EmitsInv, ReqFailsInv
     DEF MessageNext, Serve
<1> QED BY <1>1, <1>2

(* So the invariant holds in every state. *)
THEOREM MessageInductive == MessageSpec => []MessageInv
  BY MessageInitInv, MessageStep, PTL DEF MessageSpec

(* Every variable of MessageState keeps its type. *)
THEOREM MessageTypeCorrect == MessageSpec => []MessageTypeOK
  BY MessageInductive, PTL DEF MessageInv

(* It takes two failed requests to leave a message unread that its reader has
   looked at. *)
THEOREM ReaderIsReported == MessageSpec => []UnreadIsReported
  BY MessageInductive, PTL DEF MessageInv

-----------------------------------------------------------------------------
(***************************************************************************)
(* The three together.                                                     *)
(***************************************************************************)

(* A behaviour of the composition is one of each part. *)
THEOREM PartsBehave == PartsSpec => Spec /\ ChatSpec /\ MessageSpec
<1>1. PartsInit => Init /\ ChatInit /\ MessageInit
  BY DEF PartsInit
<1>2. [PartsNext]_<<part, callVars, chatVars, messageVars>>
        => [Next]_vars /\ [ChatNext]_chatVars /\ [MessageNext]_messageVars
  BY DEF PartsNext, callVars
<1> QED BY <1>1, <1>2, PTL DEF PartsSpec, Spec, ChatSpec, MessageSpec

(* Every variable of the three modules keeps its type in the composition. *)
THEOREM PartsTypeCorrect == PartsSpec => []PartsTypeOK
  BY PartsBehave, GroupTypeCorrect, ChatTypeCorrect, MessageTypeCorrect, PTL DEF PartsTypeOK
=============================================================================
