------------------------------ MODULE DirectCall ------------------------------
(***************************************************************************)
(* The signalling of 1:1 calls in one conversation, on one server process  *)
(* (src/src/realtime/socket.ts): the socket handlers call:invite, accept,  *)
(* decline, end, room:join, room:leave and disconnecting, and the two      *)
(* timers, which share the maps callState, activeDirectCalls,              *)
(* callRingTimers and directCallGraceTimers.                               *)
(*                                                                         *)
(* Node runs one handler at a time but suspends it at every await on the   *)
(* database, on Redis or on the other instances.  A handler in flight is   *)
(* task[k], its pc names the await it is suspended at; what it read before *)
(* the await it keeps in st.  Awaits that only yield to microtasks         *)
(* (socket.join and socket.leave, which the adapter performs in memory)    *)
(* are not points of suspension here.                                      *)
(*                                                                         *)
(* Abstracted: the events sent to clients, video, durations and the text   *)
(* of the call records; times (an armed timer may fire at any moment); the *)
(* rooms of call presence and the E2EE key, of which only the awaits       *)
(* remain.  A client may send any event at any time, and its socket may be *)
(* gone when the handler resumes.                                          *)
(***************************************************************************)
EXTENDS CallInfo, Functions

CONSTANTS
    Task,       \* client events handled at the same time
    GraceTask,  \* the task of endActiveDirectCall when its timer fires
    MaxCalls,   \* bound: calls placed
    None

ASSUME TaskAssumption == GraceTask \notin Task
ASSUME CallsAssumption == MaxCalls \in Nat \ {0}

VARIABLES
    conn,       \* [Socket -> {"new", "on", "off"}]
    callState,  \* the pending or accepted call, or None
    active,     \* activeDirectCalls: [User -> SUBSET Socket], or None
    ring,       \* callRingTimers: the call its timer was armed for, or 0
    grace,      \* directCallGraceTimers: what its timer is to do, or None
    task,       \* [Task \cup {GraceTask} -> the handler suspended]
    calls,      \* calls placed so far; numbers them as startedAt does
    missed,     \* [1 .. MaxCalls -> Nat]: call records written, by kind
    ended,
    redialed    \* history: the inviter repeated the pending invite from a
                \*   socket other than inviterSocketId

vars == <<conn, callState, active, ring, grace, task, calls, missed, ended, redialed>>

Call == 1 .. MaxCalls
Record == [inviter : User, sock : Socket, accepted : BOOLEAN, call : Call]
Grace == [kind : {"active"}] \cup [kind : {"pending"}, sock : Socket]
Op == {"invite", "accept", "decline", "end", "join", "grace", "leave"}
Idle == [op |-> "none", sock |-> None, pc |-> "idle", st |-> None]

Init ==
    /\ conn = [s \in Socket |-> "new"]
    /\ callState = None
    /\ active = None
    /\ ring = 0
    /\ grace = None
    /\ task = [k \in Task \cup {GraceTask} |-> Idle]
    /\ calls = 0
    /\ missed = [c \in Call |-> 0]
    /\ ended = [c \in Call |-> 0]
    /\ redialed = FALSE

-----------------------------------------------------------------------------
Pending == callState # None /\ ~callState.accepted

(* activeDirectCalls.get(conversationId) ?? { participantsByUser: new Map() } *)
Participants == IF active = None THEN Nobody ELSE active

At(k, op, pc) == task[k].op = op /\ task[k].pc = pc
Done(k) == task' = [task EXCEPT ![k] = Idle]
Await(k, pc, st) == task' = [task EXCEPT ![k].pc = pc, ![k].st = st]

(* callState.delete *)
Forget == callState' = None /\ redialed' = FALSE

(* The flag is set on a copy of the state just read. *)
Accepted(st) == callState' = [st EXCEPT !.accepted = TRUE]

Log(kind, c) ==
    /\ missed' = IF kind = "missed" THEN [missed EXCEPT ![c] = @ + 1] ELSE missed
    /\ ended' = IF kind = "ended" THEN [ended EXCEPT ![c] = @ + 1] ELSE ended

NoLog == UNCHANGED <<missed, ended>>

-----------------------------------------------------------------------------
(* Connections. *)
Connect(s) ==
    /\ conn[s] = "new"
    /\ conn' = [conn EXCEPT ![s] = "on"]
    /\ UNCHANGED <<callState, active, ring, grace, task, calls, missed, ended, redialed>>

(* disconnecting: a pending invite of this socket, and a call left with fewer
   than two users, get the grace timer, unless one is armed already. *)
Disconnect(s) ==
    LET left == Without(active, s) IN
    /\ conn[s] = "on"
    /\ conn' = [conn EXCEPT ![s] = "off"]
    /\ LET inIt    == active # None /\ Owner[s] \in Present(active)
           shrunk  == inIt /\ Cardinality(Present(left)) <= 1
           inviter == Pending /\ callState.sock = s IN
       /\ active' = IF inIt THEN left ELSE active
       /\ grace' = IF grace # None THEN grace
                   ELSE IF inviter THEN [kind |-> "pending", sock |-> s]
                   ELSE IF shrunk THEN [kind |-> "active"]
                   ELSE None
    /\ UNCHANGED <<callState, ring, task, calls, missed, ended, redialed>>

(* A client event is received: its handler awaits the conversation.
   room:leave has no such lookup: see Leave. *)
Receive(k, s, op) ==
    /\ k \in Task
    /\ conn[s] = "on"
    /\ task[k] = Idle
    /\ op \in Op \ {"leave", "grace"}
    /\ task' = [task EXCEPT ![k] = [op |-> op, sock |-> s, pc |-> "lookup", st |-> None]]
    /\ UNCHANGED <<conn, callState, active, ring, grace, calls, missed, ended, redialed>>

(* call:invite, the throttle: it may drop an invite only while a call of the
   conversation is tracked.  Otherwise the caller is looked up. *)
InviteThrottled(k) ==
    /\ At(k, "invite", "lookup")
    /\ callState # None
    /\ Done(k)
    /\ UNCHANGED <<conn, callState, active, ring, grace, calls, missed, ended, redialed>>

InviteAdmitted(k) ==
    /\ At(k, "invite", "lookup")
    /\ Await(k, "caller", None)
    /\ UNCHANGED <<conn, callState, active, ring, grace, calls, missed, ended, redialed>>

(* A pending invite is there: it is delivered again (same inviter) or to the
   user who dialled at the same time (glare); the state is kept as it is. *)
InviteRepeated(k) ==
    LET s == task[k].sock IN
    /\ At(k, "invite", "caller")
    /\ Pending
    /\ Done(k)
    /\ redialed' = (redialed \/ (callState.inviter = Owner[s] /\ callState.sock # s))
    /\ UNCHANGED <<conn, callState, active, ring, grace, calls, missed, ended>>

(* Otherwise the invite is recorded, whatever call was there before.
   Mutant: also over a pending one. *)
AnyState == TRUE
Vacant == ~Pending

InvitePlaced(k) ==
    LET s == task[k].sock IN
    /\ At(k, "invite", "caller")
    /\ Vacant
    /\ calls < MaxCalls
    /\ calls' = calls + 1
    /\ callState' = [inviter |-> Owner[s], sock |-> s, accepted |-> FALSE, call |-> calls + 1]
    /\ redialed' = FALSE
    /\ Await(k, "key", callState')
    /\ UNCHANGED <<conn, active, ring, grace, missed, ended>>

(* call:incoming is sent; scheduleCallRingTimeout replaces the ring timer.
   Mutant: the state is written after the await. *)
InviteRingsLate(k) ==
    /\ At(k, "invite", "key")
    /\ ring' = task[k].st.call /\ callState' = task[k].st
    /\ Done(k)
    /\ UNCHANGED <<conn, active, grace, calls, missed, ended, redialed>>

InviteRings(k) ==
    /\ At(k, "invite", "key")
    /\ ring' = task[k].st.call
    /\ Done(k)
    /\ UNCHANGED <<conn, callState, active, grace, calls, missed, ended, redialed>>

(* call:accept: ignored without a call, and from the inviter. *)
AcceptIgnored(k) ==
    /\ At(k, "accept", "lookup")
    /\ ~(callState # None /\ callState.inviter # Owner[task[k].sock])
    /\ Done(k)
    /\ UNCHANGED <<conn, callState, active, ring, grace, calls, missed, ended, redialed>>

Accept(k) ==
    /\ At(k, "accept", "lookup")
    /\ callState # None
    /\ callState.inviter # Owner[task[k].sock]
    /\ Accepted(callState)
    /\ ring' = 0
    /\ grace' = None
    /\ Await(k, "key", callState)
    /\ UNCHANGED <<conn, active, calls, missed, ended, redialed>>

(* The key is there: the socket of the inviter, as read before the await,
   and that of the callee make up the call. *)
AcceptActive(k) ==
    /\ At(k, "accept", "key")
    /\ active' = With(With(Participants, task[k].st.sock), task[k].sock)
    /\ Done(k)
    /\ UNCHANGED <<conn, callState, ring, grace, calls, missed, ended, redialed>>

(* call:decline: ignored once the call was accepted or is active. *)
DeclineIgnored(k) ==
    /\ At(k, "decline", "lookup")
    /\ (callState # None /\ callState.accepted) \/ active # None
    /\ Done(k)
    /\ UNCHANGED <<conn, callState, active, ring, grace, calls, missed, ended, redialed>>

Decline(k) ==
    /\ At(k, "decline", "lookup")
    /\ ~(callState # None /\ callState.accepted) /\ active = None
    /\ ring' = 0
    /\ grace' = None
    /\ IF Pending THEN Forget /\ Log("missed", callState.call)
                  ELSE NoLog /\ UNCHANGED <<callState, redialed>>
    /\ Done(k)
    /\ UNCHANGED <<conn, active, calls>>

(* call:end reads the state, then awaits the clearing of the call room. *)
EndRead(k) ==
    /\ At(k, "end", "lookup")
    /\ Await(k, "clear", callState)
    /\ UNCHANGED <<conn, callState, active, ring, grace, calls, missed, ended, redialed>>

(* The handler that deletes callState writes the record, from what it read.
   Mutant: any handler that read a call. *)
ClaimsRead(st) == st # None
Claims(st) == st # None /\ callState # None

EndClaim(k) ==
    LET st == task[k].st IN
    /\ At(k, "end", "clear")
    /\ active' = None
    /\ ring' = 0
    /\ grace' = None
    /\ IF st # None THEN Forget ELSE UNCHANGED <<callState, redialed>>
    /\ IF Claims(st) THEN Log(IF st.accepted THEN "ended" ELSE "missed", st.call) ELSE NoLog
    /\ Done(k)
    /\ UNCHANGED <<conn, calls>>

(* call:room:join cancels the grace, accepts a pending call of the other user
   and adds the socket. *)
Join(k) ==
    LET s == task[k].sock
        answers == Pending /\ callState.inviter # Owner[s] IN
    /\ At(k, "join", "lookup")
    /\ grace' = None
    /\ IF answers THEN Accepted(callState) /\ ring' = 0
                  ELSE UNCHANGED <<callState, ring>>
    /\ active' = With(Participants, s)
    /\ Done(k)
    /\ UNCHANGED <<conn, calls, missed, ended, redialed>>

(* call:room:leave without an active call forgets the invite. *)
LeaveNoCall(s) ==
    /\ conn[s] = "on"
    /\ active = None
    /\ Forget
    /\ UNCHANGED <<conn, active, ring, grace, task, calls, missed, ended>>

Leave(k, s) ==
    LET left == Without(active, s) IN
    /\ k \in Task
    /\ conn[s] = "on"
    /\ active # None
    /\ active' = left
    /\ IF Cardinality(Present(left)) > 1 THEN UNCHANGED task
       ELSE /\ task[k] = Idle
            /\ task' = [task EXCEPT ![k] =
                           [op |-> "leave", sock |-> s, pc |-> "clear", st |-> None]]
    /\ UNCHANGED <<conn, callState, ring, grace, calls, missed, ended, redialed>>

LeaveCleared(k) ==
    /\ At(k, "leave", "clear")
    /\ active' = None
    /\ Await(k, "lookup", None)
    /\ UNCHANGED <<conn, callState, ring, grace, calls, missed, ended, redialed>>

LeaveForgets(k) ==
    /\ At(k, "leave", "lookup")
    /\ Forget
    /\ Done(k)
    /\ UNCHANGED <<conn, active, ring, grace, calls, missed, ended>>

-----------------------------------------------------------------------------
(* The no-answer backstop.  It looks at the state that is there now. *)
RingTimeout ==
    /\ ring # 0
    /\ ring' = 0
    /\ IF ~Pending THEN
          /\ NoLog
          /\ UNCHANGED <<callState, active, grace, redialed>>
       ELSE IF active # None /\ Cardinality(Present(active)) >= 2 THEN
          /\ Accepted(callState)
          /\ NoLog
          /\ UNCHANGED <<active, grace, redialed>>
       ELSE
          /\ Forget
          /\ active' = None
          /\ grace' = None
          /\ Log("missed", callState.call)
    /\ UNCHANGED <<conn, task, calls>>

(* The grace of a dropped inviter is over. *)
PendingGraceOver ==
    /\ grace # None /\ grace.kind = "pending"
    /\ grace' = None
    /\ IF Pending /\ callState.sock = grace.sock
       THEN Forget /\ ring' = 0
       ELSE UNCHANGED <<callState, ring, redialed>>
    /\ UNCHANGED <<conn, active, task, calls, missed, ended>>

(* The grace of an active call is over: endActiveDirectCall starts, unless
   two users are in the call, and awaits the clearing of the room. *)
ActiveGraceOver ==
    /\ grace # None /\ grace.kind = "active"
    /\ task[GraceTask] = Idle
    /\ grace' = None
    /\ IF active = None \/ Cardinality(Present(active)) >= 2 THEN UNCHANGED task
       ELSE task' = [task EXCEPT ![GraceTask] =
                        [op |-> "grace", sock |-> None, pc |-> "clear", st |-> None]]
    /\ UNCHANGED <<conn, callState, active, ring, calls, missed, ended, redialed>>

GraceEndsCall ==
    /\ At(GraceTask, "grace", "clear")
    /\ active' = None
    /\ ring' = 0
    /\ Forget
    /\ IF callState # None /\ callState.accepted THEN Log("ended", callState.call) ELSE NoLog
    /\ Done(GraceTask)
    /\ UNCHANGED <<conn, grace, calls>>

-----------------------------------------------------------------------------
Handler(k) ==
    \/ InviteThrottled(k) \/ InviteAdmitted(k) \/ InviteRepeated(k)
    \/ InvitePlaced(k) \/ InviteRings(k)
    \/ AcceptIgnored(k) \/ Accept(k) \/ AcceptActive(k)
    \/ DeclineIgnored(k) \/ Decline(k)
    \/ EndRead(k) \/ EndClaim(k)
    \/ Join(k) \/ LeaveCleared(k) \/ LeaveForgets(k)

Timers == RingTimeout \/ PendingGraceOver \/ ActiveGraceOver \/ GraceEndsCall

Next ==
    \/ \E s \in Socket : Connect(s) \/ Disconnect(s) \/ LeaveNoCall(s)
    \/ \E k \in Task, s \in Socket : Leave(k, s) \/ \E op \in Op : Receive(k, s, op)
    \/ \E k \in Task : Handler(k)
    \/ Timers

Spec == Init /\ [][Next]_vars

-----------------------------------------------------------------------------
(* The type of every variable. *)
TypeOK ==
    /\ conn \in [Socket -> {"new", "on", "off"}]
    /\ callState \in Record \cup {None}
    /\ active \in [User -> SUBSET Socket] \cup {None}
    /\ ring \in 0 .. MaxCalls
    /\ grace \in Grace \cup {None}
    /\ \A k \in Task \cup {GraceTask} :
          /\ task[k].op \in Op \cup {"none"}
          /\ task[k].sock \in Socket \cup {None}
          /\ task[k].st \in Record \cup {None}
    /\ calls \in 0 .. MaxCalls
    /\ missed \in [Call -> Nat] /\ ended \in [Call -> Nat]
    /\ redialed \in BOOLEAN

(* Each record in the chat stands for a call that was placed and is over: the
   handlers and timers that race to finish a call claim it by deleting
   callState, so there are never more records than calls finished. *)
Total(log) == FoldFunction(LAMBDA n, sum : n + sum, 0, log)

NoPhantomRecord ==
    Total(missed) + Total(ended) + (IF callState # None THEN 1 ELSE 0) <= calls

(* The calls live as CallLife says.  In particular glare keeps the first invite:
   while one is pending no other takes its place, whoever dials and whatever was
   awaited meanwhile (InviteRepeated); an answered call never rings again; and no
   handler puts back a call it read before an await, when it is over. *)
Life == INSTANCE CallLife WITH call <- callState, placed <- calls

KeepsLife == Life!Spec

(* A call is recorded once: of two call:end in parallel only the one that
   deleted callState writes the record.  It does not hold: the callState it
   deleted may be that of the next call. *)
OneRecordPerCall == \A c \in Call : missed[c] + ended[c] <= 1

(* The grace of a dropped inviter ends the call only if the inviter has not
   invited again from a new socket.  It does not hold: a repeated invite
   leaves inviterSocketId as it was. *)
RedialKeepsRinging == [][PendingGraceOver /\ redialed => callState' = callState]_vars
=============================================================================
