------------------------------ MODULE GroupCall -------------------------------
(***************************************************************************)
(* The signalling of the calls of one group conversation, on one server    *)
(* process (src/src/realtime/socket.ts): the same socket handlers as for   *)
(* 1:1 calls, on their group paths, the maps callState and                 *)
(* activeGroupCalls, the alone timer and the grace timer of a dropped      *)
(* inviter.  A group call has no ring: it is shown to the members as an    *)
(* active call, and ends when it is left empty, when a member ends or      *)
(* declines it, or when one user stayed in it alone for too long.          *)
(*                                                                         *)
(* As in DirectCall, a handler in flight is task[k], suspended at the      *)
(* await its pc names.  Abstracted: the events sent to clients, the rooms  *)
(* of call presence (only the await that clears them remains), video,      *)
(* texts, and times: startedAt counts the reads of the clock, an armed     *)
(* timer may fire at any moment.                                           *)
(***************************************************************************)
EXTENDS CallInfo

CONSTANTS
    Task,       \* client events handled at the same time
    MaxClock,   \* bound: reads of the clock
    None

ASSUME ClockAssumption == MaxClock \in Nat \ {0}

VARIABLES
    conn,       \* [Socket -> {"new", "on", "off"}]
    callState,  \* the call announced, or None
    group,      \* activeGroupCalls: startedAt and participants, or None
    alone,      \* groupAloneTimers: the timer is armed
    grace,      \* directCallGraceTimers: the dropped socket, or None
    task,       \* [Task -> the handler suspended]
    clock,
    record      \* the last "ended" message: the startedAt its duration was
                \*   computed from, and that of the call it is about

vars == <<conn, callState, group, alone, grace, task, clock, record>>

Time == 1 .. MaxClock
Op == {"invite", "accept", "decline", "end", "join"}
State == [inviter : User, sock : Socket, accepted : BOOLEAN, startedAt : Time]
Suspended == [op : Op \cup {"none"}, sock : Socket \cup {None},
              pc : {"idle", "lookup", "caller", "message", "clear"}]
Idle == [op |-> "none", sock |-> None, pc |-> "idle"]

Init ==
    /\ conn = [s \in Socket |-> "new"]
    /\ callState = None
    /\ group = None
    /\ alone = FALSE
    /\ grace = None
    /\ task = [k \in Task |-> Idle]
    /\ clock = 0
    /\ record = None

-----------------------------------------------------------------------------
At(k, op, pc) == task[k].op = op /\ task[k].pc = pc
Done(k) == task' = [task EXCEPT ![k] = Idle]
Await(k, pc) == task' = [task EXCEPT ![k].pc = pc]

Tick == clock < MaxClock /\ clock' = clock + 1

Solo(g) == g # None /\ Cardinality(Present(g.parts)) = 1

(* syncGroupAloneTimer: armed exactly while one user is in the call, never
   restarted while armed.  Mutant: does not disarm. *)
SyncAloneArms == alone' = (alone \/ Solo(group'))
SyncAlone == alone' = Solo(group')

Announce(s, accepted) ==
    callState' = [inviter |-> Owner[s], sock |-> s, accepted |-> accepted, startedAt |-> clock']

(* finishGroupCall: whoever finds a call tracked removes it and writes the
   record; the rest of it runs after awaits and reads no state of a call. *)
Finish ==
    /\ callState' = None
    /\ group' = None
    /\ alone' = FALSE
    /\ record' = IF callState = None /\ group = None THEN record
                 ELSE [from |-> IF callState # None THEN callState.startedAt ELSE group.startedAt,
                       call |-> IF group # None THEN group.startedAt ELSE 0]

(* removeParticipant, and what follows it on a group.
   Mutant: the call left empty is not finished. *)
LeavesOnly(s) ==
    /\ group' = [group EXCEPT !.parts = Without(@, s)]
    /\ SyncAlone
    /\ UNCHANGED <<callState, record>>

Leaves(s) ==
    LET left == Without(group.parts, s) IN
    IF Present(left) = {} THEN Finish
    ELSE /\ group' = [group EXCEPT !.parts = left]
         /\ SyncAlone
         /\ UNCHANGED <<callState, record>>

-----------------------------------------------------------------------------
Connect(s) ==
    /\ conn[s] = "new"
    /\ conn' = [conn EXCEPT ![s] = "on"]
    /\ UNCHANGED <<callState, group, alone, grace, task, clock, record>>

(* disconnecting: the grace of a pending invite, which is meant for 1:1
   calls, is armed for a group too; then the socket leaves the call. *)
Disconnect(s) ==
    /\ conn[s] = "on"
    /\ conn' = [conn EXCEPT ![s] = "off"]
    /\ grace' = IF grace = None /\ callState # None /\ ~callState.accepted /\ callState.sock = s
                THEN s ELSE grace
    /\ IF group = None \/ Owner[s] \notin Present(group.parts)
       THEN UNCHANGED <<callState, group, alone, record>>
       ELSE Leaves(s)
    /\ UNCHANGED <<task, clock>>

(* A client event is received: its handler awaits the conversation. *)
Receive(k, s, op) ==
    /\ conn[s] = "on"
    /\ task[k] = Idle
    /\ task' = [task EXCEPT ![k] = [op |-> op, sock |-> s, pc |-> "lookup"]]
    /\ UNCHANGED <<conn, callState, group, alone, grace, clock, record>>

(* call:invite: throttled only while a call is tracked, else looks the caller up. *)
InviteThrottled(k) ==
    /\ At(k, "invite", "lookup")
    /\ callState # None
    /\ Done(k)
    /\ UNCHANGED <<conn, callState, group, alone, grace, clock, record>>

InviteAdmitted(k) ==
    /\ At(k, "invite", "lookup")
    /\ Await(k, "caller")
    /\ UNCHANGED <<conn, callState, group, alone, grace, clock, record>>

(* The invite writes callState in any case.  The one that opens the call also
   creates the "started" message, and awaits it before the alone timer. *)
InviteOpens(k) ==
    LET s == task[k].sock IN
    /\ At(k, "invite", "caller")
    /\ group = None
    /\ Tick
    /\ Announce(s, FALSE)
    /\ group' = [startedAt |-> clock', parts |-> With(Nobody, s)]
    /\ Await(k, "message")
    /\ UNCHANGED <<conn, alone, grace, record>>

InviteOpened(k) ==
    /\ At(k, "invite", "message")
    /\ UNCHANGED group
    /\ SyncAlone
    /\ Done(k)
    /\ UNCHANGED <<conn, callState, grace, clock, record>>

InviteAgain(k) ==
    LET s == task[k].sock IN
    /\ At(k, "invite", "caller")
    /\ group # None
    /\ Tick
    /\ Announce(s, FALSE)
    /\ group' = [group EXCEPT !.parts = With(@, s)]
    /\ SyncAlone
    /\ Done(k)
    /\ UNCHANGED <<conn, grace, record>>

(* call:accept only sets the flag, for anyone. *)
Accept(k) ==
    /\ At(k, "accept", "lookup")
    /\ callState' = IF callState = None THEN None ELSE [callState EXCEPT !.accepted = TRUE]
    /\ Done(k)
    /\ UNCHANGED <<conn, group, alone, grace, clock, record>>

(* call:decline finishes the call; call:end first clears the call room. *)
Decline(k) ==
    /\ At(k, "decline", "lookup")
    /\ Finish
    /\ Done(k)
    /\ UNCHANGED <<conn, grace, clock>>

EndClears(k) ==
    /\ At(k, "end", "lookup")
    /\ Await(k, "clear")
    /\ UNCHANGED <<conn, callState, group, alone, grace, clock, record>>

End(k) ==
    /\ At(k, "end", "clear")
    /\ Finish
    /\ Done(k)
    /\ UNCHANGED <<conn, grace, clock>>

(* call:room:join cancels the grace.  Into a call that is there, or announced: *)
Join(k) ==
    LET s == task[k].sock IN
    /\ At(k, "join", "lookup")
    /\ group # None \/ callState # None
    /\ grace' = None
    /\ callState' = IF callState # None /\ callState.inviter # Owner[s]
                    THEN [callState EXCEPT !.accepted = TRUE] ELSE callState
    /\ group' = IF group = None
                THEN [startedAt |-> callState.startedAt, parts |-> With(Nobody, s)]
                ELSE [group EXCEPT !.parts = With(@, s)]
    /\ SyncAlone
    /\ Done(k)
    /\ UNCHANGED <<conn, clock, record>>

(* ... and as the first, with nothing announced: the caller is looked up, the
   call announced and its message created, and only then is the call entered
   in activeGroupCalls. *)
JoinFirst(k) ==
    /\ At(k, "join", "lookup")
    /\ group = None /\ callState = None
    /\ grace' = None
    /\ Await(k, "caller")
    /\ UNCHANGED <<conn, callState, group, alone, clock, record>>

JoinAnnounces(k) ==
    /\ At(k, "join", "caller")
    /\ Tick
    /\ Announce(task[k].sock, TRUE)
    /\ Await(k, "message")
    /\ UNCHANGED <<conn, group, alone, grace, record>>

JoinOpens(k) ==
    /\ At(k, "join", "message")
    /\ IF callState # None THEN UNCHANGED clock ELSE Tick
    /\ group' = [startedAt |-> IF callState # None THEN callState.startedAt ELSE clock',
                 parts |-> With(Nobody, task[k].sock)]
    /\ SyncAlone
    /\ Done(k)
    /\ UNCHANGED <<conn, callState, grace, record>>

(* call:room:leave. *)
Leave(s) ==
    /\ conn[s] = "on"
    /\ IF group = None
       THEN /\ callState' = None
            /\ alone' = IF callState = None THEN alone ELSE FALSE
            /\ UNCHANGED <<group, record>>
       ELSE Leaves(s)
    /\ UNCHANGED <<conn, grace, task, clock>>

-----------------------------------------------------------------------------
(* One user stayed alone for GROUP_ALONE_AUTO_END_MS.  (The reminder before
   that only sends the status again.)  Mutant: only the reminder. *)
AloneReminder ==
    /\ alone
    /\ alone' = FALSE
    /\ UNCHANGED <<conn, callState, group, grace, task, clock, record>>

AloneTimeout ==
    /\ alone
    /\ IF Solo(group) THEN Finish
       ELSE alone' = FALSE /\ UNCHANGED <<callState, group, record>>
    /\ UNCHANGED <<conn, grace, task, clock>>

(* The grace of a dropped inviter: removes the announcement if it is still
   that of the dropped socket. *)
GraceOver ==
    /\ grace # None
    /\ grace' = None
    /\ IF callState # None /\ ~callState.accepted /\ callState.sock = grace
       THEN callState' = None
       ELSE UNCHANGED callState
    /\ UNCHANGED <<conn, group, alone, task, clock, record>>

Handler(k) ==
    \/ InviteThrottled(k) \/ InviteAdmitted(k) \/ InviteOpens(k) \/ InviteOpened(k)
    \/ InviteAgain(k)
    \/ Accept(k) \/ Decline(k) \/ EndClears(k) \/ End(k)
    \/ Join(k) \/ JoinFirst(k) \/ JoinAnnounces(k) \/ JoinOpens(k)

Next ==
    \/ \E s \in Socket : Connect(s) \/ Disconnect(s) \/ Leave(s)
    \/ \E k \in Task, s \in Socket, op \in Op : Receive(k, s, op)
    \/ \E k \in Task : Handler(k)
    \/ AloneTimeout
    \/ GraceOver

Spec == Init /\ [][Next]_vars

(* A suspended handler is resumed and an armed timer fires. *)
Fairness ==
    /\ \A k \in Task : WF_vars(Handler(k))
    /\ WF_vars(AloneTimeout)
    /\ WF_vars(GraceOver)

FairSpec == Spec /\ Fairness

-----------------------------------------------------------------------------
(* The type of every variable. *)
TypeOK ==
    /\ conn \in [Socket -> {"new", "on", "off"}]
    /\ callState \in State \cup {None}
    /\ group \in [startedAt : Time, parts : [User -> SUBSET Socket]] \cup {None}
    /\ alone \in BOOLEAN
    /\ grace \in Socket \cup {None}
    /\ task \in [Task -> Suspended]
    /\ clock \in 0 .. MaxClock
    /\ record \in [from : Time, call : 0 .. MaxClock] \cup {None}

(* A user alone in a group call has the timer that ends it, and the timer is
   never armed otherwise: every path that adds or removes a participant ends
   in syncGroupAloneTimer.  Only the handler that opens the call is late. *)
AloneHasTimer ==
    /\ Solo(group) => alone \/ \E k \in Task : At(k, "invite", "message")
    /\ alone => Solo(group)

(* A tracked call has somebody in it: an entry of activeGroupCalls is removed
   with its last participant, in the same step. *)
NoEmptyCall == group # None => Present(group.parts) # {}

(* A user left alone in a group call does not stay in it for ever. *)
AloneCallEnds == Solo(group) ~> ~Solo(group)

(* "Subsequent invites for an already-active group call must NOT reset
   startedAt": the duration recorded is that of the call.  It does not hold:
   finishGroupCall takes it from callState, which every invite overwrites. *)
DurationOfCall ==
    record # None /\ record.call # 0 => record.from = record.call
=============================================================================
