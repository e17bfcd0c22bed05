------------------------------- MODULE Presence -------------------------------
(***************************************************************************)
(* The presence of one user (src/src/realtime/socket.ts): the sets of live *)
(* and of active sockets that Redis keeps, the queue of recomputations     *)
(* that derive a status from them, and the writes of that status to        *)
(* user.status in the database, some of which a throttle defers.  A sweep  *)
(* repairs what a crash of the server left behind.                         *)
(*                                                                         *)
(* One server process.  It sends its Redis commands over one connection,   *)
(* which runs them in the order they were sent, so a command takes effect  *)
(* where the handler issues it; its reply is awaited.  The updates of the  *)
(* database go through a pool of connections: those in flight together     *)
(* take effect in any order.  One deferred write and one sweep at a time   *)
(* are in flight (their timers are minutes apart).                         *)
(*                                                                         *)
(* Abstracted: the broadcasts, lastSeenAt, the convenience keys of Redis,  *)
(* and times: whether the throttle lets a write pass is left open, a timer *)
(* may fire at any moment, a key may expire when nothing refreshed it.     *)
(***************************************************************************)
EXTENDS Naturals

CONSTANTS
    Socket,     \* sockets of the user, each used for one connection
    MaxQueue,   \* bound: recomputations waiting
    None

ASSUME QueueAssumption == MaxQueue \in Nat \ {0}

Status == {"ONLINE", "BACKGROUND", "OFFLINE"}
Run == [pc : {"read", "write"}, st : Status]

ASSUME NoneAssumption == None \notin Status \cup Run

VARIABLES
    conn,       \* [Socket -> {"new", "on", "off"}]
    socks,      \* Redis: presence_socks of the user
    active,     \* Redis: active_socks of the user
    queued,     \* presenceUpdateQueue: recomputations that wait, those whose
                \*   handler still awaits the reply of Redis included
    run,        \* the recomputation that runs, or None
    observed,   \* lastObservedPresenceByUser, or None
    timer,      \* pendingPresenceDbFlushByUser
    flush,      \* status the deferred write has in flight, or None
    sweep,      \* where reconcileStalePresence is, for this user
    db,         \* user.status
    slipped,    \* history: Redis changed, or observed did, and no
                \*   recomputation has read Redis since
    mixed       \* history: the last write failed, or two writes were in
                \*   flight together

redis == <<socks, active>>
vars == <<conn, socks, active, queued, run, observed, timer, flush, sweep,
          db, slipped, mixed>>

On == {s \in Socket : conn[s] = "on"}

(* presenceStatusFromCounts.  Mutant: the status broadcast during a call. *)
AggregateInCall == IF active # {} THEN "IN_CALL" ELSE "OFFLINE"

Aggregate == IF socks = {} THEN "OFFLINE"
             ELSE IF active # {} THEN "ONLINE" ELSE "BACKGROUND"

Init ==
    /\ conn = [s \in Socket |-> "new"]
    /\ socks = {}
    /\ active = {}
    /\ queued = 0
    /\ run = None
    /\ observed = None
    /\ timer = FALSE
    /\ flush = None
    /\ sweep = "idle"
    /\ db \in {"OFFLINE", "BACKGROUND"}
    /\ slipped = FALSE
    /\ mixed = FALSE

-----------------------------------------------------------------------------
(* recomputePresenceFromRedis: the call joins the queue of the user. *)
Enqueue == queued < MaxQueue /\ queued' = queued + 1

(* A Redis command of a handler: it fails and is logged, or takes effect.
   Either way the handler goes on to recompute the presence. *)
Redis(s1, s2) ==
    \/ socks' = s1 /\ active' = s2 /\ UNCHANGED slipped
    \/ UNCHANGED redis /\ slipped' = TRUE

(* Updates of user.status in flight. *)
Writing == (run # None /\ run.pc = "write") \/ flush # None \/ sweep \in {"mark", "marked"}

WriteStarts == mixed' = Writing
WriteFails == mixed' = TRUE /\ UNCHANGED db

Connect(s) ==
    /\ conn[s] = "new"
    /\ conn' = [conn EXCEPT ![s] = "on"]
    /\ Redis(socks \cup {s}, active)
    /\ Enqueue
    /\ UNCHANGED <<run, observed, timer, flush, sweep, db, mixed>>

(* presence:state, or presence:focus of older clients. *)
Activity(s, isActive) ==
    /\ conn[s] = "on"
    /\ Redis(socks, IF isActive THEN active \cup {s} ELSE active \ {s})
    /\ Enqueue
    /\ UNCHANGED <<conn, run, observed, timer, flush, sweep, db, mixed>>

(* disconnecting.  Mutant: the presence is not computed again. *)
DisconnectOnly(s) ==
    /\ conn[s] = "on"
    /\ conn' = [conn EXCEPT ![s] = "off"]
    /\ Redis(socks \ {s}, active \ {s})
    /\ UNCHANGED <<queued, run, observed, timer, flush, sweep, db, mixed>>

Disconnect(s) ==
    /\ conn[s] = "on"
    /\ conn' = [conn EXCEPT ![s] = "off"]
    /\ Redis(socks \ {s}, active \ {s})
    /\ Enqueue
    /\ UNCHANGED <<run, observed, timer, flush, sweep, db, mixed>>

(* The process is killed and started again: its memory is lost, Redis keeps
   its keys, a write in flight is applied or lost. *)
Restart ==
    /\ conn' = [s \in Socket |-> IF conn[s] = "on" THEN "off" ELSE conn[s]]
    /\ db' \in {db} \cup (IF run # None /\ run.pc = "write" THEN {run.st} ELSE {})
                    \cup (IF flush # None THEN {flush} ELSE {})
                    \cup (IF sweep = "mark" THEN {"OFFLINE"} ELSE {})
    /\ queued' = 0
    /\ run' = None
    /\ observed' = None
    /\ timer' = FALSE
    /\ flush' = None
    /\ sweep' = "idle"
    /\ UNCHANGED <<redis, slipped, mixed>>

(* A key expires: its sockets are gone, or their heartbeats did not get
   through.  active_socks is refreshed by presence:state only. *)
ExpirePresence ==
    /\ socks # {}
    /\ socks' = {}
    /\ slipped' = TRUE
    /\ UNCHANGED <<conn, active, queued, run, observed, timer, flush, sweep, db, mixed>>

ExpireActivity ==
    /\ active # {}
    /\ active' = {}
    /\ slipped' = TRUE
    /\ UNCHANGED <<conn, socks, queued, run, observed, timer, flush, sweep, db, mixed>>

-----------------------------------------------------------------------------
(* The next recomputation of the queue reads Redis, or cannot and returns. *)
RecomputeReads ==
    /\ queued > 0
    /\ run = None
    /\ queued' = queued - 1
    /\ run' = [pc |-> "read", st |-> Aggregate]
    /\ slipped' = FALSE
    /\ UNCHANGED <<conn, redis, observed, timer, flush, sweep, db, mixed>>

RecomputeGivesUp ==
    /\ queued > 0
    /\ run = None
    /\ queued' = queued - 1
    /\ slipped' = TRUE
    /\ UNCHANGED <<conn, redis, run, observed, timer, flush, sweep, db, mixed>>

(* persistPresenceToDb: nothing new was observed; or it is written; *)
RecomputeSame ==
    /\ run # None /\ run.pc = "read"
    /\ observed = run.st
    /\ run' = None
    /\ UNCHANGED <<conn, redis, queued, observed, timer, flush, sweep, db, slipped, mixed>>

RecomputeWrites ==
    /\ run # None /\ run.pc = "read"
    /\ observed # run.st
    /\ observed' = run.st
    /\ run' = [run EXCEPT !.pc = "write"]
    /\ timer' = FALSE
    /\ WriteStarts
    /\ UNCHANGED <<conn, redis, queued, flush, sweep, db, slipped>>

(* ... or, between ONLINE and BACKGROUND and within the throttle interval, it
   is left to the deferred write, of which there is one.
   Mutant: it is left out. *)
Deferrable == run.st # "OFFLINE" /\ observed \in {"ONLINE", "BACKGROUND"} \ {run.st}

RecomputeSkips ==
    /\ run # None /\ run.pc = "read"
    /\ Deferrable
    /\ observed' = run.st
    /\ run' = None
    /\ UNCHANGED <<conn, redis, queued, timer, flush, sweep, db, slipped, mixed>>

RecomputeDefers ==
    /\ run # None /\ run.pc = "read"
    /\ Deferrable
    /\ observed' = run.st
    /\ run' = None
    /\ timer' = TRUE
    /\ UNCHANGED <<conn, redis, queued, flush, sweep, db, slipped, mixed>>

RecomputeWritten ==
    /\ run # None /\ run.pc = "write"
    /\ run' = None
    /\ \/ db' = run.st /\ UNCHANGED mixed
       \/ WriteFails
    /\ UNCHANGED <<conn, redis, queued, observed, timer, flush, sweep, slipped>>

(* The deferred write: the status observed when the timer fires. *)
FlushFires ==
    /\ timer
    /\ flush = None
    /\ timer' = FALSE
    /\ flush' = observed
    /\ WriteStarts
    /\ UNCHANGED <<conn, redis, queued, run, observed, sweep, db, slipped>>

FlushWritten ==
    /\ flush # None
    /\ flush' = None
    /\ \/ db' = flush /\ UNCHANGED mixed
       \/ WriteFails
    /\ UNCHANGED <<conn, redis, queued, run, observed, timer, sweep, slipped>>

-----------------------------------------------------------------------------
(* reconcileStalePresence, started with the process and every minute: the
   user is listed, *)
SweepLists ==
    /\ sweep = "idle"
    /\ db # "OFFLINE"
    /\ sweep' = "count"
    /\ UNCHANGED <<conn, redis, queued, run, observed, timer, flush, db, slipped, mixed>>

(* ... its live sockets are counted, and if there are none *)
SweepCounts ==
    /\ sweep = "count"
    /\ socks = {}
    /\ sweep' = "mark"
    /\ WriteStarts
    /\ UNCHANGED <<conn, redis, queued, run, observed, timer, flush, db, slipped>>

(* (there are some, or Redis does not answer) *)
SweepSpares ==
    /\ sweep = "count"
    /\ sweep' = "idle"
    /\ UNCHANGED <<conn, redis, queued, run, observed, timer, flush, db, slipped, mixed>>

(* ... the database is updated.  Mutant: the users a recomputation wrote
   as ONLINE only. *)
SweepMarksOnline ==
    /\ sweep = "mark"
    /\ sweep' = "marked"
    /\ db' = IF db = "ONLINE" THEN "OFFLINE" ELSE db
    /\ UNCHANGED <<conn, redis, queued, run, observed, timer, flush, slipped, mixed>>

SweepMarks ==
    /\ sweep = "mark"
    /\ sweep' = "marked"
    /\ db' = "OFFLINE"
    /\ UNCHANGED <<conn, redis, queued, run, observed, timer, flush, slipped, mixed>>

SweepFails ==
    /\ sweep = "mark"
    /\ sweep' = "idle"
    /\ WriteFails
    /\ UNCHANGED <<conn, redis, queued, run, observed, timer, flush, slipped>>

(* ... and last what was observed. *)
SweepEnds ==
    /\ sweep = "marked"
    /\ sweep' = "idle"
    /\ observed' = "OFFLINE"
    /\ slipped' = TRUE
    /\ UNCHANGED <<conn, redis, queued, run, timer, flush, db, mixed>>

-----------------------------------------------------------------------------
Recompute ==
    \/ RecomputeReads \/ RecomputeGivesUp \/ RecomputeSame \/ RecomputeWrites
    \/ RecomputeDefers \/ RecomputeWritten

Sweep == SweepLists \/ SweepCounts \/ SweepSpares \/ SweepMarks \/ SweepFails \/ SweepEnds

Next ==
    \/ \E s \in Socket : Connect(s) \/ Disconnect(s) \/ \E a \in BOOLEAN : Activity(s, a)
    \/ Restart \/ ExpirePresence \/ ExpireActivity
    \/ Recompute
    \/ FlushFires \/ FlushWritten
    \/ Sweep

Spec == Init /\ [][Next]_vars

(* What the process took up it goes on with, keys of Redis that nobody
   refreshes expire, the sweep is repeated, and Redis and the database do not
   fail for ever. *)
FairSpec ==
    /\ Spec
    /\ WF_vars(Recompute)
    /\ WF_vars(FlushFires)
    /\ WF_vars(FlushWritten)
    /\ WF_vars(On = {} /\ ExpirePresence)
    /\ SF_vars(SweepLists)
    /\ SF_vars(SweepCounts)
    /\ SF_vars(SweepMarks)
    /\ WF_vars(SweepEnds)

-----------------------------------------------------------------------------
(* The type of every variable. *)
TypeOK ==
    /\ conn \in [Socket -> {"new", "on", "off"}]
    /\ socks \subseteq Socket /\ active \subseteq Socket
    /\ queued \in 0 .. MaxQueue
    /\ run \in Run \cup {None}
    /\ observed \in Status \cup {None}
    /\ flush \in Status \cup {None}
    /\ sweep \in {"idle", "count", "mark", "marked"}
    /\ db \in Status
    /\ timer \in BOOLEAN /\ slipped \in BOOLEAN /\ mixed \in BOOLEAN

(* recomputePresenceFromRedis: when no recomputation waits or runs, the status
   observed last is the one Redis says, whatever the order in which sockets
   came, went and changed while earlier recomputations were under way. *)
SettledPresence ==
    queued = 0 /\ run = None /\ ~slipped /\ observed # None => observed = Aggregate

(* "A skipped transition must still land in the DB eventually": while the
   database differs from what was observed, and no write is in flight, the
   deferred write is armed. *)
SkippedWriteHasFlush ==
    ~Writing /\ ~mixed /\ observed # None => db = observed \/ timer

(* A user without a connection is OFFLINE in the database in the end, whatever
   failed or was lost, crashes of the server included. *)
AbsentUserGoesOffline == <>[](On = {}) => <>[](db = "OFFLINE")

(* No recomputation waits or runs, no write is in flight or to come, and the
   status is that of the sets. *)
AtRest ==
    /\ queued = 0 /\ run = None /\ flush = None
    /\ ~timer /\ ~slipped
    /\ observed = Aggregate /\ db = Aggregate

(* "This only marks a user OFFLINE if Redis aggregate is empty": it does not
   hold, the user may connect between the count and the update.  The
   recomputation of that connection need not correct it: it may be over, its
   status written, when the update is. *)
SweepSparesConnected == [][SweepMarks /\ AtRest => socks = {}]_vars
=============================================================================
