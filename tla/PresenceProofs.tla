---------------------------- MODULE PresenceProofs ----------------------------
(***************************************************************************)
(* Proofs about Presence, for any number of sockets of the user and any    *)
(* length of the queue of recomputations.                                  *)
(***************************************************************************)
EXTENDS Presence, TLAPS

(* The status a recomputation read, or observed, is the one Redis says unless
   Redis changed since, and then another recomputation waits. *)
Reading == run # None /\ run.pc = "read"

ReadInv ==
    queued = 0 /\ ~slipped =>
        /\ Reading => run.st = Aggregate
        /\ ~Reading /\ observed # None => observed = Aggregate

(* Unless mixed, one write at most is in flight, and it is about to write what
   was observed last, or leaves the rest to the deferred write. *)
RunWrites == run # None /\ run.pc = "write"

FlightInv ==
    ~mixed =>
        /\ RunWrites => flush = None /\ sweep \notin {"mark", "marked"}
        /\ flush # None => sweep \notin {"mark", "marked"}
        /\ RunWrites => observed = run.st
        /\ flush # None => flush = observed \/ timer
        /\ sweep = "marked" => db = "OFFLINE"

(* There is something to write when the deferred write is armed. *)
TimerInv == timer => observed # None

IInv ==
    /\ TypeOK
    /\ ReadInv
    /\ FlightInv
    /\ TimerInv
    /\ SkippedWriteHasFlush

-----------------------------------------------------------------------------
(* The status of the sets is a status. *)
LEMMA AggregateTyped == Aggregate \in Status
  BY DEF Aggregate, Status

(* The invariant holds in the initial states. *)
LEMMA InitInv == Init => IInv
<1> SUFFICES ASSUME Init PROVE IInv
  OBVIOUS
<1>1. TypeOK
  <2>1. queued \in 0 .. MaxQueue
    BY QueueAssumption DEF Init
  <2>2. db \in Status
    BY DEF Init, Status
  <2> QED BY <2>1, <2>2 DEF Init, TypeOK
<1>2. ReadInv /\ FlightInv /\ TimerInv /\ SkippedWriteHasFlush
  BY DEF Init, ReadInv, Reading, FlightInv, RunWrites, TimerInv, SkippedWriteHasFlush
<1> QED BY <1>1, <1>2 DEF IInv

(* A handler, or the expiry of a key, changes what Redis says: it calls for a
   recomputation or the change has slipped through. *)
LEMMA RedisStep ==
  ASSUME IInv, conn' \in [Socket -> {"new", "on", "off"}],
         socks' \subseteq Socket, active' \subseteq Socket,
         queued' \in 0 .. MaxQueue, slipped' \in BOOLEAN,
         queued' # 0 \/ slipped',
         UNCHANGED <<run, observed, timer, flush, sweep, db, mixed>>
  PROVE  IInv'
  BY DEF IInv, TypeOK, ReadInv, FlightInv, RunWrites, TimerInv,
         SkippedWriteHasFlush, Writing

(* The calls that join the queue. *)
LEMMA Queues == ASSUME TypeOK, Enqueue PROVE queued' \in 0 .. MaxQueue /\ queued' # 0
<1>1. queued \in 0 .. MaxQueue
  BY DEF TypeOK
<1> QED BY <1>1, QueueAssumption DEF Enqueue

(* The commands that Redis takes or not. *)
LEMMA Commands ==
  ASSUME TypeOK, NEW s1 \in SUBSET Socket, NEW s2 \in SUBSET Socket, Redis(s1, s2)
  PROVE  socks' \subseteq Socket /\ active' \subseteq Socket /\ slipped' \in BOOLEAN
  BY DEF Redis, redis, TypeOK

(* Every step keeps the invariant. *)
LEMMA Step ==
  ASSUME IInv, [Next]_vars
  PROVE  IInv'
<1> USE DEF IInv
<1>1. ASSUME NEW s \in Socket, Connect(s) PROVE IInv'
  <2>1. conn' \in [Socket -> {"new", "on", "off"}]
    BY <1>1 DEF Connect, TypeOK
  <2> QED BY <1>1, <2>1, Commands, Queues, RedisStep DEF Connect, TypeOK
<1>2. ASSUME NEW s \in Socket, Disconnect(s) PROVE IInv'
  <2>1. conn' \in [Socket -> {"new", "on", "off"}]
    BY <1>2 DEF Disconnect, TypeOK
  <2> QED BY <1>2, <2>1, Commands, Queues, RedisStep DEF Disconnect, TypeOK
<1>3. ASSUME NEW s \in Socket, NEW a \in BOOLEAN, Activity(s, a) PROVE IInv'
  <2>1. (IF a THEN active \cup {s} ELSE active \ {s}) \in SUBSET Socket
    BY DEF TypeOK
  <2> QED BY <1>3, <2>1, Commands, Queues, RedisStep DEF Activity, TypeOK
<1>4. CASE ExpirePresence
  BY <1>4, RedisStep DEF ExpirePresence, TypeOK
<1>5. CASE ExpireActivity
  BY <1>5, RedisStep DEF ExpireActivity, TypeOK
<1>6. CASE Restart
  <2>1. conn' \in [Socket -> {"new", "on", "off"}] /\ queued' \in 0 .. MaxQueue
    BY <1>6, QueueAssumption DEF Restart, TypeOK
  <2>2. db' \in Status
    BY <1>6, NoneAssumption DEF Restart, TypeOK, Run, Status
  <2>3. TypeOK'
    BY <1>6, <2>1, <2>2 DEF Restart, TypeOK, redis
  <2>4. ReadInv' /\ FlightInv' /\ TimerInv' /\ SkippedWriteHasFlush'
    BY <1>6, NoneAssumption
       DEF Restart, ReadInv, Reading, FlightInv, RunWrites, TimerInv,
           SkippedWriteHasFlush, Writing, Status
  <2> QED BY <2>3, <2>4
<1>7. CASE RecomputeReads \/ RecomputeGivesUp
  <2>1. TypeOK'
    <3>1. queued' \in 0 .. MaxQueue
      BY <1>7, QueueAssumption DEF RecomputeReads, RecomputeGivesUp, TypeOK
    <3>2. run' \in Run \cup {None}
      BY <1>7, AggregateTyped DEF RecomputeReads, RecomputeGivesUp, TypeOK, Run
    <3> QED BY <1>7, <3>1, <3>2 DEF RecomputeReads, RecomputeGivesUp, TypeOK, redis
  <2>2. ReadInv'
    BY <1>7, NoneAssumption, AggregateTyped
       DEF RecomputeReads, RecomputeGivesUp, ReadInv, Reading, Aggregate, redis, Run
  <2>3. FlightInv' /\ TimerInv' /\ SkippedWriteHasFlush'
    BY <1>7
       DEF RecomputeReads, RecomputeGivesUp, FlightInv, RunWrites, TimerInv,
           SkippedWriteHasFlush, Writing
  <2> QED BY <2>1, <2>2, <2>3
<1>8. CASE RecomputeSame \/ RecomputeWrites \/ RecomputeDefers
  <2>1. TypeOK'
    BY <1>8 DEF RecomputeSame, RecomputeWrites, RecomputeDefers, TypeOK, redis, Run,
                WriteStarts, Writing
  <2>2. ReadInv'
    BY <1>8 DEF RecomputeSame, RecomputeWrites, RecomputeDefers, ReadInv, Reading,
                TypeOK, Run, Aggregate, redis
  <2>3. TimerInv'
    BY <1>8, NoneAssumption
       DEF RecomputeSame, RecomputeWrites, RecomputeDefers, TimerInv, TypeOK, Run
  <2>4. FlightInv'
    BY <1>8, NoneAssumption
       DEF RecomputeSame, RecomputeWrites, RecomputeDefers, FlightInv, RunWrites,
           WriteStarts, Writing, TypeOK, Run
  <2>5. SkippedWriteHasFlush'
    BY <1>8, NoneAssumption
       DEF RecomputeSame, RecomputeWrites, RecomputeDefers, SkippedWriteHasFlush,
           WriteStarts, Writing, TypeOK, Run
  <2> QED BY <2>1, <2>2, <2>3, <2>4, <2>5
<1>9. CASE RecomputeWritten \/ FlushFires \/ FlushWritten
  <2>1. TypeOK'
    BY <1>9 DEF RecomputeWritten, FlushFires, FlushWritten, TypeOK, redis, Run,
                WriteStarts, WriteFails, Writing
  <2>2. ReadInv'
    BY <1>9 DEF RecomputeWritten, FlushFires, FlushWritten, ReadInv, Reading,
                TypeOK, Run, Aggregate, redis
  <2>3. FlightInv' /\ TimerInv'
    BY <1>9 DEF RecomputeWritten, FlushFires, FlushWritten, FlightInv, RunWrites,
                TimerInv, WriteStarts, WriteFails, Writing, TypeOK, Run
  <2>4. SkippedWriteHasFlush'
    BY <1>9 DEF RecomputeWritten, FlushFires, FlushWritten, FlightInv, RunWrites,
                TimerInv, SkippedWriteHasFlush, WriteStarts, WriteFails, Writing,
                TypeOK, Run
  <2> QED BY <2>1, <2>2, <2>3, <2>4
<1>10. CASE Sweep
  <2>1. TypeOK'
    BY <1>10 DEF Sweep, SweepLists, SweepCounts, SweepSpares, SweepMarks, SweepFails,
                 SweepEnds, TypeOK, redis, Status, WriteStarts, WriteFails, Writing
  <2>2. ReadInv'
    BY <1>10 DEF Sweep, SweepLists, SweepCounts, SweepSpares, SweepMarks, SweepFails,
                 SweepEnds, ReadInv, Reading, Aggregate, redis
  <2>3. FlightInv'
    BY <1>10 DEF Sweep, SweepLists, SweepCounts, SweepSpares, SweepMarks, SweepFails,
                 SweepEnds, FlightInv, RunWrites, WriteStarts, WriteFails, Writing
  <2>4. TimerInv'
    BY <1>10, NoneAssumption
       DEF Sweep, SweepLists, SweepCounts, SweepSpares, SweepMarks, SweepFails,
           SweepEnds, TimerInv, Status
  <2>5. SkippedWriteHasFlush'
    BY <1>10 DEF Sweep, SweepLists, SweepCounts, SweepSpares, SweepMarks, SweepFails,
                 SweepEnds, FlightInv, SkippedWriteHasFlush, WriteStarts, WriteFails,
                 Writing, TypeOK
  <2> QED BY <2>1, <2>2, <2>3, <2>4, <2>5
<1>11. CASE UNCHANGED vars
  BY <1>11 DEF vars, redis, TypeOK, ReadInv, Reading, FlightInv, RunWrites, TimerInv,
               SkippedWriteHasFlush, Writing, Aggregate
<1> QED
  BY <1>1, <1>2, <1>3, <1>4, <1>5, <1>6, <1>7, <1>8, <1>9, <1>10, <1>11
     DEF Next, Recompute

(* So it holds in every state of every behaviour. *)
THEOREM Inductive == Spec => []IInv
  BY InitInv, Step, PTL DEF Spec

(* Every variable of Presence keeps its type. *)
THEOREM TypeCorrect == Spec => []TypeOK
  BY Inductive, PTL DEF IInv

(* When the queue of recomputations is empty, the status observed last is the
   one the sets of Redis say (recomputePresenceFromRedis), for any number of
   sockets and recomputations. *)
THEOREM Settled == Spec => []SettledPresence
<1>1. IInv => SettledPresence
  BY DEF IInv, ReadInv, Reading, SettledPresence
<1> QED BY <1>1, Inductive, PTL

(* A transition that persistPresenceToDb skipped is in the database, or the
   deferred write that will put it there is armed. *)
THEOREM SkippedIsKept == Spec => []SkippedWriteHasFlush
  BY Inductive, PTL DEF IInv
=============================================================================
