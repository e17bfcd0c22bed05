--------------------------- MODULE DirectCallProofs ---------------------------
(***************************************************************************)
(* Proofs about DirectCall, for any number of users, of sockets of each,   *)
(* of handlers suspended at the same time and of calls.                    *)
(***************************************************************************)
EXTENDS DirectCall, FiniteSetTheorems, WellFoundedInduction, TLAPS

Suspended == [op : Op \cup {"none"}, sock : Socket \cup {None},
              pc : {"idle", "lookup", "caller", "key", "clear"}, st : Record \cup {None}]

(* A suspended handler serves the event of a socket; one that awaits the key
   has read or written a call before. *)
TaskInv ==
    /\ task \in [Task \cup {GraceTask} -> Suspended]
    /\ \A k \in Task : task[k].pc # "idle" => task[k].sock \in Socket
    /\ \A k \in Task : task[k].pc = "key" => task[k].st \in Record

(* The call that is there is one that was placed. *)
NumberInv == callState # None => callState.call <= calls

IInv ==
    /\ TypeOK
    /\ TaskInv
    /\ NumberInv
    /\ NoPhantomRecord

Parts == [User -> SUBSET Socket]

-----------------------------------------------------------------------------
(* The sum of a log.  Induction over numbers follows from the existence of
   least elements. *)

Less == {p \in Nat \X Nat : p[1] < p[2]}

(* Every set of numbers has a least element. *)
LEMMA LeastNat ==
    ASSUME NEW T \in SUBSET Nat, T # {}
    PROVE \E n \in T : \A m \in T : n <= m
<1>1. OpToRel(<, Nat) = Less
    BY Zenon DEF OpToRel, Less
<1>2. IsWellFoundedOn(Less, Nat)
    BY <1>1, NatLessThanWellFounded, Zenon
<1>3. PICK n \in T : \A m \in T : ~ (<<m, n>> \in Less)
    BY <1>2, WFMin
<1>4. ASSUME NEW m \in T PROVE n <= m
    <2>1. n \in Nat /\ m \in Nat  OBVIOUS
    <2>2. ~ (<<m, n>> \in Less)  BY <1>3
    <2>3. ~ (m < n)  BY <2>1, <2>2 DEF Less
    <2>4. QED  BY <2>1, <2>3
<1>5. QED  BY <1>4

(* A set with 0 and the successor of each of its numbers has all numbers. *)
LEMMA Induction ==
    ASSUME NEW S, 0 \in S, \A n \in Nat : n \in S => n + 1 \in S
    PROVE Nat \subseteq S
<1>1. SUFFICES ASSUME Nat \ S # {} PROVE FALSE
    OBVIOUS
<1>2. PICK n \in Nat \ S : \A m \in Nat \ S : n <= m
    <2>1. Nat \ S \in SUBSET Nat  OBVIOUS
    <2>2. QED  BY <1>1, <2>1, LeastNat
<1>3. n # 0  OBVIOUS
<1>4. n - 1 \in Nat /\ n - 1 + 1 = n  BY <1>3
<1>5. n - 1 \in S  BY <1>2, <1>4
<1>6. QED  BY <1>4, <1>5

Logs == [Call -> Nat]
Pick(s) == CHOOSE x \in s : TRUE

(* The recursion of FoldFunction over the sets of D: g gives their sums. *)
Summed(log, D, g) ==
    [s \in D |-> IF s = {} THEN 0 ELSE log[Pick(s)] + g[s \ {Pick(s)}]]
Sums(log) == CHOOSE g : g = Summed(log, SUBSET Call, g)

(* The sets of at most n calls. *)
UpTo(n) == {s \in SUBSET Call : Cardinality(s) <= n}

(* What Total computes. *)
LEMMA TotalIsSum ==
    ASSUME NEW log \in Logs
    PROVE Total(log) = Sums(log)[Call]
<1>1. DOMAIN log = Call  BY DEF Logs
<1>2. QED
    BY <1>1, Zenon DEF Total, FoldFunction, FoldFunctionOnSet, MapThenFoldSet, Sums, Summed, Pick

(* Taking a call out of a set. *)
LEMMA PickFacts ==
    ASSUME NEW s \in SUBSET Call, s # {}
    PROVE /\ Pick(s) \in s /\ Pick(s) \in Call
          /\ s \ {Pick(s)} \in SUBSET Call
          /\ Cardinality(s) \in Nat \ {0}
          /\ Cardinality(s \ {Pick(s)}) = Cardinality(s) - 1
<1>1. Pick(s) \in s  BY DEF Pick
<1>2. IsFiniteSet(Call)  BY CallsAssumption, FS_Interval DEF Call
<1>3. IsFiniteSet(s)  BY <1>2, FS_Subset
<1>4. Cardinality(s) \in Nat  BY <1>3, FS_CardinalityType
<1>5. Cardinality(s) # 0  BY <1>3, FS_EmptySet
<1>6. Cardinality(s \ {Pick(s)}) = Cardinality(s) - 1  BY <1>1, <1>3, FS_RemoveElement
<1>7. QED  BY <1>1, <1>4, <1>5, <1>6

(* Every set of calls has a size. *)
LEMMA SizeFacts ==
    /\ Cardinality(Call) = MaxCalls
    /\ \A s \in SUBSET Call : Cardinality(s) \in 0 .. MaxCalls
    /\ UpTo(MaxCalls) = SUBSET Call
    /\ UpTo(0) = {{}}
<1>1. IsFiniteSet(Call) /\ Cardinality(Call) = MaxCalls
    BY CallsAssumption, FS_Interval DEF Call
<1>2. ASSUME NEW s \in SUBSET Call PROVE Cardinality(s) \in 0 .. MaxCalls
    <2>1. IsFiniteSet(s) /\ Cardinality(s) <= MaxCalls  BY <1>1, FS_Subset
    <2>2. Cardinality(s) \in Nat  BY <2>1, FS_CardinalityType
    <2>3. QED  BY <2>1, <2>2, CallsAssumption
<1>3. UpTo(MaxCalls) = SUBSET Call  BY <1>2, CallsAssumption DEF UpTo
<1>4. ASSUME NEW s \in SUBSET Call PROVE Cardinality(s) = 0 <=> s = {}
    BY <1>1, FS_Subset, FS_EmptySet
<1>5. UpTo(0) = {{}}  BY <1>2, <1>4 DEF UpTo
<1>6. QED  BY <1>1, <1>2, <1>3, <1>5

(* The recursion defines a function. *)
LEMMA SumExists ==
    ASSUME NEW log \in Logs
    PROVE \E g : g = Summed(log, SUBSET Call, g)
<1> DEFINE Good == {n \in Nat : \E g : g = Summed(log, UpTo(n), g)}
<1>1. 0 \in Good
    <2> DEFINE g == [s \in UpTo(0) |-> 0]
    <2>1. g = Summed(log, UpTo(0), g)  BY SizeFacts DEF Summed
    <2>2. QED  BY <2>1
<1>2. ASSUME NEW n \in Nat, n \in Good PROVE n + 1 \in Good
    <2>1. PICK g : g = Summed(log, UpTo(n), g)  BY <1>2
    <2> DEFINE next(s) == IF s = {} THEN 0 ELSE log[Pick(s)] + g[s \ {Pick(s)}]
               h == [s \in UpTo(n + 1) |-> next(s)]
    <2>2. ASSUME NEW s \in UpTo(n) PROVE g[s] = next(s)
        <3>1. g[s] = Summed(log, UpTo(n), g)[s]  BY <2>1
        <3>2. QED  BY <3>1 DEF Summed
    <2>3. UpTo(n) \subseteq UpTo(n + 1)
        BY SizeFacts DEF UpTo
    <2>4. ASSUME NEW s \in UpTo(n + 1), s # {}
          PROVE h[s \ {Pick(s)}] = g[s \ {Pick(s)}]
        <3>1. s \in SUBSET Call /\ Cardinality(s) <= n + 1  BY DEF UpTo
        <3>2. s \ {Pick(s)} \in UpTo(n)  BY <2>4, <3>1, PickFacts DEF UpTo
        <3>3. h[s \ {Pick(s)}] = next(s \ {Pick(s)})  BY <2>3, <3>2
        <3>4. g[s \ {Pick(s)}] = next(s \ {Pick(s)})  BY <2>2, <3>2
        <3>5. QED  BY <3>3, <3>4
    <2>5. ASSUME NEW s \in UpTo(n + 1)
          PROVE h[s] = IF s = {} THEN 0 ELSE log[Pick(s)] + h[s \ {Pick(s)}]
        <3>1. h[s] = next(s)  OBVIOUS
        <3>2. CASE s = {}  BY <3>1, <3>2
        <3>3. CASE s # {}
            <4>1. h[s \ {Pick(s)}] = g[s \ {Pick(s)}]  BY <2>4, <3>3
            <4> HIDE DEF h
            <4>2. QED  BY <3>1, <3>3, <4>1
        <3>4. QED  BY <3>2, <3>3
    <2>6. h = [s \in UpTo(n + 1) |-> h[s]]  OBVIOUS
    <2> HIDE DEF h
    <2>7. h = Summed(log, UpTo(n + 1), h)  BY <2>5, <2>6, Zenon DEF Summed
    <2>8. QED  BY <2>7
<1>3. Nat \subseteq Good
    <2> HIDE DEF Good
    <2>1. QED  BY <1>1, <1>2, Induction
<1>4. MaxCalls \in Good  BY <1>3, CallsAssumption
<1>5. QED  BY <1>4, SizeFacts

(* The sum of a set, one call at a time. *)
LEMMA SumsFacts ==
    ASSUME NEW log \in Logs
    PROVE \A s \in SUBSET Call :
              Sums(log)[s] = IF s = {} THEN 0 ELSE log[Pick(s)] + Sums(log)[s \ {Pick(s)}]
<1>1. Sums(log) = Summed(log, SUBSET Call, Sums(log))
    BY SumExists, Zenon DEF Sums
<1>2. ASSUME NEW s \in SUBSET Call
      PROVE Summed(log, SUBSET Call, Sums(log))[s] =
                IF s = {} THEN 0 ELSE log[Pick(s)] + Sums(log)[s \ {Pick(s)}]
    BY DEF Summed
<1>3. QED  BY <1>1, <1>2, Zenon

(* One more record of a call makes the sums of its sets one larger. *)
LEMMA SumMore ==
    ASSUME NEW log \in Logs, NEW c \in Call,
           NEW more \in Logs, more = [log EXCEPT ![c] = @ + 1]
    PROVE /\ Sums(log)[Call] \in Nat
          /\ Sums(more)[Call] = Sums(log)[Call] + 1
<1> DEFINE F == Sums(log)
           G == Sums(more)
           Fact(s) == /\ F[s] \in Nat
                      /\ G[s] = IF c \in s THEN F[s] + 1 ELSE F[s]
           Good == {n \in Nat : \A s \in UpTo(n) : Fact(s)}
<1>1. \A s \in SUBSET Call : F[s] = IF s = {} THEN 0 ELSE log[Pick(s)] + F[s \ {Pick(s)}]
    BY SumsFacts
<1>2. \A s \in SUBSET Call : G[s] = IF s = {} THEN 0 ELSE more[Pick(s)] + G[s \ {Pick(s)}]
    BY SumsFacts
<1> HIDE DEF F, G
<1>3. 0 \in Good
    <2>1. Fact({})
        <3>1. F[{}] = 0 /\ G[{}] = 0  BY <1>1, <1>2
        <3>2. c \notin {} /\ 0 \in Nat  OBVIOUS
        <3>3. QED  BY <3>1, <3>2
    <2> HIDE DEF Fact
    <2>2. QED  BY <2>1, SizeFacts
<1>4. ASSUME NEW n \in Nat, n \in Good PROVE n + 1 \in Good
    <2>1. SUFFICES ASSUME NEW s \in UpTo(n + 1) PROVE Fact(s)
        OBVIOUS
    <2>2. s \in SUBSET Call /\ Cardinality(s) <= n + 1  BY DEF UpTo
    <2>3. CASE s = {}
        <3>1. F[{}] = 0 /\ G[{}] = 0  BY <1>1, <1>2
        <3>2. QED  BY <2>3, <3>1
    <2>4. CASE s # {}
        <3> DEFINE x == Pick(s)
                   r == s \ {Pick(s)}
        <3>1. /\ x \in s /\ x \in Call /\ r \in SUBSET Call
              /\ r \in UpTo(n)
            BY <2>2, <2>4, PickFacts DEF UpTo
        <3>2. Fact(r)  BY <1>4, <3>1
        <3>3. F[s] = log[x] + F[r] /\ G[s] = more[x] + G[r]
            BY <1>1, <1>2, <2>2, <2>4
        <3>4. /\ log[x] \in Nat
              /\ more[x] = IF x = c THEN log[x] + 1 ELSE log[x]
            BY <3>1 DEF Logs
        <3>5. c \in s <=> c \in r \/ x = c  BY <3>1
        <3>6. ~ (x \in r)  OBVIOUS
        <3> HIDE DEF x, r
        <3>7. QED  BY <3>2, <3>3, <3>4, <3>5, <3>6
    <2>5. QED  BY <2>3, <2>4
<1>5. Nat \subseteq Good
    <2> HIDE DEF Good
    <2>1. QED  BY <1>3, <1>4, Induction
<1>6. Fact(Call)  BY <1>5, SizeFacts, CallsAssumption
<1>7. QED  BY <1>6 DEF F, G

(* A log without records. *)
LEMMA SumOfNone ==
    ASSUME NEW log \in Logs, \A c \in Call : log[c] = 0
    PROVE Total(log) = 0
<1> DEFINE F == Sums(log)
           Good == {n \in Nat : \A s \in UpTo(n) : F[s] = 0}
<1>1. \A s \in SUBSET Call : F[s] = IF s = {} THEN 0 ELSE log[Pick(s)] + F[s \ {Pick(s)}]
    BY SumsFacts
<1> HIDE DEF F
<1>2. 0 \in Good  BY <1>1, SizeFacts
<1>3. ASSUME NEW n \in Nat, n \in Good PROVE n + 1 \in Good
    <2>0. F[{}] = 0  BY <1>1
    <2>1. SUFFICES ASSUME NEW s \in UpTo(n + 1), s # {} PROVE F[s] = 0
        BY <2>0
    <2>2. s \in SUBSET Call /\ Cardinality(s) <= n + 1  BY DEF UpTo
    <2>3. Pick(s) \in Call /\ s \ {Pick(s)} \in UpTo(n)
        BY <2>1, <2>2, PickFacts DEF UpTo
    <2>4. F[s \ {Pick(s)}] = 0  BY <1>3, <2>3
    <2>5. log[Pick(s)] = 0  BY <2>3
    <2>6. QED  BY <1>1, <2>1, <2>2, <2>4, <2>5
<1>4. Nat \subseteq Good
    <2> HIDE DEF Good
    <2>1. QED  BY <1>2, <1>3, Induction
<1>5. F[Call] = 0  BY <1>4, SizeFacts, CallsAssumption
<1>6. QED  BY <1>5, TotalIsSum DEF F

(* Total counts the records. *)
LEMMA TotalFacts ==
    ASSUME NEW log \in Logs
    PROVE /\ Total(log) \in Nat
          /\ \A c \in Call :
                /\ [log EXCEPT ![c] = @ + 1] \in Logs
                /\ Total([log EXCEPT ![c] = @ + 1]) = Total(log) + 1
<1>1. ASSUME NEW c \in Call
      PROVE /\ Total(log) \in Nat
            /\ [log EXCEPT ![c] = @ + 1] \in Logs
            /\ Total([log EXCEPT ![c] = @ + 1]) = Total(log) + 1
    <2> DEFINE more == [log EXCEPT ![c] = @ + 1]
    <2>1. more \in Logs  BY DEF Logs
    <2>2. Total(log) = Sums(log)[Call] /\ Total(more) = Sums(more)[Call]
        BY <2>1, TotalIsSum
    <2>3. Sums(log)[Call] \in Nat /\ Sums(more)[Call] = Sums(log)[Call] + 1
        BY <2>1, SumMore
    <2>4. QED  BY <2>1, <2>2, <2>3
<1>2. 1 \in Call  BY CallsAssumption DEF Call
<1>3. QED  BY <1>1, <1>2

-----------------------------------------------------------------------------
(* Adding and removing a participant. *)
LEMMA PartsTyped ==
    ASSUME NEW parts \in Parts, NEW s \in Socket
    PROVE With(parts, s) \in Parts /\ Without(parts, s) \in Parts
<1>1. Owner[s] \in User  BY OwnerAssumption
<1>2. QED  BY <1>1 DEF With, Without, Parts

(* The participants of the active call, or nobody. *)
LEMMA ParticipantsTyped == ASSUME TypeOK PROVE Participants \in Parts
BY DEF TypeOK, Participants, Nobody, Parts

(* A handler returns. *)
LEMMA TaskEnds ==
    ASSUME TaskInv, NEW k \in Task \cup {GraceTask}, Done(k)
    PROVE TaskInv'
<1>1. Idle \in Suspended /\ Idle.pc = "idle"  BY DEF Idle, Suspended
<1>2. /\ task' \in [Task \cup {GraceTask} -> Suspended]
      /\ \A q \in Task : task'[q] = task[q] \/ task'[q] = Idle
    BY <1>1 DEF TaskInv, Done
<1>3. QED  BY <1>1, <1>2 DEF TaskInv

(* A handler is suspended again. *)
LEMMA Awaits ==
    ASSUME TaskInv, NEW k \in Task, task[k].pc # "idle",
           NEW pc \in {"lookup", "caller", "key", "clear"}, NEW st \in Record \cup {None},
           pc = "key" => st \in Record, Await(k, pc, st)
    PROVE TaskInv'
<1>1. /\ task[k] \in Suspended /\ task[k].sock \in Socket
    BY DEF TaskInv
<1>2. /\ task' \in [Task \cup {GraceTask} -> Suspended]
      /\ task'[k].pc = pc /\ task'[k].st = st /\ task'[k].sock = task[k].sock
      /\ \A q \in Task \ {k} : task'[q] = task[q]
    BY <1>1 DEF TaskInv, Await, Suspended
<1>3. QED  BY <1>1, <1>2 DEF TaskInv

(* A task is given to a handler. *)
LEMMA Begins ==
    ASSUME TaskInv, NEW k \in Task \cup {GraceTask}, NEW h \in Suspended,
           k \in Task => h.sock \in Socket, h.pc # "key",
           task' = [task EXCEPT ![k] = h]
    PROVE TaskInv'
<1>1. /\ task' \in [Task \cup {GraceTask} -> Suspended]
      /\ task'[k] = h
      /\ \A q \in (Task \cup {GraceTask}) \ {k} : task'[q] = task[q]
    BY DEF TaskInv
<1>2. QED  BY <1>1 DEF TaskInv

(* What TypeOK says of the handlers, after a step. *)
LEMMA TaskTyped ==
    ASSUME TaskInv'
    PROVE \A k \in Task \cup {GraceTask} :
              /\ task'[k].op \in Op \cup {"none"}
              /\ task'[k].sock \in Socket \cup {None}
              /\ task'[k].st \in Record \cup {None}
BY DEF TaskInv, Suspended

(* A step that neither places nor finishes a call and writes no record. *)
LEMMA QuietStep ==
    ASSUME IInv, TypeOK', TaskInv', UNCHANGED <<calls, missed, ended>>,
           \/ callState' = callState
           \/ callState' = None
           \/ callState # None /\ callState' = [callState EXCEPT !.accepted = TRUE]
    PROVE IInv'
<1>1. CASE callState' = callState
    BY <1>1 DEF IInv, NumberInv, NoPhantomRecord
<1>2. CASE callState' = None
    <2>1. Total(missed) \in Nat /\ Total(ended) \in Nat /\ calls \in Nat
        BY TotalFacts DEF IInv, TypeOK, Logs
    <2>2. QED  BY <1>2, <2>1 DEF IInv, NumberInv, NoPhantomRecord
<1>3. CASE callState # None /\ callState' = [callState EXCEPT !.accepted = TRUE]
    <2>1. callState \in Record  BY <1>3 DEF IInv, TypeOK
    <2>2. callState'.call = callState.call  BY <1>3, <2>1 DEF Record
    <2>3. Total(missed) \in Nat /\ Total(ended) \in Nat /\ calls \in Nat
        BY TotalFacts DEF IInv, TypeOK, Logs
    <2>4. QED  BY <1>3, <2>2, <2>3 DEF IInv, NumberInv, NoPhantomRecord
<1>4. QED  BY <1>1, <1>2, <1>3

(* A record is written by the step that deletes callState. *)
LEMMA LogStep ==
    ASSUME IInv, TaskInv', callState # None, callState' = None,
           NEW kind \in {"missed", "ended"}, NEW c \in Call, Log(kind, c), calls' = calls,
           /\ conn' \in [Socket -> {"new", "on", "off"}]
           /\ active' \in Parts \cup {None}
           /\ ring' \in 0 .. MaxCalls
           /\ grace' \in Grace \cup {None}
           /\ redialed' \in BOOLEAN
    PROVE IInv'
<1>1. missed \in Logs /\ ended \in Logs /\ calls \in Nat
    BY DEF IInv, TypeOK, Logs
<1>2. /\ Total(missed) \in Nat /\ Total(ended) \in Nat
      /\ missed' \in Logs /\ ended' \in Logs
      /\ Total(missed') + Total(ended') = Total(missed) + Total(ended) + 1
    <2>1. CASE kind = "missed"
        <3>1. missed' = [missed EXCEPT ![c] = @ + 1] /\ ended' = ended
            BY <2>1 DEF Log
        <3>2. missed' \in Logs /\ Total(missed') = Total(missed) + 1
            BY <1>1, <3>1, TotalFacts, Zenon
        <3>3. Total(missed) \in Nat /\ Total(ended) \in Nat  BY <1>1, TotalFacts
        <3>4. QED  BY <1>1, <3>1, <3>2, <3>3
    <2>2. CASE kind = "ended"
        <3>1. ended' = [ended EXCEPT ![c] = @ + 1] /\ missed' = missed
            BY <2>2 DEF Log
        <3>2. ended' \in Logs /\ Total(ended') = Total(ended) + 1
            BY <1>1, <3>1, TotalFacts, Zenon
        <3>3. Total(missed) \in Nat /\ Total(ended) \in Nat  BY <1>1, TotalFacts
        <3>4. QED  BY <1>1, <3>1, <3>2, <3>3
    <2>3. QED  BY <2>1, <2>2
<1>3. NoPhantomRecord'
    BY <1>1, <1>2 DEF IInv, NoPhantomRecord
<1>4. NumberInv'  BY DEF NumberInv
<1>5. TypeOK'
    <2>1. callState' \in Record \cup {None} /\ calls' \in 0 .. MaxCalls
        BY DEF IInv, TypeOK
    <2>2. QED  BY <1>2, <2>1, TaskTyped DEF TypeOK, Logs, Parts
<1>6. QED  BY <1>3, <1>4, <1>5 DEF IInv

-----------------------------------------------------------------------------
(* Connections. *)
LEMMA ConnectStep ==
    ASSUME IInv, NEW s \in Socket, Connect(s)
    PROVE IInv'
<1>1. TaskInv'  BY DEF IInv, TaskInv, Connect
<1>2. TypeOK'  BY DEF IInv, TypeOK, Connect
<1>3. QED  BY <1>1, <1>2, QuietStep DEF Connect

(* A socket that closes leaves the active call, and may arm a grace timer.
   *)
LEMMA DisconnectStep ==
    ASSUME IInv, NEW s \in Socket, Disconnect(s)
    PROVE IInv'
<1>1. TaskInv'  BY DEF IInv, TaskInv, Disconnect
<1>2. active' \in Parts \cup {None}
    <2>1. active \in Parts \cup {None}  BY DEF IInv, TypeOK, Parts
    <2>2. active # None => Without(active, s) \in Parts  BY <2>1, PartsTyped
    <2>3. QED  BY <2>1, <2>2 DEF Disconnect
<1>3. grace' \in Grace \cup {None}
    BY DEF IInv, TypeOK, Disconnect, Grace
<1>4. TypeOK'
    BY <1>2, <1>3 DEF IInv, TypeOK, Disconnect, Parts
<1>5. QED  BY <1>1, <1>4, QuietStep DEF Disconnect

(* A handler starts with nothing read. *)
LEMMA ReceiveStep ==
    ASSUME IInv, NEW k \in Task, NEW s \in Socket, NEW op \in Op, Receive(k, s, op)
    PROVE IInv'
<1>1. TaskInv'
    <2> DEFINE h == [op |-> op, sock |-> s, pc |-> "lookup", st |-> None]
    <2>1. h \in Suspended /\ h.sock \in Socket /\ h.pc # "key"  BY DEF Suspended
    <2>2. task' = [task EXCEPT ![k] = h]  BY DEF Receive
    <2> HIDE DEF h
    <2>3. QED  BY <2>1, <2>2, Begins DEF IInv
<1>2. TypeOK'  BY <1>1, TaskTyped DEF IInv, TypeOK, Receive
<1>3. QED  BY <1>1, <1>2, QuietStep DEF Receive

(* The handlers that return and change nothing. *)
LEMMA ReturnStep ==
    ASSUME IInv, NEW k \in Task,
           \/ InviteThrottled(k) \/ InviteRepeated(k) \/ AcceptIgnored(k) \/ DeclineIgnored(k)
    PROVE IInv'
<1>1. /\ Done(k)
      /\ UNCHANGED <<conn, callState, active, ring, grace, calls, missed, ended>>
    BY DEF InviteThrottled, InviteRepeated, AcceptIgnored, DeclineIgnored
<1>2. redialed' \in BOOLEAN
    BY DEF IInv, TypeOK, InviteThrottled, InviteRepeated, AcceptIgnored, DeclineIgnored
<1>3. TaskInv'  BY <1>1, TaskEnds DEF IInv
<1>4. TypeOK'  BY <1>1, <1>2, <1>3, TaskTyped DEF IInv, TypeOK
<1>5. QED  BY <1>1, <1>3, <1>4, QuietStep

(* call:invite. *)
LEMMA InviteAdmittedStep ==
    ASSUME IInv, NEW k \in Task, InviteAdmitted(k)
    PROVE IInv'
<1>1. TaskInv'  BY Awaits DEF IInv, InviteAdmitted, At
<1>2. TypeOK'  BY <1>1, TaskTyped DEF IInv, TypeOK, InviteAdmitted
<1>3. QED  BY <1>1, <1>2, QuietStep DEF InviteAdmitted

(* A new call raises the number of calls as it fills callState. *)
LEMMA InvitePlacedStep ==
    ASSUME IInv, NEW k \in Task, InvitePlaced(k)
    PROVE IInv'
<1>1. task[k].sock \in Socket /\ Owner[task[k].sock] \in User
    BY OwnerAssumption DEF IInv, TaskInv, InvitePlaced, At
<1>2. calls \in 0 .. MaxCalls /\ calls < MaxCalls /\ calls' = calls + 1
    BY DEF IInv, TypeOK, InvitePlaced
<1>3. calls' \in 0 .. MaxCalls /\ calls + 1 \in Call
    BY <1>2, CallsAssumption DEF Call
<1>4. callState' \in Record /\ callState'.call = calls'
    BY <1>1, <1>2, <1>3 DEF InvitePlaced, Record
<1>5. TaskInv'
    BY <1>4, Awaits DEF IInv, InvitePlaced, At
<1>6. TypeOK'
    BY <1>3, <1>4, <1>5, TaskTyped DEF IInv, TypeOK, InvitePlaced
<1>7. NumberInv'  BY <1>2, <1>4 DEF NumberInv
<1>8. NoPhantomRecord'
    <2>1. Total(missed) \in Nat /\ Total(ended) \in Nat
        BY TotalFacts DEF IInv, TypeOK, Logs
    <2>2. QED  BY <1>2, <2>1 DEF IInv, NoPhantomRecord, InvitePlaced
<1>9. QED  BY <1>5, <1>6, <1>7, <1>8 DEF IInv

(* The ring goes to the callee and writes no record. *)
LEMMA InviteRingsStep ==
    ASSUME IInv, NEW k \in Task, InviteRings(k)
    PROVE IInv'
<1>1. TaskInv'  BY TaskEnds DEF IInv, InviteRings
<1>2. ring' \in 0 .. MaxCalls
    <2>1. task[k].st \in Record  BY DEF IInv, TaskInv, InviteRings, At
    <2>2. QED  BY <2>1 DEF InviteRings, Record, Call
<1>3. TypeOK'  BY <1>1, <1>2, TaskTyped DEF IInv, TypeOK, InviteRings
<1>4. QED  BY <1>1, <1>3, QuietStep DEF InviteRings

(* call:accept. *)
LEMMA AcceptStep ==
    ASSUME IInv, NEW k \in Task, Accept(k)
    PROVE IInv'
<1>1. callState # None /\ callState \in Record
    BY DEF IInv, TypeOK, Accept
<1>2. callState' = [callState EXCEPT !.accepted = TRUE] /\ callState' \in Record
    BY <1>1 DEF Accept, Accepted, Record
<1>3. TaskInv'  BY <1>1, Awaits DEF IInv, Accept, At
<1>4. TypeOK'
    BY <1>2, <1>3, TaskTyped, CallsAssumption DEF IInv, TypeOK, Accept
<1>5. QED  BY <1>1, <1>2, <1>3, <1>4, QuietStep DEF Accept

(* An acceptance that resumes enters both parties, of whatever call is
   current. *)
LEMMA AcceptActiveStep ==
    ASSUME IInv, NEW k \in Task, AcceptActive(k)
    PROVE IInv'
<1>1. TaskInv'  BY TaskEnds DEF IInv, AcceptActive
<1>2. task[k].sock \in Socket /\ task[k].st \in Record /\ task[k].st.sock \in Socket
    BY DEF IInv, TaskInv, AcceptActive, At, Record
<1>3. active' \in Parts
    <2>1. With(Participants, task[k].st.sock) \in Parts
        BY <1>2, ParticipantsTyped, PartsTyped DEF IInv
    <2>2. QED  BY <1>2, <2>1, PartsTyped DEF AcceptActive
<1>4. TypeOK'  BY <1>1, <1>3, TaskTyped DEF IInv, TypeOK, AcceptActive, Parts
<1>5. QED  BY <1>1, <1>4, QuietStep DEF AcceptActive

(* call:decline. *)
LEMMA DeclineStep ==
    ASSUME IInv, NEW k \in Task, Decline(k)
    PROVE IInv'
<1>1. TaskInv'  BY TaskEnds DEF IInv, Decline
<1>2. /\ conn' \in [Socket -> {"new", "on", "off"}]
      /\ active' \in Parts \cup {None}
      /\ ring' \in 0 .. MaxCalls
      /\ grace' \in Grace \cup {None}
      /\ redialed' \in BOOLEAN
    <2>1. redialed \in BOOLEAN /\ 0 \in 0 .. MaxCalls
        BY CallsAssumption DEF IInv, TypeOK
    <2>2. redialed' = redialed \/ redialed' = FALSE
        BY DEF Decline, Forget
    <2>3. /\ conn' \in [Socket -> {"new", "on", "off"}]
          /\ active' \in Parts \cup {None}
          /\ ring' \in 0 .. MaxCalls
          /\ grace' \in Grace \cup {None}
        BY <2>1 DEF IInv, TypeOK, Decline, Parts
    <2>4. QED  BY <2>1, <2>2, <2>3
<1>3. CASE Pending
    <2>1. callState # None /\ callState.call \in Call
        BY <1>3 DEF IInv, TypeOK, Pending, Record
    <2>2. callState' = None /\ Log("missed", callState.call) /\ calls' = calls
        BY <1>3 DEF Decline, Forget
    <2>3. QED  BY <1>1, <1>2, <2>1, <2>2, LogStep
<1>4. CASE ~Pending
    <2>1. UNCHANGED <<callState, calls, missed, ended>>
        BY <1>4 DEF Decline, NoLog
    <2>2. TypeOK'  BY <1>1, <1>2, <2>1, TaskTyped DEF IInv, TypeOK, Parts
    <2>3. QED  BY <1>1, <2>1, <2>2, QuietStep
<1>5. QED  BY <1>3, <1>4

(* call:end. *)
LEMMA EndReadStep ==
    ASSUME IInv, NEW k \in Task, EndRead(k)
    PROVE IInv'
<1>1. TaskInv'
    <2>1. callState \in Record \cup {None}  BY DEF IInv, TypeOK
    <2>2. QED  BY <2>1, Awaits DEF IInv, EndRead, At
<1>2. TypeOK'  BY <1>1, TaskTyped DEF IInv, TypeOK, EndRead
<1>3. QED  BY <1>1, <1>2, QuietStep DEF EndRead

(* The record of call:end is paid for by the callState it deletes. *)
LEMMA EndClaimStep ==
    ASSUME IInv, NEW k \in Task, EndClaim(k)
    PROVE IInv'
<1> DEFINE st == task[k].st
<1>1. TaskInv'  BY TaskEnds DEF IInv, EndClaim
<1>2. /\ conn' \in [Socket -> {"new", "on", "off"}]
      /\ active' \in Parts \cup {None}
      /\ ring' \in 0 .. MaxCalls
      /\ grace' \in Grace \cup {None}
      /\ redialed' \in BOOLEAN
    <2>1. redialed \in BOOLEAN /\ 0 \in 0 .. MaxCalls
        BY CallsAssumption DEF IInv, TypeOK
    <2>2. redialed' = redialed \/ redialed' = FALSE
        BY DEF EndClaim, Forget
    <2>3. /\ conn' \in [Socket -> {"new", "on", "off"}]
          /\ active' \in Parts \cup {None}
          /\ ring' \in 0 .. MaxCalls
          /\ grace' \in Grace \cup {None}
        BY <2>1 DEF IInv, TypeOK, EndClaim, Parts
    <2>4. QED  BY <2>1, <2>2, <2>3
<1>3. CASE Claims(st)
    <2>1. st # None /\ callState # None  BY <1>3 DEF Claims
    <2>2. st \in Record  BY <2>1 DEF IInv, TaskInv, Suspended
    <2>3. st.call \in Call /\ st.accepted \in BOOLEAN  BY <2>2 DEF Record
    <2>4. PICK kind \in {"missed", "ended"} : Log(kind, st.call)
        BY <1>3 DEF EndClaim
    <2>5. callState' = None /\ calls' = calls
        BY <2>1 DEF EndClaim, Forget
    <2>6. QED  BY <1>1, <1>2, <2>1, <2>3, <2>4, <2>5, LogStep
<1>4. CASE ~Claims(st)
    <2>1. UNCHANGED <<calls, missed, ended>>
        BY <1>4 DEF EndClaim, NoLog
    <2>2. callState' = callState \/ callState' = None
        BY DEF EndClaim, Forget
    <2>3. TypeOK'  BY <1>1, <1>2, <2>1, <2>2, TaskTyped DEF IInv, TypeOK, Parts
    <2>4. QED  BY <1>1, <2>1, <2>2, <2>3, QuietStep
<1>5. QED  BY <1>3, <1>4

(* call:room:join and call:room:leave. *)
LEMMA JoinStep ==
    ASSUME IInv, NEW k \in Task, Join(k)
    PROVE IInv'
<1>1. TaskInv'  BY TaskEnds DEF IInv, Join
<1>2. task[k].sock \in Socket  BY DEF IInv, TaskInv, Join, At
<1>3. active' \in Parts  BY <1>2, ParticipantsTyped, PartsTyped DEF IInv, Join
<1>4. /\ callState' \in Record \cup {None}
      /\ \/ callState' = callState
         \/ callState # None /\ callState' = [callState EXCEPT !.accepted = TRUE]
    <2>1. callState \in Record \cup {None}  BY DEF IInv, TypeOK
    <2>2. CASE Pending /\ callState.inviter # Owner[task[k].sock]
        <3>1. callState # None /\ callState' = [callState EXCEPT !.accepted = TRUE]
            BY <2>2 DEF Join, Accepted, Pending
        <3>2. QED  BY <2>1, <3>1 DEF Record
    <2>3. CASE ~(Pending /\ callState.inviter # Owner[task[k].sock])
        BY <2>1, <2>3 DEF Join
    <2>4. QED  BY <2>2, <2>3
<1>5. ring' \in 0 .. MaxCalls  BY CallsAssumption DEF IInv, TypeOK, Join
<1>6. TypeOK'
    BY <1>1, <1>3, <1>4, <1>5, TaskTyped DEF IInv, TypeOK, Join, Parts
<1>7. QED  BY <1>1, <1>4, <1>6, QuietStep DEF Join

(* Leaving a room without a call changes nothing. *)
LEMMA LeaveNoCallStep ==
    ASSUME IInv, NEW s \in Socket, LeaveNoCall(s)
    PROVE IInv'
<1>1. TaskInv'  BY DEF IInv, TaskInv, LeaveNoCall
<1>2. TypeOK'  BY DEF IInv, TypeOK, LeaveNoCall, Forget
<1>3. QED  BY <1>1, <1>2, QuietStep DEF LeaveNoCall, Forget

(* The first step of call:room:leave takes the socket out of the call. *)
LEMMA LeaveStep ==
    ASSUME IInv, NEW k \in Task, NEW s \in Socket, Leave(k, s)
    PROVE IInv'
<1>1. TaskInv'
    <2> DEFINE h == [op |-> "leave", sock |-> s, pc |-> "clear", st |-> None]
    <2>1. h \in Suspended /\ h.sock \in Socket /\ h.pc # "key"  BY DEF Suspended, Op
    <2>2. task' = task \/ task' = [task EXCEPT ![k] = h]  BY DEF Leave
    <2> HIDE DEF h
    <2>3. CASE task' = task  BY <2>3 DEF IInv, TaskInv
    <2>4. CASE task' = [task EXCEPT ![k] = h]  BY <2>1, <2>4, Begins DEF IInv
    <2>5. QED  BY <2>2, <2>3, <2>4
<1>2. active' \in Parts
    <2>1. active \in Parts  BY DEF IInv, TypeOK, Leave, Parts
    <2>2. QED  BY <2>1, PartsTyped DEF Leave
<1>3. TypeOK'  BY <1>1, <1>2, TaskTyped DEF IInv, TypeOK, Leave, Parts
<1>4. QED  BY <1>1, <1>3, QuietStep DEF Leave

(* A leave that emptied the call clears it and waits. *)
LEMMA LeaveClearedStep ==
    ASSUME IInv, NEW k \in Task, LeaveCleared(k)
    PROVE IInv'
<1>1. TaskInv'  BY Awaits DEF IInv, LeaveCleared, At
<1>2. TypeOK'  BY <1>1, TaskTyped DEF IInv, TypeOK, LeaveCleared
<1>3. QED  BY <1>1, <1>2, QuietStep DEF LeaveCleared

(* A leave that resumes forgets callState, which only lowers the sum. *)
LEMMA LeaveForgetsStep ==
    ASSUME IInv, NEW k \in Task, LeaveForgets(k)
    PROVE IInv'
<1>1. TaskInv'  BY TaskEnds DEF IInv, LeaveForgets
<1>2. TypeOK'  BY <1>1, TaskTyped DEF IInv, TypeOK, LeaveForgets, Forget
<1>3. QED  BY <1>1, <1>2, QuietStep DEF LeaveForgets, Forget

(* The timers. *)
LEMMA RingTimeoutStep ==
    ASSUME IInv, RingTimeout
    PROVE IInv'
<1>1. TaskInv'  BY DEF IInv, TaskInv, RingTimeout
<1>2. /\ conn' \in [Socket -> {"new", "on", "off"}]
      /\ active' \in Parts \cup {None}
      /\ ring' \in 0 .. MaxCalls
      /\ grace' \in Grace \cup {None}
      /\ redialed' \in BOOLEAN
      /\ UNCHANGED <<task, calls>>
    <2>1. redialed \in BOOLEAN /\ 0 \in 0 .. MaxCalls
        BY CallsAssumption DEF IInv, TypeOK
    <2>2. redialed' = redialed \/ redialed' = FALSE
        BY DEF RingTimeout, Forget
    <2>3. /\ conn' \in [Socket -> {"new", "on", "off"}]
          /\ active' \in Parts \cup {None}
          /\ ring' \in 0 .. MaxCalls
          /\ grace' \in Grace \cup {None}
        BY <2>1 DEF IInv, TypeOK, RingTimeout, Parts
    <2>4. QED  BY <2>1, <2>2, <2>3 DEF RingTimeout
<1>3. callState \in Record \cup {None}  BY DEF IInv, TypeOK
<1>4. CASE ~Pending
    <2>1. UNCHANGED <<callState, calls, missed, ended>>
        BY <1>4 DEF RingTimeout, NoLog
    <2>2. TypeOK'  BY <1>1, <1>2, <2>1, TaskTyped DEF IInv, TypeOK, Parts
    <2>3. QED  BY <1>1, <2>1, <2>2, QuietStep
<1>5. CASE Pending /\ active # None /\ Cardinality(Present(active)) >= 2
    <2>1. callState # None  BY <1>5 DEF Pending
    <2>2. /\ callState' = [callState EXCEPT !.accepted = TRUE]
          /\ UNCHANGED <<calls, missed, ended>>
        BY <1>5 DEF RingTimeout, Accepted, NoLog
    <2>3. callState' \in Record  BY <1>3, <2>1, <2>2 DEF Record
    <2>4. TypeOK'  BY <1>1, <1>2, <2>2, <2>3, TaskTyped DEF IInv, TypeOK, Parts
    <2>5. QED  BY <1>1, <2>1, <2>2, <2>4, QuietStep
<1>6. CASE Pending /\ ~(active # None /\ Cardinality(Present(active)) >= 2)
    <2>1. callState # None /\ callState.call \in Call
        BY <1>3, <1>6 DEF Pending, Record
    <2>2. callState' = None /\ Log("missed", callState.call) /\ calls' = calls
        BY <1>6 DEF RingTimeout, Forget
    <2>3. QED  BY <1>1, <1>2, <2>1, <2>2, LogStep
<1>7. QED  BY <1>4, <1>5, <1>6

(* The grace timer of an inviter records the pending call it deletes. *)
LEMMA PendingGraceOverStep ==
    ASSUME IInv, PendingGraceOver
    PROVE IInv'
<1>1. TaskInv'  BY DEF IInv, TaskInv, PendingGraceOver
<1>2. callState' = callState \/ callState' = None
    BY DEF PendingGraceOver, Forget
<1>3. TypeOK'
    <2>1. ring' \in 0 .. MaxCalls
        BY CallsAssumption DEF IInv, TypeOK, PendingGraceOver
    <2>2. redialed' = redialed \/ redialed' = FALSE
        BY DEF PendingGraceOver, Forget
    <2>3. redialed' \in BOOLEAN  BY <2>2 DEF IInv, TypeOK
    <2>4. QED  BY <1>1, <1>2, <2>1, <2>3, TaskTyped DEF IInv, TypeOK, PendingGraceOver
<1>4. QED  BY <1>1, <1>2, <1>3, QuietStep DEF PendingGraceOver

(* The grace timer of an active call starts the handler that ends it. *)
LEMMA ActiveGraceOverStep ==
    ASSUME IInv, ActiveGraceOver
    PROVE IInv'
<1>1. TaskInv'
    <2> DEFINE h == [op |-> "grace", sock |-> None, pc |-> "clear", st |-> None]
    <2>1. h \in Suspended /\ h.pc # "key"  BY DEF Suspended, Op
    <2>2. task' = task \/ task' = [task EXCEPT ![GraceTask] = h]  BY DEF ActiveGraceOver
    <2> HIDE DEF h
    <2>3. CASE task' = task  BY <2>3 DEF IInv, TaskInv
    <2>4. CASE task' = [task EXCEPT ![GraceTask] = h]
        BY <2>1, <2>4, TaskAssumption, Begins DEF IInv
    <2>5. QED  BY <2>2, <2>3, <2>4
<1>2. TypeOK'  BY <1>1, TaskTyped DEF IInv, TypeOK, ActiveGraceOver
<1>3. QED  BY <1>1, <1>2, QuietStep DEF ActiveGraceOver

(* That handler records the call whose callState it deletes. *)
LEMMA GraceEndsCallStep ==
    ASSUME IInv, GraceEndsCall
    PROVE IInv'
<1>1. TaskInv'  BY TaskEnds DEF IInv, GraceEndsCall
<1>2. /\ conn' \in [Socket -> {"new", "on", "off"}]
      /\ active' \in Parts \cup {None}
      /\ ring' \in 0 .. MaxCalls
      /\ grace' \in Grace \cup {None}
      /\ redialed' \in BOOLEAN
    <2>1. redialed \in BOOLEAN /\ 0 \in 0 .. MaxCalls
        BY CallsAssumption DEF IInv, TypeOK
    <2>2. redialed' = redialed \/ redialed' = FALSE
        BY DEF GraceEndsCall, Forget
    <2>3. /\ conn' \in [Socket -> {"new", "on", "off"}]
          /\ active' \in Parts \cup {None}
          /\ ring' \in 0 .. MaxCalls
          /\ grace' \in Grace \cup {None}
        BY <2>1 DEF IInv, TypeOK, GraceEndsCall, Parts
    <2>4. QED  BY <2>1, <2>2, <2>3
<1>3. callState' = None /\ calls' = calls  BY DEF GraceEndsCall, Forget
<1>4. CASE callState # None /\ callState.accepted
    <2>1. callState.call \in Call  BY <1>4 DEF IInv, TypeOK, Record
    <2>2. Log("ended", callState.call)  BY <1>4 DEF GraceEndsCall
    <2>3. QED  BY <1>1, <1>2, <1>3, <1>4, <2>1, <2>2, LogStep
<1>5. CASE ~(callState # None /\ callState.accepted)
    <2>1. UNCHANGED <<calls, missed, ended>>
        BY <1>5 DEF GraceEndsCall, NoLog
    <2>2. TypeOK'  BY <1>1, <1>2, <1>3, <2>1, TaskTyped DEF IInv, TypeOK, Parts
    <2>3. QED  BY <1>1, <1>3, <2>1, <2>2, QuietStep
<1>6. QED  BY <1>4, <1>5

-----------------------------------------------------------------------------
(* Initially. *)
LEMMA InitIInv == ASSUME Init PROVE IInv
<1>1. Idle \in Suspended /\ Idle.pc = "idle"  BY DEF Idle, Suspended
<1>2. TaskInv  BY <1>1 DEF Init, TaskInv
<1>3. missed \in Logs /\ ended \in Logs  BY DEF Init, Logs
<1>4. TypeOK
    <2>1. \A k \in Task \cup {GraceTask} : task[k] \in Suspended  BY <1>2 DEF TaskInv
    <2>2. 0 \in 0 .. MaxCalls  BY CallsAssumption
    <2>3. QED  BY <1>3, <2>1, <2>2 DEF Init, TypeOK, Logs, Suspended
<1>5. NumberInv  BY DEF Init, NumberInv
<1>6. Total(missed) = 0 /\ Total(ended) = 0
    BY <1>3, SumOfNone DEF Init
<1>7. NoPhantomRecord  BY <1>6 DEF Init, NoPhantomRecord
<1>8. QED  BY <1>2, <1>4, <1>5, <1>7 DEF IInv

(* Every step preserves it. *)
LEMMA StepIInv == ASSUME IInv, [Next]_vars PROVE IInv'
<1>1. CASE UNCHANGED vars
    <2>1. TypeOK'  BY <1>1 DEF vars, IInv, TypeOK
    <2>2. TaskInv'  BY <1>1 DEF vars, IInv, TaskInv
    <2>3. QED  BY <1>1, <2>1, <2>2, QuietStep DEF vars
<1>2. ASSUME NEW s \in Socket, Connect(s) \/ Disconnect(s) \/ LeaveNoCall(s)
      PROVE IInv'
    BY <1>2, ConnectStep, DisconnectStep, LeaveNoCallStep
<1>3. ASSUME NEW k \in Task, NEW s \in Socket, Leave(k, s) \/ \E op \in Op : Receive(k, s, op)
      PROVE IInv'
    BY <1>3, LeaveStep, ReceiveStep
<1>4. ASSUME NEW k \in Task, Handler(k) PROVE IInv'
    BY <1>4, ReturnStep, InviteAdmittedStep, InvitePlacedStep, InviteRingsStep,
       AcceptStep, AcceptActiveStep, DeclineStep, EndReadStep, EndClaimStep,
       JoinStep, LeaveClearedStep, LeaveForgetsStep DEF Handler
<1>5. CASE Timers
    BY <1>5, RingTimeoutStep, PendingGraceOverStep, ActiveGraceOverStep, GraceEndsCallStep
       DEF Timers
<1>6. QED  BY <1>1, <1>2, <1>3, <1>4, <1>5 DEF Next

(* The inductive invariant. *)
THEOREM Inductive == Spec => []IInv
<1>1. Init => IInv  BY InitIInv
<1>2. IInv /\ [Next]_vars => IInv'  BY StepIInv
<1>3. QED  BY <1>1, <1>2, PTL DEF Spec

(* Every variable keeps its type. *)
THEOREM TypeCorrect == Spec => []TypeOK
<1>1. IInv => TypeOK  BY DEF IInv
<1>2. QED  BY <1>1, Inductive, PTL

(* There are never more call records than calls placed and finished, whatever
   handlers, timers and disconnections race to finish a call. *)
THEOREM RecordsAreOfCalls == Spec => []NoPhantomRecord
<1>1. IInv => NoPhantomRecord  BY DEF IInv
<1>2. QED  BY <1>1, Inductive, PTL

-----------------------------------------------------------------------------
(* What a step may do to callState: it is deleted, answered, or set where no
   call is pending, by a new call. *)
Placed(s) ==
    /\ ~Pending
    /\ calls' = calls + 1
    /\ callState' = [inviter |-> Owner[s], sock |-> s, accepted |-> FALSE, call |-> calls + 1]

(* The refinement of CallLife, step by step. *)
LEMMA StateStep ==
    ASSUME IInv, [Next]_vars
    PROVE \/ \E s \in Socket : Placed(s)
          \/ /\ calls' = calls
             /\ \/ callState' = callState
                \/ callState' = None
                \/ callState # None /\ callState' = [callState EXCEPT !.accepted = TRUE]
<1> DEFINE Kept == /\ calls' = calls
                   /\ \/ callState' = callState
                      \/ callState' = None
                      \/ callState # None /\ callState' = [callState EXCEPT !.accepted = TRUE]
<1>1. CASE UNCHANGED vars  BY <1>1 DEF vars
<1>2. ASSUME NEW s \in Socket, Connect(s) \/ Disconnect(s) \/ LeaveNoCall(s)
      PROVE Kept
    BY <1>2 DEF Connect, Disconnect, LeaveNoCall, Forget
<1>3. ASSUME NEW k \in Task, NEW s \in Socket, Leave(k, s) \/ \E op \in Op : Receive(k, s, op)
      PROVE Kept
    BY <1>3 DEF Leave, Receive
<1>4. ASSUME NEW k \in Task, Handler(k) PROVE (\E s \in Socket : Placed(s)) \/ Kept
    <2>1. CASE InvitePlaced(k)
        <3>1. task[k].sock \in Socket
            BY <2>1 DEF IInv, TaskInv, InvitePlaced, At
        <3>2. Placed(task[k].sock)  BY <2>1 DEF InvitePlaced, Vacant, Placed
        <3>3. QED  BY <3>1, <3>2
    <2>2. CASE Accept(k)  BY <2>2 DEF Accept, Accepted
    <2>3. CASE Decline(k)  BY <2>3 DEF Decline, Forget
    <2>4. CASE EndClaim(k)  BY <2>4 DEF EndClaim, Forget
    <2>5. CASE Join(k)  BY <2>5 DEF Join, Accepted, Pending
    <2>6. CASE LeaveForgets(k)  BY <2>6 DEF LeaveForgets, Forget
    <2>7. CASE \/ InviteThrottled(k) \/ InviteAdmitted(k) \/ InviteRepeated(k) \/ InviteRings(k)
               \/ AcceptIgnored(k) \/ AcceptActive(k) \/ DeclineIgnored(k) \/ EndRead(k)
               \/ LeaveCleared(k)
        BY <2>7 DEF InviteThrottled, InviteAdmitted, InviteRepeated, InviteRings,
           AcceptIgnored, AcceptActive, DeclineIgnored, EndRead, LeaveCleared
    <2>8. QED  BY <1>4, <2>1, <2>2, <2>3, <2>4, <2>5, <2>6, <2>7 DEF Handler
<1>5. CASE Timers
    <2>1. Kept
        BY <1>5 DEF Timers, RingTimeout, PendingGraceOver, ActiveGraceOver, GraceEndsCall,
           Forget, Accepted, Pending
    <2>2. QED  BY <2>1
<1>6. QED  BY <1>1, <1>2, <1>3, <1>4, <1>5 DEF Next

(* A step is one of CallLife: neither an invite that was admitted before, nor one
   dialled by the other user at the same time, takes the place of a call that
   rings, and what was answered or is over stays so. *)
LEMMA StateLives ==
    ASSUME IInv, [Next]_vars
    PROVE [Life!Next]_<<callState, calls>>
<1>1. CASE \E s \in Socket : Placed(s)
    <2>1. PICK s \in Socket : Placed(s)  BY <1>1
    <2>2. Owner[s] \in User  BY OwnerAssumption
    <2>3. callState = None \/ callState.accepted  BY <2>1 DEF Placed, Pending
    <2>4. Life!Place(Owner[s], s)  BY <2>1, <2>3 DEF Placed, Life!Place
    <2>5. QED  BY <2>2, <2>4 DEF Life!Next
<1>2. CASE calls' = calls /\ callState # None
           /\ callState' = [callState EXCEPT !.accepted = TRUE]
    <2>1. callState \in Record  BY <1>2 DEF IInv, TypeOK
    <2>2. CASE callState.accepted
        <3>1. callState' = callState  BY <1>2, <2>1, <2>2 DEF Record
        <3>2. QED  BY <1>2, <3>1
    <2>3. CASE ~callState.accepted
        <3>1. Life!Answer  BY <1>2, <2>3 DEF Life!Answer
        <3>2. QED  BY <3>1 DEF Life!Next
    <2>4. QED  BY <2>2, <2>3
<1>3. CASE calls' = calls /\ callState' = None
    <2>1. Life!Finish  BY <1>3 DEF Life!Finish
    <2>2. QED  BY <2>1 DEF Life!Next
<1>4. QED  BY <1>1, <1>2, <1>3, StateStep

(* The calls of a conversation implement CallLife. *)
THEOREM CallsLive == Spec => KeepsLife
<1>1. Init => Life!Init  BY DEF Init, Life!Init
<1>2. IInv /\ [Next]_vars => [Life!Next]_<<callState, calls>>  BY StateLives
<1>3. QED  BY <1>1, <1>2, Inductive, PTL DEF Spec, KeepsLife, Life!Spec, Life!vars
=============================================================================
