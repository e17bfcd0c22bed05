------------------------ MODULE RefreshSessionsProofs ------------------------
(***************************************************************************)
(* Proofs about RefreshSessions, for any number of tokens, sessions,       *)
(* devices and requests in flight.                                         *)
(***************************************************************************)
EXTENDS RefreshSessions, TLAPS

(* A row in the table is not absent, and only its insertion gives it a session. *)
RowInv ==
    /\ \A t \in Token : status[t] = "absent" => sess[t] = Nil
    /\ \A t \in issued : status[t] # "absent"

(* What a request j of process p knows.  An open rotation holds the lock of
   a live row, and its successor is reserved: a token no row has, in the
   session of the row or in one nobody has. *)
Sound(p, j) ==
    /\ j.pc \in {"find", "walk", "rotate", "commit"} =>
          j.tok \in Token /\ status[j.tok] # "absent"
    /\ j.pc \in {"find", "walk"} => j.kind \in {"refresh", "logout"}
    /\ j.pc \in {"rotate", "commit"} => j.kind = "refresh"
    /\ j.pc = "create" => j.kind = "login"
    /\ j.pc = "find" => j.hop = 0
    /\ j.pc # "idle" => ~j.denied
    /\ j.pc = "walk" =>
          /\ j.at \in Token /\ status[j.at] # "absent"
          /\ sess[j.tok] # Nil => sess[j.at] = sess[j.tok]
    /\ j.pc # "commit" => j.new = Nil /\ j.ses = Nil
    /\ j.pc = "commit" =>
          /\ lock[j.tok] = p
          /\ status[j.tok] = "live"
          /\ j.new \in Token /\ status[j.new] = "absent"
          /\ j.ses \in Session
          /\ sess[j.tok] # j.ses =>
                sess[j.tok] = Nil /\ \A t \in Token : sess[t] # j.ses

JobInv == \A p \in Proc : Sound(p, job[p])

(* Two open rotations hold different rows and reserve different successors. *)
ApartInv ==
    \A p, q \in Proc :
        p # q /\ job[p].pc = "commit" /\ job[q].pc = "commit" =>
            /\ job[p].tok # job[q].tok
            /\ job[p].new # job[q].new
            /\ job[p].ses # job[q].ses

(* Only an open rotation holds a lock. *)
LockInv ==
    \A t \in Token : lock[t] # Nil =>
        job[lock[t]].pc = "commit" /\ job[lock[t]].tok = t

IInv ==
    /\ TypeOK
    /\ RowInv
    /\ JobInv
    /\ ApartInv
    /\ LockInv
    /\ OneTipPerSession
    /\ ChainKeepsIdentity

-----------------------------------------------------------------------------
(* A job that has nothing to do is a job. *)
LEMMA IdleTyped == Idle \in Job /\ Idle.pc = "idle" /\ Idle.new = Nil /\ Idle.ses = Nil
  BY MaxHopsAssumption, NilAssumption DEF Idle, Job

(* A step that writes no row and takes no lock keeps the invariant when the
   request it moves is in a sound state afterwards. *)
LEMMA QuietStep ==
  ASSUME IInv, NEW p \in Proc, NEW j \in Job,
         job[p].pc # "commit", j.pc # "commit", Sound(p, j),
         job' = [job EXCEPT ![p] = j],
         UNCHANGED <<rows, lock>>,
         expired' \subseteq Token, banned' \in BOOLEAN,
         issued' \subseteq Token, \A t \in issued' : status[t] # "absent"
  PROVE  IInv'
<1> USE DEF IInv
<1>1. TypeOK'
  BY DEF TypeOK, rows
<1>2. \A q \in Proc : job'[q] = IF q = p THEN j ELSE job[q]
  BY DEF TypeOK
<1>3. RowInv'
  BY DEF RowInv, rows
<1>4. JobInv'
  BY <1>2 DEF JobInv, Sound, rows
<1>5. ApartInv'
  BY <1>2 DEF ApartInv
<1>6. LockInv'
  BY <1>2 DEF LockInv, TypeOK
<1>7. OneTipPerSession' /\ ChainKeepsIdentity'
  BY DEF OneTipPerSession, ChainKeepsIdentity, rows
<1>8. QED
  BY <1>1, <1>3, <1>4, <1>5, <1>6, <1>7

(* The table of before the sessionId column satisfies the invariant. *)
THEOREM InitInv == Init => IInv
<1> SUFFICES ASSUME Init PROVE IInv
  OBVIOUS
<1> USE IdleTyped, LegacyAssumption, NilAssumption DEF Init
<1>1. TypeOK
  BY DEF TypeOK, Status
<1>2. RowInv
  BY DEF RowInv
<1>3. JobInv
  BY DEF JobInv, Sound
<1>4. ApartInv /\ LockInv
  BY DEF ApartInv, LockInv
<1>5. OneTipPerSession /\ ChainKeepsIdentity
  BY DEF OneTipPerSession, ChainKeepsIdentity
<1>6. QED
  BY <1>1, <1>2, <1>3, <1>4, <1>5 DEF IInv

-----------------------------------------------------------------------------
(* The requests arrive. *)
LEMMA StartInv ==
  ASSUME IInv, NEW p \in Proc,
         \/ \E d \in Device \cup {Nil} : StartLogin(p, d)
         \/ \E t \in Token, d \in Device \cup {Nil} : StartRefresh(p, t, d)
         \/ \E t \in Token : StartLogout(p, t)
         \/ \E d \in Device : StartRevokeDevice(p, d)
         \/ StartBan(p)
  PROVE  IInv'
<1> USE IdleTyped
<1>0. expired \subseteq Token /\ issued \subseteq Token /\ banned \in BOOLEAN
      /\ \A t \in issued : status[t] # "absent"
  BY DEF IInv, TypeOK, RowInv
<1>1. CASE \E d \in Device \cup {Nil} : StartLogin(p, d)
  <2>1. PICK d \in Device \cup {Nil} : StartLogin(p, d)
    BY <1>1
  <2> DEFINE j == [Idle EXCEPT !.pc = "create", !.kind = "login", !.did = d]
  <2>2. j \in Job /\ j.pc = "create" /\ Sound(p, j)
    BY DEF Job, Idle, Sound
  <2>3. QED
    BY <1>0, <2>1, <2>2, QuietStep DEF StartLogin, rows
<1>2. CASE \E t \in Token, d \in Device \cup {Nil} : StartRefresh(p, t, d)
  <2>1. PICK t \in Token, d \in Device \cup {Nil} : StartRefresh(p, t, d)
    BY <1>2
  <2> DEFINE j == [Idle EXCEPT !.pc = "find", !.tok = t, !.did = d]
  <2>2. j \in Job /\ j.pc = "find" /\ Sound(p, j)
    BY <1>0, <2>1 DEF Job, Idle, Sound, StartRefresh
  <2>3. QED
    BY <1>0, <2>1, <2>2, QuietStep DEF StartRefresh, rows
<1>3. CASE \E t \in Token : StartLogout(p, t)
  <2>1. PICK t \in Token : StartLogout(p, t)
    BY <1>3
  <2> DEFINE j == [Idle EXCEPT !.pc = "find", !.kind = "logout", !.tok = t]
  <2>2. j \in Job /\ j.pc = "find" /\ Sound(p, j)
    BY <1>0, <2>1 DEF Job, Idle, Sound, StartLogout
  <2>3. QED
    BY <1>0, <2>1, <2>2, QuietStep DEF StartLogout, rows
<1>4. CASE \E d \in Device : StartRevokeDevice(p, d)
  <2>1. PICK d \in Device : StartRevokeDevice(p, d)
    BY <1>4
  <2> DEFINE j == [Idle EXCEPT !.pc = "scan", !.kind = "device", !.did = d]
  <2>2. j \in Job /\ j.pc = "scan" /\ Sound(p, j)
    BY DEF Job, Idle, Sound
  <2>3. QED
    BY <1>0, <2>1, <2>2, QuietStep DEF StartRevokeDevice, rows
<1>5. CASE StartBan(p)
  <2> DEFINE j == [Idle EXCEPT !.pc = "scan", !.kind = "ban"]
  <2>1. j \in Job /\ j.pc = "scan" /\ Sound(p, j)
    BY DEF Job, Idle, Sound
  <2>2. QED
    BY <1>0, <1>5, <2>1, QuietStep DEF StartBan, rows
<1>6. QED
  BY <1>1, <1>2, <1>3, <1>4, <1>5

(* One turn of the chain walk, on the row the request was to read: the row it
   reads next is in the session of the token presented. *)
LEMMA ResolveInv ==
  ASSUME IInv, NEW p \in Proc, NEW t \in Token, NEW h \in 0 .. MaxHops - 1,
         job[p].pc \in {"find", "walk"},
         status[t] # "absent",
         sess[job[p].tok] # Nil => sess[t] = sess[job[p].tok],
         Resolve(p, t, h),
         UNCHANGED <<rows, expired, lock, banned>>
  PROVE  IInv'
<1> USE IdleTyped, MaxHopsAssumption
<1>0. /\ expired \subseteq Token /\ issued \subseteq Token /\ banned \in BOOLEAN
      /\ \A u \in issued : status[u] # "absent"
      /\ job[p] \in Job /\ job[p].pc # "commit" /\ Sound(p, job[p])
  BY DEF IInv, TypeOK, RowInv, JobInv
<1>1. Sound(p, Idle)
  BY DEF Sound
<1>2. [Idle EXCEPT !.denied = TRUE] \in Job /\ Sound(p, [Idle EXCEPT !.denied = TRUE])
  BY DEF Sound, Idle, Job
<1>3. CASE Usable(t) /\ job[p].kind = "refresh" /\ Answer(p, t)
  BY <1>0, <1>1, <1>3, QuietStep DEF Answer, Usable, rows
<1>4. CASE Usable(t) /\ job[p].kind = "logout" /\
           job' = [job EXCEPT ![p].pc = "scan", ![p].at = t] /\ UNCHANGED issued
  <2> DEFINE j == [job[p] EXCEPT !.pc = "scan", !.at = t]
  <2>1. j \in Job /\ j.pc = "scan" /\ Sound(p, j)
    BY <1>0 DEF Job, Sound
  <2>2. job' = [job EXCEPT ![p] = j]
    BY <1>4
  <2>3. QED
    BY <1>0, <1>4, <2>1, <2>2, QuietStep DEF rows
<1>5. CASE Follows(t, h) /\ UNCHANGED issued /\
           job' = [job EXCEPT ![p].pc = "walk", ![p].at = next[t], ![p].hop = h + 1]
  <2> DEFINE j == [job[p] EXCEPT !.pc = "walk", !.at = next[t], !.hop = h + 1]
  <2>1. next[t] \in Token /\ status[next[t]] # "absent"
        /\ (sess[t] # Nil => sess[next[t]] = sess[t])
    BY <1>5 DEF IInv, ChainKeepsIdentity, Follows
  <2>2. h + 1 \in 0 .. MaxHops - 1
    BY <1>5 DEF Follows
  <2>3. j \in Job /\ j.pc = "walk"
    BY <1>0, <2>1, <2>2 DEF Job
  <2>4. Sound(p, j)
    BY <1>0, <2>1 DEF Sound, Job
  <2>5. job' = [job EXCEPT ![p] = j]
    BY <1>5
  <2>6. QED
    BY <1>0, <1>5, <2>3, <2>4, <2>5, QuietStep DEF rows
<1>6. CASE job[p].kind = "refresh" /\ Finish(p, TRUE)
  <2> DEFINE j == [Idle EXCEPT !.denied = TRUE]
  <2>1. j.pc = "idle"
    BY DEF Idle
  <2>2. QED
    BY <1>0, <1>2, <1>6, <2>1, QuietStep DEF Finish, rows
<1>7. CASE job[p].kind = "logout" /\ UNCHANGED issued /\
           job' = [job EXCEPT ![p].pc = "scan", ![p].at = Nil]
  <2> DEFINE j == [job[p] EXCEPT !.pc = "scan", !.at = Nil]
  <2>1. j \in Job /\ j.pc = "scan" /\ Sound(p, j)
    BY <1>0 DEF Job, Sound
  <2>2. job' = [job EXCEPT ![p] = j]
    BY <1>7
  <2>3. QED
    BY <1>0, <1>7, <2>1, <2>2, QuietStep DEF rows
<1>8. QED
  BY <1>3, <1>4, <1>5, <1>6, <1>7 DEF Resolve

(* The first read of a request. *)
LEMMA FindInv == ASSUME IInv, NEW p \in Proc, Find(p) PROVE IInv'
<1> DEFINE t == job[p].tok
<1>0. /\ expired \subseteq Token /\ issued \subseteq Token /\ banned \in BOOLEAN
      /\ \A u \in issued : status[u] # "absent"
      /\ job[p] \in Job /\ job[p].pc = "find" /\ Sound(p, job[p])
      /\ t \in Token /\ status[t] # "absent"
  BY DEF IInv, TypeOK, RowInv, JobInv, Sound, Find
<1>1. CASE Resolve(p, t, 0)
  BY <1>0, <1>1, ResolveInv, MaxHopsAssumption DEF Find
<1>2. CASE job[p].kind = "refresh" /\ Goto(p, "rotate")
  <2> DEFINE j == [job[p] EXCEPT !.pc = "rotate"]
  <2>1. j \in Job /\ j.pc = "rotate" /\ Sound(p, j)
    BY <1>0, <1>2 DEF Job, Sound
  <2>2. job' = [job EXCEPT ![p] = j]
    BY <1>2 DEF Goto
  <2>3. QED
    BY <1>0, <1>2, <2>1, <2>2, QuietStep DEF Find, Goto, rows
<1>3. CASE job[p].kind = "logout" /\ Goto(p, "scan")
  <2> DEFINE j == [job[p] EXCEPT !.pc = "scan"]
  <2>1. j \in Job /\ j.pc = "scan" /\ Sound(p, j)
    BY <1>0 DEF Job, Sound
  <2>2. job' = [job EXCEPT ![p] = j]
    BY <1>3 DEF Goto
  <2>3. QED
    BY <1>0, <1>3, <2>1, <2>2, QuietStep DEF Find, Goto, rows
<1>4. QED
  BY <1>1, <1>2, <1>3 DEF Find

(* The next read of a chain walk. *)
LEMMA WalkInv == ASSUME IInv, NEW p \in Proc, Walk(p) PROVE IInv'
<1>1. /\ job[p] \in Job /\ Sound(p, job[p]) /\ job[p].pc = "walk"
  BY DEF IInv, TypeOK, JobInv, Walk
<1>2. QED
  BY <1>1, ResolveInv DEF Walk, Sound, Job

(* The rotation that lost the race for its row: only the request moves. *)
LEMMA LoseRaceInv == ASSUME IInv, NEW p \in Proc, LoseRace(p) PROVE IInv'
<1> DEFINE j == [job[p] EXCEPT !.pc = "walk", !.at = job[p].tok, !.hop = 0]
<1>0. /\ expired \subseteq Token /\ issued \subseteq Token /\ banned \in BOOLEAN
      /\ \A u \in issued : status[u] # "absent"
      /\ job[p] \in Job /\ job[p].pc = "rotate" /\ Sound(p, job[p])
  BY DEF IInv, TypeOK, RowInv, JobInv, LoseRace, Rotatable
<1>1. j \in Job /\ j.pc = "walk" /\ Sound(p, j)
  <2>1. 0 \in 0 .. MaxHops - 1
    BY MaxHopsAssumption
  <2>2. j \in Job
    BY <1>0, <2>1 DEF Job, Sound
  <2>3. Sound(p, j)
    BY <1>0 DEF Job, Sound
  <2>4. QED
    BY <1>0, <2>2, <2>3 DEF Job
<1>2. job' = [job EXCEPT ![p] = j]
  BY DEF LoseRace, Rotatable
<1>3. QED
  BY <1>0, <1>1, <1>2, QuietStep DEF LoseRace, Rotatable, rows

(* The snapshot of an updateMany: only the request moves. *)
LEMMA RevokeScanInv == ASSUME IInv, NEW p \in Proc, RevokeScan(p) PROVE IInv'
<1> DEFINE S == {t \in Token : status[t] = "live" /\ Matches(p, t)}
           j == [job[p] EXCEPT !.pc = "apply", !.scan = S]
<1>0. /\ expired \subseteq Token /\ issued \subseteq Token /\ banned \in BOOLEAN
      /\ \A u \in issued : status[u] # "absent"
      /\ job[p] \in Job /\ job[p].pc = "scan" /\ Sound(p, job[p])
  BY DEF IInv, TypeOK, RowInv, JobInv, RevokeScan
<1>1. j \in Job /\ j.pc = "apply" /\ Sound(p, j)
  <2>1. S \subseteq Token
    OBVIOUS
  <2> HIDE DEF S
  <2>2. QED
    BY <1>0, <2>1 DEF Job, Sound
<1>2. job' = [job EXCEPT ![p] = j]
  BY DEF RevokeScan
<1>3. QED
  BY <1>0, <1>1, <1>2, QuietStep DEF RevokeScan, rows

(* Time passes, or the ban is lifted: no request moves. *)
LEMMA ClockInv ==
  ASSUME IInv, (\E t \in Token : Expire(t)) \/ Unban
  PROVE  IInv'
<1> USE DEF IInv
<1>1. UNCHANGED <<rows, lock, issued, job>>
  BY DEF Expire, Unban
<1>2. TypeOK'
  BY <1>1 DEF TypeOK, rows, Expire, Unban
<1>3. RowInv' /\ LockInv' /\ ApartInv' /\ OneTipPerSession' /\ ChainKeepsIdentity'
  BY <1>1 DEF RowInv, LockInv, ApartInv, OneTipPerSession, ChainKeepsIdentity, rows
<1>4. JobInv'
  BY <1>1 DEF JobInv, Sound, rows
<1>5. QED
  BY <1>2, <1>3, <1>4

(* The conditional UPDATE opens the transaction: the row was not locked, so no
   other rotation of it is open, and the ids it takes are nobody's. *)
LEMMA BeginRotationInv == ASSUME IInv, NEW p \in Proc, BeginRotation(p) PROVE IInv'
<1> USE DEF IInv
<1> DEFINE t == job[p].tok
<1>1. PICK n \in Token, s \in Session :
         /\ FreshToken(n)
         /\ IF sess[t] # Nil THEN s = sess[t] ELSE FreshSession(s)
         /\ job' = [job EXCEPT ![p].pc = "commit", ![p].new = n, ![p].ses = s]
  BY DEF BeginRotation, Rotatable, Continues
<1> DEFINE j == [job[p] EXCEPT !.pc = "commit", !.new = n, !.ses = s]
<1>2. /\ job[p] \in Job /\ job[p].pc = "rotate" /\ Sound(p, job[p])
      /\ t \in Token /\ lock[t] = Nil /\ status[t] = "live"
      /\ lock' = [lock EXCEPT ![t] = p]
      /\ UNCHANGED <<rows, expired, issued, banned>>
      /\ job[p].kind = "refresh"
  BY DEF TypeOK, JobInv, Sound, BeginRotation, Rotatable, Continues
<1>3. j \in Job /\ j.pc = "commit" /\ j.new = n /\ j.ses = s /\ j.tok = t /\ j.kind = "refresh"
      /\ ~j.denied
  BY <1>2 DEF Job, Sound
<1>4. job' = [job EXCEPT ![p] = j]
  BY <1>1
<1> HIDE DEF j
<1>5. \A q \in Proc : job'[q] = IF q = p THEN j ELSE job[q]
  BY <1>4 DEF TypeOK
<1>6. \A u \in Token : lock'[u] = IF u = t THEN p ELSE lock[u]
  BY <1>2 DEF TypeOK
<1>7. TypeOK'
  BY <1>2, <1>3, <1>4 DEF TypeOK, rows
<1>8. RowInv' /\ OneTipPerSession' /\ ChainKeepsIdentity'
  BY <1>2 DEF RowInv, OneTipPerSession, ChainKeepsIdentity, rows
<1>9. \A q \in Proc : job[q].pc = "commit" => q # p /\ job[q].tok # t
  BY <1>2, NilAssumption DEF JobInv, Sound
<1>10. JobInv'
  <2> SUFFICES ASSUME NEW q \in Proc PROVE Sound(q, job[q])'
    BY DEF JobInv
  <2>1. CASE q = p
    <3>1. status[n] = "absent" /\ (sess[t] # s => sess[t] = Nil /\ \A u \in Token : sess[u] # s)
      BY <1>1 DEF FreshToken, FreshSession
    <3>2. status' = status /\ sess' = sess /\ lock'[t] = p /\ job'[p] = j
      BY <1>2, <1>5, <1>6 DEF rows
    <3>3. QED
      BY <1>2, <1>3, <2>1, <3>1, <3>2 DEF Sound
  <2>2. CASE q # p
    BY <1>2, <1>5, <1>6, <1>9, <2>2 DEF JobInv, Sound, rows
  <2>3. QED
    BY <2>1, <2>2
<1>11. \A q \in Proc : q # p /\ job[q].pc = "commit" => job[q].new # n /\ job[q].ses # s
  <2> SUFFICES ASSUME NEW q \in Proc, q # p, job[q].pc = "commit"
               PROVE  job[q].new # n /\ job[q].ses # s
    OBVIOUS
  <2>1. job[q].new # n
    BY <1>1 DEF FreshToken
  <2>2. CASE sess[t] = Nil
    BY <1>1, <2>1, <2>2 DEF FreshSession
  <2>3. CASE sess[t] # Nil
    <3>1. s = sess[t]
      BY <1>1, <2>3
    <3>2. sess[job[q].tok] # s
      BY <1>2, <1>9, <2>3, <3>1 DEF JobInv, Sound, OneTipPerSession, TypeOK, Job
    <3>3. QED
      BY <1>2, <2>1, <2>3, <3>1, <3>2 DEF JobInv, Sound
  <2>4. QED
    BY <2>2, <2>3
<1>12. ApartInv'
  BY <1>3, <1>5, <1>9, <1>11 DEF ApartInv
<1>13. LockInv'
  BY <1>2, <1>3, <1>5, <1>6, NilAssumption DEF LockInv, TypeOK
<1>14. QED
  BY <1>7, <1>8, <1>10, <1>12, <1>13

(* A login adds a row in a session of its own. *)
LEMMA CreateSessionInv == ASSUME IInv, NEW p \in Proc, CreateSession(p) PROVE IInv'
<1> USE DEF IInv
<1>1. PICK t \in Token, s \in Session :
         /\ FreshToken(t) /\ FreshSession(s)
         /\ status' = [status EXCEPT ![t] = "live"]
         /\ sess'   = [sess EXCEPT ![t] = s]
         /\ dev'    = [dev EXCEPT ![t] = job[p].did]
         /\ Answer(p, t)
  BY DEF CreateSession
<1>2. /\ job[p] \in Job /\ job[p].pc = "create"
      /\ UNCHANGED <<next, expired, lock, banned>>
      /\ job' = [job EXCEPT ![p] = Idle]
      /\ issued' \in {issued, issued \cup {t}}
      /\ job[p].did \in Device \cup {Nil}
  BY <1>1 DEF TypeOK, CreateSession, Answer, Job
<1>3. /\ \A q \in Proc : job'[q] = IF q = p THEN Idle ELSE job[q]
      /\ \A u \in Token : status'[u] = IF u = t THEN "live" ELSE status[u]
      /\ \A u \in Token : sess'[u] = IF u = t THEN s ELSE sess[u]
      /\ \A u \in Token : dev'[u] = IF u = t THEN job[p].did ELSE dev[u]
  BY <1>1, <1>2 DEF TypeOK
<1>4. /\ status[t] = "absent" /\ sess[t] = Nil
      /\ \A q \in Proc : job[q].new # t /\ job[q].ses # s
      /\ \A u \in Token : sess[u] # s
  BY <1>1 DEF FreshToken, FreshSession, RowInv
<1>5. TypeOK'
  BY <1>1, <1>2, IdleTyped DEF TypeOK, Status
<1>6. RowInv'
  BY <1>2, <1>3 DEF RowInv, TypeOK
<1>7. JobInv'
  <2> SUFFICES ASSUME NEW q \in Proc PROVE Sound(q, job[q])'
    BY DEF JobInv
  <2>1. CASE q = p
    BY <1>3, <2>1, IdleTyped DEF Sound
  <2>2. CASE q # p
    <3>1. Sound(q, job[q]) /\ job'[q] = job[q] /\ lock' = lock /\ job[q] \in Job
      BY <1>2, <1>3, <2>2 DEF JobInv, TypeOK
    <3>2. QED
      BY <1>3, <1>4, <3>1 DEF Sound
  <2>3. QED
    BY <2>1, <2>2
<1>8. ApartInv' /\ LockInv'
  BY <1>2, <1>3, IdleTyped DEF ApartInv, LockInv, TypeOK
<1>9. OneTipPerSession'
  BY <1>3, <1>4 DEF OneTipPerSession
<1>10. ChainKeepsIdentity'
  BY <1>2, <1>3, <1>4 DEF ChainKeepsIdentity
<1>11. QED
  BY <1>5, <1>6, <1>7, <1>8, <1>9, <1>10

(* The commit replaces the tip of a session by its successor.  The lock makes
   the row still live, and so the only tip of its session. *)
LEMMA CommitRotationInv == ASSUME IInv, NEW p \in Proc, CommitRotation(p) PROVE IInv'
<1> USE DEF IInv
<1> DEFINE t == job[p].tok
           n == job[p].new
           s == job[p].ses
<1>1. /\ job[p] \in Job /\ job[p].pc = "commit" /\ Sound(p, job[p])
      /\ UNCHANGED <<expired, banned>>
      /\ job' = [job EXCEPT ![p] = Idle]
      /\ issued' \in {issued, issued \cup {n}}
      /\ job[p].did \in Device \cup {Nil}
  BY DEF TypeOK, JobInv, CommitRotation, NextDevice, Answer, Job
<1>2. /\ t \in Token /\ n \in Token /\ s \in Session /\ t # n
      /\ lock[t] = p /\ status[t] = "live" /\ status[n] = "absent" /\ sess[n] = Nil
      /\ sess[t] # s => sess[t] = Nil /\ \A u \in Token : sess[u] # s
  BY <1>1 DEF Sound, RowInv
<1>3. /\ \A q \in Proc : job'[q] = IF q = p THEN Idle ELSE job[q]
      /\ \A u \in Token : status'[u] = IF u = n THEN "live" ELSE IF u = t THEN "rotated" ELSE status[u]
      /\ \A u \in Token : sess'[u] = IF u = n THEN s ELSE sess[u]
      /\ \A u \in Token : next'[u] = IF u = t THEN n ELSE next[u]
      /\ \A u \in Token : lock'[u] = IF u = t THEN Nil ELSE lock[u]
      /\ \A u \in Token :
            dev'[u] = IF u = n THEN IF dev[t] # Nil THEN dev[t] ELSE job[p].did ELSE dev[u]
  BY <1>1, <1>2 DEF TypeOK, CommitRotation, NextDevice
<1>4. TypeOK'
  <2>1. (IF dev[t] # Nil THEN dev[t] ELSE job[p].did) \in Device \cup {Nil}
    BY <1>1, <1>2 DEF TypeOK
  <2>2. QED
    BY <1>1, <1>2, <2>1, IdleTyped DEF TypeOK, Status, CommitRotation, NextDevice
<1>5. RowInv'
  BY <1>1, <1>2, <1>3 DEF RowInv, TypeOK
<1>6. \A q \in Proc : q # p /\ job[q].pc = "commit" =>
         job[q].tok # t /\ job[q].new # n /\ job[q].ses # s
  BY <1>1 DEF ApartInv
<1>7. JobInv'
  <2> SUFFICES ASSUME NEW q \in Proc PROVE Sound(q, job[q])'
    BY DEF JobInv
  <2>1. CASE q = p
    BY <1>3, <2>1, IdleTyped DEF Sound
  <2>2. CASE q # p
    <3>1. Sound(q, job[q]) /\ job'[q] = job[q] /\ job[q] \in Job
      BY <1>3, <2>2 DEF JobInv, TypeOK
    <3>2. \A u \in Token : status[u] # "absent" => status'[u] # "absent" /\ sess'[u] = sess[u]
      BY <1>2, <1>3
    <3>3. CASE job[q].pc # "commit"
      BY <3>1, <3>2, <3>3 DEF Sound
    <3>4. CASE job[q].pc = "commit"
      BY <1>2, <1>3, <1>6, <2>2, <3>1, <3>4 DEF Sound
    <3>5. QED
      BY <3>3, <3>4
  <2>3. QED
    BY <2>1, <2>2
<1>8. ApartInv'
  BY <1>3, IdleTyped DEF ApartInv
<1>9. LockInv'
  BY <1>2, <1>3, NilAssumption DEF LockInv, TypeOK
<1>10. OneTipPerSession'
  <2>1. \A u \in Token : sess[u] = s /\ status[u] \in {"live", "revoked"} => u = t
    BY <1>2, NilAssumption DEF OneTipPerSession
  <2>2. QED
    BY <1>2, <1>3, <2>1 DEF OneTipPerSession
<1>11. ChainKeepsIdentity'
  BY <1>2, <1>3 DEF ChainKeepsIdentity
<1>12. QED
  BY <1>4, <1>5, <1>7, <1>8, <1>9, <1>10, <1>11

(* A failed query rolls back: the lock of the request goes, no row changes. *)
LEMMA QueryFailsInv == ASSUME IInv, NEW p \in Proc, QueryFails(p) PROVE IInv'
<1> USE DEF IInv
<1> DEFINE j == [Idle EXCEPT !.denied = FALSE]
<1>1. /\ job' = [job EXCEPT ![p] = j]
      /\ UNCHANGED <<rows, expired, issued, banned>>
      /\ j \in Job /\ j.pc = "idle" /\ j.new = Nil /\ j.ses = Nil
  BY IdleTyped DEF QueryFails, Finish, Job, Idle
<1> HIDE DEF j
<1>2. /\ \A q \in Proc : job'[q] = IF q = p THEN j ELSE job[q]
      /\ \A u \in Token : lock'[u] = IF lock[u] = p THEN Nil ELSE lock[u]
  BY <1>1 DEF TypeOK, QueryFails
<1>3. TypeOK'
  BY <1>1 DEF TypeOK, rows, QueryFails
<1>4. RowInv' /\ OneTipPerSession' /\ ChainKeepsIdentity'
  BY <1>1 DEF RowInv, OneTipPerSession, ChainKeepsIdentity, rows
<1>5. JobInv'
  <2> SUFFICES ASSUME NEW q \in Proc PROVE Sound(q, job[q])'
    BY DEF JobInv
  <2>1. CASE q = p
    BY <1>1, <1>2, <2>1 DEF Sound
  <2>2. CASE q # p
    BY <1>1, <1>2, <2>2 DEF JobInv, Sound, rows
  <2>3. QED
    BY <2>1, <2>2
<1>6. ApartInv' /\ LockInv'
  BY <1>1, <1>2 DEF ApartInv, LockInv, TypeOK
<1>7. QED
  BY <1>3, <1>4, <1>5, <1>6

(* An updateMany revokes live rows only, and none that an open rotation holds. *)
LEMMA RevokeApplyInv == ASSUME IInv, NEW p \in Proc, RevokeApply(p) PROVE IInv'
<1> USE DEF IInv
<1> DEFINE j == [Idle EXCEPT !.denied = FALSE]
<1>1. /\ job' = [job EXCEPT ![p] = j]
      /\ UNCHANGED <<sess, dev, next, expired, lock, issued, banned>>
      /\ j \in Job /\ j.pc = "idle" /\ j.new = Nil /\ j.ses = Nil
      /\ job[p].pc # "commit"
  BY IdleTyped DEF RevokeApply, Unlocked, Finish, Job, Idle
<1> HIDE DEF j
<1>2. /\ \A q \in Proc : job'[q] = IF q = p THEN j ELSE job[q]
      /\ \A u \in Token : \/ status'[u] = status[u]
                          \/ status[u] = "live" /\ status'[u] = "revoked" /\ lock[u] = Nil
      /\ status' \in [Token -> Status]
  BY <1>1 DEF TypeOK, RevokeApply, Unlocked, Status
<1>3. TypeOK'
  BY <1>1, <1>2 DEF TypeOK
<1>4. RowInv'
  BY <1>1, <1>2 DEF RowInv, TypeOK
<1>5. JobInv'
  <2> SUFFICES ASSUME NEW q \in Proc PROVE Sound(q, job[q])'
    BY DEF JobInv
  <2>1. CASE q = p
    BY <1>1, <1>2, <2>1 DEF Sound
  <2>2. CASE q # p
    <3>1. Sound(q, job[q]) /\ job'[q] = job[q] /\ job[q] \in Job
      BY <1>2, <2>2 DEF JobInv, TypeOK
    <3>2. QED
      BY <1>1, <1>2, <3>1, NilAssumption DEF Sound
  <2>3. QED
    BY <2>1, <2>2
<1>6. ApartInv' /\ LockInv'
  BY <1>1, <1>2 DEF ApartInv, LockInv, TypeOK
<1>7. OneTipPerSession'
  BY <1>1, <1>2 DEF OneTipPerSession
<1>8. ChainKeepsIdentity'
  BY <1>1, <1>2 DEF ChainKeepsIdentity, TypeOK
<1>9. QED
  BY <1>3, <1>4, <1>5, <1>6, <1>7, <1>8

-----------------------------------------------------------------------------
(* Every step keeps the invariant. *)
THEOREM StepInv == IInv /\ [Next]_vars => IInv'
<1> SUFFICES ASSUME IInv, [Next]_vars PROVE IInv'
  OBVIOUS
<1>1. CASE \E p \in Proc, d \in Device \cup {Nil} : StartLogin(p, d)
  BY <1>1, StartInv
<1>2. CASE \E p \in Proc, t \in Token, d \in Device \cup {Nil} : StartRefresh(p, t, d)
  BY <1>2, StartInv
<1>3. CASE \E p \in Proc, t \in Token : StartLogout(p, t)
  BY <1>3, StartInv
<1>4. CASE \E p \in Proc, d \in Device : StartRevokeDevice(p, d)
  BY <1>4, StartInv
<1>5. CASE \E p \in Proc : StartBan(p)
  BY <1>5, StartInv
<1>6. CASE (\E t \in Token : Expire(t)) \/ Unban
  BY <1>6, ClockInv
<1>7. CASE \E p \in Proc : Step(p) \/ QueryFails(p)
  BY <1>7, CreateSessionInv, FindInv, WalkInv, BeginRotationInv, LoseRaceInv,
     CommitRotationInv, QueryFailsInv, RevokeScanInv, RevokeApplyInv DEF Step
<1>8. CASE UNCHANGED vars
  <2>1. UNCHANGED <<status, sess, dev, next, expired, lock, issued, banned, job>>
    BY <1>8 DEF vars
  <2>2. QED
    BY <2>1 DEF IInv, TypeOK, RowInv, JobInv, Sound, ApartInv, LockInv,
       OneTipPerSession, ChainKeepsIdentity
<1>9. QED
  BY <1>1, <1>2, <1>3, <1>4, <1>5, <1>6, <1>7, <1>8 DEF Next

(* The invariant holds in every state of the specification. *)
THEOREM Inductive == Spec => []IInv
  BY InitInv, StepInv, PTL DEF Spec

(* Every variable keeps its type. *)
THEOREM TypeCorrect == Spec => []TypeOK
<1>1. IInv => TypeOK
  BY DEF IInv
<1>2. QED
  BY <1>1, Inductive, PTL

(* No session is ever forked: of the rows of a session at most one has not
   been rotated away (rotateRefreshSession against itself and against every
   revocation), and the one that replaces a row carries its session and its
   device. *)
THEOREM NoFork == Spec => []SessionIsChain
<1>1. IInv => SessionIsChain
  BY DEF IInv, SessionIsChain
<1>2. QED
  BY <1>1, Inductive, PTL

-----------------------------------------------------------------------------
(* What a step does to the job of a request p it is not about: nothing.  Used
   by the action properties, which speak of one request. *)
LEMMA OtherJobs ==
  ASSUME IInv, [Next]_vars, NEW p \in Proc, job'[p] # job[p]
  PROVE  \/ job'[p].pc # "idle" /\ ~job'[p].denied /\ job[p].pc = "idle"
         \/ Step(p)
         \/ QueryFails(p)
<1>1. job \in [Proc -> Job]
  BY DEF IInv, TypeOK
<1>2. CASE \E q \in Proc : Step(q) \/ QueryFails(q)
  <2>1. PICK q \in Proc : Step(q) \/ QueryFails(q)
    BY <1>2
  <2>2. \A r \in Proc : r # q => job'[r] = job[r]
    BY <1>1, <2>1
    DEF Step, QueryFails, CreateSession, Find, Walk, Resolve, BeginRotation, LoseRace,
        CommitRotation, RevokeScan, RevokeApply, Answer, Finish, Goto
  <2>3. QED
    BY <2>1, <2>2
<1>3. CASE \E q \in Proc : \/ \E d \in Device \cup {Nil} : StartLogin(q, d)
                           \/ \E t \in Token, d \in Device \cup {Nil} : StartRefresh(q, t, d)
                           \/ \E t \in Token : StartLogout(q, t)
                           \/ \E d \in Device : StartRevokeDevice(q, d)
                           \/ StartBan(q)
  <2>1. PICK q \in Proc : \/ \E d \in Device \cup {Nil} : StartLogin(q, d)
                          \/ \E t \in Token, d \in Device \cup {Nil} : StartRefresh(q, t, d)
                          \/ \E t \in Token : StartLogout(q, t)
                          \/ \E d \in Device : StartRevokeDevice(q, d)
                          \/ StartBan(q)
    BY <1>3
  <2>2. CASE \E d \in Device \cup {Nil} : StartLogin(q, d)
    BY <1>1, <2>2 DEF StartLogin, Idle
  <2>3. CASE \E t \in Token, d \in Device \cup {Nil} : StartRefresh(q, t, d)
    BY <1>1, <2>3 DEF StartRefresh, Idle
  <2>4. CASE \E t \in Token : StartLogout(q, t)
    BY <1>1, <2>4 DEF StartLogout, Idle
  <2>5. CASE \E d \in Device : StartRevokeDevice(q, d)
    BY <1>1, <2>5 DEF StartRevokeDevice, Idle
  <2>6. CASE StartBan(q)
    BY <1>1, <2>6 DEF StartBan, Idle
  <2>7. QED
    BY <2>1, <2>2, <2>3, <2>4, <2>5, <2>6
<1>4. CASE (\E t \in Token : Expire(t)) \/ Unban \/ UNCHANGED vars
  BY <1>4 DEF Expire, Unban, vars
<1>5. QED
  BY <1>2, <1>3, <1>4 DEF Next

-----------------------------------------------------------------------------
(* The refinement of SessionStore: the live rows of a session are the tokens it
   works with, its rows are all it ever had. *)
Live(s) == {t \in Token : sess[t] = s /\ status[t] = "live"}
Had(s) == {t \in Token : sess[t] = s}

(* A row inserted into session s as its only live one is issued by the store. *)
LEMMA InsertIssues ==
  ASSUME NEW s \in Session, NEW t \in Token,
         \A r \in Session : t \notin Had(r),
         Live(s)' = {t}, Had(s)' = Had(s) \cup {t},
         \A r \in Session : r # s => Live(r)' = Live(r) /\ Had(r)' = Had(r)
  PROVE  Store!Issue(s, t)
<1>1. [r \in Session |-> Live(r)]' = [[r \in Session |-> Live(r)] EXCEPT ![s] = {t}]
  OBVIOUS
<1>2. [r \in Session |-> Had(r)]'
        = [[r \in Session |-> Had(r)] EXCEPT ![s] = [r \in Session |-> Had(r)][s] \cup {t}]
  OBVIOUS
<1>3. QED
  BY <1>1, <1>2 DEF Store!Issue, Live, Had

(* A login opens a session that nobody had. *)
LEMMA CreateOpens ==
  ASSUME IInv, NEW p \in Proc, CreateSession(p)
  PROVE  Store!Next
<1> USE DEF IInv
<1>1. PICK t \in Token, s \in Session :
         /\ FreshSession(s) /\ FreshToken(t)
         /\ status' = [status EXCEPT ![t] = "live"]
         /\ sess' = [sess EXCEPT ![t] = s]
  BY DEF CreateSession
<1>2. sess[t] = Nil /\ \A u \in Token : sess[u] # s
  BY <1>1 DEF FreshSession, FreshToken, RowInv
<1>3. /\ \A u \in Token : sess'[u] = IF u = t THEN s ELSE sess[u]
      /\ \A u \in Token : status'[u] = IF u = t THEN "live" ELSE status[u]
  BY <1>1 DEF TypeOK
<1>4. Store!Issue(s, t)
  <2>1. \A r \in Session : t \notin Had(r)
    BY <1>2, NilAssumption DEF Had
  <2>2. Live(s)' = {t} /\ Had(s)' = Had(s) \cup {t}
    BY <1>2, <1>3 DEF Live, Had
  <2>3. \A r \in Session : r # s => Live(r)' = Live(r) /\ Had(r)' = Had(r)
    BY <1>2, <1>3, NilAssumption DEF Live, Had
  <2>4. QED
    BY <2>1, <2>2, <2>3, InsertIssues
<1>5. {u \in Token : sess[u] = s} = {}
  BY <1>2
<1>6. QED
  BY <1>4, <1>5 DEF Store!Next, Store!Open

(* A commit rotates the session of the row, or opens one if it had none: the
   row was live until then, and the only one of its session. *)
LEMMA CommitRotates ==
  ASSUME IInv, NEW p \in Proc, CommitRotation(p)
  PROVE  Store!Next
<1> USE DEF IInv
<1>1. PICK t \in Token, n \in Token, s \in Session :
         /\ Sound(p, job[p]) /\ job[p].pc = "commit"
         /\ job[p].tok = t /\ job[p].new = n /\ job[p].ses = s
         /\ status' = [status EXCEPT ![t] = "rotated", ![n] = "live"]
         /\ sess' = [sess EXCEPT ![n] = s]
  BY DEF JobInv, Sound, CommitRotation, NextDevice
<1>2. /\ t # n
      /\ status[t] = "live" /\ status[n] = "absent" /\ sess[n] = Nil
      /\ sess[t] # s => sess[t] = Nil /\ \A u \in Token : sess[u] # s
  BY <1>1 DEF Sound, RowInv
<1>3. /\ \A u \in Token : sess'[u] = IF u = n THEN s ELSE sess[u]
      /\ \A u \in Token : status'[u] =
                             IF u = n THEN "live" ELSE IF u = t THEN "rotated" ELSE status[u]
  BY <1>1, <1>2 DEF TypeOK
<1>4. \A u \in Token : sess[u] = s /\ status[u] = "live" => u = t
  BY <1>2, NilAssumption DEF OneTipPerSession
<1>5. Store!Issue(s, n)
  <2>1. \A r \in Session : n \notin Had(r)
    BY <1>2, NilAssumption DEF Had
  <2>2. Live(s)' = {n} /\ Had(s)' = Had(s) \cup {n}
    BY <1>2, <1>3, <1>4 DEF Live, Had
  <2>3. \A r \in Session : r # s => Live(r)' = Live(r) /\ Had(r)' = Had(r)
    BY <1>2, <1>3, NilAssumption DEF Live, Had
  <2>4. QED
    BY <1>2, <2>1, <2>2, <2>3, InsertIssues
<1>6. CASE sess[t] = s
  <2>1. {u \in Token : sess[u] = s /\ status[u] = "live"} # {}
    BY <1>2, <1>6
  <2>2. QED
    BY <1>2, <1>5, <2>1 DEF Store!Next, Store!Rotate
<1>7. CASE sess[t] # s
  <2>1. {u \in Token : sess[u] = s} = {}
    BY <1>2, <1>7
  <2>2. QED
    BY <1>2, <1>5, <2>1 DEF Store!Next, Store!Open
<1>8. QED
  BY <1>6, <1>7

(* An updateMany closes the sessions whose live row it writes, all at once. *)
LEMMA ApplyCloses ==
  ASSUME IInv, NEW p \in Proc, RevokeApply(p)
  PROVE  Store!Next
<1> USE DEF IInv
<1>1. /\ \A t \in Token : status'[t] = IF t \in job[p].scan /\ status[t] = "live"
                                         THEN "revoked" ELSE status[t]
      /\ sess' = sess /\ job[p].scan \subseteq Token
  BY DEF RevokeApply, TypeOK, Job
<1>2. PICK ss \in SUBSET Session :
         ss = {s \in Session : \E t \in job[p].scan : sess[t] = s /\ status[t] = "live"}
  OBVIOUS
<1>3. ASSUME NEW s \in Session
      PROVE  Live(s)' = (IF s \in ss THEN {} ELSE Live(s)) /\ Had(s)' = Had(s)
  <2>1. Had(s)' = Had(s)
    BY <1>1 DEF Had
  <2>2. CASE s \in ss
    <3>1. PICK t \in job[p].scan : sess[t] = s /\ status[t] = "live"
      BY <1>2, <2>2
    <3>2. \A u \in Token : sess[u] = s /\ status[u] = "live" => u = t
      BY <1>1, <3>1, NilAssumption DEF OneTipPerSession
    <3>3. Live(s)' = {}
      BY <1>1, <3>1, <3>2 DEF Live
    <3>4. QED
      BY <2>1, <2>2, <3>3
  <2>3. CASE s \notin ss
    <3>1. Live(s)' = Live(s)
      BY <1>1, <1>2, <2>3 DEF Live
    <3>2. QED
      BY <2>1, <2>3, <3>1
  <2>4. QED
    BY <2>2, <2>3
<1>4. Store!Close(ss)
  <2>1. [s \in Session |-> Live(s)]'
          = [s \in Session |-> IF s \in ss THEN {} ELSE [r \in Session |-> Live(r)][s]]
    BY <1>3
  <2>2. [s \in Session |-> Had(s)]' = [s \in Session |-> Had(s)]
    BY <1>3
  <2>3. QED
    BY <2>1, <2>2 DEF Store!Close, Live, Had
<1>5. QED
  BY <1>4 DEF Store!Next

(* Every other step leaves the rows alone. *)
LEMMA OthersKeepRows ==
  ASSUME Next,
         ~\E p \in Proc : CreateSession(p) \/ CommitRotation(p) \/ RevokeApply(p)
  PROVE  UNCHANGED rows
BY DEF Next, Step, StartLogin, StartRefresh, StartLogout, StartRevokeDevice, StartBan, Expire,
       Unban, QueryFails, Find, Walk, BeginRotation, LoseRace, RevokeScan

(* Whatever requests race, the sessions keep what SessionStore promises: one
   token at a time, replaced by a fresh one only while the session is open, and
   a session that was closed stays closed.  A row becomes live only at a login,
   in a session nobody had, or at a commit, whose row was live until then. *)
THEOREM SessionsAreStore == Spec => KeepsStore
<1>1. Init => Store!Init
  <2> SUFFICES ASSUME Init PROVE Store!Init
    OBVIOUS
  <2>1. \A s \in Session : /\ {t \in Token : sess[t] = s} = {}
                           /\ {t \in Token : sess[t] = s /\ status[t] = "live"} = {}
    BY NilAssumption DEF Init
  <2>2. QED
    BY <2>1 DEF Store!Init
<1>2. IInv /\ [Next]_vars => [Store!Next]_(Store!vars)
  <2> SUFFICES ASSUME IInv, [Next]_vars PROVE Store!Next \/ UNCHANGED Store!vars
    OBVIOUS
  <2>1. CASE \E p \in Proc : CreateSession(p) \/ CommitRotation(p) \/ RevokeApply(p)
    BY <2>1, CreateOpens, CommitRotates, ApplyCloses
  <2>2. CASE UNCHANGED rows
    BY <2>2 DEF rows, Store!vars
  <2>3. QED
    BY <2>1, <2>2, OthersKeepRows DEF vars, rows
<1>3. QED
  BY <1>1, <1>2, Inductive, PTL DEF Spec, KeepsStore, Store!Spec

-----------------------------------------------------------------------------
(* A turn of the walk that denies has met a row that is neither usable nor to
   be followed. *)
LEMMA ResolveDenies ==
  ASSUME NEW p \in Proc, NEW t, NEW h, job \in [Proc -> Job],
         ~job[p].denied, Resolve(p, t, h), job'[p].denied
  PROVE  ~Usable(t) /\ ~Follows(t, h)
<1>1. ~Answer(p, t)
  BY DEF Answer, Idle
<1>2. ASSUME NEW a, job' = [job EXCEPT ![p].pc = "scan", ![p].at = a] PROVE FALSE
  BY <1>2 DEF Job
<1>3. ~Follows(t, h)
  <2>1. SUFFICES ASSUME Follows(t, h) PROVE FALSE
    OBVIOUS
  <2>2. job' = [job EXCEPT ![p].pc = "walk", ![p].at = next[t], ![p].hop = h + 1]
    BY <1>1, <1>2, <2>1 DEF Resolve
  <2>3. QED
    BY <2>2 DEF Job
<1>4. QED
  BY <1>1, <1>2, <1>3 DEF Resolve

(* A refresh is denied for a cause: since a session has one tip, a walk that
   ends on a row revoked or expired has seen all that is left of the session. *)
THEOREM DenialHasCause == Spec => NoSpuriousDenial
<1> DEFINE A == \A p \in Proc :
                  job[p].pc \in {"find", "walk"} /\ job'[p].denied => DeniedForCause(p)
<1>1. IInv /\ [Next]_vars => [A]_vars
  <2> SUFFICES ASSUME IInv, [Next]_vars, vars' # vars, NEW p \in Proc,
                      job[p].pc \in {"find", "walk"}, job'[p].denied
               PROVE  DeniedForCause(p)
    OBVIOUS
  <2> USE DEF IInv
  <2> DEFINE t == LastRead(p)
  <2>1. /\ job[p] \in Job /\ Sound(p, job[p]) /\ job \in [Proc -> Job]
        /\ t \in Token /\ status[t] # "absent"
    BY DEF TypeOK, JobInv, Sound, LastRead
  <2>2. ~job[p].denied /\ job[p].pc # "idle" /\ job[p].pc # "commit"
    BY <2>1 DEF Sound
  <2>3. Step(p) \/ QueryFails(p)
    BY <2>2, OtherJobs
  <2>4. ~QueryFails(p)
    BY <2>1 DEF QueryFails, Finish, Idle
  <2>5. ~Usable(t) /\ ~Follows(t, job[p].hop)
    <3>1. CASE Find(p)
      <4>1. Resolve(p, t, 0) /\ job[p].hop = 0
        <5>1. ASSUME NEW pc, Goto(p, pc) PROVE FALSE
          BY <2>1, <2>2, <5>1 DEF Goto, Job
        <5>2. QED
          BY <2>1, <2>2, <3>1, <5>1 DEF Find, LastRead, Sound
      <4>2. QED
        BY <2>1, <2>2, <4>1, ResolveDenies
    <3>2. CASE Walk(p)
      <4>1. Resolve(p, t, job[p].hop)
        BY <3>2 DEF Walk, LastRead
      <4>2. QED
        BY <2>1, <2>2, <4>1, ResolveDenies
    <3>3. QED
      BY <2>3, <2>4, <3>1, <3>2
      DEF Step, CreateSession, BeginRotation, LoseRace, CommitRotation, RevokeScan, RevokeApply
  <2>6. CASE status[t] = "rotated"
    BY <2>1, <2>5, <2>6, MaxHopsAssumption DEF Follows, Job, DeniedForCause
  <2>7. CASE status[t] # "rotated" /\ sess[t] = Nil
    BY <2>5, <2>7 DEF DeniedForCause
  <2>8. CASE status[t] # "rotated" /\ sess[t] # Nil
    <3>1. status[t] \in {"live", "revoked"}
      BY <2>1, <2>8 DEF TypeOK, Status
    <3>2. \A u \in Token : sess[u] = sess[t] /\ Usable(u) => u = t
      BY <2>1, <2>8, <3>1 DEF OneTipPerSession, Usable
    <3>3. QED
      BY <2>5, <2>8, <3>2 DEF DeniedForCause
  <2>9. QED
    BY <2>6, <2>7, <2>8
<1>2. QED
  BY <1>1, Inductive, PTL DEF Spec, NoSpuriousDenial

(* A refresh never hands out a token of another session: the walk stays in the
   session of the token presented, and so does the successor of a rotation. *)
THEOREM AnswerIsOwn == Spec => AnswersOwnSession
<1> DEFINE A == \A p \in Proc, t \in issued' \ issued :
                   job[p].kind = "refresh" /\ job[p].pc # "idle" /\ job'[p].pc = "idle" =>
                      sess[job[p].tok] = Nil \/ sess'[t] = sess[job[p].tok]
<1>1. IInv /\ [Next]_vars => [A]_vars
  <2> SUFFICES ASSUME IInv, [Next]_vars, NEW p \in Proc, NEW t \in issued' \ issued,
                      job[p].kind = "refresh", job[p].pc # "idle", job'[p].pc = "idle",
                      sess[job[p].tok] # Nil
               PROVE  sess'[t] = sess[job[p].tok]
    OBVIOUS
  <2> USE DEF IInv
  <2>1. job[p] \in Job /\ Sound(p, job[p]) /\ job \in [Proc -> Job]
    BY DEF TypeOK, JobInv
  <2>2. Step(p)
    BY OtherJobs DEF QueryFails, Finish
  <2>3. CASE Find(p) \/ Walk(p)
    <3>1. PICK u \in Token, h \in Nat : Resolve(p, u, h) /\ sess[u] = sess[job[p].tok]
      BY <2>1, <2>3, MaxHopsAssumption DEF Find, Walk, Goto, Sound, Job
    <3>2. issued' \in {issued, issued \cup {u}}
      BY <3>1 DEF Resolve, Answer, Finish
    <3>3. QED
      BY <2>3, <3>1, <3>2 DEF Find, Walk, rows
  <2>4. CASE CommitRotation(p)
    <3>1. t = job[p].new /\ sess' = [sess EXCEPT ![job[p].new] = job[p].ses] /\ job[p].pc = "commit"
      BY <2>4 DEF CommitRotation, NextDevice, Answer
    <3>2. QED
      BY <2>1, <3>1 DEF Sound, TypeOK
  <2>5. CASE UNCHANGED issued
    BY <2>5
  <2>6. ~CreateSession(p)
    BY <2>1 DEF CreateSession, Sound
  <2>7. QED
    BY <2>2, <2>3, <2>4, <2>5, <2>6
    DEF Step, BeginRotation, LoseRace, RevokeScan, RevokeApply, Finish
<1>2. QED
  BY <1>1, Inductive, PTL DEF Spec, AnswersOwnSession
=============================================================================
