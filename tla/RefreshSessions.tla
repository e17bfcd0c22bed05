--------------------------- MODULE RefreshSessions ---------------------------
(***************************************************************************)
(* Refresh-token sessions of the server (src/src/lib/authSessions.ts): the *)
(* refreshToken table of one user, and the HTTP requests that read and     *)
(* write it at the same time: login, refresh, logout and the revocation of *)
(* a device.                                                               *)
(*                                                                         *)
(* Every await on the database is a point where other requests run, so a   *)
(* request is a record job[p] with a program counter.  The rotation is one *)
(* interactive transaction (READ COMMITTED, the default of Postgres and of *)
(* Prisma): its UPDATE takes the lock of the row, its effects are seen by  *)
(* others at commit.  An updateMany takes a snapshot of the rows that      *)
(* match, waits for the locks on them, and writes those that still match.  *)
(*                                                                         *)
(* Abstracted: JWT signatures (a client can only present what it was       *)
(* issued), the client name, dates (a row is expired or not), other users  *)
(* (every query is keyed by the user or by an unguessable token), and the  *)
(* comparison of the token's did claim with the row, which were written    *)
(* from the same row and cannot differ.                                    *)
(***************************************************************************)
EXTENDS Naturals, FiniteSets

CONSTANTS
    Token,      \* values of crypto.randomUUID() used as refresh-token ids
    Session,    \* values of crypto.randomUUID() used as session ids
    Device,     \* device ids of the user
    Proc,       \* HTTP requests in flight
    Legacy,     \* rows of before the sessionId column, live at the start
    MaxHops,    \* 16 in the code: how far a replacedByToken chain is followed
    Nil

ASSUME LegacyAssumption == Legacy \subseteq Token
ASSUME MaxHopsAssumption == MaxHops \in Nat \ {0}
ASSUME NilAssumption == Nil \notin Token \cup Session \cup Device \cup Proc

VARIABLES
    status,     \* [Token -> Status]: revokedAt and revocationReason of a row
    sess,       \* [Token -> Session or Nil]: sessionId
    dev,        \* [Token -> Device or Nil]: deviceId
    next,       \* [Token -> Token or Nil]: replacedByToken
    expired,    \* rows whose expiresAt has passed
    lock,       \* [Token -> Proc or Nil]: the open transaction holding the row
    issued,     \* tokens some client holds
    banned,     \* bannedAt of the user is set
    job         \* [Proc -> Job]

rows == <<status, sess, dev, next>>
vars == <<status, sess, dev, next, expired, lock, issued, banned, job>>

Status == {"absent", "live", "rotated", "revoked"}

Job == [pc    : {"idle", "create", "find", "walk", "rotate", "commit", "scan", "apply"},
        kind  : {"login", "refresh", "logout", "device", "ban"},
        tok   : Token \cup {Nil},        \* the token presented
        did   : Device \cup {Nil},       \* the device of the request
        at    : Token \cup {Nil},        \* the row resolveActive... is to read
        hop   : 0 .. MaxHops - 1,
        new   : Token \cup {Nil},        \* nextRecord.token ...
        ses   : Session \cup {Nil},      \* ... and nextRecord.sessionId
        scan  : SUBSET Token,            \* rows matched by an updateMany
        denied : BOOLEAN]                \* the last answer was a 401

Idle == [pc |-> "idle", kind |-> "refresh", tok |-> Nil, did |-> Nil,
         at |-> Nil, hop |-> 0, new |-> Nil, ses |-> Nil, scan |-> {},
         denied |-> FALSE]

Init ==
    /\ status  = [t \in Token |-> IF t \in Legacy THEN "live" ELSE "absent"]
    /\ sess    = [t \in Token |-> Nil]
    /\ dev     = [t \in Token |-> Nil]
    /\ next    = [t \in Token |-> Nil]
    /\ expired = {}
    /\ lock    = [t \in Token |-> Nil]
    /\ issued  = Legacy
    /\ banned  = FALSE
    /\ job     = [p \in Proc |-> Idle]

-----------------------------------------------------------------------------
(* crypto.randomUUID(): a value no row and no request in flight has. *)
FreshToken(t) ==
    /\ status[t] = "absent"
    /\ \A q \in Proc : job[q].new # t

FreshSession(s) ==
    /\ \A t \in Token : sess[t] # s
    /\ \A q \in Proc : job[q].ses # s

Usable(t) == status[t] = "live" /\ t \notin expired

(* The answer to a refresh: the issued token reaches the client, or the
   response is lost on the way. *)
Answer(p, t) ==
    /\ job' = [job EXCEPT ![p] = Idle]
    /\ issued' \in {issued, issued \cup {t}}

Finish(p, denied) ==
    /\ job' = [job EXCEPT ![p] = [Idle EXCEPT !.denied = denied]]
    /\ UNCHANGED issued

Goto(p, pc) ==
    /\ job' = [job EXCEPT ![p].pc = pc]
    /\ UNCHANGED issued

-----------------------------------------------------------------------------
(* /login: the user is read and is not banned.  Verifying the password and
   the writes of a registration are awaited before the session is created. *)
StartLogin(p, d) ==
    /\ job[p].pc = "idle"
    /\ ~banned
    /\ job' = [job EXCEPT ![p] =
                  [Idle EXCEPT !.pc = "create", !.kind = "login", !.did = d]]
    /\ UNCHANGED <<rows, expired, lock, issued, banned>>

(* createRefreshSession: a row of a new session. *)
CreateSession(p) ==
    /\ job[p].pc = "create"
    /\ \E t \in Token, s \in Session :
          /\ FreshToken(t)
          /\ FreshSession(s)
          /\ status' = [status EXCEPT ![t] = "live"]
          /\ sess'   = [sess EXCEPT ![t] = s]
          /\ dev'    = [dev EXCEPT ![t] = job[p].did]
          /\ Answer(p, t)
    /\ UNCHANGED <<next, expired, lock, banned>>

(* expiresAt passes.  The JWT expires with it: see StartRefresh. *)
Expire(t) ==
    /\ status[t] # "absent"
    /\ t \notin expired
    /\ expired' = expired \cup {t}
    /\ UNCHANGED <<rows, lock, issued, banned, job>>

(* A request arrives with a token some client holds.  verifyRefreshToken
   turns away an expired JWT before the table is read. *)
StartRefresh(p, t, d) ==
    /\ job[p].pc = "idle"
    /\ t \in issued \ expired
    /\ job' = [job EXCEPT ![p] = [Idle EXCEPT !.pc = "find", !.tok = t, !.did = d]]
    /\ UNCHANGED <<rows, expired, lock, issued, banned>>

StartLogout(p, t) ==
    /\ job[p].pc = "idle"
    /\ t \in issued \ expired
    /\ job' = [job EXCEPT ![p] =
                  [Idle EXCEPT !.pc = "find", !.kind = "logout", !.tok = t]]
    /\ UNCHANGED <<rows, expired, lock, issued, banned>>

StartRevokeDevice(p, d) ==
    /\ job[p].pc = "idle"
    /\ d \in Device
    /\ job' = [job EXCEPT ![p] =
                  [Idle EXCEPT !.pc = "scan", !.kind = "device", !.did = d]]
    /\ UNCHANGED <<rows, expired, lock, issued, banned>>

(* banUser marks the user, then revokes every token; unbanUser clears the
   mark only. *)
StartBan(p) ==
    /\ job[p].pc = "idle"
    /\ banned' = TRUE
    /\ job' = [job EXCEPT ![p] = [Idle EXCEPT !.pc = "scan", !.kind = "ban"]]
    /\ UNCHANGED <<rows, expired, lock, issued>>

Unban ==
    /\ banned
    /\ banned' = FALSE
    /\ UNCHANGED <<rows, expired, lock, issued, job>>

(* One turn of the loop of resolveActiveRefreshTokenRecord, on row t read at
   hop h: t is the current record; or it was rotated and the next is to be
   read; or there is none (revoked, expired, or the loop ran out).
   Mutants: one hop too many; no chain is followed. *)
FollowsPastLimit(t, h) == status[t] = "rotated" /\ h < MaxHops
FollowsNothing(t, h) == FALSE
Follows(t, h) == status[t] = "rotated" /\ h + 1 < MaxHops

Resolve(p, t, h) ==
    \/ /\ Usable(t)
       /\ job[p].kind = "refresh"
       /\ Answer(p, t)
    \/ /\ Usable(t)
       /\ job[p].kind = "logout"
       /\ job' = [job EXCEPT ![p].pc = "scan", ![p].at = t]
       /\ UNCHANGED issued
    \/ /\ Follows(t, h)
       /\ job' = [job EXCEPT ![p].pc = "walk", ![p].at = next[t], ![p].hop = h + 1]
       /\ UNCHANGED issued
    \/ /\ ~Usable(t) /\ ~Follows(t, h)
       /\ job[p].kind = "refresh"
       /\ Finish(p, TRUE)
    \/ /\ ~Usable(t) /\ ~Follows(t, h)
       /\ job[p].kind = "logout"
       /\ job' = [job EXCEPT ![p].pc = "scan", ![p].at = Nil]
       /\ UNCHANGED issued

(* The first findRefreshTokenRecord of a refresh or a logout. *)
Find(p) ==
    LET t == job[p].tok IN
    /\ job[p].pc = "find"
    /\ \/ job[p].kind = "refresh" /\ Usable(t) /\ Goto(p, "rotate")
       \/ job[p].kind = "refresh" /\ ~Usable(t) /\ Resolve(p, t, 0)
       \/ job[p].kind = "logout" /\ sess[t] # Nil /\ Goto(p, "scan")
       \/ job[p].kind = "logout" /\ sess[t] = Nil /\ Resolve(p, t, 0)
    /\ UNCHANGED <<rows, expired, lock, banned>>

(* The next findRefreshTokenRecord of a chain walk. *)
Walk(p) ==
    /\ job[p].pc = "walk"
    /\ Resolve(p, job[p].at, job[p].hop)
    /\ UNCHANGED <<rows, expired, lock, banned>>

(* The where clause of the UPDATE, revokedAt: null.
   Mutant: any row with the token. *)
AnyRow(t) == status[t] # "absent"
Rotatable(t) == status[t] = "live"

(* buildNewRefreshTokenRecord: the session of the row goes on, a row without
   one starts a session.  Mutant: always a new session. *)
AlwaysNew(t, s) == FreshSession(s)
Continues(t, s) == IF sess[t] # Nil THEN s = sess[t] ELSE FreshSession(s)

(* buildNewRefreshTokenRecord and the conditional UPDATE that opens the
   transaction: it waits for the row, and matches only a row not revoked. *)
BeginRotation(p) ==
    LET t == job[p].tok IN
    /\ job[p].pc = "rotate"
    /\ lock[t] = Nil
    /\ Rotatable(t)
    /\ lock' = [lock EXCEPT ![t] = p]
    /\ \E n \in Token, s \in Session :
          /\ FreshToken(n)
          /\ Continues(t, s)
          /\ job' = [job EXCEPT ![p].pc = "commit", ![p].new = n, ![p].ses = s]
    /\ UNCHANGED <<rows, expired, issued, banned>>

(* updated.count === 0: another request rotated or revoked the row first;
   the record is read again and its chain followed.
   Mutant: the UPDATE is tried again. *)
LoseRaceRetries(p) ==
    /\ job[p].pc = "rotate"
    /\ lock[job[p].tok] = Nil /\ ~Rotatable(job[p].tok)
    /\ Goto(p, "rotate")
    /\ UNCHANGED <<rows, expired, lock, banned>>

LoseRace(p) ==
    LET t == job[p].tok IN
    /\ job[p].pc = "rotate"
    /\ lock[t] = Nil
    /\ ~Rotatable(t)
    /\ job' = [job EXCEPT ![p].pc = "walk", ![p].at = t, ![p].hop = 0]
    /\ UNCHANGED <<rows, expired, lock, issued, banned>>

(* A row's successor keeps its device; one that had none takes the request's.
   Mutant: the device of the request. *)
RequestDevice(p) == job[p].did
NextDevice(p) == IF dev[job[p].tok] # Nil THEN dev[job[p].tok] ELSE job[p].did

(* The transaction commits: the old row and its successor change together. *)
CommitRotation(p) ==
    LET t == job[p].tok
        n == job[p].new IN
    /\ job[p].pc = "commit"
    /\ status' = [status EXCEPT ![t] = "rotated", ![n] = "live"]
    /\ next'   = [next EXCEPT ![t] = n]
    /\ sess'   = [sess EXCEPT ![n] = job[p].ses]
    /\ dev'    = [dev EXCEPT ![n] = NextDevice(p)]
    /\ lock'   = [lock EXCEPT ![t] = Nil]
    /\ Answer(p, n)
    /\ UNCHANGED <<expired, banned>>

(* A query throws (the connection, a timeout): nothing of it is written, an
   open transaction is rolled back, the request answers 500. *)
QueryFails(p) ==
    /\ job[p].pc # "idle"
    /\ lock' = [t \in Token |-> IF lock[t] = p THEN Nil ELSE lock[t]]
    /\ Finish(p, FALSE)
    /\ UNCHANGED <<rows, expired, banned>>

(* The rows the where clause of an updateMany names. *)
Matches(p, t) ==
    \/ job[p].kind = "ban"
    \/ job[p].kind = "device" /\ dev[t] = job[p].did
    \/ job[p].kind = "logout" /\ sess[job[p].tok] # Nil /\ sess[t] = sess[job[p].tok]
    \/ job[p].kind = "logout" /\ sess[job[p].tok] = Nil /\ t \in {job[p].tok, job[p].at}

(* The updateMany reads its snapshot: committed rows only. *)
RevokeScan(p) ==
    /\ job[p].pc = "scan"
    /\ job' = [job EXCEPT ![p].pc = "apply",
                          ![p].scan = {t \in Token : status[t] = "live" /\ Matches(p, t)}]
    /\ UNCHANGED <<rows, expired, lock, issued, banned>>

(* No open transaction holds a row of the snapshot.
   Mutant: the UPDATE does not wait. *)
WaitsForNone(p) == job[p].pc = "apply"
Unlocked(p) == \A t \in job[p].scan : lock[t] = Nil

(* ... and writes the rows that are still not revoked once unlocked. *)
RevokeApply(p) ==
    /\ job[p].pc = "apply"
    /\ Unlocked(p)
    /\ status' = [t \in Token |->
                     IF t \in job[p].scan /\ status[t] = "live" THEN "revoked"
                     ELSE status[t]]
    /\ Finish(p, FALSE)
    /\ UNCHANGED <<sess, dev, next, expired, lock, banned>>

-----------------------------------------------------------------------------
Step(p) ==
    \/ CreateSession(p) \/ Find(p) \/ Walk(p)
    \/ BeginRotation(p) \/ LoseRace(p) \/ CommitRotation(p)
    \/ RevokeScan(p) \/ RevokeApply(p)

Next ==
    \/ \E p \in Proc, d \in Device \cup {Nil} : StartLogin(p, d)
    \/ \E t \in Token : Expire(t)
    \/ \E p \in Proc, t \in Token, d \in Device \cup {Nil} : StartRefresh(p, t, d)
    \/ \E p \in Proc, t \in Token : StartLogout(p, t)
    \/ \E p \in Proc, d \in Device : StartRevokeDevice(p, d)
    \/ \E p \in Proc : StartBan(p)
    \/ Unban
    \/ \E p \in Proc : Step(p) \/ QueryFails(p)

Spec == Init /\ [][Next]_vars

(* Node's event loop and the database answer every request they took, and
   Postgres wakes the transactions that wait for a row in their order. *)
Fairness == \A p \in Proc : SF_vars(Step(p))

FairSpec == Spec /\ Fairness

-----------------------------------------------------------------------------
(* The type of every variable. *)
TypeOK ==
    /\ status  \in [Token -> Status]
    /\ sess    \in [Token -> Session \cup {Nil}]
    /\ dev     \in [Token -> Device \cup {Nil}]
    /\ next    \in [Token -> Token \cup {Nil}]
    /\ expired \subseteq Token
    /\ lock    \in [Token -> Proc \cup {Nil}]
    /\ issued  \subseteq Token
    /\ banned  \in BOOLEAN
    /\ job     \in [Proc -> Job]

(* A session is one chain of rotations: of its rows at most one was not
   rotated away.  So two refreshes of one token that race, retries after a
   lost response and refreshes that race a logout never fork a session into
   two refresh tokens that both work (rotateRefreshSession). *)
OneTipPerSession ==
    \A t, u \in Token :
        /\ sess[t] # Nil /\ sess[t] = sess[u]
        /\ status[t] \in {"live", "revoked"} /\ status[u] \in {"live", "revoked"}
        => t = u

(* A rotated row's successor has its session and its device, so that
   revokeRefreshSession and revokeRefreshTokensForDevice, which select by
   them, find the row that replaced the one the client holds. *)
ChainKeepsIdentity ==
    \A t \in Token : status[t] = "rotated" =>
        /\ next[t] \in Token
        /\ status[next[t]] # "absent"
        /\ sess[t] # Nil => sess[next[t]] = sess[t]
        /\ dev[t] # Nil => dev[next[t]] = dev[t]

(* The rows of a session are one chain. *)
SessionIsChain == OneTipPerSession /\ ChainKeepsIdentity

(* The sessions keep the promise of SessionStore.  A session works with one
   token at a time, which a rotation replaces by a fresh one; and a session none
   of whose rows is live any more (logged out, or its device revoked) is never
   live again: a rotation in flight cannot revive it. *)
Store == INSTANCE SessionStore WITH
            tips <- [s \in Session |-> {t \in Token : sess[t] = s /\ status[t] = "live"}],
            used <- [s \in Session |-> {t \in Token : sess[t] = s}]

KeepsStore == Store!Spec

(* A refresh is answered 401 only when the session of the row it ended on
   has no usable row, or the chain is longer than the hops allowed: a client
   whose rotation response was lost is never logged out by retrying. *)
LastRead(p) == IF job[p].pc = "find" THEN job[p].tok ELSE job[p].at

DeniedForCause(p) ==
    \/ status[LastRead(p)] = "rotated" /\ job[p].hop + 1 = MaxHops
    \/ /\ sess[LastRead(p)] # Nil
       /\ \A t \in Token : sess[t] = sess[LastRead(p)] => ~Usable(t)
    \/ sess[LastRead(p)] = Nil /\ ~Usable(LastRead(p))

NoSpuriousDenial ==
    [][\A p \in Proc :
          job[p].pc \in {"find", "walk"} /\ job'[p].denied => DeniedForCause(p)]_vars

(* A refresh hands out a token of the session of the token it was given
   (a row of before sessions gets a session on its first rotation). *)
AnswersOwnSession ==
    [][\A p \in Proc, t \in issued' \ issued :
          job[p].kind = "refresh" /\ job[p].pc # "idle" /\ job'[p].pc = "idle" =>
             sess[job[p].tok] = Nil \/ sess'[t] = sess[job[p].tok]]_vars

(* The bounded sets of ids are used up: the request has none to take. *)
OutOfIds(p) ==
    /\ job[p].pc \in {"create", "rotate"}
    /\ \/ \A t \in Token : ~FreshToken(t)
       \/ \A s \in Session : ~FreshSession(s)

(* Every request is answered: the waits on row locks cannot form a cycle and
   the walk along a chain is bounded. *)
RequestsFinish ==
    \A p \in Proc : (job[p].pc # "idle") ~> (job[p].pc = "idle" \/ OutOfIds(p))

(* "Revoke every refresh token": when the updateMany of a ban is done, the
   user has no live token.  It does not hold: a rotation that commits, or a
   login past its check, puts a row in the table that the updateMany did not
   see. *)
BanRevokesAll ==
    [][\A p \in Proc : job[p].kind = "ban" /\ RevokeApply(p)
          => \A t \in Token : status'[t] # "live"]_vars
=============================================================================
