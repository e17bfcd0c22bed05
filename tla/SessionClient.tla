------------------------------ MODULE SessionClient ------------------------------
(***************************************************************************)
(* The session of the web client (src/frontend/src/core/auth/session.ts):  *)
(* the tokens of the store, the requests that find their access token      *)
(* refused, the one refresh they all wait for, the timer that refreshes    *)
(* before expiry (main.tsx), and the check of a stored session when the    *)
(* page is opened.                                                         *)
(*                                                                         *)
(* A token is its login and a number: of its row, if it is a refresh       *)
(* token, and of its issue, if it is an access token.  The server is what  *)
(* RefreshSessions is to a client: it rotates the newest row of a login,   *)
(* answers an older one of the chain, if not too old, with the newest, and *)
(* refuses every one once the login is revoked; each answer has an access  *)
(* token of its own.  Access tokens are not looked up, they only expire;   *)
(* but a query that throws is answered like an expired token               *)
(* (src/src/middlewares/auth.ts).                                          *)
(*                                                                         *)
(* Abstracted: the cookie, which the server prefers to the token of the    *)
(* store, and which is that or a newer one of the chain; and the session   *)
(* of the native Android application.                                      *)
(***************************************************************************)
EXTENDS Naturals

CONSTANTS
    Login,      \* logins, each of another user
    Req,        \* requests of the page at the same time
    MaxHops,    \* how far the server follows the chain of a token
    MaxGen,     \* bound: answers with tokens
    MaxSessionFaults,   \* bound: requests and answers that are lost, queries
                \*   that throw, and page loads
    NoLogin

ASSUME SessionBounds == {MaxHops, MaxSessionFaults} \subseteq Nat /\ MaxGen \in Nat \ {0}

VARIABLES
    gen,        \* [Login -> number of its newest row, 0 before the login]
    signed,     \* [Login -> number of its newest access token]
    live,       \* logins that are not revoked
    expired,    \* [Login -> number up to which its access tokens are expired]
    store,      \* the session of the store
    refresh,    \* refreshPromise
    xhr,        \* [Req -> a request, a timer's refresh or the check]
    sessionFaults,
    mixed       \* history: the last login came while a refresh was in flight

sessionVars == <<gen, signed, live, expired, store, refresh, xhr, sessionFaults, mixed>>

NoToken == [login |-> NoLogin, n |-> 0]
Token == [login : Login, n : 1 .. MaxGen] \cup {NoToken}
NoSession == [user |-> NoLogin, access |-> NoToken, refresh |-> NoToken]
StoredSession == [user : Login, access : Token \ {NoToken}, refresh : Token \ {NoToken}] \cup {NoSession}
SessionOf(l, token) == [user |-> l, access |-> token, refresh |-> token]

NoRefresh == [pc |-> "none", token |-> NoToken, access |-> NoToken, new |-> NoToken]
NoCall == [pc |-> "idle", kind |-> "call", access |-> NoToken, first |-> NoToken, snap |-> NoSession]

SessionInit ==
    /\ gen = [l \in Login |-> 0] /\ signed = [l \in Login |-> 0] /\ live = {}
    /\ expired = [l \in Login |-> 0]
    /\ store = NoSession /\ refresh = NoRefresh
    /\ xhr = [r \in Req |-> NoCall]
    /\ sessionFaults = 0 /\ mixed = FALSE

SignedIn == store # NoSession
SessionFault == sessionFaults < MaxSessionFaults /\ sessionFaults' = sessionFaults + 1
Checking == \E r \in Req : xhr[r].pc # "idle" /\ xhr[r].kind \in {"check", "recheck"}

-----------------------------------------------------------------------------
(* The user signs in and out; the page is not shown while it checks. *)
SignIn(l) ==
    /\ ~SignedIn /\ ~Checking /\ gen[l] = 0
    /\ gen' = [gen EXCEPT ![l] = 1] /\ signed' = [signed EXCEPT ![l] = 1]
    /\ live' = live \cup {l}
    /\ store' = SessionOf(l, [login |-> l, n |-> 1])
    /\ mixed' = (refresh.pc # "none")
    /\ UNCHANGED <<expired, refresh, xhr, sessionFaults>>

(* The server may not be reached. *)
SignOut ==
    /\ SignedIn /\ ~Checking
    /\ store' = NoSession
    /\ live' \in {live, live \ {store.refresh.login}}
    /\ UNCHANGED <<gen, signed, expired, refresh, xhr, sessionFaults, mixed>>

Revoke(l) ==
    /\ l \in live
    /\ live' = live \ {l}
    /\ UNCHANGED <<gen, signed, expired, store, refresh, xhr, sessionFaults, mixed>>

(* An access token lives fifteen minutes and a request fifteen seconds: none
   expires between its issue and the answer to the retry that carries it. *)
JustIssued(token) ==
    \/ refresh.pc = "done" /\ refresh.access = token
    \/ \E r \in Req : /\ xhr[r].pc = "sent" /\ xhr[r].access = token
                      /\ xhr[r].first # NoToken \/ xhr[r].kind = "recheck"

Expire(l) ==
    /\ signed[l] < MaxGen
    /\ \E n \in expired[l] + 1 .. signed[l] :
          /\ \A i \in 1 .. n : ~JustIssued([login |-> l, n |-> i])
          /\ expired' = [expired EXCEPT ![l] = n]
    /\ UNCHANGED <<gen, signed, live, store, refresh, xhr, sessionFaults, mixed>>

-----------------------------------------------------------------------------
(* refreshTokens: one refresh for all who wait. *)
StartsOrJoins ==
    refresh' = IF refresh.pc # "none" THEN refresh
               ELSE [NoRefresh EXCEPT !.pc = "sent", !.token = store.refresh]

(* A token is accepted while its login is live and it is not too old. *)
Accepts(token) == token.login \in live /\ gen[token.login] < token.n + MaxHops

RefreshServed ==
    LET l == refresh.token.login IN
    /\ refresh.pc = "sent"
    /\ IF Accepts(refresh.token)
       THEN /\ signed[l] < MaxGen
            /\ signed' = [signed EXCEPT ![l] = @ + 1]
            /\ gen' = IF refresh.token.n = gen[l] THEN [gen EXCEPT ![l] = @ + 1] ELSE gen
            /\ refresh' = [refresh EXCEPT !.pc = "done",
                                          !.access = [login |-> l, n |-> signed'[l]],
                                          !.new = [login |-> l, n |-> gen'[l]]]
       ELSE refresh' = [refresh EXCEPT !.pc = "refused"] /\ UNCHANGED <<gen, signed>>
    /\ UNCHANGED <<live, expired, store, xhr, sessionFaults, mixed>>

(* Those who wait for the refresh go on: a call is sent again, a check that
   failed asks once more who the user is.  Mutant: with the headers the request
   had. *)
ResendAsIs(r, session) ==
    IF xhr[r].pc # "wait" THEN xhr[r]
    ELSE IF xhr[r].kind = "timer" THEN NoCall
    ELSE [xhr[r] EXCEPT !.pc = "sent"]

Resend(r, session) ==
    IF xhr[r].pc # "wait" THEN xhr[r]
    ELSE CASE xhr[r].kind = "timer" -> NoCall
         [] xhr[r].kind = "again" ->
              [pc |-> "sent", kind |-> "recheck", access |-> session.access, first |-> NoToken, snap |-> session]
         [] OTHER -> [xhr[r] EXCEPT !.pc = "sent", !.access = session.access]

GivesUp(r) == IF xhr[r].pc = "wait" THEN NoCall ELSE xhr[r]

(* The tokens are written into the session there is now, whosever they are. *)
Writes == SignedIn

RefreshSucceeds ==
    /\ refresh.pc = "done"
    /\ LET updated == [store EXCEPT !.access = refresh.access, !.refresh = refresh.new] IN
       IF Writes
       THEN store' = updated /\ xhr' = [r \in Req |-> Resend(r, updated)]
       ELSE UNCHANGED store /\ xhr' = [r \in Req |-> GivesUp(r)]
    /\ refresh' = NoRefresh
    /\ UNCHANGED <<gen, signed, live, expired, sessionFaults, mixed>>

(* 401 or 403: the session is over. *)
RefreshRefused ==
    /\ refresh.pc = "refused"
    /\ refresh' = NoRefresh
    /\ store' = IF \E r \in Req : xhr[r].pc = "wait" THEN NoSession ELSE store
    /\ xhr' = [r \in Req |-> GivesUp(r)]
    /\ UNCHANGED <<gen, signed, live, expired, sessionFaults, mixed>>

(* No answer: it may be another time.  Mutant: the session is over, too. *)
SignsOutAnyway == store' = NoSession
KeepsSession == UNCHANGED store

(* The check at the start of a page refreshes once more. *)
Again == [NoCall EXCEPT !.pc = "wait", !.kind = "again"]
ChecksAgain(r) == SignedIn /\ xhr[r].pc = "wait" /\ xhr[r].kind = "check"

RefreshLost ==
    /\ refresh.pc \in {"sent", "done"} /\ SessionFault
    /\ refresh' = IF \E r \in Req : ChecksAgain(r)
                  THEN [NoRefresh EXCEPT !.pc = "sent", !.token = store.refresh]
                  ELSE NoRefresh
    /\ KeepsSession
    /\ xhr' = [r \in Req |-> IF ChecksAgain(r) THEN Again ELSE GivesUp(r)]
    /\ UNCHANGED <<gen, signed, live, expired, mixed>>

(* device:revoked, or a connection that is refused for it. *)
DeviceRevoked ==
    /\ SignedIn /\ store.user \notin live
    /\ store' = NoSession
    /\ UNCHANGED <<gen, signed, live, expired, refresh, xhr, sessionFaults, mixed>>

(* The timer, or the return to the tab. *)
TimerRefresh(r) ==
    /\ SignedIn /\ xhr[r].pc = "idle" /\ signed[store.refresh.login] < MaxGen
    /\ \A q \in Req : xhr[q].pc = "idle" \/ xhr[q].kind # "timer"
    /\ StartsOrJoins
    /\ xhr' = [xhr EXCEPT ![r] = [NoCall EXCEPT !.pc = "wait", !.kind = "timer"]]
    /\ UNCHANGED <<gen, signed, live, expired, store, sessionFaults, mixed>>

-----------------------------------------------------------------------------
(* A request of the page, with the access token of the store. *)
Call(r) ==
    /\ SignedIn /\ ~Checking /\ xhr[r].pc = "idle"
    /\ xhr' = [xhr EXCEPT ![r] = [NoCall EXCEPT !.pc = "sent", !.access = store.access]]
    /\ UNCHANGED <<gen, signed, live, expired, store, refresh, sessionFaults, mixed>>

(* The page is loaded: what was in flight is gone, and a stored session is
   checked. *)
LoadPage(r) ==
    /\ SignedIn /\ SessionFault
    /\ refresh' = NoRefresh
    /\ xhr' = [q \in Req |->
                  IF q = r THEN [pc |-> "sent", kind |-> "check", access |-> store.access,
                                 first |-> NoToken, snap |-> store]
                  ELSE NoCall]
    /\ UNCHANGED <<gen, signed, live, expired, store, mixed>>

Valid(token) == expired[token.login] < token.n
Retried(r) == xhr[r].first # NoToken

(* A check writes back the session it had read, with the user it was told. *)
Succeeds(r) ==
    /\ xhr[r].pc = "sent" /\ Valid(xhr[r].access)
    /\ store' = IF xhr[r].snap # NoSession THEN xhr[r].snap ELSE store
    /\ xhr' = [xhr EXCEPT ![r] = NoCall]
    /\ UNCHANGED <<gen, signed, live, expired, refresh, sessionFaults, mixed>>

(* authenticate: 401 for a token that expired, or when its query throws. *)
Answers401(r) ==
    /\ xhr[r].pc = "sent"
    /\ \/ ~Valid(xhr[r].access) /\ UNCHANGED sessionFaults
       \/ SessionFault

(* The interceptor: the first 401 waits for a refresh. *)
Unauthorized(r) ==
    /\ Answers401(r) /\ ~Retried(r)
    /\ IF SignedIn
       THEN /\ StartsOrJoins
            /\ xhr' = [xhr EXCEPT ![r].pc = "wait", ![r].first = xhr[r].access]
       ELSE xhr' = [xhr EXCEPT ![r] = NoCall] /\ UNCHANGED refresh
    /\ UNCHANGED <<gen, signed, live, expired, store, mixed>>

(* A check that failed refreshes; the one after it signs out when refused. *)
CheckFailed(r) ==
    /\ xhr[r].kind = "check" /\ SignedIn
    /\ StartsOrJoins
    /\ xhr' = [xhr EXCEPT ![r] = Again]

RefusedAgain(r) ==
    /\ Answers401(r) /\ Retried(r)
    /\ \/ CheckFailed(r) /\ UNCHANGED store
       \/ /\ xhr[r].kind # "check"
          /\ xhr' = [xhr EXCEPT ![r] = NoCall]
          /\ store' = IF xhr[r].kind = "recheck" THEN NoSession ELSE store
          /\ UNCHANGED refresh
    /\ UNCHANGED <<gen, signed, live, expired, mixed>>

CallLost(r) ==
    /\ xhr[r].pc = "sent" /\ SessionFault
    /\ \/ CheckFailed(r)
       \/ /\ xhr[r].kind # "check"
          /\ xhr' = [xhr EXCEPT ![r] = NoCall] /\ UNCHANGED refresh
    /\ UNCHANGED <<gen, signed, live, expired, store, mixed>>

-----------------------------------------------------------------------------
Refreshes == RefreshServed \/ RefreshSucceeds \/ RefreshRefused \/ RefreshLost

SessionNext ==
    \/ \E l \in Login : SignIn(l) \/ Revoke(l) \/ Expire(l)
    \/ SignOut \/ DeviceRevoked
    \/ Refreshes
    \/ \E r \in Req :
          \/ Call(r) \/ LoadPage(r) \/ TimerRefresh(r)
          \/ Succeeds(r) \/ Unauthorized(r) \/ RefusedAgain(r) \/ CallLost(r)

SessionSpec == SessionInit /\ [][SessionNext]_sessionVars

-----------------------------------------------------------------------------
(* The type of every variable: a session is whole or there is none. *)
SessionTypeOK ==
    /\ gen \in [Login -> 0 .. MaxGen] /\ signed \in [Login -> 0 .. MaxGen]
    /\ live \subseteq Login
    /\ expired \in [Login -> 0 .. MaxGen]
    /\ store \in StoredSession
    /\ refresh \in [pc : {"none", "sent", "done", "refused"}, token : Token, access : Token, new : Token]
    /\ xhr \in [Req -> [pc : {"idle", "sent", "wait"},
                        kind : {"call", "timer", "check", "again", "recheck"},
                        access : Token, first : Token, snap : StoredSession]]
    /\ sessionFaults \in 0 .. MaxSessionFaults /\ mixed \in BOOLEAN

(* The page signs the user out by itself only if the server has revoked the
   login ("only when the refresh is explicitly invalid", main.tsx:704), or if
   the token it holds is as many rotations behind as the server follows a
   chain: a lost answer, requests refused together, or the older tokens that
   the check of the page writes over newer ones do not end a session by
   themselves.  Except that somebody signed in while the refresh of an earlier
   session was in flight, or that the server, which cannot look the user up,
   answers 401 to the tokens it has just issued when the check asks again. *)
SignedOutOnlyWhenRevoked ==
    [][SignedIn /\ store' = NoSession /\ ~SignOut =>
          \/ store.user \notin live
          \/ gen[store.user] >= store.refresh.n + MaxHops
          \/ mixed
          \/ \E r \in Req : xhr[r].kind = "recheck" /\ RefusedAgain(r) /\ Valid(xhr[r].access)]_sessionVars

(* A retry carries another token than the one that was refused, a newer one
   if it is of the same login: a request never fails because it was sent again
   with the tokens of before the refresh it waited for. *)
RetriesWithNewer ==
    \A r \in Req :
        Retried(r) /\ xhr[r].pc = "sent" =>
            \/ xhr[r].access.login # xhr[r].first.login
            \/ xhr[r].access.n > xhr[r].first.n
-----------------------------------------------------------------------------
(* What the client is given is no more than the sessions promise: the server
   of this module opens, rotates and closes a login as SessionStore does a
   session, which RefreshSessions implements. *)
Rows(l) == {[login |-> l, n |-> i] : i \in 1 .. gen[l]}
Newest(l) == [login |-> l, n |-> gen[l]]

Store == INSTANCE SessionStore WITH
            Session <- Login,
            tips <- [l \in Login |-> IF l \in live THEN {Newest(l)} ELSE {}],
            used <- [l \in Login |-> Rows(l)]

ServedByStore == Store!Spec
=============================================================================
