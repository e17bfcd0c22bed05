----------------------------- MODULE SessionStore -----------------------------
(***************************************************************************)
(* What the sessions of refresh tokens promise                             *)
(* (src/src/lib/authSessions.ts), whatever requests race: a session works  *)
(* with one token at a time, which is replaced by one that nobody had, in  *)
(* no session; and a session that was closed is never opened again.        *)
(***************************************************************************)
CONSTANTS Session, Token

VARIABLES
    tips,       \* [Session -> the tokens it can be rotated with]
    used        \* [Session -> all tokens it ever had]

vars == <<tips, used>>

Init ==
    /\ tips = [s \in Session |-> {}]
    /\ used = [s \in Session |-> {}]

Issue(s, t) ==
    /\ \A r \in Session : t \notin used[r]
    /\ tips' = [tips EXCEPT ![s] = {t}]
    /\ used' = [used EXCEPT ![s] = used[s] \cup {t}]

Open(s, t) == used[s] = {} /\ Issue(s, t)

Rotate(s, t) == tips[s] # {} /\ Issue(s, t)

(* A logout closes a session, a ban or a revoked device several. *)
Close(ss) ==
    /\ tips' = [s \in Session |-> IF s \in ss THEN {} ELSE tips[s]]
    /\ UNCHANGED used

Next ==
    \/ \E s \in Session, t \in Token : Open(s, t) \/ Rotate(s, t)
    \/ \E ss \in SUBSET Session : Close(ss)

Spec == Init /\ [][Next]_vars
=============================================================================
