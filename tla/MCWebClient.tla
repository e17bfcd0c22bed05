----------------------------- MODULE MCWebClient ------------------------------
(***************************************************************************)
(* The safety properties of the web client: its secret chats, its session  *)
(* and its history, each in an instance of its own.  The initial state     *)
(* chooses the part that moves.  SecretSetup moves in two of them: two     *)
(* shares at a time without a linked device, or one with it and faults     *)
(* only while linked keys are on the way.                                  *)
(***************************************************************************)
EXTENDS SecretSetup, History, SessionClient, TLC

CONSTANTS
    a1, a2, d1, d2,     \* devices of the creator and of the peer
    t1, k1,             \* a thread and a prekey
    c1, c2,             \* conversations and logins
    j1, j2, q1,         \* things in progress, and one that is not symmetric
    x1, x2              \* copies of messages

VARIABLE part

setupVars == vars

PartsInit ==
    /\ part \in {"setup", "link", "history", "session"}
    /\ Init /\ HistoryInit /\ SessionInit
    /\ part # "history" => owner = <<>>

PartsNext ==
    /\ UNCHANGED part
    /\ \/ /\ part = "setup" /\ Next
          /\ \A m \in msgs' : m.kind # "join"
          /\ UNCHANGED <<historyVars, sessionVars>>
       \/ /\ part = "link" /\ Next
          /\ Cardinality({j \in Job : job'[j].pc # "idle"}) <= 1
          /\ faults' # faults => \E m \in msgs : m.kind = "link"
          /\ UNCHANGED <<historyVars, sessionVars>>
       \/ /\ part = "history" /\ HistoryNext
          /\ UNCHANGED <<setupVars, sessionVars>>
       \/ /\ part = "session" /\ SessionNext
          /\ UNCHANGED <<setupVars, historyVars>>

PartsSpec == PartsInit /\ [][PartsNext]_<<part, setupVars, historyVars, sessionVars>>

(* Two swaps: s and t together with u and v. *)
Swap(s, t) == s :> t @@ t :> s
Swaps(s, t, u, v) ==
    {p \in Permutations({s, t, u, v}) :
        p[s] \in {s, t} /\ p[u] \in {u, v} /\ (p[s] = s <=> p[u] = u)}
Symmetry == Swaps(a1, a2, c1, c2) \cup Swaps(j1, j2, x1, x2)

-----------------------------------------------------------------------------
(* The types of the variables of the part that moves. *)
PartsTypeOK ==
    CASE part \in {"setup", "link"} -> TypeOK
      [] part = "history" -> HistoryTypeOK
      [] part = "session" -> SessionTypeOK
=============================================================================
