---------------------------- MODULE MCConversation ----------------------------
(***************************************************************************)
(* Instances of GroupCall, with one socket of each of two users, of        *)
(* ChatSync and of MessageState.  The initial state chooses the part that  *)
(* moves.                                                                  *)
(***************************************************************************)
EXTENDS GroupCall, ChatSync, MessageState

CONSTANTS A, B, a1, b1, h1, h2

VARIABLE part

MCOwner == [s \in Socket |-> IF s = b1 THEN B ELSE A]

callVars == vars

PartsInit ==
    /\ part \in {"call", "chat", "message"}
    /\ Init /\ ChatInit /\ MessageInit
    /\ part # "chat" => ~member
    /\ part # "message" => mine

PartsNext ==
    /\ UNCHANGED part
    /\ \/ part = "call" /\ Next /\ UNCHANGED <<chatVars, messageVars>>
       \/ part = "chat" /\ ChatNext /\ UNCHANGED <<callVars, messageVars>>
       \/ part = "message" /\ MessageNext /\ UNCHANGED <<callVars, chatVars>>

(* The fairness of each part, as in its module. *)
Fair(p, actions) == part = p /\ actions

PartsFairness ==
    /\ \A k \in Task : WF_callVars(Fair("call", Handler(k)))
    /\ WF_callVars(Fair("call", AloneTimeout)) /\ WF_callVars(Fair("call", GraceOver))
    /\ WF_chatVars(Fair("chat", Server)) /\ WF_chatVars(Fair("chat", Joining))
    /\ WF_chatVars(Fair("chat", SocketConnects)) /\ WF_chatVars(Fair("chat", Lists))
    /\ WF_chatVars(Fair("chat", Messages)) /\ WF_chatVars(Fair("chat", Events))
    /\ WF_messageVars(Fair("message", Serving))
    /\ WF_messageVars(Fair("message", Fetches))
    /\ WF_messageVars(Fair("message", RowEvents))

PartsSpec ==
    PartsInit /\ [][PartsNext]_<<part, callVars, chatVars, messageVars>> /\ PartsFairness

(* The types of the variables of the three. *)
PartsTypeOK == TypeOK /\ ChatTypeOK /\ MessageTypeOK

(* ListConverges of ChatSync and PageAndServerAgree of MessageState, in one
   formula: what a page shows of the memberships, or of a message, comes to be
   what the server stores. *)
PageConverges ==
    (part = "chat" /\ ListBehind) \/ (part = "message" /\ ~Agreed)
        ~> (part = "chat" /\ ListSettled) \/ (part = "message" /\ Agreed)
=============================================================================
