------------------------------- MODULE CallInfo -------------------------------
(***************************************************************************)
(* ActiveCallInfo of src/src/realtime/socket.ts: who is in a call, by user *)
(* and socket.  A user without sockets in the call is not in the map.      *)
(***************************************************************************)
EXTENDS Naturals, FiniteSets

CONSTANTS
    User,       \* the participants of the conversation
    Socket,     \* sockets, each used for one connection
    Owner       \* [Socket -> User]: socket.data.userId

ASSUME OwnerAssumption == Owner \in [Socket -> User]

(* An empty participantsByUser. *)
Nobody == [u \in User |-> {}]

(* listParticipants: the users with a socket in the call. *)
Present(parts) == {u \in User : parts[u] # {}}

(* addParticipant, with its arguments swapped. *)
WithUser(parts, s) == [parts EXCEPT ![Owner[s]] = @ \cup {Owner[s]}]

(* addParticipant. *)
With(parts, s) == [parts EXCEPT ![Owner[s]] = @ \cup {s}]

(* removeParticipant. *)
Without(parts, s) == [parts EXCEPT ![Owner[s]] = @ \ {s}]
=============================================================================
