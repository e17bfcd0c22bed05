-------------------------------- MODULE Mailbox --------------------------------
(***************************************************************************)
(* What the secret inbox of a device promises (src/src/lib/secretInbox.ts: *)
(* "At-least-once delivery, messages stay in inbox list until explicit     *)
(* ack", "Client must be idempotent by msgId").  A message may be put into *)
(* the mailbox again and handled again; it leaves the mailbox only after   *)
(* the device handled it, or when it is excused: nobody fetched it for the *)
(* lifetime of the mailbox, or its sender was deleted.                     *)
(***************************************************************************)
CONSTANT Msg

VARIABLES
    held,       \* messages in the mailbox
    handled,    \* messages the device is done with
    excused     \* messages the mailbox need not deliver

vars == <<held, handled, excused>>

Init == held = {} /\ handled = {} /\ excused = {}

Put(m) ==
    /\ held' = held \cup {m}
    /\ UNCHANGED <<handled, excused>>

Handle(ms) ==
    /\ ms \subseteq held \cup handled \cup excused
    /\ handled' = handled \cup ms
    /\ UNCHANGED <<held, excused>>

Remove(ms) ==
    /\ ms \subseteq handled \cup excused
    /\ held' = held \ ms
    /\ UNCHANGED <<handled, excused>>

Excuse(ms) ==
    /\ excused' = excused \cup ms
    /\ held' \in {held, held \ (handled \cup excused')}
    /\ UNCHANGED <<handled>>

Next ==
    \/ \E m \in Msg : Put(m)
    \/ \E ms \in SUBSET Msg : Handle(ms) \/ Remove(ms) \/ Excuse(ms)

Spec == Init /\ [][Next]_vars
=============================================================================
