------------------------------ MODULE CallClient -------------------------------
(***************************************************************************)
(* What one tab, or the web view of the Android application, knows of      *)
(* direct calls: the call store (src/frontend/src/core/call-state), the    *)
(* answers given on the lock screen, which wait until somebody can carry   *)
(* them out (incomingCallActions.ts), and the ring and dial timers of the  *)
(* chats page (src/frontend/src/ui/pages/ChatsPage.tsx).                   *)
(*                                                                         *)
(* The page registers its call handlers when it is mounted and never takes *)
(* them back: a page that was left still handles every event, with the     *)
(* refs it had.  Off the chats route, CallHost answers and hangs up.       *)
(*                                                                         *)
(* A handler runs in one go, with what React does after it: the effects of *)
(* a change of an external store are run before the next event.  Only the  *)
(* question for the microphone, and the invitation of a caller into        *)
(* another call, wait.  A call is named by its conversation, as in all of  *)
(* the code.  The server may send anything at any time.                    *)
(***************************************************************************)
EXTENDS Naturals

CONSTANTS
    CallConv,   \* direct conversations
    NoConv,
    MaxPages,   \* bound: times the chats page is mounted
    MaxActs     \* bound: events of the user, the server and the Android shell

ASSUME ClientBounds == NoConv \notin CallConv /\ {MaxPages, MaxActs} \subseteq Nat

VARIABLES
    ui,         \* useCallStore, the module state of incomingCallActions, the refs of the pages
    route,      \* location.pathname: "chats" or "other"
    ready,      \* bootstrapReady
    pages,      \* pages mounted so far
    mounted,    \* the one that is mounted, or 0
    jobs,       \* what waits for the user or the server
    todo,       \* the rest of the answers that replayPendingNativeActions took up
    acts

callVars == <<ui, route, ready, pages, mounted, jobs, todo, acts>>

NoCall == [conv |-> NoConv, native |-> FALSE]
Incoming == [conv : CallConv, native : BOOLEAN] \cup {NoCall}
Answer == [kind : {"accept", "decline", "end"}, conv : CallConv]
Ref == {"ringer", "ringing", "dialer", "overlay", "outgoing", "bornIncoming", "bornActive"}
NoRefs == [r \in Ref |-> NoConv]
Job == [kind : {"answer", "dial", "invite"}, conv : CallConv, page : 0 .. MaxPages,
        by : {"web", "native", "replay"}]
Ui == [incoming : Incoming, active : CallConv \cup {NoConv}, overlay : CallConv \cup {NoConv},
       outgoing : CallConv \cup {NoConv}, tracked : SUBSET CallConv, calls : SUBSET CallConv,
       pending : SUBSET Answer, applied : SUBSET Answer,
       refs : [1 .. MaxPages -> [Ref -> CallConv \cup {NoConv}]], answers : [CallConv -> 0 .. 2]]

ClientInit ==
    /\ ui = [incoming |-> NoCall, active |-> NoConv, overlay |-> NoConv, outgoing |-> NoConv,
             tracked |-> {}, calls |-> {}, pending |-> {}, applied |-> {},
             refs |-> [p \in 1 .. MaxPages |-> NoRefs], answers |-> [c \in CallConv |-> 0]]
    /\ route = "chats" /\ ready = FALSE /\ pages = 0 /\ mounted = 0
    /\ jobs = {} /\ todo = {} /\ acts = 0

-----------------------------------------------------------------------------
(* The store, and what its subscriber in AppRuntimeCoordinator forgets when a
   call is not there any more. *)
CallOf(s) ==
    IF s.active # NoConv THEN s.active ELSE IF s.overlay # NoConv THEN s.overlay ELSE s.outgoing

Subscribed(s, t) ==
    LET over == {c \in CallConv : s.incoming.conv = c /\ t.incoming = NoCall}
        left == {c \in CallConv : CallOf(s) = c /\ CallOf(t) # c}
    IN [t EXCEPT !.tracked = @ \ (over \cup left), !.calls = @ \ left,
                 !.pending = {a \in @ : a.conv \notin over \cup left}]

SetIncoming(s, call) == Subscribed(s, [s EXCEPT !.incoming = call])
SetOutgoing(s, c) == Subscribed(s, [s EXCEPT !.outgoing = c])
StartOutgoing(s, c) == Subscribed(s, [s EXCEPT !.active = c, !.incoming = NoCall])
OpenCall(s, c) == Subscribed(s, [s EXCEPT !.active = c, !.incoming = NoCall, !.overlay = c])
EndCall(s) ==
    Subscribed(s, [s EXCEPT !.active = NoConv, !.incoming = NoCall, !.overlay = NoConv, !.outgoing = NoConv])

StopRing(s, p) == IF p = 0 THEN s ELSE [s EXCEPT !.refs[p].ringer = NoConv, !.refs[p].ringing = NoConv]
StopDial(s, p) == IF p = 0 THEN s ELSE [s EXCEPT !.refs[p].dialer = NoConv]

(* The effects of page p, once s is shown: a call that was opened replaces the
   dialling of it, and the timers follow what is on the screen.
   Mutant: the ringer only stops for a call that the shell rings for. *)
SilencedNative(s, r) ==
    [r EXCEPT !.ringer = IF s.incoming.native THEN NoConv ELSE @,
              !.ringing = IF s.incoming.native THEN s.incoming.conv ELSE @,
              !.dialer = IF s.outgoing = NoConv THEN NoConv ELSE @,
              !.overlay = s.overlay, !.outgoing = s.outgoing]
Silenced(s, r) ==
    [r EXCEPT !.ringer = IF s.incoming = NoCall \/ s.incoming.native THEN NoConv ELSE @,
              !.ringing = IF s.incoming = NoCall THEN NoConv
                          ELSE IF s.incoming.native THEN s.incoming.conv ELSE @,
              !.dialer = IF s.outgoing = NoConv THEN NoConv ELSE @,
              !.overlay = s.overlay, !.outgoing = s.outgoing]
Settled(s, p, opened) ==
    IF p = 0 THEN s
    ELSE LET t == IF opened /\ s.overlay # NoConv /\ s.outgoing = s.overlay
                  THEN SetOutgoing(s, NoConv) ELSE s
         IN [t EXCEPT !.refs[p] = Silenced(t, @)]
Shows(s) == ui' = Settled(s, mounted, s.overlay # ui.overlay)

-----------------------------------------------------------------------------
(* Answers wait while nobody can carry them out; a replay takes up all that
   wait, one after the other.  An answer in flight is not given again; mutant:
   only one that is replayed.  A runtime registers itself again whenever the store changes. *)
Runtime == mounted # 0 \/ route = "other"
BusyWithReplay(c) == \E j \in jobs : j.kind = "answer" /\ j.conv = c /\ j.by = "replay"
Busy(c) == \E j \in jobs : j.kind = "answer" /\ j.conv = c
Replaying == todo # {} \/ \E j \in jobs : j.by = "replay"
Screen(s) == <<s.incoming, s.active, s.overlay, s.outgoing>>

Replay == todo' = IF ready' /\ Runtime' /\ ~Replaying THEN ui'.pending ELSE todo
ReplayOnChange ==
    IF (mounted # 0 /\ Screen(ui') # Screen(ui)) \/ <<mounted, route, ready>>' # <<mounted, route, ready>>
    THEN Replay ELSE UNCHANGED todo

Queued(s, a) == IF a \in s.applied THEN s ELSE [s EXCEPT !.pending = @ \cup {a}]
Applied(s, a) == [s EXCEPT !.applied = @ \cup {a}, !.pending = @ \ {a}]
Resolved(c) == c \in ui.tracked \/ ui.incoming.conv = c

(* acceptIncomingCallAction up to the question for the microphone, which is
   silent from here on. *)
AcceptCall(c, by) ==
    LET a == [kind |-> "accept", conv |-> c]
        runs == ready /\ Runtime /\ Resolved(c)
    IN IF Busy(c) THEN UNCHANGED <<ui, jobs>>
       ELSE IF runs
       THEN /\ Shows(StopRing(ui, mounted))
            /\ jobs' = jobs \cup {[kind |-> "answer", conv |-> c, page |-> mounted, by |-> by]}
       ELSE /\ ui' = IF by = "web" THEN ui ELSE Queued(ui, a)
            /\ UNCHANGED jobs

DeclineCall(c, by) ==
    LET a == [kind |-> "decline", conv |-> c]
        t == Applied(StopRing(SetIncoming(ui, NoCall), mounted), a)
    IN /\ UNCHANGED jobs
       /\ IF ready /\ Runtime /\ Resolved(c)
          THEN Shows([t EXCEPT !.tracked = @ \ {c}])
          ELSE ui' = IF by = "web" THEN ui ELSE Queued(ui, a)

(* endActiveCallAction, and performEndActiveCall of page p or of CallHost. *)
Hung(s, p) == StopRing(StopDial(EndCall(s), p), p)
Ends(c) ==
    LET current == IF ui.overlay # NoConv THEN ui.overlay ELSE CallOf(ui)
    IN ready /\ Runtime /\ (c \in ui.calls \/ current \in {NoConv, c})
End(c, by) ==
    LET a == [kind |-> "end", conv |-> c]
        t == Applied(Hung(ui, mounted), a)
    IN /\ UNCHANGED jobs
       /\ IF Ends(c)
          THEN /\ Shows([t EXCEPT !.calls = @ \ {c}, !.pending = {b \in @ : b.conv # c}])
               /\ route' = "chats"
          ELSE /\ ui' = IF by = "web" THEN ui ELSE Queued(ui, a)
               /\ UNCHANGED route

Perform(kind, c, by) ==
    \/ kind = "accept" /\ AcceptCall(c, by) /\ UNCHANGED route
    \/ kind = "decline" /\ DeclineCall(c, by) /\ UNCHANGED route
    \/ kind = "end" /\ End(c, by)

ReplayNext ==
    /\ ready /\ ~\E j \in jobs : j.by = "replay"
    /\ \E a \in todo : Perform(a.kind, a.conv, "replay") /\ todo' = todo \ {a}
    /\ UNCHANGED <<ready, pages, mounted, acts>>

-----------------------------------------------------------------------------
Acts == acts < MaxActs /\ acts' = acts + 1

(* The user answers a call on the screen, hangs up, dials, joins a call of
   another device, minimises one or opens it again, or stops dialling. *)
TapAnswer ==
    /\ Acts
    /\ ui.incoming # NoCall /\ ~ui.incoming.native /\ Runtime
    /\ \/ AcceptCall(ui.incoming.conv, "web")
       \/ DeclineCall(ui.incoming.conv, "web")
    /\ UNCHANGED <<route, ready, pages, mounted>> /\ ReplayOnChange

HangUp ==
    /\ Acts
    /\ ui.overlay # NoConv /\ Runtime
    /\ End(ui.overlay, "web")
    /\ UNCHANGED <<ready, pages, mounted>> /\ ReplayOnChange

Dial(c) ==
    /\ Acts
    /\ mounted # 0 /\ ui.overlay # c
    /\ jobs' = jobs \cup {[kind |-> "dial", conv |-> c, page |-> mounted, by |-> "web"]}
    /\ UNCHANGED <<ui, route, ready, pages, mounted, todo>>

JoinHere(c) ==
    /\ Acts
    /\ mounted # 0 /\ c \notin {ui.overlay, ui.active}
    /\ Shows(OpenCall(ui, c))
    /\ UNCHANGED <<route, ready, pages, mounted, jobs>> /\ ReplayOnChange

Minimize ==
    /\ Acts
    /\ mounted # 0 /\ ui.overlay # NoConv /\ ui.active # ui.overlay
    /\ Shows(StartOutgoing(ui, ui.overlay))
    /\ UNCHANGED <<route, ready, pages, mounted, jobs>> /\ ReplayOnChange

Expand ==
    /\ Acts
    /\ mounted # 0 /\ ui.active \notin {NoConv, ui.overlay}
    /\ Shows(Subscribed(ui, [ui EXCEPT !.overlay = ui.active]))
    /\ UNCHANGED <<route, ready, pages, mounted, jobs>> /\ ReplayOnChange

(* The media connection is lost for good. *)
MediaCloses ==
    /\ Acts
    /\ mounted # 0 /\ ui.overlay # NoConv
    /\ Shows(StopRing(EndCall(ui), mounted))
    /\ UNCHANGED <<route, ready, pages, mounted, jobs>> /\ ReplayOnChange

StopDialling ==
    /\ Acts
    /\ ui.outgoing # NoConv /\ Runtime
    /\ Shows(EndCall(StopDial(ui, mounted)))
    /\ UNCHANGED <<route, ready, pages, mounted, jobs>> /\ ReplayOnChange

(* CallHost invites the caller into the call that is going on. *)
InviteCaller ==
    /\ Acts
    /\ mounted = 0 /\ route = "other" /\ ui.incoming # NoCall /\ ~ui.incoming.native
    /\ (IF ui.overlay # NoConv THEN ui.overlay ELSE ui.active) \notin {NoConv, ui.incoming.conv}
    /\ jobs' = jobs \cup {[kind |-> "invite", conv |-> ui.incoming.conv, page |-> 0, by |-> "web"]}
    /\ UNCHANGED <<ui, route, ready, pages, mounted, todo>>

-----------------------------------------------------------------------------
(* What was waited for.  Nothing is looked at again: the call may be over. *)
Answered(j) ==
    LET other == IF ui.overlay # NoConv THEN ui.overlay ELSE ui.active
        left == IF j.page # 0 /\ other \notin {NoConv, j.conv} THEN Hung(ui, j.page) ELSE ui
        t == Applied(StopRing(OpenCall(left, j.conv), j.page), [kind |-> "accept", conv |-> j.conv])
    IN [t EXCEPT !.tracked = @ \ {j.conv}, !.calls = @ \cup {j.conv},
                 !.answers[j.conv] = IF @ < 2 THEN @ + 1 ELSE @]

Dialled(j) ==
    [SetOutgoing(StartOutgoing(ui, j.conv), j.conv) EXCEPT !.refs[j.page].dialer = j.conv]

Granted(j) ==
    /\ jobs' = jobs \ {j}
    /\ \/ j.kind = "answer" /\ Shows(Answered(j))
       \/ j.kind = "dial" /\ Shows(Dialled(j))
       \/ j.kind = "invite" /\ Shows(SetIncoming(ui, NoCall))
    /\ route' = IF j.kind = "answer" /\ (j.page = 0 \/ j.by # "web") THEN "chats" ELSE route
    /\ UNCHANGED <<ready, pages, mounted, acts>> /\ ReplayOnChange

Refused(j) ==
    /\ j.kind # "invite"
    /\ jobs' = jobs \ {j}
    /\ UNCHANGED <<ui, route, ready, pages, mounted, todo, acts>>

-----------------------------------------------------------------------------
(* Events of the server, and the timers of a page. *)
Rung(s, p, c) ==
    LET r == s.refs[p]
        quiet == StopRing(s, p)
        glare == IF r.outgoing # c THEN quiet
                 ELSE LET t == StopDial(quiet, p) IN IF t.outgoing = c THEN SetOutgoing(t, NoConv) ELSE t
        shown == SetIncoming(glare, [conv |-> c, native |-> FALSE])
    IN IF c \in {r.ringing, r.bornIncoming} THEN s
       ELSE IF r.overlay = c THEN quiet
       ELSE [shown EXCEPT !.refs[p].ringer = c, !.refs[p].ringing = c, !.answers[c] = 0]

AcceptedByMe(s, p, c) ==
    IF c \in {s.refs[p].ringing, s.refs[p].bornIncoming} THEN SetIncoming(StopRing(s, p), NoCall) ELSE s
AcceptedByPeer(s, p, c) ==
    LET r == s.refs[p]
        t == IF r.bornActive = c THEN Subscribed(s, [s EXCEPT !.overlay = c]) ELSE OpenCall(s, c)
    IN IF c \in {r.overlay, s.active, r.outgoing} THEN StopRing(t, p)
       ELSE IF c \in {s.incoming.conv, r.ringing} THEN SetIncoming(StopRing(s, p), NoCall)
       ELSE s
AcceptedBy(s, p, c, me) ==
    LET t == StopDial(s, p)
        u == IF t.outgoing = c THEN SetOutgoing(t, NoConv) ELSE t
    IN IF me THEN AcceptedByMe(u, p, c) ELSE AcceptedByPeer(u, p, c)

(* call:declined and call:ended. *)
Over(s, p, c) ==
    LET t == StopDial(s, p)
        u == IF t.outgoing = c THEN SetOutgoing(t, NoConv) ELSE t
        v == IF c \in {s.refs[p].overlay, u.active, u.incoming.conv} THEN EndCall(u) ELSE u
    IN StopRing(SetIncoming(v, NoCall), p)

Event == [kind : {"incoming", "accepted", "over"}, conv : CallConv, me : BOOLEAN]
Handled(s, p, e) ==
    CASE e.kind = "incoming" -> Rung(s, p, e.conv)
      [] e.kind = "accepted" -> AcceptedBy(s, p, e.conv, e.me)
      [] e.kind = "over" -> Over(s, p, e.conv)

(* An event goes to every page that was ever mounted, the oldest first. *)
Received(e) ==
    LET after[p \in 0 .. pages] == IF p = 0 THEN ui ELSE Handled(after[p - 1], p, e)
    IN  after[pages]

ServerEvent(e) ==
    /\ Acts
    /\ pages # 0
    /\ Shows(Received(e))
    /\ UNCHANGED <<route, ready, pages, mounted, jobs>> /\ ReplayOnChange

RingerTimeout(p) ==
    /\ ui.refs[p].ringer # NoConv
    /\ Shows(SetIncoming(StopRing(ui, p), NoCall))
    /\ UNCHANGED <<route, ready, pages, mounted, jobs, acts>> /\ ReplayOnChange

DialTimeout(p) ==
    /\ ui.refs[p].dialer # NoConv
    /\ LET t == IF ui.outgoing = ui.refs[p].dialer THEN EndCall(ui) ELSE ui
       IN Shows(StopDial(t, p))
    /\ UNCHANGED <<route, ready, pages, mounted, jobs, acts>> /\ ReplayOnChange

-----------------------------------------------------------------------------
(* Events of the Android shell. *)
NativeRings(c, fresh) ==
    LET t == [ui EXCEPT !.tracked = @ \cup {c}, !.answers[c] = 0,
                        !.applied = IF fresh THEN {a \in @ : a.conv # c} ELSE @]
    IN /\ Shows(SetIncoming(t, [conv |-> c, native |-> TRUE]))
       /\ UNCHANGED <<route, jobs>> /\ Replay

NativeCancels(c) ==
    LET t == [ui EXCEPT !.tracked = @ \ {c}, !.calls = @ \ {c}, !.pending = {a \in @ : a.conv # c}]
        u == IF t.incoming.conv = c THEN SetIncoming(t, NoCall) ELSE t
    IN /\ Shows(IF c \in {u.overlay, u.active, u.outgoing} THEN EndCall(u) ELSE u)
       /\ UNCHANGED <<route, jobs>> /\ ReplayOnChange

NativeEvent(c) ==
    /\ Acts /\ UNCHANGED <<ready, pages, mounted>>
    /\ \/ \E fresh \in {TRUE, c \notin ui.tracked} : NativeRings(c, fresh)
       \/ NativeCancels(c)
       \/ \E kind \in {"accept", "decline", "end"} : Perform(kind, c, "native") /\ ReplayOnChange

-----------------------------------------------------------------------------
(* The session is there; the chats page is mounted, left and returned to. *)
Ready ==
    /\ ~ready /\ ready' = TRUE
    /\ UNCHANGED <<ui, route, pages, mounted, jobs, acts>> /\ ReplayOnChange

Mount ==
    /\ ready /\ route = "chats" /\ mounted = 0 /\ pages < MaxPages
    /\ pages' = pages + 1 /\ mounted' = pages + 1
    /\ ui' = Settled([ui EXCEPT !.refs[pages + 1].bornIncoming = ui.incoming.conv,
                                !.refs[pages + 1].bornActive = ui.active], pages + 1, TRUE)
    /\ UNCHANGED <<route, ready, jobs, acts>> /\ ReplayOnChange

LeavePage ==
    /\ mounted # 0 /\ mounted' = 0 /\ route' = "other"
    /\ ui' = StopDial(ui, mounted)
    /\ UNCHANGED <<ready, pages, jobs, acts>> /\ ReplayOnChange

Return ==
    /\ ready /\ route = "other" /\ route' = "chats"
    /\ UNCHANGED <<ui, ready, pages, mounted, jobs, acts>> /\ ReplayOnChange

ClientNext ==
    \/ ReplayNext \/ TapAnswer \/ HangUp \/ Minimize \/ Expand \/ MediaCloses
    \/ StopDialling \/ InviteCaller
    \/ \E c \in CallConv : Dial(c) \/ JoinHere(c) \/ NativeEvent(c)
    \/ \E e \in Event : ServerEvent(e)
    \/ \E j \in jobs : Granted(j) \/ Refused(j)
    \/ \E p \in 1 .. pages : RingerTimeout(p) \/ DialTimeout(p)
    \/ Ready \/ Mount \/ LeavePage \/ Return

ClientSpec == ClientInit /\ [][ClientNext]_callVars

-----------------------------------------------------------------------------
ClientTypeOK ==
    /\ ui \in Ui /\ todo \subseteq Answer
    /\ route \in {"chats", "other"} /\ ready \in BOOLEAN
    /\ pages \in 0 .. MaxPages /\ mounted \in {0, pages}
    /\ jobs \subseteq Job /\ acts \in 0 .. MaxActs

(* The timer that declines a call after 25 seconds, without looking at it
   again, and the ringtone that goes with it run for the call shown as
   incoming, or not at all, whichever of the ways the call was answered,
   cancelled, ended or replaced: as long as the page is on the screen and is
   the first that was mounted. *)
RingerIsShown ==
    pages = 1 /\ mounted = 1 /\ ui.refs[1].ringer # NoConv =>
        ui.incoming = [conv |-> ui.refs[1].ringer, native |-> FALSE]

(* A call that is shown is accepted at most once until it is shown again,
   however often and wherever it is tapped: on the page, on the lock screen, and
   there before the page was loaded. *)
AnsweredOnce == \A c \in CallConv : ui.answers[c] <= 1
=============================================================================
