--------------------------- MODULE CallClientProofs ----------------------------
(***************************************************************************)
(* Proofs about CallClient, for any number of conversations, of pages      *)
(* mounted one after the other and of events, and about its composition    *)
(* with DirectCall.                                                        *)
(***************************************************************************)
EXTENDS MCCalls, DirectCallProofs

(* A call can be accepted, or is being accepted, in state s of the page with
   the jobs js. *)
Asks(s, js, c) ==
    \/ c \in s.tracked \/ s.incoming.conv = c
    \/ \E j \in js : j.kind = "answer" /\ j.conv = c

(* A call that can be accepted was not accepted since it was shown. *)
Fresh(s, js) == \A c \in CallConv : Asks(s, js, c) => s.answers[c] = 0
Once(s) == \A c \in CallConv : s.answers[c] <= 1

(* Of n pages, none rings before it was mounted; the first, as long as there
   is no other, rings for the call that is shown. *)
Unrung(s, n) == \A p \in 1 .. MaxPages : p > n => s.refs[p].ringer = NoConv
Matches(s, n) ==
    n = 1 /\ s.refs[1].ringer # NoConv =>
        \/ s.incoming = NoCall \/ s.incoming.native
        \/ s.incoming.conv = s.refs[1].ringer

Good(s, js, n) ==
    /\ s \in Ui /\ n \in 0 .. MaxPages
    /\ Fresh(s, js) /\ Once(s)
    /\ Unrung(s, n) /\ Matches(s, n)

(* No call is being accepted twice. *)
OneAnswer ==
    \A j, k \in jobs : j.kind = "answer" /\ k.kind = "answer" /\ j.conv = k.conv => j = k

CoreInv ==
    /\ Good(ui, jobs, pages)
    /\ jobs \subseteq Job /\ OneAnswer
    /\ mounted \in {0, pages}
    /\ route \in {"chats", "other"}
    /\ RingerIsShown

PhoneInv == CoreInv /\ ready \in BOOLEAN /\ todo \subseteq Answer /\ acts \in 0 .. MaxActs

-----------------------------------------------------------------------------
(* Most of what happens to the state of the page asks for nothing new. *)
Quieter(s, t) ==
    /\ t \in Ui
    /\ t.tracked \subseteq s.tracked
    /\ t.incoming \in {s.incoming, NoCall}
    /\ t.answers = s.answers
    /\ \A p \in 1 .. MaxPages : t.refs[p].ringer \in {s.refs[p].ringer, NoConv}

(* It keeps a good state good. *)
LEMMA QuieterGood ==
    ASSUME NEW s, NEW js, NEW n, Good(s, js, n), NEW t, Quieter(s, t)
    PROVE Good(t, js, n)
<1>1. \A c \in CallConv : Asks(t, js, c) => Asks(s, js, c)
    BY ClientBounds DEF Quieter, Asks, NoCall
<1>2. Fresh(t, js) /\ Once(t)
    BY <1>1 DEF Good, Quieter, Fresh, Once
<1>3. Unrung(t, n)
    BY DEF Good, Quieter, Unrung
<1>4. Matches(t, n)
    <2>1. n = 1 => 1 \in 1 .. MaxPages  BY ClientBounds DEF Good
    <2>2. QED  BY <2>1 DEF Good, Quieter, Matches
<1>5. QED  BY <1>2, <1>3, <1>4 DEF Good, Quieter

(* Two quiet changes are one. *)
LEMMA QuieterTwice ==
    ASSUME NEW s, NEW t, NEW u, Quieter(s, t), Quieter(t, u)
    PROVE Quieter(s, u)
BY DEF Quieter

(* No change is quiet. *)
LEMMA QuieterSame ==
    ASSUME NEW s \in Ui
    PROVE Quieter(s, s)
BY DEF Quieter

(* What the subscriber of the store forgets is quiet. *)
LEMMA SubscribedQuiet ==
    ASSUME NEW s, NEW t \in Ui
    PROVE Quieter(t, Subscribed(s, t))
<1> DEFINE over == {c \in CallConv : s.incoming.conv = c /\ t.incoming = NoCall}
           left == {c \in CallConv : CallOf(s) = c /\ CallOf(t) # c}
           kept == {a \in t.pending : a.conv \notin over \cup left}
<1>1. Subscribed(s, t) = [t EXCEPT !.tracked = t.tracked \ (over \cup left),
                                   !.calls = t.calls \ left, !.pending = kept]
    BY DEF Subscribed
<1>2. kept \subseteq t.pending  OBVIOUS
<1> HIDE DEF over, left, kept
<1>3. QED  BY <1>1, <1>2 DEF Quieter, Ui

(* A call that is not shown any more asks for nothing. *)
LEMMA SetIncomingQuiet ==
    ASSUME NEW s \in Ui
    PROVE Quieter(s, SetIncoming(s, NoCall))
<1>1. Quieter(s, [s EXCEPT !.incoming = NoCall])  BY DEF Quieter, Ui, Incoming
<1>2. [s EXCEPT !.incoming = NoCall] \in Ui  BY <1>1 DEF Quieter
<1>3. QED  BY <1>1, <1>2, SubscribedQuiet, QuieterTwice DEF SetIncoming

(* Nor does the call that is placed. *)
LEMMA SetOutgoingQuiet ==
    ASSUME NEW s \in Ui, NEW c \in CallConv \cup {NoConv}
    PROVE Quieter(s, SetOutgoing(s, c))
<1>1. Quieter(s, [s EXCEPT !.outgoing = c])  BY DEF Quieter, Ui
<1>2. [s EXCEPT !.outgoing = c] \in Ui  BY <1>1 DEF Quieter
<1>3. QED  BY <1>1, <1>2, SubscribedQuiet, QuieterTwice DEF SetOutgoing

(* A call that is started hides the one that is shown. *)
LEMMA StartOutgoingQuiet ==
    ASSUME NEW s \in Ui, NEW c \in CallConv
    PROVE Quieter(s, StartOutgoing(s, c)) /\ StartOutgoing(s, c).incoming = NoCall
<1> DEFINE t == [s EXCEPT !.active = c, !.incoming = NoCall]
<1>1. Quieter(s, t) /\ t.incoming = NoCall  BY DEF Quieter, Ui, Incoming
<1>2. t \in Ui  BY <1>1 DEF Quieter
<1>3. StartOutgoing(s, c) = Subscribed(s, t)  BY DEF StartOutgoing
<1> HIDE DEF t
<1>4. Quieter(t, Subscribed(s, t))  BY <1>2, SubscribedQuiet
<1>5. Quieter(s, Subscribed(s, t))  BY <1>1, <1>4, QuieterTwice
<1>6. Subscribed(s, t).incoming = NoCall  BY <1>1, <1>4 DEF Quieter
<1>7. QED  BY <1>3, <1>5, <1>6

(* So does a call that is opened. *)
LEMMA OpenCallQuiet ==
    ASSUME NEW s \in Ui, NEW c \in CallConv
    PROVE Quieter(s, OpenCall(s, c)) /\ OpenCall(s, c).incoming = NoCall
<1> DEFINE t == [s EXCEPT !.active = c, !.incoming = NoCall, !.overlay = c]
<1>1. Quieter(s, t) /\ t.incoming = NoCall  BY DEF Quieter, Ui, Incoming
<1>2. t \in Ui  BY <1>1 DEF Quieter
<1>3. OpenCall(s, c) = Subscribed(s, t)  BY DEF OpenCall
<1> HIDE DEF t
<1>4. Quieter(t, Subscribed(s, t))  BY <1>2, SubscribedQuiet
<1>5. Quieter(s, Subscribed(s, t))  BY <1>1, <1>4, QuieterTwice
<1>6. Subscribed(s, t).incoming = NoCall  BY <1>1, <1>4 DEF Quieter
<1>7. QED  BY <1>3, <1>5, <1>6

(* Ending the call hides everything. *)
LEMMA EndCallQuiet ==
    ASSUME NEW s \in Ui
    PROVE Quieter(s, EndCall(s))
<1> DEFINE t == [s EXCEPT !.active = NoConv, !.incoming = NoCall, !.overlay = NoConv, !.outgoing = NoConv]
<1>1. Quieter(s, t)  BY DEF Quieter, Ui, Incoming
<1>2. t \in Ui  BY <1>1 DEF Quieter
<1>3. EndCall(s) = Subscribed(s, t)  BY DEF EndCall
<1> HIDE DEF t
<1>4. QED  BY <1>1, <1>2, <1>3, SubscribedQuiet, QuieterTwice

(* The ringer and the dial timer of a page are only stopped. *)
LEMMA StopQuiet ==
    ASSUME NEW s \in Ui, NEW p \in 0 .. MaxPages
    PROVE /\ Quieter(s, StopRing(s, p)) /\ StopRing(s, p).incoming = s.incoming
          /\ p # 0 => StopRing(s, p).refs[p].ringer = NoConv
          /\ Quieter(s, StopDial(s, p)) /\ StopDial(s, p).incoming = s.incoming
<1>1. CASE p = 0
    BY <1>1, QuieterSame DEF StopRing, StopDial
<1>2. CASE p # 0
    <2>1. p \in 1 .. MaxPages  BY <1>2, ClientBounds
    <2> DEFINE t == [s EXCEPT !.refs[p].ringer = NoConv, !.refs[p].ringing = NoConv]
               u == [s EXCEPT !.refs[p].dialer = NoConv]
    <2>2. s.refs \in [1 .. MaxPages -> [Ref -> CallConv \cup {NoConv}]]  BY DEF Ui
    <2>3. /\ t.refs \in [1 .. MaxPages -> [Ref -> CallConv \cup {NoConv}]]
          /\ t.refs[p].ringer = NoConv
          /\ \A q \in 1 .. MaxPages : t.refs[q].ringer \in {s.refs[q].ringer, NoConv}
        <3> DEFINE r == [s.refs[p] EXCEPT !.ringer = NoConv, !.ringing = NoConv]
        <3>1. r \in [Ref -> CallConv \cup {NoConv}] /\ r.ringer = NoConv
            BY <2>1, <2>2 DEF Ref
        <3>2. t.refs = [s.refs EXCEPT ![p] = r]
            BY <2>1, <2>2 DEF Ref, Ui
        <3> HIDE DEF r, t
        <3>3. QED  BY <2>1, <2>2, <3>1, <3>2
    <2>4. /\ u.refs \in [1 .. MaxPages -> [Ref -> CallConv \cup {NoConv}]]
          /\ \A q \in 1 .. MaxPages : u.refs[q].ringer = s.refs[q].ringer
        BY <2>1, <2>2 DEF Ref, Ui
    <2>5. /\ t \in Ui /\ t.tracked = s.tracked /\ t.incoming = s.incoming /\ t.answers = s.answers
          /\ u \in Ui /\ u.tracked = s.tracked /\ u.incoming = s.incoming /\ u.answers = s.answers
        BY <2>3, <2>4 DEF Ui
    <2>6. StopRing(s, p) = t /\ StopDial(s, p) = u  BY <1>2 DEF StopRing, StopDial
    <2> HIDE DEF t, u
    <2>7. QED  BY <2>3, <2>4, <2>5, <2>6 DEF Quieter
<1>3. QED  BY <1>1, <1>2

(* So are the effects of a page, which leave it ringing only for a call that is
   shown and that the shell does not ring for. *)
Rings(s) == s.incoming # NoCall /\ ~s.incoming.native

(* The effects of a page stop its ringer unless the page itself is to ring. *)
LEMMA SettledFacts ==
    ASSUME NEW s \in Ui, NEW p \in 0 .. MaxPages, NEW opened
    PROVE /\ Quieter(s, Settled(s, p, opened))
          /\ p # 0 /\ Settled(s, p, opened).refs[p].ringer # NoConv => Rings(Settled(s, p, opened))
<1>1. CASE p = 0
    BY <1>1, QuieterSame DEF Settled
<1>2. CASE p # 0
    <2>1. p \in 1 .. MaxPages  BY <1>2, ClientBounds
    <2> DEFINE t == IF opened /\ s.overlay # NoConv /\ s.outgoing = s.overlay
                    THEN SetOutgoing(s, NoConv) ELSE s
               r == Silenced(t, t.refs[p])
               u == [t EXCEPT !.refs[p] = r]
    <2>2. Quieter(s, t)  BY SetOutgoingQuiet, QuieterSame
    <2>3. Settled(s, p, opened) = u  BY <1>2 DEF Settled
    <2> HIDE DEF t
    <2>4. t \in Ui /\ t.refs[p] \in [Ref -> CallConv \cup {NoConv}]
        BY <2>1, <2>2 DEF Quieter, Ui
    <2>5. /\ r \in [Ref -> CallConv \cup {NoConv}]
          /\ r.ringer \in {t.refs[p].ringer, NoConv}
          /\ r.ringer # NoConv => Rings(t)
        <3>1. t.overlay \in CallConv \cup {NoConv} /\ t.outgoing \in CallConv \cup {NoConv}
              /\ t.incoming.conv \in CallConv \cup {NoConv}
            BY <2>4 DEF Ui, Incoming, NoCall
        <3>2. QED  BY <2>4, <3>1 DEF Silenced, Ref, Rings
    <2> HIDE DEF r
    <2>6. u.refs = [t.refs EXCEPT ![p] = r] /\ t.refs \in [1 .. MaxPages -> [Ref -> CallConv \cup {NoConv}]]
        BY <2>4 DEF Ui
    <2>7. /\ u.refs \in [1 .. MaxPages -> [Ref -> CallConv \cup {NoConv}]]
          /\ u.refs[p] = r
          /\ \A q \in 1 .. MaxPages : u.refs[q].ringer \in {t.refs[q].ringer, NoConv}
        BY <2>1, <2>5, <2>6
    <2>8. u \in Ui /\ u.tracked = t.tracked /\ u.incoming = t.incoming /\ u.answers = t.answers
        BY <2>4, <2>7 DEF Ui
    <2> HIDE DEF u
    <2>9. Quieter(t, u)  BY <2>7, <2>8 DEF Quieter
    <2>10. Quieter(s, u)  BY <2>2, <2>9, QuieterTwice
    <2>11. u.refs[p].ringer # NoConv => Rings(u)  BY <2>5, <2>7, <2>8 DEF Rings
    <2>12. QED  BY <2>3, <2>10, <2>11
<1>3. QED  BY <1>1, <1>2

(* Showing a good state leaves a good one, in which the first page rings for
   the call that is shown. *)
LEMMA ShowsCore ==
    ASSUME CoreInv, NEW s, Good(s, jobs', pages), Shows(s), UNCHANGED <<pages, mounted>>,
           jobs' \subseteq Job, OneAnswer', route' \in {"chats", "other"}
    PROVE CoreInv'
<1>1. s \in Ui /\ mounted \in 0 .. MaxPages
    BY ClientBounds DEF CoreInv, Good
<1>2. /\ Quieter(s, ui')
      /\ mounted # 0 /\ ui'.refs[mounted].ringer # NoConv => Rings(ui')
    BY <1>1, SettledFacts DEF Shows
<1>3. Good(ui', jobs', pages)
    BY <1>2, QuieterGood
<1>4. RingerIsShown'
    <2>1. SUFFICES ASSUME pages = 1, mounted = 1, ui'.refs[1].ringer # NoConv
                   PROVE ui'.incoming = [conv |-> ui'.refs[1].ringer, native |-> FALSE]
        BY DEF RingerIsShown
    <2>2. Rings(ui')  BY <1>2, <2>1
    <2>3. ui'.incoming.conv = ui'.refs[1].ringer  BY <1>3, <2>1, <2>2 DEF Good, Matches, Rings
    <2>4. ui'.incoming \in [conv : CallConv, native : BOOLEAN]
        BY <1>3, <2>2 DEF Good, Ui, Incoming, Rings
    <2>5. QED  BY <2>2, <2>3, <2>4 DEF Rings
<1>5. Good(ui, jobs, pages)'  BY <1>3
<1>6. QED  BY <1>4, <1>5 DEF CoreInv

(* The same for a state that asks for nothing new. *)
LEMMA QuietCore ==
    ASSUME CoreInv, NEW s, Quieter(ui, s), Shows(s), UNCHANGED <<pages, mounted>>,
           jobs' \subseteq jobs, route' \in {"chats", "other"}
    PROVE CoreInv'
<1>1. Good(s, jobs, pages)  BY QuieterGood DEF CoreInv
<1>2. Good(s, jobs', pages)  BY <1>1 DEF Good, Fresh, Asks
<1>3. jobs' \subseteq Job /\ OneAnswer'  BY DEF CoreInv, OneAnswer
<1>4. QED  BY <1>2, <1>3, ShowsCore

(* And for one that is not shown, because the screen does not change. *)
LEMMA UnshownCore ==
    ASSUME CoreInv, Quieter(ui, ui'), ui'.incoming = ui.incoming,
           jobs' \subseteq jobs, UNCHANGED <<pages, mounted>>, route' \in {"chats", "other"}
    PROVE CoreInv'
<1>1. Good(ui', jobs, pages)  BY QuieterGood DEF CoreInv
<1>2. Good(ui', jobs', pages)  BY <1>1 DEF Good, Fresh, Asks
<1>3. jobs' \subseteq Job /\ OneAnswer'  BY DEF CoreInv, OneAnswer
<1>4. RingerIsShown'
    <2>1. SUFFICES ASSUME pages = 1, mounted = 1, ui'.refs[1].ringer # NoConv
                   PROVE ui'.incoming = [conv |-> ui'.refs[1].ringer, native |-> FALSE]
        BY DEF RingerIsShown
    <2>2. 1 \in 1 .. MaxPages  BY <2>1, <1>1, ClientBounds DEF Good
    <2>3. ui'.refs[1].ringer = ui.refs[1].ringer  BY <2>1, <2>2 DEF Quieter
    <2>4. QED  BY <2>1, <2>3 DEF CoreInv, RingerIsShown
<1>5. Good(ui, jobs, pages)'  BY <1>2
<1>6. QED  BY <1>3, <1>4, <1>5 DEF CoreInv

-----------------------------------------------------------------------------
(* The answers of the user, of the shell and of the replay. *)

(* Remembering an answer asks for nothing. *)
LEMMA AnswersQuiet ==
    ASSUME NEW s \in Ui, NEW a \in Answer
    PROVE /\ Quieter(s, Queued(s, a)) /\ Queued(s, a).incoming = s.incoming
          /\ Quieter(s, Applied(s, a)) /\ Applied(s, a).incoming = s.incoming
<1>1. /\ Quieter(s, [s EXCEPT !.pending = @ \cup {a}])
      /\ Quieter(s, [s EXCEPT !.applied = @ \cup {a}, !.pending = @ \ {a}])
    BY DEF Quieter, Ui
<1>2. QED  BY <1>1, QuieterSame DEF Queued, Applied, Ui

(* A call that is hung up asks for nothing. *)
LEMMA HungQuiet ==
    ASSUME NEW s \in Ui, NEW p \in 0 .. MaxPages
    PROVE Quieter(s, Hung(s, p))
<1> DEFINE t == EndCall(s)
           u == StopDial(t, p)
<1>1. Quieter(s, t)  BY EndCallQuiet
<1>2. t \in Ui  BY <1>1 DEF Quieter
<1> HIDE DEF t
<1>3. Quieter(t, u)  BY <1>2, StopQuiet
<1>4. u \in Ui  BY <1>3 DEF Quieter
<1> HIDE DEF u
<1>5. Quieter(u, StopRing(u, p))  BY <1>4, StopQuiet
<1>6. Hung(s, p) = StopRing(u, p)  BY DEF Hung, u, t
<1>7. QED  BY <1>1, <1>3, <1>5, <1>6, QuieterTwice

By == {"web", "native", "replay"}

(* A call that is being accepted could be accepted. *)
LEMMA AcceptCore ==
    ASSUME CoreInv, NEW c \in CallConv, NEW by \in By, AcceptCall(c, by),
           UNCHANGED <<pages, mounted, route>>
    PROVE CoreInv'
<1> DEFINE a == [kind |-> "accept", conv |-> c]
           j == [kind |-> "answer", conv |-> c, page |-> mounted, by |-> by]
<1>0. a \in Answer /\ ui \in Ui /\ mounted \in 0 .. MaxPages /\ route' \in {"chats", "other"}
    BY ClientBounds DEF Answer, CoreInv, Good
<1>1. CASE UNCHANGED <<ui, jobs>>
    BY <1>0, <1>1, UnshownCore, QuieterSame
<1>2. CASE ui' \in {ui, Queued(ui, a)} /\ UNCHANGED jobs
    BY <1>0, <1>2, UnshownCore, QuieterSame, AnswersQuiet
<1>3. CASE /\ ~Busy(c) /\ Resolved(c) /\ Shows(StopRing(ui, mounted))
           /\ jobs' = jobs \cup {j}
    <2> DEFINE t == StopRing(ui, mounted)
    <2>1. Quieter(ui, t)  BY <1>0, StopQuiet
    <2> HIDE DEF t
    <2>2. Good(t, jobs, pages)  BY <2>1, QuieterGood DEF CoreInv
    <2>3. ui.answers[c] = 0  BY <1>3 DEF CoreInv, Good, Fresh, Asks, Resolved
    <2>4. t.answers[c] = 0  BY <2>1, <2>3 DEF Quieter
    <2>5. \A d \in CallConv : Asks(t, jobs', d) => Asks(t, jobs, d) \/ d = c
        BY <1>3 DEF Asks
    <2>6. Fresh(t, jobs')  BY <2>2, <2>4, <2>5 DEF Good, Fresh
    <2>7. Good(t, jobs', pages)  BY <2>2, <2>6 DEF Good
    <2>8. jobs' \subseteq Job  BY <1>0, <1>3 DEF CoreInv, Job, By
    <2>9. OneAnswer'  BY <1>3 DEF CoreInv, OneAnswer, Busy
    <2>10. QED  BY <1>0, <1>3, <2>7, <2>8, <2>9, ShowsCore DEF t
<1>4. QED  BY <1>1, <1>2, <1>3 DEF AcceptCall

(* A call that is declined is not shown any more. *)
LEMMA DeclineCore ==
    ASSUME CoreInv, NEW c \in CallConv, NEW by \in By, DeclineCall(c, by),
           UNCHANGED <<pages, mounted, route>>
    PROVE CoreInv'
<1> DEFINE a == [kind |-> "decline", conv |-> c]
           s == SetIncoming(ui, NoCall)
           t == StopRing(s, mounted)
           u == Applied(t, a)
           v == [u EXCEPT !.tracked = @ \ {c}]
<1>0. a \in Answer /\ ui \in Ui /\ mounted \in 0 .. MaxPages /\ route' \in {"chats", "other"}
    BY ClientBounds DEF Answer, CoreInv, Good
<1>1. CASE ui' \in {ui, Queued(ui, a)} /\ UNCHANGED jobs
    BY <1>0, <1>1, UnshownCore, QuieterSame, AnswersQuiet
<1>2. CASE Shows(v) /\ UNCHANGED jobs
    <2>1. Quieter(ui, s)  BY <1>0, SetIncomingQuiet
    <2>2. s \in Ui  BY <2>1 DEF Quieter
    <2> HIDE DEF s
    <2>3. Quieter(s, t)  BY <1>0, <2>2, StopQuiet
    <2>4. t \in Ui  BY <2>3 DEF Quieter
    <2> HIDE DEF t
    <2>5. Quieter(t, u)  BY <1>0, <2>4, AnswersQuiet
    <2>6. u \in Ui  BY <2>5 DEF Quieter
    <2> HIDE DEF u
    <2>7. Quieter(u, v)  BY <2>6 DEF Quieter, Ui
    <2> HIDE DEF v
    <2>8. Quieter(ui, v)  BY <2>1, <2>3, <2>5, <2>7, QuieterTwice
    <2>9. QED  BY <1>0, <1>2, <2>8, QuietCore
<1>3. QED  BY <1>1, <1>2 DEF DeclineCall

(* A call that is ended is hung up. *)
LEMMA EndCore ==
    ASSUME CoreInv, NEW c \in CallConv, NEW by \in By, End(c, by),
           UNCHANGED <<pages, mounted>>
    PROVE CoreInv'
<1> DEFINE a == [kind |-> "end", conv |-> c]
           t == Hung(ui, mounted)
           u == Applied(t, a)
           v == [u EXCEPT !.calls = @ \ {c}, !.pending = {b \in @ : b.conv # c}]
<1>0. a \in Answer /\ ui \in Ui /\ mounted \in 0 .. MaxPages /\ route \in {"chats", "other"}
    BY ClientBounds DEF Answer, CoreInv, Good
<1>1. CASE ui' \in {ui, Queued(ui, a)} /\ UNCHANGED <<jobs, route>>
    BY <1>0, <1>1, UnshownCore, QuieterSame, AnswersQuiet
<1>2. CASE Shows(v) /\ UNCHANGED jobs /\ route' = "chats"
    <2>3. Quieter(ui, t)  BY <1>0, HungQuiet
    <2>4. t \in Ui  BY <2>3 DEF Quieter
    <2> HIDE DEF t
    <2>5. Quieter(t, u)  BY <1>0, <2>4, AnswersQuiet
    <2>6. u \in Ui  BY <2>5 DEF Quieter
    <2> HIDE DEF u
    <2>7. Quieter(u, v)  BY <2>6 DEF Quieter, Ui
    <2> HIDE DEF v
    <2>8. Quieter(ui, v)  BY <2>3, <2>5, <2>7, QuieterTwice
    <2>9. QED  BY <1>2, <2>8, QuietCore
<1>3. QED  BY <1>1, <1>2 DEF End

(* An answer, whoever gives it. *)
LEMMA PerformCore ==
    ASSUME CoreInv, NEW c \in CallConv, NEW by \in By, NEW kind, Perform(kind, c, by),
           UNCHANGED <<pages, mounted>>
    PROVE CoreInv'
BY AcceptCore, DeclineCore, EndCore DEF Perform

-----------------------------------------------------------------------------
(* A call that is shown was not accepted yet. *)
LEMMA ShownGood ==
    ASSUME NEW s, NEW js, NEW n, Good(s, js, n), NEW t \in Ui, NEW c \in CallConv,
           t.tracked \subseteq s.tracked \cup {c},
           t.incoming = NoCall \/ t.incoming.conv = c,
           t.answers = [s.answers EXCEPT ![c] = 0],
           \A q \in 1 .. MaxPages :
               t.refs[q].ringer \in {s.refs[q].ringer, NoConv} \/ (q <= n /\ t.refs[q].ringer = c),
           \/ t.incoming = NoCall \/ t.incoming.native
           \/ n = 1 => t.refs[1].ringer = c
    PROVE Good(t, js, n)
<1>0. s.answers \in [CallConv -> 0 .. 2] /\ n \in 0 .. MaxPages  BY DEF Good, Ui
<1>1. \A d \in CallConv : Asks(t, js, d) => d = c \/ Asks(s, js, d)
    BY ClientBounds DEF Asks, NoCall
<1>2. t.answers[c] = 0 /\ \A d \in CallConv : d # c => t.answers[d] = s.answers[d]
    BY <1>0
<1>3. Fresh(t, js) /\ Once(t)
    BY <1>1, <1>2 DEF Good, Fresh, Once
<1>4. Unrung(t, n)
    BY <1>0 DEF Good, Unrung
<1>5. Matches(t, n)
    BY DEF Matches
<1>6. QED  BY <1>0, <1>3, <1>4, <1>5 DEF Good

(* A page that learns of a call rings for it. *)
LEMMA RungGood ==
    ASSUME NEW s, NEW js, NEW n, Good(s, js, n), NEW p \in 1 .. n, NEW c \in CallConv
    PROVE Good(Rung(s, p, c), js, n)
<1> DEFINE call == [conv |-> c, native |-> FALSE]
           quiet == StopRing(s, p)
           dialled == StopDial(quiet, p)
           glare == IF s.refs[p].outgoing # c THEN quiet
                    ELSE IF dialled.outgoing = c THEN SetOutgoing(dialled, NoConv) ELSE dialled
           placed == [glare EXCEPT !.incoming = call]
           shown == Subscribed(glare, placed)
           rung == [shown EXCEPT !.refs[p].ringer = c, !.refs[p].ringing = c, !.answers[c] = 0]
<1>0. s \in Ui /\ p \in 1 .. MaxPages /\ p \in 0 .. MaxPages /\ n \in 0 .. MaxPages
    BY ClientBounds DEF Good
<1>1. Rung(s, p, c) \in {s, quiet, rung}
    BY DEF Rung, SetIncoming
<1>2. Quieter(s, quiet)  BY <1>0, StopQuiet
<1>3. quiet \in Ui  BY <1>2 DEF Quieter
<1>4. Good(s, js, n) /\ Good(quiet, js, n)  BY <1>2, QuieterGood
<1> HIDE DEF quiet
<1>5. Quieter(quiet, dialled)  BY <1>0, <1>3, StopQuiet
<1>6. dialled \in Ui  BY <1>5 DEF Quieter
<1> HIDE DEF dialled
<1>7. Quieter(dialled, SetOutgoing(dialled, NoConv))  BY <1>6, SetOutgoingQuiet
<1>8. Quieter(s, glare)  BY <1>2, <1>5, <1>7, QuieterTwice
<1> HIDE DEF glare
<1>9. /\ placed \in Ui /\ placed.incoming = call /\ placed.tracked = glare.tracked
      /\ placed.answers = glare.answers /\ placed.refs = glare.refs
    BY <1>8 DEF Quieter, Ui, Incoming
<1> HIDE DEF placed
<1>10. Quieter(placed, shown)  BY <1>9, SubscribedQuiet
<1> HIDE DEF shown
<1>11. /\ shown \in Ui /\ shown.tracked \subseteq s.tracked
       /\ shown.incoming \in {call, NoCall}
       /\ shown.answers = s.answers
       /\ \A q \in 1 .. MaxPages : shown.refs[q].ringer \in {s.refs[q].ringer, NoConv}
    BY <1>8, <1>9, <1>10 DEF Quieter
<1> DEFINE r == [shown.refs[p] EXCEPT !.ringer = c, !.ringing = c]
<1>12. shown.refs \in [1 .. MaxPages -> [Ref -> CallConv \cup {NoConv}]]
       /\ shown.answers \in [CallConv -> 0 .. 2]
    BY <1>11 DEF Ui
<1>13. r \in [Ref -> CallConv \cup {NoConv}] /\ r.ringer = c
    BY <1>0, <1>12 DEF Ref
<1>14. rung.refs = [shown.refs EXCEPT ![p] = r] /\ rung.answers = [shown.answers EXCEPT ![c] = 0]
    BY <1>0, <1>11, <1>12 DEF Ref, Ui
<1>15. rung.incoming = shown.incoming /\ rung.tracked = shown.tracked
    BY <1>11 DEF Ui
<1>16. rung.refs \in [1 .. MaxPages -> [Ref -> CallConv \cup {NoConv}]]
       /\ rung.answers \in [CallConv -> 0 .. 2]
    <2> HIDE DEF r, rung
    <2>1. QED  BY <1>0, <1>12, <1>13, <1>14
<1>17. rung \in Ui
    BY <1>11, <1>16 DEF Ui
<1>18. \A q \in 1 .. MaxPages : rung.refs[q].ringer = IF q = p THEN c ELSE shown.refs[q].ringer
    <2> HIDE DEF r, rung
    <2>1. QED  BY <1>0, <1>12, <1>13, <1>14
<1> HIDE DEF rung, r
<1>19. Good(rung, js, n)
    <2>1. /\ rung.tracked \subseteq s.tracked \cup {c}
          /\ rung.incoming = NoCall \/ rung.incoming.conv = c
          /\ rung.answers = [s.answers EXCEPT ![c] = 0]
        BY <1>11, <1>14, <1>15
    <2>2. \A q \in 1 .. MaxPages :
              rung.refs[q].ringer \in {s.refs[q].ringer, NoConv} \/ (q <= n /\ rung.refs[q].ringer = c)
        BY <1>0, <1>11, <1>18
    <2>3. n = 1 => rung.refs[1].ringer = c
        BY <1>0, <1>18
    <2>4. QED  BY <1>17, <2>1, <2>2, <2>3, ShownGood
<1>20. QED  BY <1>1, <1>4, <1>19

(* A call that was accepted elsewhere is not shown any more; nothing is asked. *)
LEMMA AcceptedByQuiet ==
    ASSUME NEW s \in Ui, NEW p \in 1 .. MaxPages, NEW c \in CallConv, NEW me
    PROVE Quieter(s, AcceptedBy(s, p, c, me))
<1> DEFINE t == StopDial(s, p)
           u == IF t.outgoing = c THEN SetOutgoing(t, NoConv) ELSE t
           q == StopRing(u, p)
           v == [u EXCEPT !.overlay = c]
           x == Subscribed(u, v)
           y == IF u.refs[p].bornActive = c THEN x ELSE OpenCall(u, c)
<1>0. p \in 0 .. MaxPages  BY ClientBounds
<1>1. Quieter(s, t)  BY <1>0, StopQuiet
<1>2. t \in Ui  BY <1>1 DEF Quieter
<1>3. AcceptedBy(s, p, c, me) = IF me THEN AcceptedByMe(u, p, c) ELSE AcceptedByPeer(u, p, c)
    BY DEF AcceptedBy
<1> HIDE DEF t
<1>4. Quieter(t, u)  BY <1>2, SetOutgoingQuiet, QuieterSame
<1>5. u \in Ui  BY <1>4 DEF Quieter
<1>6. Quieter(s, u)  BY <1>1, <1>4, QuieterTwice
<1> HIDE DEF u
<1>7. Quieter(u, q)  BY <1>0, <1>5, StopQuiet
<1>8. q \in Ui  BY <1>7 DEF Quieter
<1>9. AcceptedByMe(u, p, c) \in {u, SetIncoming(q, NoCall)}
    BY DEF AcceptedByMe
<1>10. AcceptedByPeer(u, p, c) \in {u, SetIncoming(q, NoCall), StopRing(y, p)}
    BY DEF AcceptedByPeer
<1> HIDE DEF q
<1>11. Quieter(q, SetIncoming(q, NoCall))  BY <1>8, SetIncomingQuiet
<1>12. Quieter(u, v)  BY <1>5 DEF Quieter, Ui
<1>13. v \in Ui  BY <1>12 DEF Quieter
<1> HIDE DEF v
<1>14. Quieter(v, x)  BY <1>13, SubscribedQuiet
<1> HIDE DEF x
<1>15. Quieter(u, x)  BY <1>12, <1>14, QuieterTwice
<1>16. Quieter(u, OpenCall(u, c))  BY <1>5, OpenCallQuiet
<1>17. Quieter(u, y)  BY <1>15, <1>16
<1>18. y \in Ui  BY <1>17 DEF Quieter
<1> HIDE DEF y
<1>19. Quieter(y, StopRing(y, p))  BY <1>0, <1>18, StopQuiet
<1>20. /\ Quieter(u, u) /\ Quieter(u, SetIncoming(q, NoCall)) /\ Quieter(u, StopRing(y, p))
    BY <1>5, <1>7, <1>11, <1>17, <1>19, QuieterSame, QuieterTwice
<1>21. QED  BY <1>3, <1>6, <1>9, <1>10, <1>20, QuieterTwice

(* Nor is one that is over. *)
LEMMA OverQuiet ==
    ASSUME NEW s \in Ui, NEW p \in 1 .. MaxPages, NEW c \in CallConv
    PROVE Quieter(s, Over(s, p, c))
<1> DEFINE t == StopDial(s, p)
           u == IF t.outgoing = c THEN SetOutgoing(t, NoConv) ELSE t
           v == IF c \in {s.refs[p].overlay, u.active, u.incoming.conv} THEN EndCall(u) ELSE u
           w == SetIncoming(v, NoCall)
<1>0. p \in 0 .. MaxPages  BY ClientBounds
<1>1. Quieter(s, t)  BY <1>0, StopQuiet
<1>2. t \in Ui  BY <1>1 DEF Quieter
<1>3. Over(s, p, c) = StopRing(w, p)  BY DEF Over
<1> HIDE DEF t
<1>4. Quieter(t, u)  BY <1>2, SetOutgoingQuiet, QuieterSame
<1>5. u \in Ui  BY <1>4 DEF Quieter
<1> HIDE DEF u
<1>6. Quieter(u, v)  BY <1>5, EndCallQuiet, QuieterSame
<1>7. v \in Ui  BY <1>6 DEF Quieter
<1> HIDE DEF v
<1>8. Quieter(v, w)  BY <1>7, SetIncomingQuiet
<1>9. w \in Ui  BY <1>8 DEF Quieter
<1> HIDE DEF w
<1>10. Quieter(w, StopRing(w, p))  BY <1>0, <1>9, StopQuiet
<1>11. QED  BY <1>1, <1>3, <1>4, <1>6, <1>8, <1>10, QuieterTwice

(* One page, handling one event. *)
LEMMA HandledGood ==
    ASSUME NEW s, NEW js, NEW n, Good(s, js, n), NEW p \in 1 .. n, NEW e \in Event
    PROVE Good(Handled(s, p, e), js, n)
<1>0. s \in Ui /\ p \in 1 .. MaxPages /\ e.conv \in CallConv
    BY ClientBounds DEF Good, Event
<1>1. CASE e.kind = "incoming"
    BY <1>0, <1>1, RungGood DEF Handled
<1>2. CASE e.kind = "accepted"
    <2>1. Handled(s, p, e) = AcceptedBy(s, p, e.conv, e.me)  BY <1>2 DEF Handled
    <2>2. QED  BY <1>0, <2>1, AcceptedByQuiet, QuieterGood
<1>3. CASE e.kind = "over"
    <2>1. Handled(s, p, e) = Over(s, p, e.conv)  BY <1>3 DEF Handled
    <2>2. QED  BY <1>0, <2>1, OverQuiet, QuieterGood
<1>4. QED  BY <1>1, <1>2, <1>3 DEF Event

-----------------------------------------------------------------------------
(* The pages handle an event one after the other. *)

(* The recursion of Received over the pages up to n: g gives what is left by each. *)
After(e, n, g) == [p \in 0 .. n |-> IF p = 0 THEN ui ELSE Handled(g[p - 1], p, e)]

(* A function like that exists. *)
LEMMA AfterExists ==
    ASSUME NEW e
    PROVE \A n \in Nat : \E g : g = After(e, n, g)
<1> DEFINE Known == {n \in Nat : \E g : g = After(e, n, g)}
<1>1. 0 \in Known
    <2> DEFINE g == [p \in 0 .. 0 |-> ui]
    <2>1. g = After(e, 0, g)  BY DEF After
    <2>2. QED  BY <2>1
<1>2. ASSUME NEW n \in Nat, n \in Known PROVE n + 1 \in Known
    <2>1. PICK g : g = After(e, n, g)  BY <1>2
    <2> DEFINE h == [p \in 0 .. n + 1 |-> IF p <= n THEN g[p] ELSE Handled(g[p - 1], p, e)]
    <2>2. ASSUME NEW p \in 0 .. n + 1
          PROVE h[p] = After(e, n + 1, h)[p]
        <3>1. CASE p = 0
            <4>1. g[0] = ui  BY <2>1 DEF After
            <4>2. QED  BY <3>1, <4>1 DEF After
        <3>2. CASE p # 0 /\ p <= n
            <4>1. p - 1 \in 0 .. n /\ p \in 0 .. n  BY <3>2
            <4>2. h[p - 1] = g[p - 1] /\ h[p] = g[p]  BY <4>1
            <4>3. g[p] = Handled(g[p - 1], p, e)  BY <2>1, <4>1, <3>2 DEF After
            <4>4. QED  BY <4>2, <4>3, <3>2 DEF After
        <3>3. CASE p = n + 1
            <4>1. p - 1 \in 0 .. n /\ p # 0 /\ ~ (p <= n)  BY <3>3
            <4>2. h[p - 1] = g[p - 1]  BY <4>1
            <4>3. QED  BY <4>1, <4>2 DEF After
        <3>4. QED  BY <3>1, <3>2, <3>3
    <2> HIDE DEF h
    <2>3. h = [p \in 0 .. n + 1 |-> h[p]]  BY DEF h
    <2>4. h = After(e, n + 1, h)  BY <2>2, <2>3 DEF After
    <2>5. QED  BY <2>4
<1>3. Nat \subseteq Known
    <2> HIDE DEF Known
    <2>1. QED  BY <1>1, <1>2, Induction
<1>4. QED  BY <1>3

(* Whatever the pages make of an event, together, is good. *)
LEMMA ReceivedGood ==
    ASSUME CoreInv, NEW e \in Event
    PROVE Good(Received(e), jobs, pages)
<1> DEFINE g == CHOOSE f : f = After(e, pages, f)
           Known == {n \in Nat : n <= pages => Good(g[n], jobs, pages)}
<1>0. pages \in Nat  BY ClientBounds DEF CoreInv, Good
<1>1. g = After(e, pages, g)
    <2>1. \E f : f = After(e, pages, f)  BY <1>0, AfterExists
    <2>2. QED  BY <2>1
<1>2. Received(e) = g[pages]  BY DEF Received, After
<1> HIDE DEF g
<1>3. 0 \in Known
    <2>1. g[0] = ui  BY <1>0, <1>1 DEF After
    <2>2. QED  BY <2>1 DEF CoreInv
<1>4. ASSUME NEW n \in Nat, n \in Known PROVE n + 1 \in Known
    <2>1. SUFFICES ASSUME n + 1 <= pages PROVE Good(g[n + 1], jobs, pages)
        OBVIOUS
    <2>2. Good(g[n], jobs, pages)  BY <1>0, <1>4, <2>1
    <2>3. n + 1 \in 1 .. pages  BY <1>0, <2>1
    <2>4. g[n + 1] = Handled(g[n], n + 1, e)
        <3>1. n + 1 \in 0 .. pages /\ n + 1 # 0 /\ n + 1 - 1 = n  BY <2>3
        <3>2. g[n + 1] = After(e, pages, g)[n + 1]  BY <1>1
        <3>3. QED  BY <3>1, <3>2 DEF After
    <2>5. QED  BY <2>2, <2>3, <2>4, HandledGood
<1>5. Nat \subseteq Known
    <2> HIDE DEF Known
    <2>1. QED  BY <1>3, <1>4, Induction
<1>6. QED  BY <1>0, <1>2, <1>5

-----------------------------------------------------------------------------
(* The events of the user, of the server and of the timers keep the invariant. *)

(* The user hangs up, opens a call, minimises it and opens it again. *)
LEMMA UserCore ==
    ASSUME CoreInv,
           \/ TapAnswer \/ HangUp \/ Minimize \/ Expand \/ MediaCloses
           \/ StopDialling \/ \E c \in CallConv : JoinHere(c)
    PROVE CoreInv'
<1>0. /\ ui \in Ui /\ mounted \in 0 .. MaxPages /\ route \in {"chats", "other"}
      /\ ui.overlay \in CallConv \cup {NoConv} /\ ui.active \in CallConv \cup {NoConv}
      /\ ui.incoming # NoCall => ui.incoming.conv \in CallConv
    BY ClientBounds DEF CoreInv, Good, Ui, Incoming
<1>1. CASE TapAnswer
    BY <1>0, <1>1, AcceptCore, DeclineCore DEF TapAnswer, By
<1>2. CASE HangUp
    BY <1>0, <1>2, EndCore DEF HangUp, By
<1>3. CASE Minimize
    <2>1. Quieter(ui, StartOutgoing(ui, ui.overlay))  BY <1>0, <1>3, StartOutgoingQuiet DEF Minimize
    <2>2. QED  BY <1>0, <1>3, <2>1, QuietCore DEF Minimize
<1>4. CASE Expand
    <2> DEFINE t == [ui EXCEPT !.overlay = ui.active]
    <2>1. Quieter(ui, t)  BY <1>0 DEF Quieter, Ui
    <2>2. t \in Ui  BY <2>1 DEF Quieter
    <2>3. Shows(Subscribed(ui, t)) /\ UNCHANGED <<route, pages, mounted, jobs>>  BY <1>4 DEF Expand
    <2> HIDE DEF t
    <2>4. Quieter(ui, Subscribed(ui, t))  BY <2>1, <2>2, SubscribedQuiet, QuieterTwice
    <2>5. QED  BY <1>0, <2>3, <2>4, QuietCore
<1>5. CASE MediaCloses
    <2> DEFINE t == EndCall(ui)
    <2>1. Quieter(ui, t)  BY <1>0, EndCallQuiet
    <2>2. t \in Ui  BY <2>1 DEF Quieter
    <2>3. Shows(StopRing(t, mounted)) /\ UNCHANGED <<route, pages, mounted, jobs>>
        BY <1>5 DEF MediaCloses
    <2> HIDE DEF t
    <2>4. Quieter(ui, StopRing(t, mounted))  BY <1>0, <2>1, <2>2, StopQuiet, QuieterTwice
    <2>5. QED  BY <1>0, <2>3, <2>4, QuietCore
<1>6. CASE StopDialling
    <2> DEFINE t == StopDial(ui, mounted)
    <2>1. Quieter(ui, t)  BY <1>0, StopQuiet
    <2>2. t \in Ui  BY <2>1 DEF Quieter
    <2>3. Shows(EndCall(t)) /\ UNCHANGED <<route, pages, mounted, jobs>>
        BY <1>6 DEF StopDialling
    <2> HIDE DEF t
    <2>4. Quieter(ui, EndCall(t))  BY <1>0, <2>1, <2>2, EndCallQuiet, QuieterTwice
    <2>5. QED  BY <1>0, <2>3, <2>4, QuietCore
<1>7. ASSUME NEW c \in CallConv, JoinHere(c) PROVE CoreInv'
    <2>1. Quieter(ui, OpenCall(ui, c))  BY <1>0, OpenCallQuiet
    <2>2. QED  BY <1>0, <1>7, <2>1, QuietCore DEF JoinHere
<1>8. QED  BY <1>1, <1>2, <1>3, <1>4, <1>5, <1>6, <1>7

(* A call that is placed, or to which a caller is invited, is not answered. *)
LEMMA AskedCore ==
    ASSUME CoreInv, InviteCaller \/ \E c \in CallConv : Dial(c)
    PROVE CoreInv'
<1>1. PICK j : /\ j.kind \in {"dial", "invite"} /\ j \in Job
               /\ jobs' = jobs \cup {j} /\ UNCHANGED <<ui, route, pages, mounted>>
    <2>0. /\ mounted \in 0 .. MaxPages
          /\ ui.incoming # NoCall => ui.incoming.conv \in CallConv
        BY ClientBounds DEF CoreInv, Good, Ui, Incoming
    <2>1. CASE InviteCaller
        <3> DEFINE j == [kind |-> "invite", conv |-> ui.incoming.conv, page |-> 0, by |-> "web"]
        <3>1. j \in Job  BY <2>0, <2>1, ClientBounds DEF InviteCaller, Job
        <3>2. j.kind = "invite"  OBVIOUS
        <3>3. jobs' = jobs \cup {j} /\ UNCHANGED <<ui, route, pages, mounted>>
            BY <2>1 DEF InviteCaller
        <3> HIDE DEF j
        <3>4. QED  BY <3>1, <3>2, <3>3
    <2>2. ASSUME NEW c \in CallConv, Dial(c)
          PROVE \E j : /\ j.kind \in {"dial", "invite"} /\ j \in Job
                       /\ jobs' = jobs \cup {j} /\ UNCHANGED <<ui, route, pages, mounted>>
        <3> DEFINE j == [kind |-> "dial", conv |-> c, page |-> mounted, by |-> "web"]
        <3>1. j \in Job  BY <2>0 DEF Job
        <3>2. j.kind = "dial"  OBVIOUS
        <3>3. jobs' = jobs \cup {j} /\ UNCHANGED <<ui, route, pages, mounted>>
            BY <2>2 DEF Dial
        <3> HIDE DEF j
        <3>4. QED  BY <3>1, <3>2, <3>3
    <2>3. QED  BY <2>1, <2>2
<1>2. \A c \in CallConv : Asks(ui, jobs', c) => Asks(ui, jobs, c)
    BY <1>1 DEF Asks
<1>3. Good(ui, jobs', pages)
    BY <1>2 DEF CoreInv, Good, Fresh
<1>4. jobs' \subseteq Job /\ OneAnswer'
    BY <1>1 DEF CoreInv, OneAnswer
<1>5. RingerIsShown'  BY <1>1 DEF CoreInv, RingerIsShown
<1>6. Good(ui, jobs, pages)'  BY <1>1, <1>3
<1>7. QED  BY <1>1, <1>4, <1>5, <1>6 DEF CoreInv

(* The server may send anything; a timer ends what it was set for. *)
LEMMA EventCore ==
    ASSUME CoreInv,
           \/ \E e \in Event : ServerEvent(e)
           \/ \E p \in 1 .. pages : RingerTimeout(p) \/ DialTimeout(p)
    PROVE CoreInv'
<1>0. /\ ui \in Ui /\ pages \in 0 .. MaxPages /\ route \in {"chats", "other"}
      /\ jobs \subseteq Job /\ OneAnswer
    BY DEF CoreInv, Good
<1>1. ASSUME NEW e \in Event, ServerEvent(e) PROVE CoreInv'
    <2>1. Good(Received(e), jobs, pages)  BY ReceivedGood
    <2>2. /\ Shows(Received(e)) /\ UNCHANGED <<route, pages, mounted>> /\ jobs' = jobs
        BY <1>1 DEF ServerEvent
    <2>3. jobs' \subseteq Job /\ OneAnswer'  BY <1>0, <2>2 DEF OneAnswer
    <2>4. Good(Received(e), jobs', pages)  BY <2>1, <2>2
    <2>5. route' \in {"chats", "other"} /\ UNCHANGED <<pages, mounted>>  BY <1>0, <2>2
    <2>6. Shows(Received(e))  BY <2>2
    <2>7. QED  BY <2>3, <2>4, <2>5, <2>6, ShowsCore
<1>2. ASSUME NEW p \in 1 .. pages, RingerTimeout(p) PROVE CoreInv'
    <2> DEFINE t == StopRing(ui, p)
    <2>1. p \in 0 .. MaxPages  BY <1>0, ClientBounds
    <2>2. Quieter(ui, t)  BY <1>0, <2>1, StopQuiet
    <2>3. t \in Ui  BY <2>2 DEF Quieter
    <2>4. Shows(SetIncoming(t, NoCall)) /\ UNCHANGED <<route, pages, mounted, jobs>>
        BY <1>2 DEF RingerTimeout
    <2> HIDE DEF t
    <2>5. Quieter(ui, SetIncoming(t, NoCall))  BY <2>2, <2>3, SetIncomingQuiet, QuieterTwice
    <2>6. QED  BY <1>0, <2>4, <2>5, QuietCore
<1>3. ASSUME NEW p \in 1 .. pages, DialTimeout(p) PROVE CoreInv'
    <2> DEFINE t == IF ui.outgoing = ui.refs[p].dialer THEN EndCall(ui) ELSE ui
    <2>1. p \in 0 .. MaxPages  BY <1>0, ClientBounds
    <2>2. Quieter(ui, t)  BY <1>0, EndCallQuiet, QuieterSame
    <2>3. t \in Ui  BY <2>2 DEF Quieter
    <2>4. Shows(StopDial(t, p)) /\ UNCHANGED <<route, pages, mounted, jobs>>
        BY <1>3 DEF DialTimeout
    <2> HIDE DEF t
    <2>5. Quieter(ui, StopDial(t, p))  BY <2>1, <2>2, <2>3, StopQuiet, QuieterTwice
    <2>6. QED  BY <1>0, <2>4, <2>5, QuietCore
<1>4. QED  BY <1>1, <1>2, <1>3

-----------------------------------------------------------------------------
(* What was waited for. *)

(* The answer that is carried out was the only one, and is the first one since
   the call was shown. *)
LEMMA AnsweredGood ==
    ASSUME CoreInv, NEW j \in jobs, j.kind = "answer"
    PROVE Good(Answered(j), jobs \ {j}, pages)
<1> DEFINE c == j.conv
           a == [kind |-> "accept", conv |-> c]
           other == IF ui.overlay # NoConv THEN ui.overlay ELSE ui.active
           left == IF j.page # 0 /\ other \notin {NoConv, c} THEN Hung(ui, j.page) ELSE ui
           open == OpenCall(left, c)
           still == StopRing(open, j.page)
           t == Applied(still, a)
           u == [t EXCEPT !.tracked = @ \ {c}, !.calls = @ \cup {c},
                          !.answers[c] = IF @ < 2 THEN @ + 1 ELSE @]
<1>0. ui \in Ui /\ j \in Job /\ c \in CallConv /\ j.page \in 0 .. MaxPages /\ a \in Answer
    BY DEF CoreInv, Good, Job, Answer
<1>1. Quieter(ui, left)  BY <1>0, HungQuiet, QuieterSame
<1>2. left \in Ui  BY <1>1 DEF Quieter
<1>3. Answered(j) = u  BY DEF Answered
<1> HIDE DEF left
<1>4. Quieter(left, open) /\ open.incoming = NoCall  BY <1>0, <1>2, OpenCallQuiet
<1>5. open \in Ui  BY <1>4 DEF Quieter
<1> HIDE DEF open
<1>6. Quieter(open, still)  BY <1>0, <1>5, StopQuiet
<1>7. still \in Ui  BY <1>6 DEF Quieter
<1> HIDE DEF still
<1>8. Quieter(still, t)  BY <1>0, <1>7, AnswersQuiet
<1> HIDE DEF t
<1>9. Quieter(ui, t)  BY <1>1, <1>4, <1>6, <1>8, QuieterTwice
<1>10. t \in Ui /\ t.incoming = NoCall  BY <1>4, <1>6, <1>8 DEF Quieter
<1>11. ui.answers[c] = 0 /\ t.answers = ui.answers
    BY <1>0, <1>9 DEF CoreInv, Good, Fresh, Asks, Quieter
<1>12. u.answers = [ui.answers EXCEPT ![c] = 1] /\ ui.answers \in [CallConv -> 0 .. 2]
    BY <1>0, <1>10, <1>11 DEF Ui
<1>13. /\ u.tracked = t.tracked \ {c} /\ u.incoming = NoCall /\ u.refs = t.refs
       /\ u.answers \in [CallConv -> 0 .. 2]
    BY <1>0, <1>10, <1>12 DEF Ui
<1>14. u \in Ui
    BY <1>0, <1>10, <1>13 DEF Ui
<1> HIDE DEF u
<1>15. \A d \in CallConv : Asks(u, jobs \ {j}, d) => d # c /\ Asks(ui, jobs, d)
    <2>1. SUFFICES ASSUME NEW d \in CallConv, Asks(u, jobs \ {j}, d)
                   PROVE d # c /\ Asks(ui, jobs, d)
        OBVIOUS
    <2>2. u.incoming.conv # d  BY <1>13, ClientBounds DEF NoCall
    <2>3. CASE d \in u.tracked
        BY <1>9, <1>13, <2>3 DEF Quieter, Asks
    <2>4. CASE \E k \in jobs \ {j} : k.kind = "answer" /\ k.conv = d
        BY <2>4 DEF CoreInv, OneAnswer, Asks
    <2>5. QED  BY <2>1, <2>2, <2>3, <2>4 DEF Asks
<1>16. Fresh(u, jobs \ {j}) /\ Once(u)
    BY <1>0, <1>12, <1>15 DEF CoreInv, Good, Fresh, Once
<1>17. Unrung(u, pages)
    BY <1>9, <1>13 DEF CoreInv, Good, Unrung, Quieter
<1>18. Matches(u, pages)  BY <1>13 DEF Matches
<1>19. QED  BY <1>3, <1>14, <1>16, <1>17, <1>18 DEF CoreInv, Good

(* Dialling asks for nothing. *)
LEMMA DialledQuiet ==
    ASSUME NEW j \in Job, ui \in Ui
    PROVE Quieter(ui, Dialled(j))
<1> DEFINE s == StartOutgoing(ui, j.conv)
           t == SetOutgoing(s, j.conv)
           u == [t EXCEPT !.refs[j.page].dialer = j.conv]
<1>0. j.conv \in CallConv /\ j.page \in 0 .. MaxPages  BY DEF Job
<1>1. Quieter(ui, s)  BY <1>0, StartOutgoingQuiet
<1>2. s \in Ui  BY <1>1 DEF Quieter
<1>3. Dialled(j) = u  BY DEF Dialled
<1> HIDE DEF s
<1>4. Quieter(s, t)  BY <1>0, <1>2, SetOutgoingQuiet
<1>5. t \in Ui  BY <1>4 DEF Quieter
<1> HIDE DEF t
<1>6. t.refs \in [1 .. MaxPages -> [Ref -> CallConv \cup {NoConv}]]  BY <1>5 DEF Ui
<1>7. /\ u.refs \in [1 .. MaxPages -> [Ref -> CallConv \cup {NoConv}]]
      /\ \A q \in 1 .. MaxPages : u.refs[q].ringer = t.refs[q].ringer
    <2>1. CASE j.page \in 1 .. MaxPages
        <3> DEFINE p == j.page
                   r == [t.refs[p] EXCEPT !.dialer = j.conv]
        <3>1. r \in [Ref -> CallConv \cup {NoConv}] /\ r.ringer = t.refs[p].ringer
            BY <1>0, <1>6, <2>1 DEF Ref
        <3>2. u.refs = [t.refs EXCEPT ![p] = r]
            BY <1>5, <1>6, <2>1 DEF Ref, Ui
        <3> HIDE DEF r, u, p
        <3>3. QED  BY <1>6, <3>1, <3>2
    <2>2. CASE j.page \notin 1 .. MaxPages
        <3> DEFINE f == [t.refs EXCEPT ![j.page].dialer = j.conv]
        <3>1. u.refs = f  BY <1>5 DEF Ui
        <3>2. f = t.refs  BY <1>6, <2>2
        <3>3. QED  BY <1>6, <3>1, <3>2
    <2>3. QED  BY <2>1, <2>2
<1>8. /\ u \in Ui /\ u.tracked = t.tracked /\ u.incoming = t.incoming /\ u.answers = t.answers
    BY <1>5, <1>7 DEF Ui
<1> HIDE DEF u
<1>9. Quieter(t, u)  BY <1>7, <1>8 DEF Quieter
<1>10. QED  BY <1>1, <1>3, <1>4, <1>9, QuieterTwice

(* What is granted is done, what is refused is forgotten. *)
LEMMA GrantedCore ==
    ASSUME CoreInv, NEW j \in jobs, Granted(j) \/ Refused(j)
    PROVE CoreInv'
<1>0. /\ ui \in Ui /\ j \in Job /\ jobs \subseteq Job /\ OneAnswer
      /\ route \in {"chats", "other"}
    BY DEF CoreInv, Good
<1>1. CASE Refused(j)
    BY <1>0, <1>1, UnshownCore, QuieterSame DEF Refused
<1>2. CASE Granted(j)
    <2>1. /\ jobs' = jobs \ {j} /\ UNCHANGED <<pages, mounted>>
          /\ route' \in {"chats", "other"}
        BY <1>0, <1>2 DEF Granted
    <2>2. CASE j.kind = "answer" /\ Shows(Answered(j))
        <3>1. Good(Answered(j), jobs \ {j}, pages)  BY <2>2, AnsweredGood
        <3>2. Good(Answered(j), jobs', pages)  BY <2>1, <3>1
        <3>3. jobs' \subseteq Job /\ OneAnswer'  BY <1>0, <2>1 DEF OneAnswer
        <3>4. QED  BY <2>1, <2>2, <3>2, <3>3, ShowsCore
    <2>3. CASE Shows(Dialled(j))
        <3>1. Quieter(ui, Dialled(j))  BY <1>0, DialledQuiet
        <3>2. QED  BY <2>1, <2>3, <3>1, QuietCore
    <2>4. CASE Shows(SetIncoming(ui, NoCall))
        <3>1. Quieter(ui, SetIncoming(ui, NoCall))  BY <1>0, SetIncomingQuiet
        <3>2. QED  BY <2>1, <2>4, <3>1, QuietCore
    <2>5. QED  BY <1>2, <2>2, <2>3, <2>4 DEF Granted
<1>3. QED  BY <1>1, <1>2

-----------------------------------------------------------------------------
(* The Android shell, and the pages that come and go. *)

(* A call that the shell rings for was not accepted yet. *)
LEMMA NativeRingsCore ==
    ASSUME CoreInv, NEW c \in CallConv, NEW fresh, NativeRings(c, fresh),
           UNCHANGED <<pages, mounted>>
    PROVE CoreInv'
<1> DEFINE call == [conv |-> c, native |-> TRUE]
           t == [ui EXCEPT !.tracked = @ \cup {c}, !.answers[c] = 0,
                           !.applied = IF fresh THEN {a \in @ : a.conv # c} ELSE @]
           u == [t EXCEPT !.incoming = call]
           s == Subscribed(t, u)
<1>0. /\ ui \in Ui /\ jobs \subseteq Job /\ OneAnswer /\ route \in {"chats", "other"}
      /\ call \in Incoming
    BY DEF CoreInv, Good, Incoming
<1>1. Shows(s) /\ jobs' = jobs /\ route' = route
    BY DEF NativeRings, SetIncoming
<1>2. /\ t \in Ui /\ t.tracked = ui.tracked \cup {c} /\ t.refs = ui.refs
      /\ t.answers = [ui.answers EXCEPT ![c] = 0]
    <2> DEFINE kept == IF fresh THEN {a \in ui.applied : a.conv # c} ELSE ui.applied
               none == [ui.answers EXCEPT ![c] = 0]
    <2>1. t = [ui EXCEPT !.tracked = ui.tracked \cup {c}, !.answers = none, !.applied = kept]
        BY <1>0 DEF Ui
    <2>2. kept \subseteq ui.applied /\ none \in [CallConv -> 0 .. 2]
        BY <1>0 DEF Ui
    <2>3. t.answers = none  BY <1>0, <2>1 DEF Ui
    <2> HIDE DEF kept, none
    <2>4. t \in Ui /\ t.tracked = ui.tracked \cup {c} /\ t.refs = ui.refs
        BY <1>0, <2>1, <2>2 DEF Ui
    <2>5. QED  BY <2>3, <2>4 DEF none
<1> HIDE DEF t
<1>3. u \in Ui /\ u.incoming = call /\ u.tracked = t.tracked /\ u.refs = t.refs /\ u.answers = t.answers
    BY <1>0, <1>2 DEF Ui
<1> HIDE DEF u
<1>4. Quieter(u, s)  BY <1>3, SubscribedQuiet
<1> HIDE DEF s
<1>5. /\ s \in Ui /\ s.tracked \subseteq ui.tracked \cup {c}
      /\ s.incoming \in {call, NoCall}
      /\ s.answers = [ui.answers EXCEPT ![c] = 0]
      /\ \A q \in 1 .. MaxPages : s.refs[q].ringer \in {ui.refs[q].ringer, NoConv}
    BY <1>2, <1>3, <1>4 DEF Quieter
<1>6. /\ s.incoming = NoCall \/ s.incoming.conv = c
      /\ s.incoming = NoCall \/ s.incoming.native
    BY <1>5
<1>7. Good(ui, jobs, pages)  BY DEF CoreInv
<1>8. Good(s, jobs, pages)  BY <1>5, <1>6, <1>7, ShownGood
<1>9. Good(s, jobs', pages)  BY <1>1, <1>8
<1>10. jobs' \subseteq Job /\ OneAnswer' /\ route' \in {"chats", "other"}
    BY <1>0, <1>1 DEF OneAnswer
<1>11. QED  BY <1>1, <1>9, <1>10, ShowsCore

(* One that it cancels is not asked for any more. *)
LEMMA NativeCancelsCore ==
    ASSUME CoreInv, NEW c \in CallConv, NativeCancels(c), UNCHANGED <<pages, mounted>>
    PROVE CoreInv'
<1> DEFINE t == [ui EXCEPT !.tracked = @ \ {c}, !.calls = @ \ {c}, !.pending = {a \in @ : a.conv # c}]
           u == IF t.incoming.conv = c THEN SetIncoming(t, NoCall) ELSE t
           v == IF c \in {u.overlay, u.active, u.outgoing} THEN EndCall(u) ELSE u
<1>0. ui \in Ui /\ route \in {"chats", "other"}  BY DEF CoreInv, Good
<1>1. Shows(v) /\ jobs' = jobs /\ route' = route  BY DEF NativeCancels
<1>2. Quieter(ui, t)  BY <1>0 DEF Quieter, Ui
<1>3. t \in Ui  BY <1>2 DEF Quieter
<1> HIDE DEF t
<1>4. Quieter(t, u)  BY <1>3, SetIncomingQuiet, QuieterSame
<1>5. u \in Ui  BY <1>4 DEF Quieter
<1> HIDE DEF u
<1>6. Quieter(u, v)  BY <1>5, EndCallQuiet, QuieterSame
<1> HIDE DEF v
<1>7. Quieter(ui, v)  BY <1>2, <1>4, <1>6, QuieterTwice
<1>8. QED  BY <1>0, <1>1, <1>7, QuietCore

(* An event of the shell. *)
LEMMA NativeCore ==
    ASSUME CoreInv, NEW c \in CallConv, NativeEvent(c)
    PROVE CoreInv'
BY NativeRingsCore, NativeCancelsCore, PerformCore DEF NativeEvent, By

(* A page is mounted silent; one that was left is not on the screen. *)
LEMMA PageCore ==
    ASSUME CoreInv, Ready \/ Mount \/ LeavePage \/ Return
    PROVE CoreInv'
<1>0. /\ ui \in Ui /\ jobs \subseteq Job /\ OneAnswer /\ route \in {"chats", "other"}
      /\ pages \in 0 .. MaxPages /\ mounted \in {0, pages} /\ mounted \in 0 .. MaxPages
    BY ClientBounds DEF CoreInv, Good
<1>1. CASE Ready \/ Return
    BY <1>0, <1>1, UnshownCore, QuieterSame DEF Ready, Return
<1>2. CASE LeavePage
    <2>1. /\ ui' = StopDial(ui, mounted) /\ mounted' = 0 /\ route' = "other"
          /\ UNCHANGED <<pages, jobs>>
        BY <1>2 DEF LeavePage
    <2>2. Quieter(ui, ui')  BY <1>0, <2>1, StopQuiet
    <2>3. Good(ui', jobs, pages)  BY <2>2, QuieterGood DEF CoreInv
    <2>4. Good(ui, jobs, pages)'  BY <2>1, <2>3
    <2>5. RingerIsShown' /\ OneAnswer'  BY <1>0, <2>1 DEF RingerIsShown, OneAnswer
    <2>6. QED  BY <1>0, <2>1, <2>4, <2>5 DEF CoreInv
<1>3. CASE Mount
    <2> DEFINE n == pages + 1
               s == [ui EXCEPT !.refs[n].bornIncoming = ui.incoming.conv,
                               !.refs[n].bornActive = ui.active]
    <2>1. /\ ui' = Settled(s, n, TRUE) /\ pages' = n /\ mounted' = n
          /\ UNCHANGED <<jobs, route>>
        BY <1>3 DEF Mount
    <2>2. n \in 1 .. MaxPages /\ n \in 0 .. MaxPages /\ n # 0
        BY <1>0, <1>3, ClientBounds DEF Mount
    <2>3. Quieter(ui, s)
        <3> DEFINE r == [ui.refs[n] EXCEPT !.bornIncoming = ui.incoming.conv, !.bornActive = ui.active]
        <3>1. ui.refs \in [1 .. MaxPages -> [Ref -> CallConv \cup {NoConv}]]
              /\ ui.incoming.conv \in CallConv \cup {NoConv} /\ ui.active \in CallConv \cup {NoConv}
            BY <1>0 DEF Ui, Incoming, NoCall
        <3>2. r \in [Ref -> CallConv \cup {NoConv}] /\ r.ringer = ui.refs[n].ringer
            BY <2>2, <3>1 DEF Ref
        <3>3. s.refs = [ui.refs EXCEPT ![n] = r]
            BY <1>0, <2>2, <3>1 DEF Ref, Ui
        <3>4. /\ s.refs \in [1 .. MaxPages -> [Ref -> CallConv \cup {NoConv}]]
              /\ \A q \in 1 .. MaxPages : s.refs[q].ringer = ui.refs[q].ringer
            <4> HIDE DEF r, s, n
            <4>1. QED  BY <2>2, <3>1, <3>2, <3>3
        <3>5. /\ s \in Ui /\ s.tracked = ui.tracked /\ s.incoming = ui.incoming
              /\ s.answers = ui.answers
            BY <1>0, <3>4 DEF Ui
        <3> HIDE DEF s
        <3>6. QED  BY <3>4, <3>5 DEF Quieter
    <2>4. s \in Ui  BY <2>3 DEF Quieter
    <2> HIDE DEF s
    <2>5. Quieter(ui, ui')
        <3>1. Quieter(s, Settled(s, n, TRUE))  BY <2>2, <2>4, SettledFacts
        <3>2. QED  BY <2>1, <2>3, <3>1, QuieterTwice
    <2>6. Good(ui', jobs, pages)  BY <2>5, QuieterGood DEF CoreInv
    <2>7. \A q \in 1 .. MaxPages : q > pages => ui'.refs[q].ringer = NoConv
        BY <2>6 DEF Good, Unrung
    <2>8. Unrung(ui', n) /\ (n = 1 => ui'.refs[1].ringer = NoConv)
        BY <1>0, <2>2, <2>7 DEF Unrung
    <2>9. Good(ui', jobs, n)  BY <2>2, <2>6, <2>8 DEF Good, Matches
    <2>10. Good(ui, jobs, pages)'  BY <2>1, <2>9
    <2>11. RingerIsShown' /\ OneAnswer'  BY <1>0, <2>1, <2>8 DEF RingerIsShown, OneAnswer
    <2>12. QED  BY <1>0, <2>1, <2>10, <2>11 DEF CoreInv
<1>4. QED  BY <1>1, <1>2, <1>3

-----------------------------------------------------------------------------
(* Initially nothing is shown and no page rings. *)
LEMMA InitHolds == ClientInit => PhoneInv
<1> SUFFICES ASSUME ClientInit PROVE PhoneInv
    OBVIOUS
<1>1. NoRefs \in [Ref -> CallConv \cup {NoConv}] /\ NoRefs.ringer = NoConv
    BY DEF NoRefs, Ref
<1>2. ui \in Ui
    BY <1>1 DEF ClientInit, Ui, Incoming
<1>3. /\ ui.tracked = {} /\ ui.incoming = NoCall /\ jobs = {} /\ pages = 0 /\ mounted = 0
      /\ \A c \in CallConv : ui.answers[c] = 0
      /\ \A p \in 1 .. MaxPages : ui.refs[p] = NoRefs
    BY DEF ClientInit
<1>4. Fresh(ui, jobs) /\ Once(ui)
    BY <1>3 DEF Fresh, Once
<1>5. Unrung(ui, pages) /\ Matches(ui, pages)
    BY <1>1, <1>3 DEF Unrung, Matches
<1>6. Good(ui, jobs, pages)
    BY <1>2, <1>3, <1>4, <1>5, ClientBounds DEF Good
<1>7. CoreInv
    BY <1>3, <1>6 DEF CoreInv, OneAnswer, RingerIsShown, ClientInit
<1>8. ready = FALSE /\ todo = {} /\ acts = 0  BY DEF ClientInit
<1>9. MaxActs \in Nat  BY ClientBounds
<1>10. ready \in BOOLEAN  BY <1>8
<1>11. todo \subseteq Answer  BY <1>8
<1>12. acts \in 0 .. MaxActs  BY <1>8, <1>9
<1>13. QED  BY <1>7, <1>10, <1>11, <1>12 DEF PhoneInv

(* A replay takes up the answers that wait. *)
LEMMA ReplayTakes ==
    ASSUME ReplayOnChange \/ Replay \/ UNCHANGED todo
    PROVE todo' \in {todo, ui'.pending}
BY DEF ReplayOnChange, Replay

(* No step of the page, of the server or of the shell breaks it. *)
LEMMA NextHolds == PhoneInv /\ [ClientNext]_callVars => PhoneInv'
<1> SUFFICES ASSUME PhoneInv, [ClientNext]_callVars PROVE PhoneInv'
    OBVIOUS
<1>0. /\ CoreInv /\ todo \subseteq Answer /\ ready \in BOOLEAN /\ acts \in 0 .. MaxActs
    BY DEF PhoneInv
<1>1. CASE UNCHANGED callVars
    <2>1. UNCHANGED <<ui, route, ready, pages, mounted, jobs, todo, acts>>
        BY <1>1 DEF callVars
    <2>2. CoreInv'
        BY <1>0, <2>1 DEF CoreInv, Good, Fresh, Asks, Once, Unrung, Matches, OneAnswer, RingerIsShown
    <2>3. QED  BY <1>0, <2>1, <2>2 DEF PhoneInv
<1>2. CASE ReplayNext
    <2>1. PICK a \in todo : Perform(a.kind, a.conv, "replay") /\ todo' = todo \ {a}
        BY <1>2 DEF ReplayNext
    <2>2. a.conv \in CallConv /\ UNCHANGED <<ready, pages, mounted, acts>>
        BY <1>0, <1>2 DEF Answer, ReplayNext
    <2>3. CoreInv'  BY <1>0, <2>1, <2>2, PerformCore DEF By
    <2>4. QED  BY <1>0, <2>1, <2>2, <2>3 DEF PhoneInv
<1>3. ASSUME CoreInv', ReplayOnChange \/ Replay \/ UNCHANGED todo,
             ready' \in {ready, TRUE}, Acts \/ UNCHANGED acts
      PROVE PhoneInv'
    <2>1. ui'.pending \subseteq Answer  BY <1>3 DEF CoreInv, Good, Ui
    <2>2. todo' \subseteq Answer  BY <1>0, <1>3, <2>1, ReplayTakes
    <2>3. acts' \in 0 .. MaxActs  BY <1>0, <1>3, ClientBounds DEF Acts
    <2>4. QED  BY <1>0, <1>3, <2>2, <2>3 DEF PhoneInv
<1>4. CASE \/ TapAnswer \/ HangUp \/ Minimize \/ Expand \/ MediaCloses
           \/ StopDialling \/ \E c \in CallConv : JoinHere(c)
    <2>1. CoreInv'  BY <1>0, <1>4, UserCore
    <2>2. /\ ReplayOnChange \/ Replay \/ UNCHANGED todo
          /\ ready' \in {ready, TRUE}
          /\ Acts \/ UNCHANGED acts
        BY <1>4 DEF TapAnswer, HangUp, Minimize, Expand, MediaCloses, StopDialling, JoinHere
    <2>3. QED  BY <1>3, <2>1, <2>2
<1>5. CASE InviteCaller \/ \E c \in CallConv : Dial(c)
    <2>1. CoreInv'  BY <1>0, <1>5, AskedCore
    <2>2. /\ ReplayOnChange \/ Replay \/ UNCHANGED todo
          /\ ready' \in {ready, TRUE}
          /\ Acts \/ UNCHANGED acts
        BY <1>5 DEF InviteCaller, Dial
    <2>3. QED  BY <1>3, <2>1, <2>2
<1>6. CASE \E c \in CallConv : NativeEvent(c)
    <2>1. CoreInv'  BY <1>0, <1>6, NativeCore
    <2>2. /\ ReplayOnChange \/ Replay \/ UNCHANGED todo
          /\ ready' \in {ready, TRUE}
          /\ Acts \/ UNCHANGED acts
        BY <1>6 DEF NativeEvent, NativeRings, NativeCancels
    <2>3. QED  BY <1>3, <2>1, <2>2
<1>7. CASE \/ \E e \in Event : ServerEvent(e)
           \/ \E p \in 1 .. pages : RingerTimeout(p) \/ DialTimeout(p)
    <2>1. CoreInv'  BY <1>0, <1>7, EventCore
    <2>2. /\ ReplayOnChange \/ Replay \/ UNCHANGED todo
          /\ ready' \in {ready, TRUE}
          /\ Acts \/ UNCHANGED acts
        BY <1>7 DEF ServerEvent, RingerTimeout, DialTimeout
    <2>3. QED  BY <1>3, <2>1, <2>2
<1>8. CASE \E j \in jobs : Granted(j) \/ Refused(j)
    <2>1. CoreInv'  BY <1>0, <1>8, GrantedCore
    <2>2. /\ ReplayOnChange \/ Replay \/ UNCHANGED todo
          /\ ready' \in {ready, TRUE}
          /\ Acts \/ UNCHANGED acts
        BY <1>8 DEF Granted, Refused
    <2>3. QED  BY <1>3, <2>1, <2>2
<1>9. CASE Ready \/ Mount \/ LeavePage \/ Return
    <2>1. CoreInv'  BY <1>0, <1>9, PageCore
    <2>2. /\ ReplayOnChange \/ Replay \/ UNCHANGED todo
          /\ ready' \in {ready, TRUE}
          /\ Acts \/ UNCHANGED acts
        BY <1>9 DEF Ready, Mount, LeavePage, Return
    <2>3. QED  BY <1>3, <2>1, <2>2
<1>10. QED
    BY <1>1, <1>2, <1>4, <1>5, <1>6, <1>7, <1>8, <1>9 DEF ClientNext

(* The invariant is inductive. *)
THEOREM PhoneInductive == ClientSpec => []PhoneInv
BY InitHolds, NextHolds, PTL DEF ClientSpec

(* Every variable keeps its type. *)
THEOREM ClientTypeCorrect == ClientSpec => []ClientTypeOK
<1>1. PhoneInv => ClientTypeOK  BY DEF PhoneInv, CoreInv, Good, ClientTypeOK
<1>2. QED  BY <1>1, PhoneInductive, PTL

(* The first page rings for the call that is shown, and for no other, whichever
   way it is answered, cancelled, ended or replaced. *)
THEOREM RingerShown == ClientSpec => []RingerIsShown
<1>1. PhoneInv => RingerIsShown  BY DEF PhoneInv, CoreInv
<1>2. QED  BY <1>1, PhoneInductive, PTL

(* A call is accepted at most once while it is shown, wherever and however often
   it is tapped. *)
THEOREM AnsweredAtMostOnce == ClientSpec => []AnsweredOnce
<1>1. PhoneInv => AnsweredOnce  BY DEF PhoneInv, CoreInv, Good, Once, AnsweredOnce
<1>2. QED  BY <1>1, PhoneInductive, PTL

-----------------------------------------------------------------------------
(* A behaviour of the composition is one of the server and one of the page. *)
THEOREM PartsBehave == PartsSpec => Spec /\ ClientSpec
<1>1. PartsInit => Init /\ ClientInit
    BY DEF PartsInit
<1>2. [PartsNext]_<<part, serverVars, callVars>> => [Next]_vars /\ [ClientNext]_callVars
    BY DEF PartsNext, serverVars
<1>3. QED  BY <1>1, <1>2, PTL DEF PartsSpec, Spec, ClientSpec

(* Every variable of the part that moves keeps its type. *)
THEOREM PartsTypeCorrect == PartsSpec => []PartsTypeOK
<1>1. TypeOK /\ ClientTypeOK => PartsTypeOK  BY DEF PartsTypeOK
<1>2. QED  BY <1>1, PartsBehave, TypeCorrect, ClientTypeCorrect, PTL
=============================================================================
