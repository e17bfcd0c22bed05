--------------------------- MODULE SecretInboxProofs ---------------------------
(***************************************************************************)
(* Proofs about SecretInbox, for any number of messages, senders' requests *)
(* and pulls, any window, threshold and length of the list: the inbox      *)
(* implements Mailbox, and an answered sender's message is kept.           *)
(***************************************************************************)
EXTENDS SecretInbox, SequenceTheorems, FiniteSetTheorems, WellFoundedInduction, TLAPS

-----------------------------------------------------------------------------
(* What is left of a list.  The library's induction takes a predicate as a
   parameter; over a set it follows from the existence of least elements. *)

Less == {p \in Nat \X Nat : p[1] < p[2]}

(* Every set of numbers has a least element. *)
LEMMA LeastNat ==
    ASSUME NEW T \in SUBSET Nat, T # {}
    PROVE \E n \in T : \A m \in T : n <= m
<1>1. OpToRel(<, Nat) = Less
    BY Zenon DEF OpToRel, Less
<1>2. IsWellFoundedOn(Less, Nat)
    BY <1>1, NatLessThanWellFounded, Zenon
<1>3. PICK n \in T : \A m \in T : ~ (<<m, n>> \in Less)
    BY <1>2, WFMin
<1>4. ASSUME NEW m \in T PROVE n <= m
    <2>1. n \in Nat /\ m \in Nat  OBVIOUS
    <2>2. ~ (<<m, n>> \in Less)  BY <1>3
    <2>3. ~ (m < n)  BY <2>1, <2>2 DEF Less
    <2>4. QED  BY <2>1, <2>3
<1>5. QED  BY <1>4

(* Induction: a set with 0 and the successor of each of its numbers has all. *)
LEMMA Induction ==
    ASSUME NEW S, 0 \in S, \A n \in Nat : n \in S => n + 1 \in S
    PROVE Nat \subseteq S
<1>1. SUFFICES ASSUME Nat \ S # {} PROVE FALSE
    OBVIOUS
<1>2. PICK n \in Nat \ S : \A m \in Nat \ S : n <= m
    <2>1. Nat \ S \in SUBSET Nat  OBVIOUS
    <2>2. QED  BY <1>1, <2>1, LeastNat
<1>3. n # 0  OBVIOUS
<1>4. n - 1 \in Nat /\ n - 1 + 1 = n  BY <1>3
<1>5. n - 1 \in S  BY <1>2, <1>4
<1>6. QED  BY <1>4, <1>5

(* The recursion of Except, one step of it: g gives what is kept of s. *)
Kept(s, ids, n, g) ==
    [i \in 0 .. n |->
        IF i = 0 THEN <<>>
        ELSE IF s[i] \in ids THEN g[i - 1] ELSE Append(g[i - 1], s[i])]

(* The recursion defines a function. *)
LEMMA KeptExists ==
    ASSUME NEW s, NEW ids
    PROVE \A n \in Nat : \E g : g = Kept(s, ids, n, g)
<1> DEFINE Good == {n \in Nat : \E g : g = Kept(s, ids, n, g)}
<1>1. 0 \in Good
    <2> DEFINE g == [i \in 0 .. 0 |-> <<>>]
    <2>1. g = Kept(s, ids, 0, g)  BY DEF Kept
    <2>2. QED  BY <2>1
<1>2. ASSUME NEW n \in Nat, n \in Good PROVE n + 1 \in Good
    <2>1. PICK g : g = Kept(s, ids, n, g)  BY <1>2
    <2> DEFINE h == [i \in 0 .. n + 1 |->
                        IF i <= n THEN g[i]
                        ELSE IF s[i] \in ids THEN g[i - 1] ELSE Append(g[i - 1], s[i])]
    <2>2. ASSUME NEW i \in 0 .. n + 1
          PROVE h[i] = Kept(s, ids, n + 1, h)[i]
        <3>1. CASE i = 0
            <4>1. g[0] = <<>>  BY <2>1 DEF Kept
            <4>2. QED  BY <3>1, <4>1 DEF Kept
        <3>2. CASE i # 0 /\ i <= n
            <4>1. i - 1 \in 0 .. n /\ i \in 0 .. n  BY <3>2
            <4>2. h[i - 1] = g[i - 1] /\ h[i] = g[i]  BY <4>1
            <4>3. g[i] = IF s[i] \in ids THEN g[i - 1] ELSE Append(g[i - 1], s[i])
                BY <2>1, <4>1, <3>2 DEF Kept
            <4>4. QED  BY <4>2, <4>3, <3>2 DEF Kept
        <3>3. CASE i = n + 1
            <4>1. i - 1 \in 0 .. n /\ i # 0 /\ ~ (i <= n)  BY <3>3
            <4>2. h[i - 1] = g[i - 1]  BY <4>1
            <4>3. QED  BY <4>1, <4>2 DEF Kept
        <3>4. QED  BY <3>1, <3>2, <3>3
    <2> HIDE DEF h
    <2>3. h = [i \in 0 .. n + 1 |-> h[i]]  BY DEF h
    <2>4. h = Kept(s, ids, n + 1, h)  BY <2>2, <2>3 DEF Kept
    <2>5. QED  BY <2>4
<1>3. Nat \subseteq Good
    <2> HIDE DEF Good
    <2>1. QED  BY <1>1, <1>2, Induction
<1>4. QED  BY <1>3

(* The messages of a list with one more entry. *)
LEMMA ToSetAppend ==
    ASSUME NEW S, NEW s \in Seq(S), NEW e \in S
    PROVE ToSet(Append(s, e)) = ToSet(s) \cup {e}
<1>1. /\ DOMAIN Append(s, e) = 1 .. Len(s) + 1
      /\ DOMAIN s = 1 .. Len(s)
      /\ \A i \in 1 .. Len(s) : Append(s, e)[i] = s[i]
      /\ Append(s, e)[Len(s) + 1] = e
    BY AppendProperties
<1>2. 1 .. Len(s) + 1 = (1 .. Len(s)) \cup {Len(s) + 1}  OBVIOUS
<1>3. QED  BY <1>1, <1>2 DEF ToSet

(* What it keeps of the first i entries: all but the ids, in no more entries. *)
LEMMA KeptFacts ==
    ASSUME NEW s \in Seq(Msg), NEW ids, NEW g, g = Kept(s, ids, Len(s), g)
    PROVE \A i \in 0 .. Len(s) :
              /\ g[i] \in Seq(Msg)
              /\ Len(g[i]) <= i
              /\ ToSet(g[i]) = {s[j] : j \in 1 .. i} \ ids
<1> DEFINE Fact(i) == /\ g[i] \in Seq(Msg)
                      /\ Len(g[i]) <= i
                      /\ ToSet(g[i]) = {s[j] : j \in 1 .. i} \ ids
           Good == {i \in Nat : i <= Len(s) => Fact(i)}
<1>0. Len(s) \in Nat  OBVIOUS
<1>1. 0 \in Good
    <2>1. g[0] = <<>>  BY <1>0 DEF Kept
    <2>2. ToSet(g[0]) = {}  BY <2>1 DEF ToSet
    <2>3. {s[j] : j \in 1 .. 0} = {}  OBVIOUS
    <2>4. g[0] \in Seq(Msg) /\ Len(g[0]) <= 0  BY <2>1
    <2>5. Fact(0)  BY <2>2, <2>3, <2>4
    <2> HIDE DEF Fact
    <2>6. QED  BY <2>5
<1>2. ASSUME NEW n \in Nat, n \in Good PROVE n + 1 \in Good
    <2>1. SUFFICES ASSUME n + 1 <= Len(s) PROVE Fact(n + 1)
        OBVIOUS
    <2>2. Fact(n)  BY <1>0, <1>2, <2>1
    <2>3. s[n + 1] \in Msg  BY <1>0, <2>1
    <2>4. g[n + 1] = IF s[n + 1] \in ids THEN g[n] ELSE Append(g[n], s[n + 1])
        <3>1. n + 1 \in 0 .. Len(s) /\ n + 1 # 0 /\ n + 1 - 1 = n  BY <1>0, <2>1
        <3>2. g[n + 1] = Kept(s, ids, Len(s), g)[n + 1]  OBVIOUS
        <3>3. QED  BY <3>1, <3>2 DEF Kept
    <2>5. {s[j] : j \in 1 .. n + 1} = {s[j] : j \in 1 .. n} \cup {s[n + 1]}
        <3>1. 1 .. n + 1 = (1 .. n) \cup {n + 1}  OBVIOUS
        <3>2. QED  BY <3>1
    <2>6. CASE s[n + 1] \in ids
        BY <2>2, <2>4, <2>5, <2>6
    <2>7. CASE s[n + 1] \notin ids
        <3>1. g[n + 1] = Append(g[n], s[n + 1])  BY <2>4, <2>7
        <3>2. /\ g[n + 1] \in Seq(Msg)
              /\ Len(g[n + 1]) = Len(g[n]) + 1
            BY <2>2, <2>3, <3>1, AppendProperties
        <3>3. ToSet(g[n + 1]) = ToSet(g[n]) \cup {s[n + 1]}
            BY <2>2, <2>3, <3>1, ToSetAppend
        <3>4. QED  BY <2>2, <2>5, <2>7, <3>2, <3>3
    <2>8. QED  BY <2>6, <2>7
<1>3. Nat \subseteq Good
    <2> HIDE DEF Good
    <2>1. QED  BY <1>1, <1>2, Induction
<1>4. ASSUME NEW i \in 0 .. Len(s) PROVE Fact(i)
    <2> HIDE DEF Fact
    <2>1. i \in Nat /\ i <= Len(s)  BY <1>0
    <2>2. QED  BY <1>3, <2>1
<1>5. QED  BY <1>4

(* What an lRem leaves of the list. *)
LEMMA ExceptFacts ==
    ASSUME list \in Seq(Msg), NEW ids
    PROVE /\ Except(ids) \in Seq(Msg)
          /\ Len(Except(ids)) <= Len(list)
          /\ ToSet(Except(ids)) = ToSet(list) \ ids
<1> DEFINE g == CHOOSE f : f = Kept(list, ids, Len(list), f)
<1>1. Len(list) \in Nat  OBVIOUS
<1>2. g = Kept(list, ids, Len(list), g)
    <2>1. \E f : f = Kept(list, ids, Len(list), f)  BY <1>1, KeptExists
    <2>2. QED  BY <2>1
<1>3. Except(ids) = g[Len(list)]  BY DEF Except, Kept
<1> HIDE DEF g
<1>4. ToSet(list) = {list[j] : j \in 1 .. Len(list)}  BY DEF ToSet
<1>5. Len(list) \in 0 .. Len(list)  BY <1>1
<1>6. /\ g[Len(list)] \in Seq(Msg)
      /\ Len(g[Len(list)]) <= Len(list)
      /\ ToSet(g[Len(list)]) = {list[j] : j \in 1 .. Len(list)} \ ids
    BY <1>2, <1>5, KeptFacts
<1>7. QED  BY <1>3, <1>4, <1>6

(* The head of the list is in the list. *)
LEMMA HeadOfList ==
    ASSUME NEW n
    PROVE HeadOf(n) \subseteq ToSet(list)
BY DEF HeadOf, ToSet

(* It has no more messages than entries were asked for. *)
LEMMA HeadIsBounded ==
    ASSUME NEW n \in Nat
    PROVE IsFiniteSet(HeadOf(n)) /\ Cardinality(HeadOf(n)) <= n
<1> DEFINE Places == (1 .. n) \cap DOMAIN list
<1>1. IsFiniteSet(1 .. n) /\ Cardinality(1 .. n) = n
    <2>1. 1 \in Int /\ n \in Int  OBVIOUS
    <2>2. IsFiniteSet(1 .. n) /\ Cardinality(1 .. n) = IF 1 > n THEN 0 ELSE n - 1 + 1
        BY <2>1, FS_Interval
    <2>3. QED  BY <2>2
<1>2. IsFiniteSet(Places) /\ Cardinality(Places) <= n
    <2>1. Places \in SUBSET (1 .. n)  OBVIOUS
    <2>2. QED  BY <1>1, <2>1, FS_Subset
<1>3. Cardinality(Places) \in Nat /\ Cardinality(HeadOf(n)) \in Nat
      /\ IsFiniteSet(HeadOf(n)) /\ Cardinality(HeadOf(n)) <= Cardinality(Places)
    <2> DEFINE f == [i \in Places |-> list[i]]
    <2>1. f \in Surjection(Places, HeadOf(n))
        BY DEF HeadOf, Surjection
    <2>2. IsFiniteSet(HeadOf(n)) /\ Cardinality(HeadOf(n)) <= Cardinality(Places)
        BY <1>2, <2>1, FS_Surjection
    <2>3. QED  BY <1>2, <2>2, FS_CardinalityType
<1>4. QED  BY <1>2, <1>3

-----------------------------------------------------------------------------
Handled == got \cup given

(* What the server knows of a message: an item of /send is stored together
   with its delivery; a message that a request is about to put into the inbox has
   one; an entry without its delivery was excused.  A pull takes finitely many
   messages. *)
RowsInv ==
    /\ stored \cap Direct \subseteq rows
    /\ \A k \in Pusher : push[k].pc = "message" => push[k].msg \notin Direct
    /\ \A k \in Pusher : push[k].pc = "send" => push[k].msg \in Direct
    /\ \A k \in Pusher : push[k].pc \in {"enqueue", "answer"} => push[k].msg \in rows
    /\ ToSet(list) \subseteq rows \cup excused
    /\ \A p \in Puller : pull[p].ids \subseteq rows \cup excused /\ IsFiniteSet(pull[p].ids)

(* A message that is marked, was pulled or is about to be acked is still in
   the inbox, unless it was handled or excused; only what was handled is acked. *)
KeptInv ==
    /\ seen \subseteq ToSet(list) \cup Handled \cup excused
    /\ \A p \in Puller : pull[p].ids \subseteq ToSet(list) \cup Handled \cup excused
    /\ acks \subseteq Handled
    /\ \A k \in Pusher : push[k].pc = "answer" =>
          push[k].msg \in ToSet(list) \cup Handled \cup excused

IInv == TypeOK /\ RowsInv /\ KeptInv

-----------------------------------------------------------------------------
(* Initially the inbox is empty and nobody was answered. *)
LEMMA InitInv == Init => IInv
<1> SUFFICES ASSUME Init PROVE IInv
    OBVIOUS
<1>1. TypeOK
    <2>1. Cardinality({}) <= Window  BY FS_EmptySet, BoundsAssumption
    <2>2. \A p \in Puller : Cardinality(pull[p].ids) <= Window
        BY <2>1 DEF Init, IdlePull
    <2>3. QED
        BY <2>2, BoundsAssumption DEF Init, TypeOK, IdlePush, IdlePull, Push, Pull
<1>2. ToSet(list) = {}
    BY DEF Init, ToSet
<1>3. RowsInv
    BY <1>2, FS_EmptySet DEF Init, RowsInv, IdlePush, IdlePull
<1>4. KeptInv
    BY <1>2 DEF Init, KeptInv, IdlePush, IdlePull
<1>5. QED  BY <1>1, <1>3, <1>4 DEF IInv

(* The request of a sender at the step k is at. *)
LEMMA AtStep ==
    ASSUME TypeOK, NEW k \in Pusher, NEW pc, NEW m, At(k, pc, m)
    PROVE push[k].pc = pc /\ push[k].msg = m
BY DEF At

(* A push that goes on keeps its message, and the other pushes stand still.
   *)
LEMMA GotoStep ==
    ASSUME TypeOK, NEW k \in Pusher, NEW pc \in {"deliveries", "enqueue", "answer"},
           Goto(k, pc)
    PROVE /\ push' \in [Pusher -> Push]
          /\ push'[k].pc = pc /\ push'[k].msg = push[k].msg
          /\ \A j \in Pusher : j # k => push'[j] = push[j]
BY DEF TypeOK, Goto, Push

(* A sender's request that goes idle. *)
LEMMA IdleStep ==
    ASSUME TypeOK, NEW k \in Pusher, push' = [push EXCEPT ![k] = IdlePush]
    PROVE /\ push' \in [Pusher -> Push]
          /\ push'[k].pc = "idle"
          /\ \A j \in Pusher : j # k => push'[j] = push[j]
BY DEF TypeOK, IdlePush, Push

-----------------------------------------------------------------------------
(* The steps of the senders. *)
LEMMA PostInv ==
    ASSUME IInv, NEW k \in Pusher, NEW m \in Msg, Post(k, m)
    PROVE IInv'
<1> USE DEF Post, receiving
<1>1. TypeOK'
    <2>1. push' \in [Pusher -> Push]
        BY DEF IInv, TypeOK, Push
    <2>2. QED  BY <2>1 DEF IInv, TypeOK
<1>2. /\ push'[k].pc \in {"send", "message"}
      /\ push'[k].pc = "message" => push'[k].msg \notin Direct
      /\ push'[k].pc = "send" => push'[k].msg \in Direct
      /\ \A j \in Pusher : j # k => push'[j] = push[j]
    BY DEF IInv, TypeOK
<1>3. RowsInv'
    BY <1>2 DEF IInv, RowsInv
<1>4. KeptInv'
    BY <1>2 DEF IInv, KeptInv, Handled
<1>5. QED  BY <1>1, <1>3, <1>4 DEF IInv

(* A push may end at any step, answered or not. *)
LEMMA PushEndsInv ==
    ASSUME IInv, NEW k \in Pusher, push' = [push EXCEPT ![k] = IdlePush],
           UNCHANGED <<stored, rows, list, seen, acks, excused>>, UNCHANGED receiving
    PROVE IInv'
<1> USE DEF receiving
<1>1. /\ push' \in [Pusher -> Push]
      /\ push'[k].pc = "idle"
      /\ \A j \in Pusher : j # k => push'[j] = push[j]
    BY IdleStep DEF IInv
<1>2. TypeOK'
    BY <1>1 DEF IInv, TypeOK
<1>3. RowsInv'
    BY <1>1 DEF IInv, RowsInv
<1>4. KeptInv'
    BY <1>1 DEF IInv, KeptInv, Handled
<1>5. QED  BY <1>2, <1>3, <1>4 DEF IInv

(* The message is stored: one step more of the push is done. *)
LEMMA CreateMessageInv ==
    ASSUME IInv, NEW k \in Pusher, NEW m \in Msg, CreateMessage(k, m)
    PROVE IInv'
<1> USE DEF CreateMessage, receiving
<1>1. /\ push' \in [Pusher -> Push]
      /\ push'[k].pc = "deliveries" /\ push'[k].msg = m
      /\ \A j \in Pusher : j # k => push'[j] = push[j]
    BY AtStep, GotoStep DEF IInv
<1>2. m \notin Direct
    BY AtStep DEF IInv, RowsInv
<1>3. TypeOK'
    BY <1>1 DEF IInv, TypeOK
<1>4. RowsInv'
    BY <1>1, <1>2 DEF IInv, RowsInv
<1>5. KeptInv'
    BY <1>1 DEF IInv, KeptInv, Handled
<1>6. QED  BY <1>3, <1>4, <1>5 DEF IInv

(* So are its deliveries. *)
LEMMA CreateDeliveriesInv ==
    ASSUME IInv, NEW k \in Pusher, NEW m \in Msg, CreateDeliveries(k, m)
    PROVE IInv'
<1> USE DEF CreateDeliveries, receiving
<1>1. /\ push' \in [Pusher -> Push]
      /\ push'[k].pc = "enqueue" /\ push'[k].msg = m
      /\ \A j \in Pusher : j # k => push'[j] = push[j]
    BY AtStep, GotoStep DEF IInv
<1>2. TypeOK'
    BY <1>1 DEF IInv, TypeOK
<1>3. RowsInv'
    BY <1>1 DEF IInv, RowsInv
<1>4. KeptInv'
    BY <1>1 DEF IInv, KeptInv, Handled
<1>5. QED  BY <1>2, <1>3, <1>4 DEF IInv

(* The message is either new, and stored with its delivery, or one of the
   stored items, which have theirs. *)
LEMMA SendStoresInv ==
    ASSUME IInv, NEW k \in Pusher, NEW m \in Msg, SendStores(k, m)
    PROVE IInv'
<1> USE DEF SendStores, receiving
<1>1. /\ push' \in [Pusher -> Push]
      /\ push'[k].pc = "enqueue" /\ push'[k].msg = m
      /\ \A j \in Pusher : j # k => push'[j] = push[j]
    BY AtStep, GotoStep DEF IInv
<1>2. m \in Direct
    BY AtStep DEF IInv, RowsInv
<1>3. rows' = rows \cup {m}
    BY <1>2 DEF IInv, RowsInv
<1>4. TypeOK'
    BY <1>1, <1>3 DEF IInv, TypeOK
<1>5. RowsInv'
    BY <1>1, <1>3 DEF IInv, RowsInv
<1>6. KeptInv'
    BY <1>1 DEF IInv, KeptInv, Handled
<1>7. QED  BY <1>4, <1>5, <1>6 DEF IInv

(* The entry is new, or the mark says that it was there. *)
LEMMA EnqueueInv ==
    ASSUME IInv, NEW k \in Pusher, NEW m \in Msg, Enqueue(k, m)
    PROVE IInv'
<1> USE DEF Enqueue, receiving
<1>1. Goto(k, "answer")
    BY DEF Insert
<1>2. /\ push' \in [Pusher -> Push]
      /\ push'[k].pc = "answer" /\ push'[k].msg = m /\ m \in rows
      /\ \A j \in Pusher : j # k => push'[j] = push[j]
    BY <1>1, AtStep, GotoStep DEF IInv, RowsInv
<1>3. /\ list' \in Seq(Msg) /\ Len(list') <= MaxList
      /\ seen' = seen \cup {m}
      /\ \/ m \in seen /\ ToSet(list') = ToSet(list)
         \/ ToSet(list') = ToSet(list) \cup {m}
    <2>1. CASE m \in seen
        BY <2>1 DEF IInv, TypeOK
    <2>2. CASE m \notin seen
        <3>1. list' = Append(list, m) /\ Len(list) < MaxList /\ seen' = seen \cup {m}
            BY <2>2 DEF Insert
        <3>2. ToSet(list') = ToSet(list) \cup {m}
            BY <3>1, ToSetAppend DEF IInv, TypeOK
        <3>3. list' \in Seq(Msg) /\ Len(list') = Len(list) + 1
            BY <3>1, AppendProperties DEF IInv, TypeOK
        <3>4. QED
            BY <3>1, <3>2, <3>3, BoundsAssumption DEF IInv, TypeOK
    <2>3. QED  BY <2>1, <2>2
<1>4. TypeOK'
    BY <1>2, <1>3 DEF IInv, TypeOK
<1>5. RowsInv'
    BY <1>2, <1>3 DEF IInv, RowsInv
<1>6. KeptInv'
    <2>1. m \in ToSet(list') \cup Handled \cup excused
        BY <1>3 DEF IInv, KeptInv
    <2>2. QED
        BY <1>2, <1>3, <2>1 DEF IInv, KeptInv, Handled
<1>7. QED  BY <1>4, <1>5, <1>6 DEF IInv

-----------------------------------------------------------------------------
(* The steps of the pulls. *)
LEMMA PullStep ==
    ASSUME IInv, NEW p \in Puller, NEW pc \in {"idle", "payloads", "answer"},
           NEW ids \in SUBSET Msg, IsFiniteSet(ids), Cardinality(ids) <= Window,
           pull' = [pull EXCEPT ![p] = [pc |-> pc, ids |-> ids]]
    PROVE /\ pull' \in [Puller -> Pull]
          /\ pull'[p].ids = ids
          /\ \A q \in Puller : q # p => pull'[q] = pull[q]
          /\ \A q \in Puller : IsFiniteSet(pull'[q].ids) /\ Cardinality(pull'[q].ids) <= Window
<1>1. /\ pull' \in [Puller -> Pull]
      /\ pull'[p].ids = ids
      /\ \A q \in Puller : q # p => pull'[q] = pull[q]
    BY DEF IInv, TypeOK, Pull
<1>2. QED  BY <1>1 DEF IInv, TypeOK, RowsInv

(* A pull that ends. *)
LEMMA PullEnds ==
    ASSUME IInv, NEW p \in Puller, pull' = [pull EXCEPT ![p] = IdlePull]
    PROVE /\ pull' \in [Puller -> Pull]
          /\ pull'[p].ids = {}
          /\ \A q \in Puller : q # p => pull'[q] = pull[q]
          /\ \A q \in Puller : IsFiniteSet(pull'[q].ids) /\ Cardinality(pull'[q].ids) <= Window
<1>1. pull' = [pull EXCEPT ![p] = [pc |-> "idle", ids |-> {}]]  BY DEF IdlePull
<1>2. {} \in SUBSET Msg /\ IsFiniteSet({}) /\ Cardinality({}) <= Window
    BY FS_EmptySet, BoundsAssumption
<1>3. QED  BY <1>1, <1>2, PullStep

(* A pull starts with the head of the list. *)
LEMMA StartsInv ==
    ASSUME IInv, NEW p \in Puller, Starts(p)
    PROVE IInv'
<1> USE DEF Starts, sending
<1>1. HeadOf(Window) \subseteq ToSet(list) /\ HeadOf(Window) \in SUBSET Msg
    BY HeadOfList DEF IInv, TypeOK, ToSet
<1>2. /\ pull' \in [Puller -> Pull]
      /\ pull'[p].ids = HeadOf(Window)
      /\ \A q \in Puller : q # p => pull'[q] = pull[q]
      /\ \A q \in Puller : IsFiniteSet(pull'[q].ids) /\ Cardinality(pull'[q].ids) <= Window
    <2>1. IsFiniteSet(HeadOf(Window)) /\ Cardinality(HeadOf(Window)) <= Window
        BY HeadIsBounded, BoundsAssumption
    <2>2. QED  BY <1>1, <2>1, PullStep
<1>3. TypeOK'
    BY <1>2 DEF IInv, TypeOK
<1>4. RowsInv'
    BY <1>1, <1>2 DEF IInv, RowsInv
<1>5. KeptInv'
    BY <1>1, <1>2 DEF IInv, KeptInv, Handled
<1>6. QED  BY <1>3, <1>4, <1>5 DEF IInv

(* An id without a payload was excused: what is dropped was not promised. *)
LEMMA ResolvesDrops ==
    ASSUME IInv, NEW p \in Puller, NEW found \in Found(pull[p].ids)
    PROVE /\ found \subseteq pull[p].ids
          /\ pull[p].ids \ found \subseteq excused
BY DEF Found, IInv, RowsInv

(* A pull drops from the list what has no row to serve it. *)
LEMMA ResolvesInv ==
    ASSUME IInv, NEW p \in Puller, Resolves(p)
    PROVE IInv'
<1> USE DEF Resolves, sending
<1>1. PICK found \in Found(pull[p].ids) :
          /\ pull' = [pull EXCEPT ![p] = [pc |-> "answer", ids |-> found]]
          /\ list' \in {list, Except(pull[p].ids \ found)}
    OBVIOUS
<1>2. found \subseteq pull[p].ids /\ pull[p].ids \ found \subseteq excused
    BY ResolvesDrops
<1>3. pull[p].ids \in SUBSET Msg
    BY DEF IInv, TypeOK, Pull
<1>4. /\ pull' \in [Puller -> Pull]
      /\ pull'[p].ids = found
      /\ \A q \in Puller : q # p => pull'[q] = pull[q]
      /\ \A q \in Puller : IsFiniteSet(pull'[q].ids) /\ Cardinality(pull'[q].ids) <= Window
    <2>1. IsFiniteSet(pull[p].ids) /\ Cardinality(pull[p].ids) <= Window
        BY DEF IInv, TypeOK, RowsInv
    <2>2. IsFiniteSet(found) /\ Cardinality(found) <= Cardinality(pull[p].ids)
        BY <1>2, <2>1, FS_Subset
    <2>3. Cardinality(found) \in Nat /\ Cardinality(pull[p].ids) \in Nat /\ Window \in Nat
        BY <2>1, <2>2, FS_CardinalityType, BoundsAssumption
    <2>4. Cardinality(found) <= Window
        BY <2>1, <2>2, <2>3
    <2>5. found \in SUBSET Msg
        BY <1>2, <1>3
    <2>6. QED  BY <1>1, <2>2, <2>4, <2>5, PullStep
<1>5. /\ list' \in Seq(Msg) /\ Len(list') <= MaxList
      /\ ToSet(list') \subseteq ToSet(list)
      /\ ToSet(list) \subseteq ToSet(list') \cup excused
    <2>1. CASE list' = list
        BY <2>1 DEF IInv, TypeOK
    <2>2. CASE list' = Except(pull[p].ids \ found)
        <3>1. /\ list' \in Seq(Msg) /\ Len(list') <= Len(list)
              /\ ToSet(list') = ToSet(list) \ (pull[p].ids \ found)
            BY <2>2, ExceptFacts DEF IInv, TypeOK
        <3>2. Len(list) \in Nat /\ Len(list') \in Nat /\ MaxList \in Nat /\ Len(list) <= MaxList
            BY <3>1, BoundsAssumption DEF IInv, TypeOK
        <3>3. Len(list') <= MaxList
            BY <3>1, <3>2
        <3>4. QED  BY <1>2, <3>1, <3>3
    <2>3. QED  BY <1>1, <2>1, <2>2
<1>6. TypeOK'
    BY <1>4, <1>5 DEF IInv, TypeOK
<1>7. RowsInv'
    BY <1>2, <1>4, <1>5 DEF IInv, RowsInv
<1>8. KeptInv'
    BY <1>2, <1>4, <1>5 DEF IInv, KeptInv, Handled
<1>9. QED  BY <1>6, <1>7, <1>8 DEF IInv

(* What was handled stays so, and what is newly acked was handled. *)
LEMMA HandledGrows ==
    ASSUME IInv, NEW p \in Puller, NEW failed \in SUBSET (pull[p].ids \cap KeyPackage),
           NEW old \in SUBSET Old(failed),
           attempts' = Bump(failed),
           got' = got \cup (pull[p].ids \ (failed \cup Skipped)),
           given' = given \cup Poisoned(failed, old)
    PROVE /\ attempts' \in [Msg -> 0 .. Threshold + 1]
          /\ Poisoned(failed, old) \subseteq failed
          /\ Handled' = Handled \cup Ackable(pull[p].ids, failed, old)
<1>1. attempts' \in [Msg -> 0 .. Threshold + 1]
    BY BoundsAssumption DEF IInv, TypeOK, Bump
<1>2. Poisoned(failed, old) \subseteq failed
    BY DEF Poisoned, Old
<1>3. QED  BY <1>1, <1>2 DEF Handled, Ackable

(* The device imports what it can decrypt, counts the attempts at the rest
   and gives up some of it. *)
LEMMA HandlesInv ==
    ASSUME IInv, NEW p \in Puller, Handles(p)
    PROVE IInv'
<1> USE DEF Handles, sending
<1>1. PICK failed \in SUBSET (pull[p].ids \cap KeyPackage) : \E old \in SUBSET Old(failed) :
          /\ attempts' = Bump(failed)
          /\ got' = got \cup (pull[p].ids \ (failed \cup Skipped))
          /\ given' = given \cup Poisoned(failed, old)
          /\ acks' = acks \cup Ackable(pull[p].ids, failed, old)
    OBVIOUS
<1>2. PICK old \in SUBSET Old(failed) :
          /\ attempts' = Bump(failed)
          /\ got' = got \cup (pull[p].ids \ (failed \cup Skipped))
          /\ given' = given \cup Poisoned(failed, old)
          /\ acks' = acks \cup Ackable(pull[p].ids, failed, old)
    BY <1>1
<1>3. /\ attempts' \in [Msg -> 0 .. Threshold + 1]
      /\ Poisoned(failed, old) \subseteq failed
      /\ Handled' = Handled \cup Ackable(pull[p].ids, failed, old)
    BY <1>2, HandledGrows
<1>4. /\ pull' \in [Puller -> Pull]
      /\ pull'[p].ids = {}
      /\ \A q \in Puller : q # p => pull'[q] = pull[q]
      /\ \A q \in Puller : IsFiniteSet(pull'[q].ids) /\ Cardinality(pull'[q].ids) <= Window
    BY PullEnds
<1>5. got' \in SUBSET Msg /\ given' \in SUBSET Msg /\ acks' \in SUBSET Msg
    BY <1>2, <1>3 DEF IInv, TypeOK, Pull, Ackable
<1>6. TypeOK'
    BY <1>3, <1>4, <1>5 DEF IInv, TypeOK
<1>7. RowsInv'
    BY <1>4 DEF IInv, RowsInv
<1>8. KeptInv'
    BY <1>2, <1>3, <1>4 DEF IInv, KeptInv
<1>9. QED  BY <1>6, <1>7, <1>8 DEF IInv

(* The count of the attempts may start again: what was given up stays so. *)
LEMMA LapsesInv ==
    ASSUME IInv, NEW m \in Msg, Lapses(m)
    PROVE IInv'
<1> USE DEF Lapses, sending
<1>1. attempts' \in [Msg -> 0 .. Threshold + 1]
    BY BoundsAssumption DEF IInv, TypeOK
<1>2. TypeOK'
    BY <1>1 DEF IInv, TypeOK
<1>3. RowsInv'
    BY DEF IInv, RowsInv
<1>4. KeptInv'
    BY DEF IInv, KeptInv, Handled
<1>5. QED  BY <1>2, <1>3, <1>4 DEF IInv

(* A pull may break off. *)
LEMMA PullFailsInv ==
    ASSUME IInv, NEW p \in Puller, PullFails(p)
    PROVE IInv'
<1> USE DEF PullFails, sending
<1>1. /\ pull' \in [Puller -> Pull]
      /\ pull'[p].ids = {}
      /\ \A q \in Puller : q # p => pull'[q] = pull[q]
      /\ \A q \in Puller : IsFiniteSet(pull'[q].ids) /\ Cardinality(pull'[q].ids) <= Window
    BY PullEnds
<1>2. TypeOK'
    BY <1>1 DEF IInv, TypeOK
<1>3. RowsInv'
    BY <1>1 DEF IInv, RowsInv
<1>4. KeptInv'
    BY <1>1 DEF IInv, KeptInv, Handled
<1>5. QED  BY <1>2, <1>3, <1>4 DEF IInv

-----------------------------------------------------------------------------
(* The acks, the lifetimes and the operator's script. *)
LEMMA AckRemovesInv ==
    ASSUME IInv, NEW m \in Msg, AckRemoves(m)
    PROVE IInv'
<1> USE DEF AckRemoves, receiving, sending
<1>1. /\ list' \in Seq(Msg) /\ Len(list') <= Len(list)
      /\ ToSet(list') = ToSet(list) \ {m}
    BY ExceptFacts DEF IInv, TypeOK
<1>2. Len(list') <= MaxList
    <2>1. Len(list) \in Nat /\ Len(list') \in Nat /\ MaxList \in Nat /\ Len(list) <= MaxList
        BY <1>1, BoundsAssumption DEF IInv, TypeOK
    <2>2. QED  BY <1>1, <2>1
<1>3. m \in Handled /\ Handled' = Handled
    BY DEF IInv, KeptInv, Handled
<1>4. TypeOK'
    BY <1>1, <1>2 DEF IInv, TypeOK
<1>5. RowsInv'
    BY <1>1 DEF IInv, RowsInv
<1>6. KeptInv'
    BY <1>1, <1>3 DEF IInv, KeptInv
<1>7. QED  BY <1>4, <1>5, <1>6 DEF IInv

(* An ack may be lost. *)
LEMMA AckLostInv ==
    ASSUME IInv, NEW m \in Msg, AckLost(m)
    PROVE IInv'
<1> USE DEF AckLost, receiving, sending
<1>1. TypeOK'
    BY DEF IInv, TypeOK
<1>2. RowsInv'
    BY DEF IInv, RowsInv
<1>3. KeptInv'
    BY DEF IInv, KeptInv, Handled
<1>4. QED  BY <1>1, <1>2, <1>3 DEF IInv

(* A seen mark may expire. *)
LEMMA SeenExpiresInv ==
    ASSUME IInv, NEW m \in Msg, SeenExpires(m)
    PROVE IInv'
<1> USE DEF SeenExpires, receiving, sending
<1>1. TypeOK'
    BY DEF IInv, TypeOK
<1>2. RowsInv'
    BY DEF IInv, RowsInv
<1>3. KeptInv'
    BY DEF IInv, KeptInv, Handled
<1>4. QED  BY <1>1, <1>2, <1>3 DEF IInv

(* The list expires, and its messages are excused. *)
LEMMA InboxExpiresInv ==
    ASSUME IInv, InboxExpires
    PROVE IInv'
<1> USE DEF InboxExpires, receiving, sending
<1>1. ToSet(list') = {} /\ list' \in Seq(Msg) /\ Len(list') <= MaxList
    BY BoundsAssumption DEF ToSet
<1>2. ToSet(list) \subseteq Msg
    BY DEF IInv, TypeOK, ToSet
<1>3. TypeOK'
    BY <1>1, <1>2 DEF IInv, TypeOK
<1>4. RowsInv'
    BY <1>1 DEF IInv, RowsInv
<1>5. KeptInv'
    BY <1>1 DEF IInv, KeptInv, Handled
<1>6. QED  BY <1>3, <1>4, <1>5 DEF IInv

(* A purged message is excused and taken from everywhere. *)
LEMMA PurgeInv ==
    ASSUME IInv, NEW m \in Msg, Purge(m)
    PROVE IInv'
<1> USE DEF Purge, receiving
<1>1. TypeOK'
    BY DEF IInv, TypeOK
<1>2. RowsInv'
    BY DEF IInv, RowsInv
<1>3. KeptInv'
    BY DEF IInv, KeptInv, Handled
<1>4. QED  BY <1>1, <1>2, <1>3 DEF IInv

-----------------------------------------------------------------------------
(* Every step preserves the invariant. *)
LEMMA StepInv == IInv /\ [Next]_vars => IInv'
<1> SUFFICES ASSUME IInv, [Next]_vars PROVE IInv'
    OBVIOUS
<1>1. CASE UNCHANGED vars
    <2> USE <1>1 DEF vars
    <2>1. TypeOK'
        BY DEF IInv, TypeOK
    <2>2. RowsInv'
        BY DEF IInv, RowsInv
    <2>3. KeptInv'
        BY DEF IInv, KeptInv, Handled
    <2>4. QED  BY <2>1, <2>2, <2>3 DEF IInv
<1>2. ASSUME NEW k \in Pusher, NEW m \in Msg, Post(k, m)
      PROVE IInv'
    BY <1>2, PostInv
<1>3. ASSUME NEW k \in Pusher, NEW m \in Msg, Sender(k, m)
      PROVE IInv'
    <2>1. CASE CreateMessage(k, m)  BY <2>1, CreateMessageInv
    <2>2. CASE CreateDeliveries(k, m)  BY <2>2, CreateDeliveriesInv
    <2>3. CASE SendStores(k, m)  BY <2>3, SendStoresInv
    <2>4. CASE Enqueue(k, m)  BY <2>4, EnqueueInv
    <2>5. CASE PostAnswered(k, m)  BY <2>5, PushEndsInv DEF PostAnswered
    <2>6. QED  BY <1>3, <2>1, <2>2, <2>3, <2>4, <2>5 DEF Sender
<1>4. ASSUME NEW k \in Pusher, PostFails(k)
      PROVE IInv'
    BY <1>4, PushEndsInv DEF PostFails
<1>5. ASSUME NEW p \in Puller, Starts(p) \/ Resolves(p) \/ Handles(p) \/ PullFails(p)
      PROVE IInv'
    BY <1>5, StartsInv, ResolvesInv, HandlesInv, PullFailsInv
<1>6. ASSUME NEW m \in Msg,
             Lapses(m) \/ AckRemoves(m) \/ AckLost(m) \/ SeenExpires(m) \/ Purge(m)
      PROVE IInv'
    BY <1>6, LapsesInv, AckRemovesInv, AckLostInv, SeenExpiresInv, PurgeInv
<1>7. CASE InboxExpires
    BY <1>7, InboxExpiresInv
<1>8. QED
    BY <1>1, <1>2, <1>3, <1>4, <1>5, <1>6, <1>7 DEF Next

(* The inductive invariant holds of every run. *)
THEOREM Inductive == Spec => []IInv
BY InitInv, StepInv, PTL DEF Spec

(* Every variable has its type; whatever pulls are under way, none takes more
   than its window. *)
THEOREM TypeCorrect == Spec => []TypeOK
<1>1. IInv => TypeOK  BY DEF IInv
<1>2. QED  BY <1>1, Inductive, PTL

(* A sender is answered only when its message is in the inbox, or was handled
   or excused: whatever its request and the earlier ones for the same message
   broke off in, the repetition completes it. *)
THEOREM AnsweredKept == Spec => AnsweredIsKept
<1> DEFINE A == \A k \in Pusher, m \in Msg :
                  PostAnswered(k, m) => m \in ToSet(list) \cup got \cup given \cup excused
<1>1. IInv => A
    <2> SUFFICES ASSUME IInv, NEW k \in Pusher, NEW m \in Msg, At(k, "answer", m)
                 PROVE m \in ToSet(list) \cup got \cup given \cup excused
        BY DEF PostAnswered
    <2>1. QED  BY AtStep DEF IInv, KeptInv, Handled
<1>2. IInv /\ [Next]_vars => [A]_vars
    BY <1>1
<1>3. QED
    BY <1>2, Inductive, PTL DEF Spec, AnsweredIsKept

-----------------------------------------------------------------------------
(* The refinement of Mailbox: each step of the inbox is one of the mailbox, or
   leaves it as it is. *)
LEMMA Quiet ==
    ASSUME UNCHANGED list, UNCHANGED <<got, given, excused>>
    PROVE UNCHANGED Box!vars
BY DEF Box!vars

(* A push that reaches the list is a Put of Mailbox, or nothing if it was
   there. *)
LEMMA EnqueuePuts ==
    ASSUME IInv, NEW k \in Pusher, NEW m \in Msg, Enqueue(k, m)
    PROVE [Box!Next]_(Box!vars)
<1> USE DEF Enqueue, receiving
<1>1. CASE m \in seen
    BY <1>1, Quiet
<1>2. CASE m \notin seen
    <2>1. list' = Append(list, m)
        BY <1>2 DEF Insert
    <2>2. ToSet(list') = ToSet(list) \cup {m}
        BY <2>1, ToSetAppend DEF IInv, TypeOK
    <2>3. Box!Put(m)
        BY <2>2 DEF Box!Put
    <2>4. QED  BY <2>3 DEF Box!Next
<1>3. QED  BY <1>1, <1>2

(* The ids a pull drops as unservable are of excused messages. *)
LEMMA ResolvesRemoves ==
    ASSUME IInv, NEW p \in Puller, Resolves(p)
    PROVE [Box!Next]_(Box!vars)
<1> USE DEF Resolves, sending
<1>1. PICK found \in Found(pull[p].ids) : list' \in {list, Except(pull[p].ids \ found)}
    OBVIOUS
<1>2. CASE list' = list
    BY <1>2, Quiet
<1>3. CASE list' = Except(pull[p].ids \ found)
    <2> DEFINE dropped == pull[p].ids \ found
    <2>1. dropped \subseteq excused /\ dropped \in SUBSET Msg
        BY ResolvesDrops DEF IInv, TypeOK, Pull
    <2>2. ToSet(list') = ToSet(list) \ dropped
        BY <1>3, ExceptFacts DEF IInv, TypeOK
    <2>3. Box!Remove(dropped)
        BY <2>1, <2>2 DEF Box!Remove
    <2>4. QED  BY <2>1, <2>3 DEF Box!Next
<1>4. QED  BY <1>1, <1>2, <1>3

(* What the device imports or gives up is a Handle of Mailbox. *)
LEMMA HandlesHandles ==
    ASSUME IInv, NEW p \in Puller, Handles(p)
    PROVE Box!Next
<1> USE DEF Handles, sending
<1>1. PICK failed \in SUBSET (pull[p].ids \cap KeyPackage) : \E old \in SUBSET Old(failed) :
          /\ attempts' = Bump(failed)
          /\ got' = got \cup (pull[p].ids \ (failed \cup Skipped))
          /\ given' = given \cup Poisoned(failed, old)
    OBVIOUS
<1>2. PICK old \in SUBSET Old(failed) :
          /\ attempts' = Bump(failed)
          /\ got' = got \cup (pull[p].ids \ (failed \cup Skipped))
          /\ given' = given \cup Poisoned(failed, old)
    BY <1>1
<1> DEFINE done == Ackable(pull[p].ids, failed, old)
<1>3. Handled' = Handled \cup done /\ Poisoned(failed, old) \subseteq failed
    BY <1>2, HandledGrows
<1>4. done \subseteq pull[p].ids /\ done \in SUBSET Msg
    BY <1>3 DEF Ackable, IInv, TypeOK, Pull
<1>5. Box!Handle(done)
    BY <1>3, <1>4 DEF Box!Handle, Handled, IInv, KeptInv
<1>6. QED  BY <1>4, <1>5 DEF Box!Next

(* An ack removes a message that was handled. *)
LEMMA AckRemoveRemoves ==
    ASSUME IInv, NEW m \in Msg, AckRemoves(m)
    PROVE Box!Next
<1> USE DEF AckRemoves, receiving, sending
<1>1. ToSet(list') = ToSet(list) \ {m}
    BY ExceptFacts DEF IInv, TypeOK
<1>2. Box!Remove({m})
    BY <1>1 DEF Box!Remove, Handled, IInv, KeptInv
<1>3. QED  BY <1>2 DEF Box!Next

(* Expiry of the list excuses its messages. *)
LEMMA InboxExpiresExcuses ==
    ASSUME IInv, InboxExpires
    PROVE Box!Next
<1> USE DEF InboxExpires, receiving, sending
<1>1. ToSet(list') = {} /\ ToSet(list) \in SUBSET Msg
    BY DEF ToSet, IInv, TypeOK
<1>2. Box!Excuse(ToSet(list))
    BY <1>1 DEF Box!Excuse
<1>3. QED  BY <1>1, <1>2 DEF Box!Next

(* So does a purge. *)
LEMMA PurgeExcuses ==
    ASSUME NEW m \in Msg, Purge(m)
    PROVE Box!Next
<1>1. Box!Excuse({m})
    BY DEF Purge, receiving, Box!Excuse
<1>2. QED  BY <1>1 DEF Box!Next

(* Every step is one of Mailbox, or none. *)
LEMMA StepRefines == IInv /\ [Next]_vars => [Box!Next]_(Box!vars)
<1> SUFFICES ASSUME IInv, [Next]_vars PROVE [Box!Next]_(Box!vars)
    OBVIOUS
<1>1. CASE UNCHANGED vars
    BY <1>1, Quiet DEF vars
<1>2. ASSUME NEW k \in Pusher, NEW m \in Msg, Post(k, m) \/ Sender(k, m)
      PROVE [Box!Next]_(Box!vars)
    <2>1. CASE Enqueue(k, m)  BY <2>1, EnqueuePuts
    <2>2. CASE ~ Enqueue(k, m)
        BY <1>2, <2>2, Quiet DEF Post, Sender, CreateMessage, CreateDeliveries,
            SendStores, PostAnswered, receiving
    <2>3. QED  BY <2>1, <2>2
<1>3. ASSUME NEW k \in Pusher, PostFails(k)
      PROVE [Box!Next]_(Box!vars)
    BY <1>3, Quiet DEF PostFails, receiving
<1>4. ASSUME NEW p \in Puller, Starts(p) \/ PullFails(p)
      PROVE [Box!Next]_(Box!vars)
    BY <1>4, Quiet DEF Starts, PullFails
<1>5. ASSUME NEW p \in Puller, Resolves(p) \/ Handles(p)
      PROVE [Box!Next]_(Box!vars)
    BY <1>5, ResolvesRemoves, HandlesHandles
<1>6. ASSUME NEW m \in Msg, Lapses(m) \/ AckLost(m) \/ SeenExpires(m)
      PROVE [Box!Next]_(Box!vars)
    BY <1>6, Quiet DEF Lapses, AckLost, SeenExpires, receiving
<1>7. ASSUME NEW m \in Msg, AckRemoves(m) \/ Purge(m)
      PROVE [Box!Next]_(Box!vars)
    BY <1>7, AckRemoveRemoves, PurgeExcuses
<1>8. CASE InboxExpires
    BY <1>8, InboxExpiresExcuses
<1>9. QED
    BY <1>1, <1>2, <1>3, <1>4, <1>5, <1>6, <1>7, <1>8 DEF Next

(* The inbox implements Mailbox: however senders' requests, pulls, acks and
   expiries interleave and break off, a message leaves the list only after
   the device handled it, or was excused of it. *)
THEOREM InboxIsMailbox == Spec => KeepsMailbox
<1>1. Init => Box!Init
    BY BoundsAssumption DEF Init, Box!Init, ToSet
<1>2. QED
    BY <1>1, StepRefines, Inductive, PTL DEF Spec, KeepsMailbox, Box!Spec
=============================================================================
