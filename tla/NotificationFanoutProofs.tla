----------------------- MODULE NotificationFanoutProofs -----------------------
(***************************************************************************)
(* Proofs about NotificationFanout, for any calls, any bound on the        *)
(* notifications and any capacity of the preset's channel: its types; that *)
(* no arrival is lost, that answers are the first that could be given and  *)
(* that callbacks are run in order, whatever the callers' discipline; and, *)
(* for calls that nest, that the listeners registered are exactly those of *)
(* the calls under way and that none of them misses a notification.        *)
(***************************************************************************)
EXTENDS NotificationFanout, SequenceTheorems, TLAPS

USE KindsAssumption, DisciplineAssumption, BoundsAssumption
USE DEF call, ble, vars

\* The parts of TypeOK, grouped by what changes together.
MailType ==
    /\ mail \in [Calls -> Seq(1..MaxNotes)]
    /\ \A c \in Calls : Len(mail[c]) <= Capacity(c)
SeenType ==
    /\ seen \in [Calls -> Nat]
    /\ cache \in [Topics -> 0..MaxNotes]
    /\ \A c \in Calls : seen[c] <= Seen(c)
ListType == reg \in [Topics -> Seq(Calls)] /\ todo \in Seq(Calls)
CallType ==
    /\ at \in [Calls -> Places]
    /\ kind \in [Calls -> AllKinds \cup {"none"}]
    /\ pos \in [Calls -> Nat]
    /\ armed \in [Calls -> BOOLEAN]
    /\ outcome \in [Calls -> {"none", "ok", "err", "timeout"}]
    /\ first \in [Calls -> Nat] /\ due \in [Calls -> Nat]
    /\ near \in [Calls -> BOOLEAN]
BleType ==
    /\ topic \in Topics
    /\ stage \in {"idle", "cached", "calling"}
    /\ close \in BOOLEAN

LEMMA TypeParts == TypeOK <=> MailType /\ SeenType /\ ListType /\ CallType /\ BleType
BY DEF TypeOK, MailType, SeenType, ListType, CallType, BleType

\* Every kind of call has a topic, and room in its channel.
LEMMA TopicTyped == \A k : TopicOf(k) \in Topics
BY DEF TopicOf, Topics

LEMMA CapacityTyped == \A c : Capacity(c) \in Nat \ {0}
BY DEF Capacity

----------------------------------------------------------------------------
\* The lists.

\* The tail of a sequence that is not empty moves every entry one place ahead.
LEMMA TailMoves ==
    ASSUME NEW S, NEW s \in Seq(S), s # <<>>
    PROVE  /\ Tail(s) \in Seq(S)
           /\ Len(Tail(s)) = Len(s) - 1
           /\ \A i \in DOMAIN Tail(s) : i + 1 \in DOMAIN s /\ Tail(s)[i] = s[i + 1]
<1>1. /\ Tail(s) \in Seq(S) /\ Len(Tail(s)) = Len(s) - 1
      /\ \A i \in 1..Len(Tail(s)) : Tail(s)[i] = s[i + 1]
    BY HeadTailProperties
<1>2. DOMAIN s = 1..Len(s) /\ Len(s) \in Nat
    BY LenProperties
<1>3. DOMAIN Tail(s) = 1..Len(Tail(s))
    BY <1>1, LenProperties
<1>. QED  BY <1>1, <1>2, <1>3

\* RemoveAt at a position of the list closes the gap.
LEMMA RemoveAtProperties ==
    ASSUME NEW S, NEW s \in Seq(S), NEW i \in 1..Len(s)
    PROVE  /\ RemoveAt(s, i) \in Seq(S)
           /\ Len(RemoveAt(s, i)) = Len(s) - 1
           /\ \A j \in 1..(Len(s) - 1) :
                 RemoveAt(s, i)[j] = IF j < i THEN s[j] ELSE s[j + 1]
<1>. DEFINE front == SubSeq(s, 1, i - 1)
            back == SubSeq(s, i + 1, Len(s))
<1>0. Len(s) \in Nat
    BY LenProperties
<1>1. /\ front \in Seq(S) /\ Len(front) = i - 1
      /\ \A j \in 1..(i - 1) : front[j] = s[j]
    <2>1. \A j \in 1..(i - 1) : s[j] \in S
        BY <1>0, ElementOfSeq
    <2>. QED  BY <1>0, <2>1, SubSeqProperties
<1>2. /\ back \in Seq(S) /\ Len(back) = Len(s) - i
      /\ \A j \in 1..(Len(s) - i) : back[j] = s[i + j]
    <2>1. \A j \in (i + 1)..Len(s) : s[j] \in S
        BY <1>0, ElementOfSeq
    <2>2. \A j \in 1..(Len(s) - i) : (i + 1) + j - 1 = i + j
        BY <1>0
    <2>. QED  BY <1>0, <2>1, <2>2, SubSeqProperties
<1>3. RemoveAt(s, i) = front \o back
    BY DEF RemoveAt
<1>. HIDE DEF front, back
<1>4. /\ front \o back \in Seq(S) /\ Len(front \o back) = Len(front) + Len(back)
      /\ \A j \in 1..(Len(front) + Len(back)) :
            (front \o back)[j] = IF j <= Len(front) THEN front[j] ELSE back[j - Len(front)]
    BY <1>1, <1>2, ConcatProperties
<1>5. Len(front) + Len(back) = Len(s) - 1
    BY <1>0, <1>1, <1>2
<1>6. ASSUME NEW j \in 1..(Len(s) - 1)
      PROVE  (front \o back)[j] = IF j < i THEN s[j] ELSE s[j + 1]
    <2>0. (front \o back)[j] = IF j <= i - 1 THEN front[j] ELSE back[j - (i - 1)]
        BY <1>1, <1>4, <1>5
    <2>1. CASE j < i
        BY <2>0, <2>1, <1>0, <1>1
    <2>2. CASE ~(j < i)
        <3>1. j - (i - 1) \in 1..(Len(s) - i) /\ i + (j - (i - 1)) = j + 1
            BY <2>2, <1>0
        <3>2. back[j - (i - 1)] = s[i + (j - (i - 1))]
            BY <3>1, <1>2
        <3>. QED  BY <2>0, <2>2, <3>1, <3>2
    <2>. QED  BY <2>1, <2>2
<1>. QED  BY <1>3, <1>4, <1>5, <1>6

\* Unregistering takes entries out of a list and brings none in.
LEMMA WithoutKeeps ==
    ASSUME NEW S, NEW s \in Seq(S), NEW i \in Nat
    PROVE  /\ Without(s, i) \in Seq(S)
           /\ \A j \in DOMAIN Without(s, i) : \E k \in DOMAIN s : Without(s, i)[j] = s[k]
<1>1. CASE i \in 1..Len(s)
    <2>1. ASSUME NEW j \in 1..(Len(s) - 1)
          PROVE  \E k \in DOMAIN s : RemoveAt(s, i)[j] = s[k]
        <3>1. RemoveAt(s, i)[j] = IF j < i THEN s[j] ELSE s[j + 1]
            BY <1>1, RemoveAtProperties
        <3>2. j \in DOMAIN s /\ j + 1 \in DOMAIN s
            BY LenProperties
        <3>. QED  BY <3>1, <3>2
    <2>2. DOMAIN RemoveAt(s, i) = 1..(Len(s) - 1)
        BY <1>1, RemoveAtProperties, LenProperties
    <2>3. Without(s, i) = RemoveAt(s, i)
        BY <1>1 DEF Without
    <2>4. RemoveAt(s, i) \in Seq(S)
        BY <1>1, RemoveAtProperties
    <2>. QED  BY <2>1, <2>2, <2>3, <2>4
<1>2. CASE i > Len(s)
    BY <1>2 DEF Without
<1>3. CASE i = 0
    <2>1. SubSeq(s, 1, i - 1) = <<>> /\ SubSeq(s, i + 1, Len(s)) = s
        BY <1>3, SubSeqEmpty, SubSeqFull, LenProperties
    <2>2. <<>> \o s = s
        BY ConcatEmptySeq
    <2>3. Without(s, i) = s
        BY <1>3, <2>1, <2>2, LenProperties DEF Without, RemoveAt
    <2>. QED  BY <2>3
<1>. QED  BY <1>1, <1>2, <1>3, LenProperties

----------------------------------------------------------------------------
\* Types.

LEMMA InitType == Init => TypeOK
<1>. SUFFICES ASSUME Init PROVE TypeOK
    OBVIOUS
<1>1. <<>> \in Seq(1..MaxNotes) /\ <<>> \in Seq(Calls) /\ Len(<<>>) = 0
    OBVIOUS
<1>2. MailType
    BY <1>1, CapacityTyped DEF Init, MailType
<1>3. SeenType
    BY TopicTyped DEF Init, SeenType, Seen
<1>4. ListType
    BY <1>1 DEF Init, ListType
<1>5. CallType
    BY DEF Init, CallType, Places
<1>6. BleType
    BY DEF Init, BleType, Topics
<1>. QED  BY <1>2, <1>3, <1>4, <1>5, <1>6, TypeParts

LEMMA UpcomingTyped == TypeOK => \A t \in Topics : Upcoming(t) \in Nat
BY TypeParts DEF SeenType, Upcoming

LEMMA StepCallType ==
    ASSUME TypeOK, [Next]_vars
    PROVE  CallType' /\ BleType'
<1>0. CallType /\ BleType
    BY TypeParts
<1>. USE <1>0 DEF CallType, BleType, Places, Subscribed, Goto, Return
<1>1. ASSUME NEW c \in Calls, NEW k \in Kinds, Enter(c, k) PROVE CallType' /\ BleType'
    BY <1>1 DEF Enter
<1>2. ASSUME NEW c \in Calls, Register(c) PROVE CallType' /\ BleType'
    <2>1. Len(reg[TopicOf(kind[c])]) + 1 \in Nat
        BY TypeParts, TopicTyped DEF ListType
    <2>2. Upcoming(TopicOf(kind[c])) \in Nat
        BY UpcomingTyped, TopicTyped
    <2>. QED  BY <1>2, <2>1, <2>2 DEF Register
<1>3. ASSUME NEW c \in Calls, FirstWrite(c) PROVE CallType' /\ BleType'
    BY <1>3 DEF FirstWrite
<1>4. ASSUME NEW c \in Calls, Receive(c) PROVE CallType' /\ BleType'
    BY <1>4 DEF Receive
<1>5. ASSUME NEW c \in Calls, Quiesce(c) PROVE CallType' /\ BleType'
    BY <1>5 DEF Quiesce
<1>6. ASSUME NEW c \in Calls, GiveUp(c) PROVE CallType' /\ BleType'
    BY <1>6 DEF GiveUp
<1>7. ASSUME NEW c \in Calls, Unregister(c) PROVE CallType' /\ BleType'
    BY <1>7 DEF Unregister
<1>8. ASSUME NEW t \in Topics, Store(t) PROVE CallType' /\ BleType'
    BY <1>8 DEF Store
<1>9. CASE Snapshot
    BY <1>9 DEF Snapshot
<1>10. CASE CallBack
    <2>1. cache[topic] + 1 \in Nat
        BY TypeParts DEF SeenType
    <2>. QED  BY <1>10, <2>1 DEF CallBack, Wants
<1>11. CASE Handled
    BY <1>11 DEF Handled, Topics
<1>12. CASE UNCHANGED vars
    BY <1>12
<1>. QED
    BY <1>1, <1>2, <1>3, <1>4, <1>5, <1>6, <1>7, <1>8, <1>9, <1>10, <1>11, <1>12
    DEF Next, Proceed


LEMMA StepListType ==
    ASSUME TypeOK, [Next]_vars
    PROVE  ListType'
<1>0. ListType /\ CallType /\ BleType
    BY TypeParts
<1>. USE <1>0 DEF ListType
<1>1. ASSUME NEW c \in Calls, NEW k \in Kinds, Enter(c, k) PROVE ListType'
    BY <1>1 DEF Enter
<1>2. ASSUME NEW c \in Calls, Register(c) PROVE ListType'
    <2>1. reg[TopicOf(kind[c])] \in Seq(Calls)
        BY TopicTyped
    <2>2. Append(reg[TopicOf(kind[c])], c) \in Seq(Calls)
        BY <1>2, <2>1, AppendProperties
    <2>. QED  BY <1>2, <2>2 DEF Register
<1>3. ASSUME NEW c \in Calls, FirstWrite(c) \/ Receive(c) \/ Quiesce(c) \/ GiveUp(c) PROVE ListType'
    BY <1>3 DEF FirstWrite, Receive, Quiesce, GiveUp
<1>4. ASSUME NEW c \in Calls, Unregister(c) PROVE ListType'
    <2>1. reg[TopicOf(kind[c])] \in Seq(Calls) /\ pos[c] \in Nat
        BY <1>4, TopicTyped DEF CallType
    <2>2. Without(reg[TopicOf(kind[c])], pos[c]) \in Seq(Calls)
        BY <2>1, WithoutKeeps
    <2>. QED  BY <1>4, <2>2 DEF Unregister
<1>5. ASSUME NEW t \in Topics, Store(t) PROVE ListType'
    BY <1>5 DEF Store
<1>6. CASE Snapshot
    BY <1>6 DEF Snapshot, BleType
<1>7. CASE CallBack
    <2>1. Tail(todo) \in Seq(Calls)
        BY <1>7 DEF CallBack
    <2>. QED  BY <1>7, <2>1 DEF CallBack
<1>8. CASE Handled
    BY <1>8 DEF Handled
<1>9. CASE UNCHANGED vars
    BY <1>9
<1>. QED
    BY <1>1, <1>2, <1>3, <1>4, <1>5, <1>6, <1>7, <1>8, <1>9 DEF Next, Proceed

----------------------------------------------------------------------------
\* Calls that have not registered, and the topics of the lists.

LEMMA StepFresh ==
    ASSUME TypeOK, FreshInv, TopicInv, [Next]_vars
    PROVE  FreshInv'
<1>0. CallType /\ mail \in [Calls -> Seq(1..MaxNotes)] /\ seen \in [Calls -> Nat]
    BY TypeParts DEF MailType, SeenType
<1>. USE <1>0 DEF CallType, FreshInv, Places, Subscribed, Goto, Return, Plain
<1>1. ASSUME NEW c \in Calls, NEW k \in Kinds, Enter(c, k) PROVE FreshInv'
    <2>1. /\ at[c] = "idle" /\ at'[c] \in {"registering", "done"} /\ kind'[c] \in AllKinds
          /\ at'[c] = "registering" => outcome'[c] = outcome[c] /\ seen'[c] = seen[c]
        BY <1>1, KindsAssumption DEF Enter
    <2>2. \A d \in Calls : d # c => /\ at'[d] = at[d] /\ kind'[d] = kind[d] /\ seen'[d] = seen[d]
                                     /\ outcome'[d] = outcome[d]
        BY <1>1 DEF Enter
    <2>3. UNCHANGED <<armed, first, mail, near>>
        BY <1>1 DEF Enter
    <2>4. /\ kind'[c] # "none" /\ armed'[c] = FALSE /\ first'[c] = 0 /\ mail'[c] = <<>> /\ ~near'[c]
          /\ at'[c] = "registering" => outcome'[c] = "none" /\ seen'[c] = 0
        BY <2>1, <2>3 DEF AllKinds
    <2>. HIDE <1>0 DEF CallType
    <2>. QED  BY <2>1, <2>2, <2>3, <2>4
<1>2. ASSUME NEW c \in Calls, Register(c) PROVE FreshInv'
    BY <1>2 DEF Register
<1>3. ASSUME NEW c \in Calls, FirstWrite(c) PROVE FreshInv'
    BY <1>3 DEF FirstWrite
<1>4. ASSUME NEW c \in Calls, Receive(c) PROVE FreshInv'
    <2>1. at[c] = "loop" /\ kind[c] \notin Plain
        BY <1>4 DEF Receive
    <2>2. /\ UNCHANGED <<kind, first, near>>
          /\ at'[c] \in {"loop", "leaving"} /\ (at'[c] = "loop" => outcome'[c] = "none")
          /\ armed'[c] => armed[c] \/ kind[c] = "preset"
        BY <1>4 DEF Receive
    <2>3. \A d \in Calls : d # c => /\ at'[d] = at[d] /\ mail'[d] = mail[d] /\ seen'[d] = seen[d]
                                     /\ outcome'[d] = outcome[d] /\ armed'[d] = armed[d]
        BY <1>4 DEF Receive
    <2>. QED  BY <2>1, <2>2, <2>3
<1>5. ASSUME NEW c \in Calls, Quiesce(c) PROVE FreshInv'
    BY <1>5 DEF Quiesce
<1>6. ASSUME NEW c \in Calls, GiveUp(c) PROVE FreshInv'
    BY <1>6 DEF GiveUp
<1>7. ASSUME NEW c \in Calls, Unregister(c) PROVE FreshInv'
    BY <1>7 DEF Unregister
<1>8. ASSUME NEW t \in Topics, Store(t) PROVE FreshInv'
    BY <1>8 DEF Store
<1>9. CASE Snapshot
    BY <1>9 DEF Snapshot
<1>10. CASE CallBack
    <2>1. /\ UNCHANGED <<at, kind, armed, outcome, seen, first>>
          /\ \A c \in Calls : mail'[c] # mail[c] \/ near'[c] # near[c] => Wants(c)
        BY <1>10 DEF CallBack, Offer
    <2>. QED  BY <2>1 DEF Wants
<1>11. CASE Handled
    BY <1>11 DEF Handled
<1>12. CASE UNCHANGED vars
    BY <1>12
<1>. QED
    BY <1>1, <1>2, <1>3, <1>4, <1>5, <1>6, <1>7, <1>8, <1>9, <1>10, <1>11, <1>12
    DEF Next, Proceed

LEMMA StepTopic ==
    ASSUME TypeOK, FreshInv, TopicInv, [Next]_vars
    PROVE  TopicInv'
<1>0. CallType /\ BleType /\ ListType /\ cache \in [Topics -> 0..MaxNotes]
    BY TypeParts DEF SeenType
<1>. DEFINE Own(t, c) == TopicOf(kind[c]) = t /\ at[c] \notin {"idle", "registering"}
            OwnNext(t, c) == TopicOf(kind'[c]) = t /\ at'[c] \notin {"idle", "registering"}
<1>1. /\ \A t \in Topics : reg[t] \in Seq(Calls) /\ \A i \in DOMAIN reg[t] : reg[t][i] \in Calls
      /\ \A i \in DOMAIN todo : todo[i] \in Calls
    BY <1>0, ElementOfSeq DEF ListType
\* A call that owns a listener keeps its topic and never goes back.
<1>2. ASSUME NEW t, NEW c \in Calls, Own(t, c) PROVE OwnNext(t, c)
    <2>1. CASE UNCHANGED <<at, kind>>
        BY <1>2, <2>1
    <2>2. ASSUME NEW d \in Calls, \/ \E k \in Kinds : Enter(d, k)
                                  \/ Register(d) \/ FirstWrite(d) \/ Quiesce(d) \/ GiveUp(d) \/ Unregister(d)
          PROVE  OwnNext(t, c)
        BY <1>0, <1>2, <2>2
        DEF Enter, Register, FirstWrite, Quiesce, GiveUp, Unregister, CallType, Goto
    <2>3. ASSUME NEW d \in Calls, Receive(d) PROVE OwnNext(t, c)
        <3>1. kind' = kind /\ (at' = at \/ at' = [at EXCEPT ![d] = "leaving"])
            BY <2>3 DEF Receive, Goto
        <3>. QED  BY <1>0, <1>2, <3>1 DEF CallType
    <2>. QED
        BY <2>1, <2>2, <2>3 DEF Next, Proceed, Store, Snapshot, CallBack, Handled
<1>3. TopicInv = /\ \A t \in Topics : \A i \in DOMAIN reg[t] : Own(t, reg[t][i])
                 /\ \A i \in DOMAIN todo : Own(topic, todo[i])
                 /\ stage # "calling" => todo = <<>>
                 /\ stage # "idle" => cache[topic] > 0
    BY DEF TopicInv
<1>4. (TopicInv)' = /\ \A t \in Topics : \A i \in DOMAIN reg'[t] : OwnNext(t, reg'[t][i])
                    /\ \A i \in DOMAIN todo' : OwnNext(topic', todo'[i])
                    /\ stage' # "calling" => todo' = <<>>
                    /\ stage' # "idle" => cache'[topic'] > 0
    BY DEF TopicInv
<1>. HIDE DEF Own, OwnNext
<1>5. ASSUME NEW t \in Topics, NEW i \in DOMAIN reg'[t] PROVE OwnNext(t, reg'[t][i])
    <2>1. CASE reg' = reg
        BY <1>1, <1>2, <1>3, <2>1
    <2>2. ASSUME NEW c \in Calls, Register(c) PROVE OwnNext(t, reg'[t][i])
        <3>1. reg'[t] = IF t = TopicOf(kind[c]) THEN Append(reg[t], c) ELSE reg[t]
            BY <1>0, <2>2 DEF Register, ListType
        <3>2. CASE reg'[t][i] = c /\ t = TopicOf(kind[c])
            BY <1>0, <2>2, <3>2 DEF Register, OwnNext, Goto, CallType
        <3>3. CASE ~(reg'[t][i] = c /\ t = TopicOf(kind[c]))
            <4>1. i \in DOMAIN reg[t] /\ reg'[t][i] = reg[t][i]
                BY <1>1, <2>2, <3>1, <3>3, AppendProperties
            <4>. QED  BY <4>1, <1>1, <1>2, <1>3
        <3>. QED  BY <3>2, <3>3
    <2>3. ASSUME NEW c \in Calls, Unregister(c) PROVE OwnNext(t, reg'[t][i])
        <3>1. reg'[t] = reg[t] \/ reg'[t] = Without(reg[t], pos[c])
            BY <1>0, <2>3 DEF Unregister, ListType
        <3>2. reg[t] \in Seq(Calls) /\ pos[c] \in Nat
            BY <1>0, <1>1, <2>3 DEF CallType
        <3>3. \A j \in DOMAIN Without(reg[t], pos[c]) :
                 \E k \in DOMAIN reg[t] : Without(reg[t], pos[c])[j] = reg[t][k]
            BY <3>2, WithoutKeeps
        <3>4. \E k \in DOMAIN reg[t] : reg'[t][i] = reg[t][k]
            BY <3>1, <3>3
        <3>. QED  BY <3>4, <1>1, <1>2, <1>3
    <2>. QED
        BY <2>1, <2>2, <2>3
        DEF Next, Proceed, Enter, FirstWrite, Receive, Quiesce, GiveUp, Store, Snapshot, CallBack, Handled
<1>6. ASSUME NEW i \in DOMAIN todo' PROVE OwnNext(topic', todo'[i])
    <2>1. CASE topic' = topic /\ todo' = todo
        BY <1>1, <1>2, <1>3, <2>1
    <2>2. CASE Snapshot
        BY <1>0, <1>1, <1>2, <1>3, <2>2 DEF Snapshot, BleType
    <2>3. CASE CallBack
        <3>1. todo' = Tail(todo) /\ todo # <<>> /\ topic' = topic /\ todo \in Seq(Calls)
            BY <1>0, <2>3 DEF CallBack, ListType
        <3>2. i + 1 \in DOMAIN todo /\ todo'[i] = todo[i + 1]
            BY <3>1, HeadTailProperties, LenProperties
        <3>. QED  BY <1>1, <1>2, <1>3, <3>1, <3>2
    <2>4. CASE Handled \/ \E t \in Topics : Store(t)
        <3>1. todo' = <<>>
            BY <2>4, <1>3 DEF Handled, Store
        <3>. QED  BY <3>1
    <2>. QED
        BY <2>1, <2>2, <2>3, <2>4
        DEF Next, Proceed, Enter, Register, FirstWrite, Receive, Quiesce, GiveUp, Unregister
<1>7. /\ stage' # "calling" => todo' = <<>>
      /\ stage' # "idle" => cache'[topic'] > 0
    <2>1. CASE UNCHANGED <<stage, todo, cache, topic>>
        BY <1>3, <2>1
    <2>2. ASSUME NEW t \in Topics, Store(t)
          PROVE  todo' = <<>> /\ stage' = "cached" /\ cache'[topic'] > 0
        <3>1. cache[t] \in Nat /\ cache'[t] = cache[t] + 1 /\ topic' = t /\ todo' = todo
            BY <1>0, <2>2 DEF Store
        <3>2. stage = "idle" /\ stage' = "cached"
            BY <2>2 DEF Store
        <3>3. todo = <<>>
            BY <1>3, <3>2
        <3>. QED  BY <3>1, <3>2, <3>3
    <2>3. CASE Snapshot
        BY <1>3, <2>3 DEF Snapshot
    <2>4. CASE CallBack
        BY <1>3, <2>4 DEF CallBack
    <2>5. CASE Handled
        BY <2>5 DEF Handled
    <2>. QED
        BY <2>1, <2>2, <2>3, <2>4, <2>5
        DEF Next, Proceed, Enter, Register, FirstWrite, Receive, Quiesce, GiveUp, Unregister
<1>. QED  BY <1>4, <1>5, <1>6, <1>7

----------------------------------------------------------------------------
\* What the calls see.

\* The caches only grow, and a call keeps its kind once it has begun.
LEMMA SeenGrows ==
    ASSUME TypeOK, [Next]_vars, NEW c \in Calls
    PROVE  /\ Seen(c) \in Nat /\ Seen(c)' \in Nat
           /\ at[c] # "idle" => kind'[c] = kind[c]
           /\ kind'[c] = kind[c] => Seen(c) <= Seen(c)'
<1>0. CallType /\ cache \in [Topics -> 0..MaxNotes]
    BY TypeParts DEF SeenType
<1>1. cache' \in [Topics -> Nat] /\ \A t \in Topics : cache[t] <= cache'[t]
    <2>1. CASE cache' = cache
        BY <1>0, <2>1
    <2>2. ASSUME NEW t \in Topics, Store(t)
          PROVE  cache' \in [Topics -> Nat] /\ \A u \in Topics : cache[u] <= cache'[u]
        BY <1>0, <2>2 DEF Store
    <2>. QED
        BY <2>1, <2>2
        DEF Next, Proceed, Enter, Register, FirstWrite, Receive, Quiesce, GiveUp, Unregister,
            Snapshot, CallBack, Handled
<1>2. at[c] # "idle" => kind'[c] = kind[c]
    BY <1>0
    DEF Next, Proceed, Enter, Register, FirstWrite, Receive, Quiesce, GiveUp, Unregister,
        Store, Snapshot, CallBack, Handled, CallType
<1>. QED  BY <1>0, <1>1, <1>2, TopicTyped DEF Seen

LEMMA StepMail ==
    ASSUME TypeOK, FreshInv, TopicInv, DueInv, MailInv, [Next]_vars
    PROVE  MailType' /\ MailInv'
<1>0. /\ CallType /\ BleType
      /\ cache \in [Topics -> 0..MaxNotes] /\ todo \in Seq(Calls)
      /\ mail \in [Calls -> Seq(1..MaxNotes)] /\ seen \in [Calls -> Nat]
      /\ \A c \in Calls : Len(mail[c]) <= Capacity(c)
    BY TypeParts DEF MailType, SeenType, ListType
\* One call's channel, its timer and what it may answer.
<1>. DEFINE Filled(c) ==
              /\ mail[c] \in Seq(1..MaxNotes) /\ Len(mail[c]) <= Capacity(c)
              /\ first[c] <= due[c]
              /\ \A i \in DOMAIN mail[c] : first[c] <= mail[c][i] /\ mail[c][i] <= Seen(c)
            Timed(c) == armed[c] /\ at[c] = "loop" => 0 < seen[c] /\ first[c] <= seen[c]
            Single(c) ==
              kind[c] \in {"probe", "fetch"} /\ at[c] \in {"writing", "loop"} =>
                IF mail[c] = <<>> THEN due[c] = first[c]
                ELSE \A i \in DOMAIN mail[c] : mail[c][i] = first[c]
            Mine(c) == Filled(c) /\ Timed(c) /\ Single(c)
<1>1. \A c \in Calls : Mine(c)
    BY <1>0 DEF MailInv
<1>2. mail' \in [Calls -> Seq(1..MaxNotes)] /\ (\A c \in Calls : Mine(c)') => MailType' /\ MailInv'
    BY DEF MailInv, MailType
<1>3. DOMAIN mail' = Calls /\ mail' = [c \in Calls |-> mail'[c]]
    BY <1>0
    DEF Next, Proceed, Enter, Register, FirstWrite, Receive, Quiesce, GiveUp, Unregister,
        Store, Snapshot, CallBack, Handled, Offer
<1>4. ASSUME NEW c \in Calls PROVE Mine(c)'
    <2>0. /\ Seen(c) \in Nat /\ Seen(c)' \in Nat
          /\ at[c] # "idle" => kind'[c] = kind[c]
          /\ kind'[c] = kind[c] => Seen(c) <= Seen(c)'
          /\ first[c] \in Nat /\ due[c] \in Nat /\ seen[c] \in Nat
          /\ mail[c] \in Seq(1..MaxNotes)
          /\ \A i \in DOMAIN mail[c] : mail[c][i] \in Nat /\ mail[c][i] > 0
          /\ DOMAIN mail[c] = 1..Len(mail[c]) /\ Len(mail[c]) \in Nat
        BY <1>0, SeenGrows, ElementOfSeq, LenProperties DEF CallType
    \* The step leaves the channel as it is.
    <2>1. ASSUME mail'[c] = mail[c], first'[c] = first[c], due'[c] = due[c], kind'[c] = kind[c]
          PROVE  Filled(c)'
        BY <1>1, <2>0, <2>1 DEF Capacity
    <2>2. ASSUME mail'[c] = mail[c], first'[c] = first[c], due'[c] = due[c], kind'[c] = kind[c],
                 at'[c] = at[c], armed'[c] = armed[c], seen'[c] = seen[c]
          PROVE  Mine(c)'
        BY <1>1, <2>1, <2>2
    \* The channel is empty.
    <2>3. ASSUME mail'[c] = <<>>, first'[c] <= due'[c] PROVE Filled(c)'
        <3>1. <<>> \in Seq(1..MaxNotes) /\ Len(<<>>) = 0 /\ DOMAIN <<>> = {}
            OBVIOUS
        <3>2. 0 <= Capacity(c)'
            BY DEF Capacity
        <3>. QED  BY <2>3, <3>1, <3>2
    <2>. USE DEF FreshInv, Subscribed, Goto, Return
    <2>4. ASSUME NEW k \in Kinds, Enter(c, k) PROVE Mine(c)'
        <3>1. /\ mail'[c] = <<>> /\ first'[c] = first[c] /\ due'[c] = due[c]
              /\ ~armed'[c] /\ at'[c] \notin {"writing", "loop"}
            BY <1>0, <2>4 DEF Enter, CallType
        <3>. QED  BY <1>1, <2>3, <3>1
    <2>5. ASSUME Register(c) PROVE Mine(c)'
        <3>1. Upcoming(TopicOf(kind[c])) \in Nat
            BY UpcomingTyped, TopicTyped
        <3>2. /\ mail'[c] = <<>> /\ ~armed'[c]
              /\ first'[c] = Upcoming(TopicOf(kind[c])) /\ due'[c] = Upcoming(TopicOf(kind[c]))
            BY <1>0, <2>5 DEF Register, CallType
        <3>. QED  BY <2>3, <3>1, <3>2
    <2>6. ASSUME FirstWrite(c) \/ Quiesce(c) \/ GiveUp(c) PROVE Mine(c)'
        <3>1. /\ mail'[c] = mail[c] /\ first'[c] = first[c] /\ due'[c] = due[c]
              /\ kind'[c] = kind[c] /\ armed'[c] = armed[c]
              /\ at'[c] = "leaving" \/ (at[c] = "writing" /\ at'[c] = "loop" /\ ~armed[c])
            BY <1>0, <2>6 DEF FirstWrite, Quiesce, GiveUp, CallType
        <3>. QED  BY <1>1, <2>1, <3>1
    <2>7. ASSUME Receive(c) PROVE Mine(c)'
        <3>1. /\ mail[c] # <<>> /\ mail'[c] = Tail(mail[c]) /\ at[c] = "loop"
              /\ kind' = kind /\ first' = first /\ due' = due /\ cache' = cache
            BY <1>0, <2>7 DEF Receive
        <3>2. /\ Tail(mail[c]) \in Seq(1..MaxNotes)
              /\ Len(Tail(mail[c])) <= Len(mail[c])
              /\ \A i \in DOMAIN Tail(mail[c]) :
                    i + 1 \in DOMAIN mail[c] /\ Tail(mail[c])[i] = mail[c][i + 1]
            <4>0. mail[c] \in Seq(1..MaxNotes) /\ mail[c] # <<>>
                BY <1>0, <3>1
            <4>1. Len(mail[c]) \in Nat
                BY <4>0, LenProperties
            <4>2. /\ Tail(mail[c]) \in Seq(1..MaxNotes)
                  /\ Len(Tail(mail[c])) = Len(mail[c]) - 1
                  /\ \A i \in DOMAIN Tail(mail[c]) :
                        i + 1 \in DOMAIN mail[c] /\ Tail(mail[c])[i] = mail[c][i + 1]
                BY <4>0, TailMoves
            <4>. QED  BY <4>1, <4>2
        <3>3. Capacity(c)' = Capacity(c) /\ Seen(c)' = Seen(c) /\ Capacity(c) \in Nat
            BY <3>1, CapacityTyped DEF Capacity, Seen
        <3>4. Filled(c)'
            <4>1. Filled(c) /\ first'[c] = first[c] /\ due'[c] = due[c]
                BY <1>1, <3>1
            <4>2. Len(Tail(mail[c])) \in Nat
                BY <3>2, LenProperties
            <4>3. mail'[c] \in Seq(1..MaxNotes) /\ Len(mail'[c]) <= Capacity(c)'
                BY <2>0, <3>1, <3>2, <3>3, <4>1, <4>2
            <4>4. \A i \in DOMAIN mail'[c] : first'[c] <= mail'[c][i] /\ mail'[c][i] <= Seen(c)'
                <5>1. SUFFICES ASSUME NEW i \in DOMAIN mail'[c]
                      PROVE  first'[c] <= mail'[c][i] /\ mail'[c][i] <= Seen(c)'
                    OBVIOUS
                <5>2. i + 1 \in DOMAIN mail[c] /\ mail'[c][i] = mail[c][i + 1]
                    BY <3>1, <3>2
                <5>3. first[c] <= mail[c][i + 1] /\ mail[c][i + 1] <= Seen(c)
                    BY <4>1, <5>2
                <5>. QED  BY <3>3, <4>1, <5>2, <5>3
            <4>. QED  BY <4>1, <4>3, <4>4
        <3>5. CASE kind[c] = "preset"
            <4>1. seen'[c] = Head(mail[c])
                BY <1>0, <2>7, <3>5 DEF Receive, CallType
            <4>2. 1 \in DOMAIN mail[c] /\ Head(mail[c]) = mail[c][1]
                BY <2>0, <3>1, EmptySeq
            <4>3. first[c] <= Head(mail[c]) /\ 0 < Head(mail[c])
                BY <1>1, <2>0, <4>2
            <4>. QED  BY <3>1, <3>4, <3>5, <4>1, <4>3
        <3>6. CASE kind[c] # "preset"
            <4>1. at'[c] = "leaving"
                BY <1>0, <2>7, <3>6 DEF Receive, CallType
            <4>. QED  BY <3>4, <4>1
        <3>. QED  BY <3>5, <3>6
    <2>8. ASSUME Unregister(c) PROVE Mine(c)'
        <3>1. mail'[c] = <<>> /\ first'[c] = first[c] /\ due'[c] = due[c] /\ at'[c] = "done"
            BY <1>0, <2>8 DEF Unregister, CallType
        <3>. QED  BY <1>1, <2>3, <3>1
    <2>9. ASSUME CallBack, c = Head(todo) PROVE Mine(c)'
        <3>1. /\ todo # <<>> /\ at' = at /\ seen' = seen
              /\ kind' = kind /\ first' = first /\ cache' = cache /\ armed' = armed
              /\ due'[c] = cache[topic] + 1
            BY <1>0, <2>9 DEF CallBack, CallType
        <3>2. 1 \in DOMAIN todo /\ todo[1] = c
            BY <1>0, <2>9, <3>1, LenProperties, EmptySeq
        <3>3. /\ TopicOf(kind[c]) = topic /\ at[c] # "idle"
              /\ cache[topic] \in 1..MaxNotes
              /\ Seen(c) = cache[topic] /\ Seen(c)' = cache[topic] /\ Capacity(c)' = Capacity(c)
              /\ due[c] = Seen(c)
            <4>1. TopicOf(kind[c]) = topic /\ at[c] # "idle"
                BY <3>2 DEF TopicInv
            <4>2. stage # "idle" /\ cache[topic] \in 0..MaxNotes
                BY <1>0, <2>9 DEF CallBack, BleType
            <4>3. c \in ToSet(todo)
                BY <3>2 DEF ToSet
            <4>. QED  BY <3>1, <4>1, <4>2, <4>3 DEF TopicInv, DueInv, Seen, Capacity
        <3>4. mail'[c] = mail[c] \/ (Len(mail[c]) < Capacity(c) /\ mail'[c] = Append(mail[c], cache[topic]))
            BY <1>0, <2>9 DEF CallBack, Offer
        <3>5. CASE mail'[c] = mail[c]
            <4>1. Filled(c)'
                BY <1>1, <2>0, <3>1, <3>3, <3>5
            <4>2. kind[c] \in {"probe", "fetch"} /\ at[c] \in {"writing", "loop"} => mail[c] # <<>>
                <5>1. ASSUME kind[c] \in {"probe", "fetch"}, at[c] \in {"writing", "loop"}, mail[c] = <<>>
                      PROVE  mail'[c] # mail[c]
                    <6>1. Offer(c) /\ Wants(c) /\ Len(mail[c]) < Capacity(c)
                        BY <2>9, <5>1 DEF CallBack, Wants, Plain, Capacity
                    <6>2. mail'[c] = Append(mail[c], cache[topic])
                        BY <1>0, <6>1 DEF Offer
                    <6>3. Len(Append(mail[c], cache[topic])) = Len(mail[c]) + 1
                        BY <2>0, <3>3, AppendProperties
                    <6>. QED  BY <2>0, <6>2, <6>3
                <5>. QED  BY <3>5, <5>1
            <4>. QED  BY <1>1, <3>1, <3>5, <4>1, <4>2
        <3>6. CASE Len(mail[c]) < Capacity(c) /\ mail'[c] = Append(mail[c], cache[topic])
            <4>1. /\ mail'[c] \in Seq(1..MaxNotes) /\ Len(mail'[c]) = Len(mail[c]) + 1
                  /\ \A i \in 1..Len(mail[c]) : mail'[c][i] = mail[c][i]
                  /\ mail'[c][Len(mail[c]) + 1] = cache[topic]
                  /\ DOMAIN mail'[c] = 1..(Len(mail[c]) + 1)
                BY <2>0, <3>3, <3>6, AppendProperties, LenProperties
            <4>2. Capacity(c) \in Nat
                BY CapacityTyped
            <4>3. Filled(c)'
                <5>1. Filled(c) /\ first'[c] = first[c] /\ first[c] <= cache[topic]
                    BY <1>1, <3>1, <3>3
                <5>2. mail'[c] \in Seq(1..MaxNotes) /\ Len(mail'[c]) <= Capacity(c)'
                    BY <2>0, <3>3, <3>6, <4>1, <4>2
                <5>3. first'[c] <= due'[c]
                    BY <2>0, <3>1, <3>3, <5>1
                <5>4. ASSUME NEW i \in DOMAIN mail'[c]
                      PROVE  first'[c] <= mail'[c][i] /\ mail'[c][i] <= Seen(c)'
                    <6>1. CASE i \in 1..Len(mail[c])
                        BY <2>0, <3>3, <4>1, <5>1, <6>1
                    <6>2. CASE i = Len(mail[c]) + 1
                        BY <2>0, <3>3, <4>1, <5>1, <6>2
                    <6>3. DOMAIN mail'[c] = 1..(Len(mail[c]) + 1) /\ Len(mail[c]) \in Nat
                        BY <2>0, <4>1
                    <6>4. i \in 1..Len(mail[c]) \/ i = Len(mail[c]) + 1
                        BY <5>4, <6>3
                    <6>. QED  BY <6>1, <6>2, <6>4
                <5>. QED  BY <5>2, <5>3, <5>4
            <4>4. Single(c)'
                <5>. SUFFICES ASSUME kind[c] \in {"probe", "fetch"}, at[c] \in {"writing", "loop"},
                                     NEW i \in DOMAIN mail'[c]
                              PROVE  mail'[c] # <<>> /\ mail'[c][i] = first[c]
                    BY <3>1, <4>1
                <5>1. Len(mail[c]) = 0 /\ mail[c] = <<>>
                    <6>1. Capacity(c) = 1 /\ Len(mail[c]) < 1
                        BY <3>6 DEF Capacity
                    <6>2. Len(mail[c]) = 0
                        BY <2>0, <6>1
                    <6>. QED  BY <2>0, <6>2, EmptySeq
                <5>2. due[c] = first[c]
                    BY <1>1, <5>1
                <5>. QED  BY <2>0, <3>3, <4>1, <5>1, <5>2
            <4>. QED  BY <1>1, <3>1, <4>3, <4>4
        <3>. QED  BY <3>4, <3>5, <3>6
    <2>10. ASSUME CallBack, c # Head(todo) PROVE Mine(c)'
        <3>1. /\ mail'[c] = mail[c] /\ due'[c] = due[c]
              /\ at' = at /\ seen' = seen /\ kind' = kind /\ first' = first /\ armed' = armed
            BY <1>0, <2>10 DEF CallBack, Offer, CallType
        <3>. QED  BY <2>2, <3>1
    <2>. HIDE DEF Mine
    <2>11. ASSUME NEW d \in Calls, d # c,
                  (\E k \in Kinds : Enter(d, k)) \/ Register(d) \/ FirstWrite(d) \/ Quiesce(d)
                    \/ GiveUp(d) \/ Unregister(d)
           PROVE  Mine(c)'
        BY <1>0, <2>2, <2>11 DEF Enter, Register, FirstWrite, Quiesce, GiveUp, Unregister, CallType
    <2>12. ASSUME NEW d \in Calls, d # c, Receive(d) PROVE Mine(c)'
        <3>1. /\ mail'[c] = mail[c] /\ armed'[c] = armed[c] /\ seen'[c] = seen[c] /\ at'[c] = at[c]
              /\ kind' = kind /\ first' = first /\ due' = due
            BY <1>0, <2>12 DEF Receive, CallType
        <3>. QED  BY <2>2, <3>1
    <2>13. CASE Snapshot \/ Handled \/ (\E t \in Topics : Store(t)) \/ UNCHANGED vars
        BY <2>2, <2>13 DEF Snapshot, Handled, Store
    <2>. QED
        BY <2>4, <2>5, <2>6, <2>7, <2>8, <2>9, <2>10, <2>11, <2>12, <2>13 DEF Next, Proceed
<1>. QED  BY <1>2, <1>3, <1>4

\* What is returned came from a channel or the cache; of a single answer it is the first.
LEMMA StepSeen ==
    ASSUME TypeOK, FreshInv, MailInv, AnswersAreFirst, [Next]_vars
    PROVE  SeenType' /\ AnswersAreFirst'
<1>0. /\ CallType /\ cache \in [Topics -> 0..MaxNotes]
      /\ mail \in [Calls -> Seq(1..MaxNotes)]
      /\ seen \in [Calls -> Nat]
      /\ \A c \in Calls : seen[c] <= Seen(c)
    BY TypeParts DEF MailType, SeenType
<1>. DEFINE Fine(c) ==
              /\ seen[c] \in Nat
              /\ seen[c] <= Seen(c)
              /\ outcome[c] = "ok" =>
                    /\ 0 < seen[c] /\ first[c] <= seen[c]
                    /\ kind[c] \in {"probe", "fetch"} /\ first[c] > 0 => seen[c] = first[c]
<1>1. \A c \in Calls : Fine(c)
    BY <1>0 DEF AnswersAreFirst
<1>2. cache' \in [Topics -> 0..MaxNotes]
    <2>1. CASE cache' = cache
        BY <1>0, <2>1
    <2>2. ASSUME NEW t \in Topics, Store(t) PROVE cache' \in [Topics -> 0..MaxNotes]
        <3>1. cache["height"] + cache["stats"] < MaxNotes
            BY <2>2 DEF Store
        <3>2. cache[t] + 1 \in 0..MaxNotes
            BY <1>0, <3>1 DEF Topics
        <3>. QED  BY <1>0, <2>2, <3>2 DEF Store
    <2>. QED
        BY <2>1, <2>2
        DEF Next, Proceed, Enter, Register, FirstWrite, Receive, Quiesce, GiveUp, Unregister,
            Snapshot, CallBack, Handled
<1>3. seen' = [c \in Calls |-> seen'[c]]
    BY <1>0
    DEF Next, Proceed, Enter, Register, FirstWrite, Receive, Quiesce, GiveUp, Unregister,
        Store, Snapshot, CallBack, Handled, Return
<1>4. ASSUME NEW c \in Calls PROVE Fine(c)'
    <2>0. /\ Seen(c) \in Nat /\ Seen(c)' \in Nat
          /\ at[c] # "idle" => kind'[c] = kind[c]
          /\ kind'[c] = kind[c] => Seen(c) <= Seen(c)'
        BY SeenGrows
    <2>1. ASSUME seen'[c] = seen[c], first'[c] = first[c], outcome'[c] = outcome[c],
                 kind'[c] = kind[c]
          PROVE  Fine(c)'
        BY <1>1, <2>0, <2>1
    \* The call ends without an answer, or does not end.
    <2>2. ASSUME seen'[c] = 0, outcome'[c] # "ok" PROVE Fine(c)'
        BY <2>0, <2>2
    <2>. USE DEF FreshInv, Goto, Return
    <2>3. ASSUME NEW k \in Kinds, Enter(c, k) PROVE Fine(c)'
        <3>1. CASE k = "probe" /\ cache["height"] > 0
            <4>1. /\ seen'[c] = cache["height"] /\ first'[c] = 0 /\ kind'[c] = "probe"
                  /\ cache' = cache
                BY <1>0, <2>3, <3>1 DEF Enter, CallType
            <4>2. Seen(c)' = cache["height"] /\ cache["height"] \in Nat
                BY <1>0, <4>1 DEF Seen, TopicOf, Topics
            <4>. QED  BY <3>1, <4>1, <4>2
        <3>2. CASE ~(k = "probe" /\ cache["height"] > 0)
            BY <1>0, <2>2, <2>3, <3>2 DEF Enter
        <3>. QED  BY <3>1, <3>2
    <2>4. ASSUME Register(c) PROVE Fine(c)'
        BY <2>2, <2>4 DEF Register
    <2>5. ASSUME FirstWrite(c) \/ GiveUp(c) PROVE Fine(c)'
        <3>1. \/ UNCHANGED <<seen, first, outcome, kind>>
              \/ seen'[c] = 0 /\ outcome'[c] # "ok"
            BY <1>0, <2>5 DEF FirstWrite, GiveUp, CallType
        <3>. QED  BY <2>1, <2>2, <3>1
    <2>6. ASSUME Receive(c) PROVE Fine(c)'
        <3>1. /\ mail[c] # <<>> /\ at[c] = "loop" /\ seen'[c] = Head(mail[c])
              /\ first' = first /\ kind' = kind /\ cache' = cache
            BY <1>0, <2>6 DEF Receive
        <3>2. 1 \in DOMAIN mail[c] /\ Head(mail[c]) = mail[c][1] /\ mail[c][1] \in 1..MaxNotes
            BY <1>0, <3>1, ElementOfSeq, LenProperties
        <3>3. /\ first[c] <= mail[c][1] /\ mail[c][1] <= Seen(c)
              /\ kind[c] \in {"probe", "fetch"} => mail[c][1] = first[c]
            BY <3>1, <3>2 DEF MailInv
        <3>4. Seen(c)' = Seen(c)
            BY <3>1 DEF Seen
        <3>. QED  BY <2>0, <3>1, <3>2, <3>3, <3>4
    <2>7. ASSUME Quiesce(c) PROVE Fine(c)'
        <3>1. /\ seen'[c] = seen[c] /\ first' = first /\ kind' = kind /\ cache' = cache
              /\ kind[c] = "preset" /\ 0 < seen[c] /\ first[c] <= seen[c]
            BY <1>0, <2>7 DEF Quiesce, MailInv
        <3>. QED  BY <1>1, <2>0, <3>1
    <2>8. ASSUME NEW d \in Calls, d # c,
                 (\E k \in Kinds : Enter(d, k)) \/ Register(d) \/ FirstWrite(d) \/ Receive(d)
                    \/ Quiesce(d) \/ GiveUp(d)
          PROVE  Fine(c)'
        <3>1. /\ seen'[c] = seen[c] /\ first'[c] = first[c] /\ outcome'[c] = outcome[c]
              /\ kind'[c] = kind[c]
            BY <1>0, <2>8 DEF Enter, Register, FirstWrite, Receive, Quiesce, GiveUp, CallType
        <3>. QED  BY <2>1, <3>1
    <2>9. ASSUME UNCHANGED <<seen, first, outcome, kind>> PROVE Fine(c)'
        BY <2>1, <2>9
    <2>. QED
        BY <2>3, <2>4, <2>5, <2>6, <2>7, <2>8, <2>9
        DEF Next, Proceed, Unregister, Store, Snapshot, CallBack, Handled
<1>5. AnswersAreFirst'
    BY <1>4 DEF AnswersAreFirst
<1>. QED  BY <1>2, <1>3, <1>4, <1>5 DEF SeenType

----------------------------------------------------------------------------
\* What a listener is called for.

\* No entry of a list is in it twice.
Once(s) == \A i, j \in DOMAIN s : s[i] = s[j] => i = j

LEMMA OnceParts == OnceInv <=> (\A t \in Topics : Once(reg[t])) /\ Once(todo)
BY DEF OnceInv, Once

LEMMA OnceWithout ==
    ASSUME NEW S, NEW s \in Seq(S), NEW i \in Nat, Once(s)
    PROVE  Once(Without(s, i))
<1>0. Len(s) \in Nat /\ DOMAIN s = 1..Len(s)
    BY LenProperties
<1>1. CASE i \in 1..Len(s)
    <2>. DEFINE w == RemoveAt(s, i)
    <2>1. /\ w \in Seq(S) /\ DOMAIN w = 1..(Len(s) - 1)
          /\ \A j \in 1..(Len(s) - 1) : w[j] = IF j < i THEN s[j] ELSE s[j + 1]
        BY <1>0, <1>1, RemoveAtProperties, LenProperties
    <2>. HIDE DEF w
    <2>2. ASSUME NEW j \in DOMAIN w, NEW k \in DOMAIN w, w[j] = w[k] PROVE j = k
        <3>. DEFINE Back(m) == IF m < i THEN m ELSE m + 1
        <3>1. /\ Back(j) \in DOMAIN s /\ Back(k) \in DOMAIN s
              /\ w[j] = s[Back(j)] /\ w[k] = s[Back(k)]
            BY <1>0, <2>1
        <3>2. Back(j) = Back(k)
            BY <2>2, <3>1 DEF Once
        <3>. QED  BY <1>0, <2>1, <3>2
    <2>3. Without(s, i) = w
        BY <1>1 DEF Without, w
    <2>. QED  BY <2>2, <2>3 DEF Once
<1>2. CASE i > Len(s)
    BY <1>2 DEF Without
<1>3. CASE i = 0
    <2>1. SubSeq(s, 1, i - 1) = <<>> /\ SubSeq(s, i + 1, Len(s)) = s
        BY <1>3, SubSeqEmpty, SubSeqFull, LenProperties
    <2>2. Without(s, i) = s
        BY <1>0, <1>3, <2>1, ConcatEmptySeq DEF Without, RemoveAt
    <2>. QED  BY <2>2
<1>. QED  BY <1>0, <1>1, <1>2, <1>3

LEMMA OnceAppend ==
    ASSUME NEW S, NEW s \in Seq(S), NEW c \in S, Once(s), c \notin ToSet(s)
    PROVE  Once(Append(s, c))
<1>1. /\ DOMAIN s = 1..Len(s) /\ Len(s) \in Nat
      /\ DOMAIN Append(s, c) = 1..(Len(s) + 1)
      /\ \A i \in 1..Len(s) : Append(s, c)[i] = s[i]
      /\ Append(s, c)[Len(s) + 1] = c
    BY AppendProperties, LenProperties
<1>2. \A i \in 1..Len(s) : s[i] # c
    BY <1>1 DEF ToSet
<1>. QED  BY <1>1, <1>2 DEF Once

LEMMA OnceTail ==
    ASSUME NEW S, NEW s \in Seq(S), s # <<>>, Once(s)
    PROVE  Once(Tail(s)) /\ ToSet(Tail(s)) = ToSet(s) \ {Head(s)}
<1>1. /\ DOMAIN s = 1..Len(s) /\ Len(s) \in Nat \ {0} /\ Head(s) = s[1]
      /\ DOMAIN Tail(s) = 1..(Len(s) - 1)
      /\ \A i \in 1..(Len(s) - 1) : Tail(s)[i] = s[i + 1]
    <2>1. Len(s) \in Nat \ {0} /\ DOMAIN s = 1..Len(s)
        BY LenProperties, EmptySeq
    <2>2. /\ Tail(s) \in Seq(S) /\ Len(Tail(s)) = Len(s) - 1
          /\ \A i \in 1..Len(Tail(s)) : Tail(s)[i] = s[i + 1]
        BY HeadTailProperties
    <2>. QED  BY <2>1, <2>2, LenProperties
<1>2. Once(Tail(s))
    BY <1>1 DEF Once
<1>3. ASSUME NEW x \in ToSet(Tail(s)) PROVE x \in ToSet(s) \ {Head(s)}
    <2>1. PICK i \in 1..(Len(s) - 1) : x = s[i + 1]
        BY <1>1, <1>3 DEF ToSet
    <2>2. i + 1 \in DOMAIN s /\ 1 \in DOMAIN s /\ i + 1 # 1
        BY <1>1
    <2>. QED  BY <1>1, <2>1, <2>2 DEF ToSet, Once
<1>4. ASSUME NEW x \in ToSet(s) \ {Head(s)} PROVE x \in ToSet(Tail(s))
    <2>1. PICK i \in 1..Len(s) : x = s[i]
        BY <1>1, <1>4 DEF ToSet
    <2>2. i - 1 \in 1..(Len(s) - 1) /\ (i - 1) + 1 = i
        BY <1>1, <1>4, <2>1
    <2>3. Tail(s)[i - 1] = x
        BY <1>1, <2>1, <2>2
    <2>. QED  BY <1>1, <2>2, <2>3 DEF ToSet
<1>. QED  BY <1>2, <1>3, <1>4

\* A call that has not registered is in no list.
LEMMA Unlisted ==
    ASSUME TopicInv, NEW c \in Calls, at[c] \in {"idle", "registering"}
    PROVE  c \notin ToSet(todo) /\ \A t \in Topics : c \notin ToSet(reg[t])
BY DEF TopicInv, ToSet

LEMMA StepOnce ==
    ASSUME TypeOK, FreshInv, TopicInv, OnceInv, [Next]_vars
    PROVE  OnceInv'
<1>0. /\ (\A t \in Topics : Once(reg[t])) /\ Once(todo)
      /\ reg \in [Topics -> Seq(Calls)] /\ todo \in Seq(Calls) /\ topic \in Topics
      /\ CallType
    BY OnceParts, TypeParts DEF ListType, BleType
<1>1. OnceInv' <=> (\A t \in Topics : Once(reg'[t])) /\ Once(todo')
    BY DEF OnceInv, Once
<1>2. ASSUME UNCHANGED <<reg, todo>> PROVE OnceInv'
    BY <1>0, <1>1, <1>2
<1>3. ASSUME NEW c \in Calls, Register(c) PROVE OnceInv'
    <2>. DEFINE t0 == TopicOf(kind[c])
    <2>1. t0 \in Topics /\ c \notin ToSet(reg[t0])
        BY <1>3, TopicTyped, Unlisted DEF Register
    <2>2. Once(Append(reg[t0], c))
        BY <1>0, <2>1, OnceAppend
    <2>3. todo' = todo /\ \A t \in Topics : reg'[t] = IF t = t0 THEN Append(reg[t], c) ELSE reg[t]
        BY <1>0, <1>3 DEF Register
    <2>. QED  BY <1>0, <1>1, <2>2, <2>3
<1>4. ASSUME NEW c \in Calls, Unregister(c) PROVE OnceInv'
    <2>. DEFINE t0 == TopicOf(kind[c])
    <2>1. t0 \in Topics /\ pos[c] \in Nat
        BY <1>0, <1>4, TopicTyped DEF Unregister, CallType
    <2>2. Once(Without(reg[t0], pos[c]))
        BY <1>0, <2>1, OnceWithout
    <2>3. todo' = todo /\ \A t \in Topics : reg'[t] = IF t = t0 THEN Without(reg[t], pos[c]) ELSE reg[t]
        BY <1>0, <1>4 DEF Unregister
    <2>. QED  BY <1>0, <1>1, <2>2, <2>3
<1>5. CASE Snapshot
    BY <1>0, <1>1, <1>5 DEF Snapshot
<1>6. CASE CallBack
    BY <1>0, <1>1, <1>6, OnceTail DEF CallBack
<1>. QED
    BY <1>2, <1>3, <1>4, <1>5, <1>6
    DEF Next, Proceed, Enter, FirstWrite, Receive, Quiesce, GiveUp, Store, Handled

LEMMA StepDue ==
    ASSUME TypeOK, FreshInv, TopicInv, OnceInv, DueInv, [Next]_vars
    PROVE  DueInv'
<1>0. /\ reg \in [Topics -> Seq(Calls)] /\ todo \in Seq(Calls) /\ topic \in Topics
      /\ CallType /\ cache \in [Topics -> 0..MaxNotes]
    BY TypeParts DEF ListType, BleType, SeenType
<1>. DEFINE Listed(c) == ToSet(reg[TopicOf(kind[c])])
            Coming(c) == Upcoming(TopicOf(kind[c]))
            Told(c) == /\ c \in ToSet(todo) => due[c] = Seen(c)
                       /\ c \in Listed(c) \ ToSet(todo) => due[c] = Coming(c)
<1>1. SUFFICES ASSUME NEW c \in Calls PROVE Told(c)'
    BY DEF DueInv
<1>. DEFINE t == TopicOf(kind[c])
<1>2. /\ t \in Topics
      /\ c \in ToSet(todo) => due[c] = Seen(c)
      /\ c \in Listed(c) \ ToSet(todo) => due[c] = Coming(c)
    BY TopicTyped DEF DueInv
\* The BLE goroutine pauses, and c has no entry that it had not before.
<1>3. ASSUME UNCHANGED ble, kind'[c] = kind[c], due'[c] = due[c], todo' = todo,
             c \in Listed(c)' => c \in Listed(c) PROVE Told(c)'
    BY <1>2, <1>3 DEF Seen, Upcoming
<1>4. ASSUME NEW d \in Calls, NEW k \in Kinds, Enter(d, k) PROVE Told(c)'
    <2>1. CASE c = d
        <3>1. c \notin ToSet(todo') /\ c \notin Listed(c)'
            BY <1>4, <2>1, Unlisted, TopicTyped DEF Enter
        <3>. QED  BY <3>1
    <2>2. CASE c # d
        BY <1>0, <1>3, <1>4, <2>2 DEF Enter, CallType
    <2>. QED  BY <2>1, <2>2
<1>5. ASSUME NEW d \in Calls, Register(d) PROVE Told(c)'
    <2>1. CASE c = d
        <3>1. c \notin ToSet(todo') /\ due'[c] = Coming(c) /\ kind' = kind /\ UNCHANGED ble
            BY <1>0, <1>5, <2>1, Unlisted DEF Register, CallType
        <3>2. Coming(c)' = Coming(c)
            BY <3>1 DEF Upcoming
        <3>. QED  BY <3>1, <3>2
    <2>2. CASE c # d
        <3>1. /\ due'[c] = due[c] /\ kind' = kind /\ todo' = todo /\ UNCHANGED ble
              /\ reg' = [reg EXCEPT ![TopicOf(kind[d])] = Append(@, d)]
            BY <1>0, <1>5, <2>2 DEF Register, CallType
        <3>2. reg'[t] = reg[t] \/ reg'[t] = Append(reg[t], d)
            BY <1>0, <1>2, <3>1
        <3>3. ToSet(Append(reg[t], d)) \subseteq ToSet(reg[t]) \cup {d}
            <4>1. reg[t] \in Seq(Calls)
                BY <1>0, <1>2
            <4>2. /\ DOMAIN reg[t] = 1..Len(reg[t]) /\ Len(reg[t]) \in Nat
                  /\ DOMAIN Append(reg[t], d) = 1..(Len(reg[t]) + 1)
                  /\ \A i \in 1..Len(reg[t]) : Append(reg[t], d)[i] = reg[t][i]
                  /\ Append(reg[t], d)[Len(reg[t]) + 1] = d
                BY <4>1, AppendProperties, LenProperties
            <4>. QED  BY <4>2 DEF ToSet
        <3>. QED  BY <1>3, <2>2, <3>1, <3>2, <3>3
    <2>. QED  BY <2>1, <2>2
<1>6. ASSUME NEW d \in Calls, Unregister(d) PROVE Told(c)'
    <2>1. /\ due' = due /\ kind' = kind /\ todo' = todo /\ UNCHANGED ble
          /\ reg' = [reg EXCEPT ![TopicOf(kind[d])] = Without(@, pos[d])]
        BY <1>6 DEF Unregister
    <2>2. reg'[t] = reg[t] \/ reg'[t] = Without(reg[t], pos[d])
        BY <1>0, <1>2, <2>1
    <2>3. reg[t] \in Seq(Calls) /\ pos[d] \in Nat
        BY <1>0, <1>2 DEF CallType
    <2>4. ToSet(Without(reg[t], pos[d])) \subseteq ToSet(reg[t])
        BY <2>3, WithoutKeeps DEF ToSet
    <2>. QED  BY <1>3, <2>1, <2>2, <2>4
<1>7. ASSUME NEW u \in Topics, Store(u) PROVE Told(c)'
    <2>1. /\ todo = <<>> /\ todo' = <<>> /\ stage = "idle" /\ stage' = "cached"
          /\ kind' = kind /\ reg' = reg /\ due' = due
          /\ topic' = u /\ cache' = [cache EXCEPT ![u] = cache[u] + 1]
        BY <1>7 DEF Store, TopicInv
    <2>2. Coming(c) = cache[t] + 1 /\ Coming(c)' = cache[t] + 1
        BY <1>0, <1>2, <2>1 DEF Upcoming
    <2>3. ToSet(<<>>) = {}
        BY DEF ToSet
    <2>. QED  BY <1>2, <2>1, <2>2, <2>3
<1>8. ASSUME Snapshot PROVE Told(c)'
    <2>1. /\ stage = "cached" /\ todo = <<>> /\ stage' = "calling" /\ todo' = reg[topic]
          /\ UNCHANGED <<kind, reg, due, cache, topic>>
        BY <1>8 DEF Snapshot, TopicInv
    <2>2. ToSet(todo) = {}
        BY <2>1 DEF ToSet
    <2>3. c \in ToSet(reg[topic]) => t = topic
        BY <1>0 DEF TopicInv, ToSet
    <2>. QED  BY <1>0, <1>2, <2>1, <2>2, <2>3 DEF Upcoming, Seen
<1>9. ASSUME CallBack PROVE Told(c)'
    <2>1. /\ stage = "calling" /\ todo # <<>> /\ todo' = Tail(todo)
          /\ UNCHANGED <<kind, reg, cache, topic, stage>>
          /\ due' = [due EXCEPT ![Head(todo)] = cache[topic] + 1]
        BY <1>9 DEF CallBack
    <2>2. ToSet(todo') = ToSet(todo) \ {Head(todo)}
        BY <1>0, <2>1, OnceTail, OnceParts
    <2>3. CASE c = Head(todo)
        <3>1. due'[c] = cache[topic] + 1
            BY <1>0, <2>1, <2>3 DEF CallType
        <3>2. t = topic
            <4>1. 1 \in DOMAIN todo /\ todo[1] = c
                BY <1>0, <2>1, <2>3, LenProperties, EmptySeq
            <4>. QED  BY <4>1 DEF TopicInv
        <3>3. Coming(c)' = cache[topic] + 1
            BY <2>1, <3>2 DEF Upcoming
        <3>. QED  BY <2>2, <2>3, <3>1, <3>3
    <2>4. CASE c # Head(todo)
        <3>1. due'[c] = due[c] /\ Seen(c)' = Seen(c) /\ Coming(c)' = Coming(c)
            BY <1>0, <2>1, <2>4 DEF CallType, Seen, Upcoming
        <3>. QED  BY <1>2, <2>1, <2>2, <2>4, <3>1
    <2>. QED  BY <2>3, <2>4
<1>10. ASSUME Handled PROVE Told(c)'
    <2>1. /\ stage = "calling" /\ todo = <<>> /\ stage' = "idle"
          /\ UNCHANGED <<kind, reg, cache, due, todo>>
        BY <1>10 DEF Handled
    <2>2. Coming(c) = cache[t] + 1 /\ Coming(c)' = cache[t] + 1
        BY <2>1 DEF Upcoming
    <2>3. ToSet(todo) = {}
        BY <2>1 DEF ToSet
    <2>. QED  BY <1>2, <2>1, <2>2, <2>3
<1>11. ASSUME UNCHANGED <<kind, due, reg, ble, todo>> PROVE Told(c)'
    BY <1>3, <1>11
<1>. QED
    BY <1>4, <1>5, <1>6, <1>7, <1>8, <1>9, <1>10, <1>11
    DEF Next, Proceed, FirstWrite, Receive, Quiesce, GiveUp

----------------------------------------------------------------------------
\* Arrivals.

\* A callback that finds the channel full leaves what is in it.
LEMMA OfferFills ==
    ASSUME TypeOK, NEW c \in Calls, Offer(c)
    PROVE  /\ Wants(c) => mail'[c] # <<>>
           /\ mail[c] # <<>> => mail'[c] # <<>>
           /\ \A d \in Calls : d # c => mail'[d] = mail[d]
<1>1. /\ mail \in [Calls -> Seq(1..MaxNotes)] /\ cache[topic] \in 0..MaxNotes
      /\ mail[c] \in Seq(1..MaxNotes)
    BY TypeParts DEF MailType, SeenType, BleType
<1>2. Append(mail[c], cache[topic]) # <<>>
    <2>1. mail[c] \in Seq(0..MaxNotes)
        BY <1>1
    <2>2. Len(Append(mail[c], cache[topic])) = Len(mail[c]) + 1
        BY <1>1, <2>1, AppendProperties
    <2>. QED  BY <1>1, <2>2, LenProperties, EmptySeq
<1>3. Len(mail[c]) < Capacity(c) \/ mail[c] # <<>>
    BY CapacityTyped
<1>. QED  BY <1>1, <1>2, <1>3 DEF Offer

LEMMA StepArrival ==
    ASSUME TypeOK, FreshInv, NoLostArrival, [Next]_vars
    PROVE  NoLostArrival'
<1>0. CallType /\ mail \in [Calls -> Seq(1..MaxNotes)] /\ todo \in Seq(Calls)
    BY TypeParts DEF MailType, ListType
<1>1. SUFFICES ASSUME NEW c \in Calls, kind'[c] = "move", near'[c], at'[c] \in {"writing", "loop"}
               PROVE  mail'[c] # <<>>
    BY DEF NoLostArrival
<1>. USE DEF CallType, FreshInv, Subscribed, Goto, Return
<1>2. ASSUME NEW d \in Calls, NEW k \in Kinds, Enter(d, k) PROVE mail'[c] # <<>>
    BY <1>0, <1>1, <1>2 DEF Enter, NoLostArrival
<1>3. ASSUME NEW d \in Calls, Register(d) PROVE mail'[c] # <<>>
    BY <1>0, <1>1, <1>3 DEF Register, NoLostArrival
<1>4. ASSUME NEW d \in Calls, FirstWrite(d) \/ Quiesce(d) \/ GiveUp(d) PROVE mail'[c] # <<>>
    BY <1>0, <1>1, <1>4 DEF FirstWrite, Quiesce, GiveUp, NoLostArrival
<1>5. ASSUME NEW d \in Calls, Receive(d) PROVE mail'[c] # <<>>
    BY <1>0, <1>1, <1>5 DEF Receive, NoLostArrival
<1>6. ASSUME NEW d \in Calls, Unregister(d) PROVE mail'[c] # <<>>
    <2>1. kind' = kind /\ d # c
        BY <1>0, <1>1, <1>6 DEF Unregister
    <2>2. mail'[c] = mail[c] /\ near'[c] = near[c] /\ at'[c] = at[c]
        BY <1>0, <1>6, <2>1 DEF Unregister
    <2>. QED  BY <1>1, <2>1, <2>2 DEF NoLostArrival
<1>7. CASE CallBack
    <2>0. todo \in Seq(Calls) /\ todo # <<>>
        BY <1>0, <1>7 DEF CallBack
    <2>1. PICK d \in Calls : d = Head(todo)
        BY <2>0, HeadTailProperties
    <2>2. /\ Wants(d) => mail'[d] # <<>>
          /\ mail[d] # <<>> => mail'[d] # <<>>
          /\ \A e \in Calls : e # d => mail'[e] = mail[e]
        BY <1>7, <2>1, OfferFills DEF CallBack
    <2>3. near[c] \/ (c = d /\ Wants(d))
        BY <1>0, <1>1, <1>7, <2>1 DEF CallBack
    <2>4. kind[c] = "move" /\ at[c] \in {"writing", "loop"}
        BY <1>1, <1>7 DEF CallBack
    <2>. QED  BY <2>2, <2>3, <2>4 DEF NoLostArrival
<1>8. CASE Snapshot \/ Handled \/ (\E t \in Topics : Store(t)) \/ UNCHANGED vars
    BY <1>0, <1>1, <1>8 DEF Snapshot, Handled, Store, NoLostArrival
<1>. QED
    BY <1>2, <1>3, <1>4, <1>5, <1>6, <1>7, <1>8 DEF Next, Proceed

----------------------------------------------------------------------------
\* Calls that nest.

\* The listeners of a topic sit where their owners remember them; so does c's own.
Held(t) == \A i \in DOMAIN reg[t] : at[reg[t][i]] \in Subscribed /\ pos[reg[t][i]] = i
Placed(c) ==
    at[c] \in Subscribed =>
        /\ pos[c] \in 1..Len(reg[TopicOf(kind[c])])
        /\ reg[TopicOf(kind[c])][pos[c]] = c
        /\ Busy(c) => pos[c] = Len(reg[TopicOf(kind[c])])
OneBusy == \A c, d \in Calls : Busy(c) /\ Busy(d) => c = d

LEMMA NestParts ==
    NestInv <=> OneBusy /\ (\A t \in Topics : Held(t)) /\ (\A c \in Calls : Placed(c))
BY DEF NestInv, OneBusy, Held, Placed

\* A step that leaves the lists alone and moves one busy call within its subscription.
LEMMA BusyMoves ==
    ASSUME TypeOK, NestInv, NEW c \in Calls, Busy(c),
           at[c] \in Subscribed, NEW place \in Subscribed, Goto(c, place),
           UNCHANGED <<kind, pos, reg>>
    PROVE  NestInv'
<1>0. CallType /\ OneBusy /\ (\A t \in Topics : Held(t)) /\ (\A d \in Calls : Placed(d))
    BY TypeParts, NestParts
<1>1. at' = [at EXCEPT ![c] = place] /\ at'[c] \in Subscribed
    BY <1>0 DEF Goto, CallType
<1>2. \A d \in Calls : d # c => at'[d] = at[d]
    BY <1>0, <1>1 DEF CallType
<1>3. \A d \in Calls : Busy(d)' => Busy(d)
    BY <1>1, <1>2 DEF Busy
<1>4. OneBusy'
    BY <1>0, <1>3 DEF OneBusy
<1>5. ASSUME NEW t \in Topics PROVE Held(t)'
    <2>1. reg[t] \in Seq(Calls)
        BY TypeParts DEF ListType
    <2>. QED  BY <1>0, <1>1, <1>2, <2>1, ElementOfSeq DEF Held
<1>6. ASSUME NEW d \in Calls PROVE Placed(d)'
    BY <1>0, <1>1, <1>2, <1>3 DEF Placed
<1>7. NestInv' <=> OneBusy' /\ (\A t \in Topics : Held(t)') /\ (\A d \in Calls : Placed(d)')
    BY DEF NestInv, OneBusy, Held, Placed
<1>. QED  BY <1>4, <1>5, <1>6, <1>7

LEMMA StepNest ==
    ASSUME TypeOK, FreshInv, TopicInv, NestInv, Discipline = "nested", [Next]_vars
    PROVE  NestInv'
<1>0. CallType /\ OneBusy /\ (\A t \in Topics : Held(t)) /\ (\A d \in Calls : Placed(d))
    BY TypeParts, NestParts
<1>1. \A t \in Topics : /\ reg[t] \in Seq(Calls) /\ Len(reg[t]) \in Nat /\ DOMAIN reg[t] = 1..Len(reg[t])
                        /\ \A i \in DOMAIN reg[t] : reg[t][i] \in Calls
    BY TypeParts, ElementOfSeq, LenProperties DEF ListType
<1>2. NestInv' <=> OneBusy' /\ (\A t \in Topics : Held(t)') /\ (\A d \in Calls : Placed(d)')
    BY DEF NestInv, OneBusy, Held, Placed
<1>3. ASSUME UNCHANGED <<at, kind, pos, reg>> PROVE NestInv'
    BY <1>3 DEF NestInv, Busy
<1>4. ASSUME NEW c \in Calls, NEW k \in Kinds, Enter(c, k) PROVE NestInv'
    <2>1. /\ at[c] = "idle" /\ \A d \in Calls : ~Busy(d)
          /\ at'[c] \in {"done", "registering"}
          /\ \A d \in Calls : d # c => at'[d] = at[d] /\ kind'[d] = kind[d]
          /\ pos' = pos /\ reg' = reg
        BY <1>0, <1>4 DEF Enter, MayStart, CallType, Goto
    <2>2. \A d \in Calls : Busy(d)' => d = c
        BY <2>1 DEF Busy
    <2>3. OneBusy'
        BY <2>2 DEF OneBusy
    <2>4. ASSUME NEW t \in Topics PROVE Held(t)'
        BY <1>0, <1>1, <2>1 DEF Held, Subscribed
    <2>5. ASSUME NEW d \in Calls PROVE Placed(d)'
        BY <1>0, <2>1, <2>2 DEF Placed, Subscribed
    <2>. QED  BY <1>2, <2>3, <2>4, <2>5
<1>5. ASSUME NEW c \in Calls, Register(c) PROVE NestInv'
    <2>. DEFINE t0 == TopicOf(kind[c])
    <2>1. /\ at[c] = "registering" /\ at'[c] \in Subscribed
          /\ \A d \in Calls : d # c => at'[d] = at[d] /\ pos'[d] = pos[d]
          /\ pos'[c] = Len(reg[t0]) + 1 /\ kind' = kind
        BY <1>0, <1>5 DEF Register, CallType, Goto, Subscribed
    <2>2. /\ t0 \in Topics
          /\ reg' = [reg EXCEPT ![t0] = Append(reg[t0], c)]
          /\ reg'[t0] = Append(reg[t0], c) /\ \A t \in Topics : t # t0 => reg'[t] = reg[t]
        BY <1>5, TopicTyped, TypeParts DEF Register, ListType
    <2>3. /\ Len(reg'[t0]) = Len(reg[t0]) + 1 /\ DOMAIN reg'[t0] = 1..(Len(reg[t0]) + 1)
          /\ \A i \in 1..Len(reg[t0]) : reg'[t0][i] = reg[t0][i]
          /\ reg'[t0][Len(reg[t0]) + 1] = c
        BY <1>1, <2>2, AppendProperties, LenProperties
    <2>4. Busy(c) /\ \A d \in Calls : d # c => ~Busy(d) /\ ~Busy(d)'
        BY <1>0, <2>1 DEF Busy, OneBusy
    <2>5. OneBusy'
        BY <2>4 DEF OneBusy
    <2>6. ASSUME NEW t \in Topics PROVE Held(t)'
        <3>1. ASSUME NEW i \in DOMAIN reg[t]
              PROVE  reg[t][i] # c /\ at'[reg[t][i]] \in Subscribed /\ pos'[reg[t][i]] = i
            BY <1>0, <1>1, <2>1 DEF Held, Subscribed
        <3>2. CASE t = t0
            BY <1>1, <2>1, <2>2, <2>3, <3>1, <3>2 DEF Held
        <3>3. CASE t # t0
            BY <1>1, <2>2, <3>1, <3>3 DEF Held
        <3>. QED  BY <3>2, <3>3
    <2>7. ASSUME NEW d \in Calls PROVE Placed(d)'
        <3>1. CASE d = c
            BY <1>1, <2>1, <2>2, <2>3, <3>1 DEF Placed
        <3>2. CASE d # c
            <4>1. TopicOf(kind[d]) \in Topics
                BY TopicTyped
            <4>2. CASE TopicOf(kind[d]) = t0
                BY <1>0, <1>1, <2>1, <2>2, <2>3, <2>4, <3>2, <4>2 DEF Placed
            <4>3. CASE TopicOf(kind[d]) # t0
                BY <1>0, <2>1, <2>2, <2>4, <3>2, <4>1, <4>3 DEF Placed
            <4>. QED  BY <4>2, <4>3
        <3>. QED  BY <3>1, <3>2
    <2>. QED  BY <1>2, <2>5, <2>6, <2>7
<1>6. ASSUME NEW c \in Calls, FirstWrite(c) PROVE NestInv'
    <2>1. Busy(c) /\ at[c] \in Subscribed
        BY <1>6 DEF FirstWrite, Busy, Subscribed
    <2>2. \E place \in Subscribed : Goto(c, place)
        BY <1>6 DEF FirstWrite, Subscribed
    <2>. QED  BY <1>6, <2>1, <2>2, BusyMoves DEF FirstWrite
<1>7. ASSUME NEW c \in Calls, Receive(c) \/ Quiesce(c) PROVE NestInv'
    <2>1. at[c] = "loop" /\ kind[c] \notin Plain
        BY <1>7 DEF Receive, Quiesce, FreshInv, Plain
    <2>2. Busy(c) /\ at[c] \in Subscribed
        BY <2>1 DEF Busy, Subscribed
    <2>3. UNCHANGED <<kind, pos, reg>> /\ (at' = at \/ Goto(c, "leaving"))
        BY <1>7 DEF Receive, Quiesce
    <2>. QED  BY <1>3, <2>2, <2>3, BusyMoves DEF Subscribed
<1>8. ASSUME NEW c \in Calls, GiveUp(c) PROVE NestInv'
    <2>1. at[c] = "loop" /\ UNCHANGED <<kind, pos, reg>> /\ Goto(c, "leaving")
        BY <1>8 DEF GiveUp
    <2>2. CASE kind[c] \notin Plain
        BY <2>1, <2>2, BusyMoves DEF Busy, Subscribed
    <2>3. CASE kind[c] \in Plain
        <3>. DEFINE list == reg[TopicOf(kind[c])]
        <3>1. (\A d \in Calls : ~Busy(d)) /\ Last(list) = c
            BY <1>8, <2>3 DEF GiveUp, MayStart
        <3>2. at[c] \in Subscribed /\ TopicOf(kind[c]) \in Topics
            BY <2>1, TopicTyped DEF Subscribed
        <3>3. pos[c] = Len(list)
            <4>1. Len(list) \in DOMAIN list /\ list[Len(list)] = c
                BY <1>0, <1>1, <3>1, <3>2 DEF Placed, Last
            <4>. QED  BY <1>0, <3>2, <4>1 DEF Held
        <3>4. /\ at'[c] = "leaving" /\ \A d \in Calls : d # c => at'[d] = at[d]
            BY <1>0, <2>1 DEF Goto, CallType
        <3>5. \A d \in Calls : Busy(d)' => d = c
            BY <2>1, <3>1, <3>4 DEF Busy
        <3>6. OneBusy'
            BY <3>5 DEF OneBusy
        <3>7. ASSUME NEW t \in Topics PROVE Held(t)'
            BY <1>0, <1>1, <2>1, <3>4 DEF Held, Subscribed
        <3>8. ASSUME NEW d \in Calls PROVE Placed(d)'
            BY <1>0, <2>1, <3>2, <3>3, <3>4, <3>5 DEF Placed
        <3>. QED  BY <1>2, <3>6, <3>7, <3>8
    <2>. QED  BY <2>2, <2>3
<1>9. ASSUME NEW c \in Calls, Unregister(c) PROVE NestInv'
    <2>. DEFINE t0 == TopicOf(kind[c])
                n  == Len(reg[t0])
    <2>1. /\ at[c] = "leaving" /\ at'[c] = "done"
          /\ \A d \in Calls : d # c => at'[d] = at[d]
          /\ kind' = kind /\ pos' = pos
        BY <1>0, <1>9 DEF Unregister, CallType, Goto
    <2>2. t0 \in Topics /\ n \in Nat /\ pos[c] = n /\ n \in 1..n /\ reg[t0][n] = c
        BY <1>0, <1>1, <2>1, TopicTyped DEF Placed, Subscribed, Busy
    <2>3. /\ reg'[t0] = RemoveAt(reg[t0], n) /\ \A t \in Topics : t # t0 => reg'[t] = reg[t]
        BY <1>9, <2>2, TypeParts DEF Unregister, Without, ListType
    <2>4. /\ Len(reg'[t0]) = n - 1 /\ DOMAIN reg'[t0] = 1..(n - 1)
          /\ \A i \in 1..(n - 1) : reg'[t0][i] = reg[t0][i]
        <3>1. /\ reg[t0] \in Seq(Calls)
              /\ RemoveAt(reg[t0], n) \in Seq(Calls) /\ Len(RemoveAt(reg[t0], n)) = n - 1
              /\ \A i \in 1..(n - 1) :
                    RemoveAt(reg[t0], n)[i] = IF i < n THEN reg[t0][i] ELSE reg[t0][i + 1]
            BY <1>1, <2>2, RemoveAtProperties
        <3>. QED  BY <2>2, <2>3, <3>1, LenProperties
    <2>5. \A d \in Calls : ~Busy(d)'
        BY <1>0, <2>1 DEF Busy, OneBusy
    <2>6. OneBusy'
        BY <2>5 DEF OneBusy
    <2>7. ASSUME NEW t \in Topics PROVE Held(t)'
        <3>1. ASSUME NEW i \in DOMAIN reg[t], reg[t][i] # c
              PROVE  at'[reg[t][i]] \in Subscribed /\ pos'[reg[t][i]] = i
            BY <1>0, <1>1, <2>1, <3>1 DEF Held
        <3>2. CASE t = t0
            <4>1. ASSUME NEW i \in 1..(n - 1) PROVE i \in DOMAIN reg[t] /\ reg[t][i] # c
                BY <1>0, <1>1, <2>2, <3>2 DEF Held
            <4>. QED  BY <2>4, <3>1, <3>2, <4>1 DEF Held
        <3>3. CASE t # t0
            <4>1. ASSUME NEW i \in DOMAIN reg[t] PROVE reg[t][i] # c
                BY <3>3 DEF TopicInv
            <4>. QED  BY <2>3, <3>1, <3>3, <4>1 DEF Held
        <3>. QED  BY <3>2, <3>3
    <2>8. ASSUME NEW d \in Calls PROVE Placed(d)'
        <3>1. CASE d = c
            BY <2>1, <3>1 DEF Placed, Subscribed
        <3>2. CASE d # c
            <4>1. TopicOf(kind[d]) \in Topics
                BY TopicTyped
            <4>2. CASE TopicOf(kind[d]) = t0 /\ at[d] \in Subscribed
                <5>1. pos[d] \in 1..n /\ reg[t0][pos[d]] = d
                    BY <1>0, <4>2 DEF Placed
                <5>2. pos[d] \in 1..(n - 1)
                    BY <2>2, <3>2, <5>1
                <5>. QED  BY <2>1, <2>4, <2>5, <3>2, <4>2, <5>1, <5>2 DEF Placed
            <4>3. CASE TopicOf(kind[d]) # t0
                BY <1>0, <2>1, <2>3, <2>5, <3>2, <4>1, <4>3 DEF Placed
            <4>4. CASE at[d] \notin Subscribed
                BY <2>1, <3>2, <4>4 DEF Placed
            <4>. QED  BY <4>2, <4>3, <4>4
        <3>. QED  BY <3>1, <3>2
    <2>. QED  BY <1>2, <2>6, <2>7, <2>8
<1>10. CASE Snapshot \/ CallBack \/ Handled \/ (\E t \in Topics : Store(t)) \/ UNCHANGED vars
    BY <1>3, <1>10 DEF Snapshot, CallBack, Handled, Store
<1>. QED
    BY <1>4, <1>5, <1>6, <1>7, <1>8, <1>9, <1>10 DEF Next, Proceed

----------------------------------------------------------------------------
\* The theorems.

LEMMA Start == Init => IInv
<1>. SUFFICES ASSUME Init PROVE IInv
    OBVIOUS
<1>1. TypeOK
    BY InitType
<1>2. \A t \in Topics : reg[t] = <<>> /\ DOMAIN reg[t] = {}
    BY DEF Init
<1>3. \A c \in Calls : DOMAIN mail[c] = {}
    BY DEF Init
<1>4. FreshInv
    BY DEF Init, FreshInv, Subscribed, Plain
<1>5. TopicInv
    BY <1>2 DEF Init, TopicInv
<1>6. MailInv /\ NoLostArrival /\ AnswersAreFirst
    BY <1>3 DEF Init, MailInv, NoLostArrival, AnswersAreFirst
<1>8. OnceInv /\ DueInv
    <2>1. \A k : reg[TopicOf(k)] = <<>>
        BY <1>2, TopicTyped
    <2>. QED  BY <1>2, <2>1 DEF Init, OnceInv, DueInv, ToSet
<1>7. NestInv
    BY <1>2 DEF Init, NestInv, Busy, Subscribed
<1>. QED  BY <1>1, <1>4, <1>5, <1>6, <1>7, <1>8 DEF IInv

LEMMA Inductive == Spec => []IInv
<1>1. IInv /\ [Next]_vars => IInv'
    <2>. SUFFICES ASSUME IInv, [Next]_vars PROVE IInv'
        OBVIOUS
    <2>1. /\ TypeOK /\ FreshInv /\ TopicInv /\ OnceInv /\ DueInv /\ MailInv
          /\ NoLostArrival /\ AnswersAreFirst
        BY DEF IInv
    <2>2. /\ CallType' /\ BleType' /\ ListType' /\ MailType' /\ MailInv' /\ SeenType'
          /\ AnswersAreFirst'
        BY <2>1, StepCallType, StepListType, StepMail, StepSeen
    <2>3. TypeOK'
        BY <2>2, TypeParts, PTL
    <2>4. FreshInv' /\ TopicInv' /\ NoLostArrival' /\ OnceInv' /\ DueInv'
        BY <2>1, StepFresh, StepTopic, StepArrival, StepOnce, StepDue
    <2>5. Discipline = "nested" => NestInv'
        BY <2>1, StepNest DEF IInv
    <2>. QED  BY <2>2, <2>3, <2>4, <2>5 DEF IInv
<1>. QED  BY Start, <1>1, PTL DEF Spec

\* Every variable keeps its type, no channel holds more than its capacity and what a call
\* has seen is never newer than the cache.
THEOREM TypeCorrect == Spec => []TypeOK
<1>1. IInv => TypeOK
    BY DEF IInv
<1>. QED  BY <1>1, Inductive, PTL

\* However calls and callbacks interleave, a move that was handed a height near its target
\* has the token waiting (monitor.go:91-110, 123-125).
THEOREM NoArrivalLost == Spec => []NoLostArrival
<1>1. IInv => NoLostArrival
    BY DEF IInv
<1>. QED  BY <1>1, Inductive, PTL

\* A query that had to wait returns the first notification copied after it registered,
\* neither one from before nor a later one; moves and presets end on none from before
\* (desk.go:143-180, monitor.go:29-56, stats.go:92-114).
THEOREM AnswersFirst == Spec => []AnswersAreFirst
<1>1. IInv => AnswersAreFirst
    BY DEF IInv
<1>. QED  BY <1>1, Inductive, PTL

\* Each callback is run for the notifications copied after its registration one after the
\* other, however listeners come and go between the copy and the calls (desk.go:153-159,
\* 169-176).
THEOREM InOrder == Spec => HandedInOrder
<1>1. IInv /\ [Next]_vars => [CallBack => due[Head(todo)] = cache[topic]]_vars
    <2>. SUFFICES ASSUME IInv, CallBack PROVE due[Head(todo)] = cache[topic]
        OBVIOUS
    <2>1. todo # <<>> /\ todo \in Seq(Calls)
        BY TypeParts DEF IInv, CallBack, ListType
    <2>2. 1 \in DOMAIN todo /\ Head(todo) = todo[1] /\ Head(todo) \in Calls
        BY <2>1, ElementOfSeq, LenProperties
    <2>3. due[Head(todo)] = Seen(Head(todo))
        BY <2>2 DEF IInv, DueInv, ToSet
    <2>4. TopicOf(kind[Head(todo)]) = topic
        BY <2>2 DEF IInv, TopicInv
    <2>. QED  BY <2>3, <2>4 DEF Seen
<1>. QED  BY <1>1, Inductive, PTL DEF Spec, HandedInOrder

LEMMA NestedRegistry == NestInv /\ TopicInv /\ TypeOK => RegistryExact
<1>. SUFFICES ASSUME NestInv, TopicInv, TypeOK, NEW t \in Topics
              PROVE  /\ ToSet(reg[t]) = {c \in Calls : at[c] \in Subscribed /\ TopicOf(kind[c]) = t}
                     /\ \A i, j \in DOMAIN reg[t] : reg[t][i] = reg[t][j] => i = j
    BY DEF RegistryExact
<1>1. Held(t) /\ \A c \in Calls : Placed(c)
    BY NestParts
<1>2. DOMAIN reg[t] = 1..Len(reg[t]) /\ \A i \in DOMAIN reg[t] : reg[t][i] \in Calls
    BY TypeParts, ElementOfSeq, LenProperties DEF ListType
<1>3. ASSUME NEW c \in Calls, at[c] \in Subscribed, TopicOf(kind[c]) = t
      PROVE  \E i \in DOMAIN reg[t] : reg[t][i] = c
    BY <1>1, <1>2, <1>3 DEF Placed
<1>4. \A i \in DOMAIN reg[t] : at[reg[t][i]] \in Subscribed /\ TopicOf(kind[reg[t][i]]) = t
    BY <1>1 DEF Held, TopicInv
<1>5. ToSet(reg[t]) = {c \in Calls : at[c] \in Subscribed /\ TopicOf(kind[c]) = t}
    BY <1>2, <1>3, <1>4 DEF ToSet
<1>. QED  BY <1>1, <1>5 DEF Held

\* Calls that nest leave exactly the listeners of the calls under way: removal by a
\* remembered index removes the right one (desk.go:153-159, 243-249).
THEOREM NestedRegistryExact == ASSUME Discipline = "nested" PROVE Spec => []RegistryExact
<1>1. IInv => RegistryExact
    BY NestedRegistry DEF IInv
<1>. QED  BY <1>1, Inductive, PTL

\* Between two notifications, a listener of calls that nest has been called for all that
\* arrived since it registered (desk.go:234-250, stats.go:63-77).
THEOREM NestedNothingMissed == ASSUME Discipline = "nested" PROVE Spec => []NothingMissed
<1>1. IInv => NothingMissed
    <2>. SUFFICES ASSUME IInv, stage = "idle", NEW c \in Calls, at[c] \in Subscribed
                  PROVE  due[c] = Seen(c) + 1
        BY DEF NothingMissed
    <2>1. RegistryExact /\ TopicOf(kind[c]) \in Topics
        BY NestedRegistry, TopicTyped DEF IInv
    <2>2. c \in ToSet(reg[TopicOf(kind[c])])
        BY <2>1 DEF RegistryExact
    <2>3. c \notin ToSet(todo)
        BY DEF IInv, TopicInv, ToSet
    <2>. QED  BY <2>2, <2>3 DEF IInv, DueInv, Upcoming, Seen
<1>. QED  BY <1>1, Inductive, PTL
=============================================================================
