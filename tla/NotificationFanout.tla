------------------------- MODULE NotificationFanout -------------------------
(***************************************************************************)
(* The notifications of one Desk, heights and sit/stand times              *)
(* (desk/desk.go:141-180, 209-250; desk/stats.go), and the calls that wait *)
(* for them (desk/monitor.go:27-223, desk/stats.go:92-119).                *)
(*                                                                         *)
(* The BLE goroutine takes each notification through two critical sections *)
(* (store it in the cache; copy the listeners) and then runs the copied    *)
(* callbacks one by one, outside any lock.  Calls check the cache,         *)
(* register, write to the desk, wait on a channel their callback feeds,    *)
(* and unregister, in between any two of those steps.  Each topic has its  *)
(* own cache and its own list of listeners.                                *)
(*                                                                         *)
(* The notifications of a topic are numbered in the order the BLE stack    *)
(* delivers them; the cache holds the number of the last one, 0 for none.  *)
(* The index a listener remembers counts from 1 here.                      *)
(***************************************************************************)
EXTENDS Naturals, SequencesExt

CONSTANTS Calls,            \* calls of the waiting functions, each made once
          Kinds,            \* the functions called
          Discipline,       \* what the callers promise about overlapping calls
          PresetCapacity,   \* capacity of heightCh, 4 in the code
          MaxNotes          \* bound: notifications delivered in a behaviour

AllKinds == {"probe", "move", "preset", "watch", "fetch", "track"}
    \* CurrentHeight, WaitForHeight, WaitForPreset, a height listener of the library's
    \* user; FetchSitStandTime, a sit/stand listener of the user
Plain    == {"watch", "track"}
Topics   == {"height", "stats"}
TopicOf(k) == IF k \in {"fetch", "track"} THEN "stats" ELSE "height"
AllDisciplines == {"nested", "any"}
    \* one thread, which runs one waiting function at a time, inside listeners it
    \* removes in the reverse order of their registration; or threads at will

ASSUME KindsAssumption == Kinds \subseteq AllKinds
ASSUME DisciplineAssumption == Discipline \in AllDisciplines
ASSUME BoundsAssumption == PresetCapacity \in Nat \ {0} /\ MaxNotes \in Nat

VARIABLES
    at,       \* where each call is
    kind,     \* which function it runs
    pos,      \* idx, captured when its listener was appended
    mail,     \* its channel: the notifications waiting in it
    armed,    \* WaitForPreset: the quiescence timer runs
    outcome,  \* how it returned
    seen,     \* the notification it returned on, for a preset the last it took; 0 for none
    first,    \* history: the first notification copied after it registered, 0 for none yet
    due,      \* history: the next notification its callback is to run for
    near,     \* history: a notification near its target was handed to it
    reg,      \* d.listeners and d.statsListeners, as the calls that own them
    cache,    \* d.lastHeight and d.lastStats
    topic,    \* the topic of the notification in hand, "height" between two
    stage,    \* the BLE goroutine: idle, has cached, is calling back
    close,    \* the notification in hand is near the target
    todo      \* the callbacks still to run for it

call   == <<kind, pos, armed, outcome, seen, first>>
ble    == <<cache, topic, stage, close>>
vars   == <<at, call, mail, due, near, reg, ble, todo>>

Subscribed == {"writing", "loop", "leaving"}
Places     == Subscribed \cup {"idle", "registering", "done"}

\* A call in the middle of something; a listener that is merely registered is not.
Busy(c) == at[c] \notin {"idle", "done"} /\ ~(kind[c] \in Plain /\ at[c] = "loop")
MayStart == Discipline = "nested" => \A c \in Calls : ~Busy(c)

Seen(c) == cache[TopicOf(kind[c])]
Capacity(c) == IF kind[c] = "preset" THEN PresetCapacity ELSE 1

TypeOK ==
    /\ at \in [Calls -> Places]
    /\ kind \in [Calls -> AllKinds \cup {"none"}]
    /\ pos \in [Calls -> Nat]
    /\ mail \in [Calls -> Seq(1..MaxNotes)] /\ \A c \in Calls : Len(mail[c]) <= Capacity(c)
    /\ armed \in [Calls -> BOOLEAN]
    /\ outcome \in [Calls -> {"none", "ok", "err", "timeout"}]
    /\ seen \in [Calls -> Nat] /\ \A c \in Calls : seen[c] <= Seen(c)
    /\ first \in [Calls -> Nat] /\ due \in [Calls -> Nat]
    /\ near \in [Calls -> BOOLEAN]
    /\ reg \in [Topics -> Seq(Calls)]
    /\ cache \in [Topics -> 0..MaxNotes]
    /\ topic \in Topics
    /\ stage \in {"idle", "cached", "calling"}
    /\ close \in BOOLEAN
    /\ todo \in Seq(Calls)

Init ==
    /\ at = [c \in Calls |-> "idle"]
    /\ kind = [c \in Calls |-> "none"]
    /\ pos = [c \in Calls |-> 0]
    /\ mail = [c \in Calls |-> <<>>]
    /\ armed = [c \in Calls |-> FALSE]
    /\ outcome = [c \in Calls |-> "none"]
    /\ seen = [c \in Calls |-> 0]
    /\ first = [c \in Calls |-> 0]
    /\ due = [c \in Calls |-> 0]
    /\ near = [c \in Calls |-> FALSE]
    /\ reg = [t \in Topics |-> <<>>]
    /\ cache = [t \in Topics |-> 0]
    /\ topic = "height"
    /\ stage = "idle"
    /\ close = FALSE
    /\ todo = <<>>

Goto(c, place) == at' = [at EXCEPT ![c] = place]
Return(c, o, n) ==
    /\ outcome' = [outcome EXCEPT ![c] = o]
    /\ seen' = [seen EXCEPT ![c] = n]

----------------------------------------------------------------------------
\* The calls.

\* Mutant of Enter: the cache answers even when it is empty.
EnterBlindly(c, k) ==
    /\ at[c] = "idle" /\ MayStart
    /\ kind' = [kind EXCEPT ![c] = k]
    /\ IF k = "probe"
       THEN Goto(c, "done") /\ Return(c, "ok", cache["height"])
       ELSE Goto(c, "registering") /\ UNCHANGED <<outcome, seen>>
    /\ UNCHANGED <<pos, armed, first, mail, due, near, reg, ble, todo>>

\* CurrentHeight reads the cache first and answers from it; the other functions,
\* FetchSitStandTime too, register at once.
Enter(c, k) ==
    /\ at[c] = "idle" /\ MayStart
    /\ kind' = [kind EXCEPT ![c] = k]
    /\ IF k = "probe" /\ cache["height"] > 0
       THEN Goto(c, "done") /\ Return(c, "ok", cache["height"])
       ELSE Goto(c, "registering") /\ UNCHANGED <<outcome, seen>>
    /\ UNCHANGED <<pos, armed, first, mail, due, near, reg, ble, todo>>

\* The first notification that will be copied for a listener registered now: the one in
\* hand, if it is stored and not yet copied, or else the next.
Upcoming(t) == IF stage = "cached" /\ topic = t THEN cache[t] ELSE cache[t] + 1

\* Mutant of Register: the list itself is called back, not a copy, so that a listener
\* registered meanwhile is called as well.
RegisterLive(c) ==
    /\ at[c] = "registering"
    /\ LET t == TopicOf(kind[c]) IN
        /\ reg' = [reg EXCEPT ![t] = Append(@, c)]
        /\ pos' = [pos EXCEPT ![c] = Len(reg[t]) + 1]
        /\ first' = [first EXCEPT ![c] = Upcoming(t)]
        /\ due' = [due EXCEPT ![c] = Upcoming(t)]
        /\ todo' = IF stage = "calling" /\ topic = t THEN Append(todo, c) ELSE todo
    /\ Goto(c, IF kind[c] \in Plain THEN "loop" ELSE "writing")
    /\ UNCHANGED <<kind, armed, outcome, seen, mail, near, ble>>

\* AddHeightListener, AddSitStandListener: append the callback, remember its index.
Register(c) ==
    /\ at[c] = "registering"
    /\ LET t == TopicOf(kind[c]) IN
        /\ reg' = [reg EXCEPT ![t] = Append(@, c)]
        /\ pos' = [pos EXCEPT ![c] = Len(reg[t]) + 1]
        /\ first' = [first EXCEPT ![c] = Upcoming(t)]
        /\ due' = [due EXCEPT ![c] = Upcoming(t)]
    /\ Goto(c, IF kind[c] \in Plain THEN "loop" ELSE "writing")
    /\ UNCHANGED <<kind, armed, outcome, seen, mail, near, ble, todo>>

\* Mutant of FirstWrite: a failed write returns before the cancel is deferred.
FirstWriteLeaks(c) ==
    /\ at[c] = "writing"
    /\ \/ Goto(c, "loop") /\ UNCHANGED <<outcome, seen>>
       \/ Goto(c, "done") /\ Return(c, "err", 0)
    /\ UNCHANGED <<kind, pos, armed, first, mail, due, near, reg, ble, todo>>

\* The writes before the wait: 0x07, 0xA2, or wake and the first pulse.
FirstWrite(c) ==
    /\ at[c] = "writing"
    /\ \/ Goto(c, "loop") /\ UNCHANGED <<outcome, seen>>
       \/ Goto(c, "leaving") /\ Return(c, "err", 0)
    /\ UNCHANGED <<kind, pos, armed, first, mail, due, near, reg, ble, todo>>

\* A value is received from the channel.  WaitForPreset (re)arms its quiescence timer
\* and goes on waiting; the others return.
Receive(c) ==
    /\ at[c] = "loop" /\ mail[c] # <<>>
    /\ mail' = [mail EXCEPT ![c] = Tail(@)]
    /\ IF kind[c] = "preset"
       THEN /\ armed' = [armed EXCEPT ![c] = TRUE]
            /\ Return(c, "none", Head(mail[c])) /\ UNCHANGED at
       ELSE Goto(c, "leaving") /\ Return(c, "ok", Head(mail[c])) /\ UNCHANGED armed
    /\ UNCHANGED <<kind, pos, first, due, near, reg, ble, todo>>

\* The quiescence timer fires: the preset counts as reached.
Quiesce(c) ==
    /\ at[c] = "loop" /\ armed[c]
    /\ Goto(c, "leaving") /\ Return(c, "ok", seen[c])
    /\ UNCHANGED <<kind, pos, armed, first, mail, due, near, reg, ble, todo>>

\* The deadline expires, a pulse fails, the context is cancelled, or the user of a
\* plain listener has enough.
GiveUp(c) ==
    /\ at[c] = "loop"
    /\ kind[c] \in Plain =>
        MayStart /\ (Discipline = "nested" => Last(reg[TopicOf(kind[c])]) = c)
    /\ Goto(c, "leaving") /\ Return(c, "timeout", 0)
    /\ UNCHANGED <<kind, pos, armed, first, mail, due, near, reg, ble, todo>>

\* Mutant of Without: off by one, the last listener is never removed.
WithoutShort(list, i) == IF i < Len(list) THEN RemoveAt(list, i) ELSE list

\* The list without its entry at position i, if it has one.
Without(list, i) == IF i <= Len(list) THEN RemoveAt(list, i) ELSE list

\* The function AddHeightListener or AddSitStandListener returned: drop the entry at the
\* remembered index.  The channel is nobody's any more.
Unregister(c) ==
    /\ at[c] = "leaving"
    /\ reg' = [reg EXCEPT ![TopicOf(kind[c])] = Without(@, pos[c])]
    /\ Goto(c, "done")
    /\ mail' = [mail EXCEPT ![c] = <<>>]
    /\ near' = [near EXCEPT ![c] = FALSE]
    /\ UNCHANGED <<call, due, ble, todo>>

----------------------------------------------------------------------------
\* The BLE goroutine: handleNotification.

\* A notification of topic t arrives and is stored, under lastHeightMu or lastStatsMu.
Store(t) ==
    /\ stage = "idle" /\ cache["height"] + cache["stats"] < MaxNotes
    /\ cache' = [cache EXCEPT ![t] = @ + 1]
    /\ topic' = t
    /\ close' \in {FALSE, t = "height"}
    /\ stage' = "cached"
    /\ UNCHANGED <<at, call, mail, due, near, reg, todo>>

\* The topic's listeners are copied, under listenersMu or statsListenersMu.
Snapshot ==
    /\ stage = "cached"
    /\ todo' = reg[topic]
    /\ stage' = "calling"
    /\ UNCHANGED <<at, call, mail, due, near, reg, cache, topic, close>>

\* WaitForHeight's callback filters by distance; a full channel drops the value.
Wants(c) == at[c] \in Subscribed /\ kind[c] \notin Plain /\ (kind[c] = "move" => close)

\* Mutants of Offer: a full channel gives up what it holds for the newest value; an
\* unbuffered channel, which takes a value only while the call is at its select.
OfferNewest(c) ==
    mail' = IF Wants(c)
            THEN [mail EXCEPT ![c] = IF Len(@) < Capacity(c) THEN Append(@, cache[topic])
                                     ELSE Append(Tail(@), cache[topic])]
            ELSE mail
OfferUnbuffered(c) ==
    mail' = IF Wants(c) /\ at[c] = "loop" /\ mail[c] = <<>>
            THEN [mail EXCEPT ![c] = Append(@, cache[topic])] ELSE mail

Offer(c) ==
    mail' = IF Wants(c) /\ Len(mail[c]) < Capacity(c)
            THEN [mail EXCEPT ![c] = Append(@, cache[topic])] ELSE mail

\* Mutant of CallBack: the loop ends with the first callback.
CallBackFirst ==
    /\ stage = "calling" /\ todo # <<>>
    /\ Offer(Head(todo))
    /\ near' = [near EXCEPT ![Head(todo)] = @ \/ (close /\ Wants(Head(todo)))]
    /\ due' = [due EXCEPT ![Head(todo)] = cache[topic] + 1]
    /\ todo' = <<>>
    /\ UNCHANGED <<at, call, reg, ble>>

\* The next callback runs, even if its owner has unregistered meanwhile.
CallBack ==
    /\ stage = "calling" /\ todo # <<>>
    /\ Offer(Head(todo))
    /\ near' = [near EXCEPT ![Head(todo)] = @ \/ (close /\ Wants(Head(todo)))]
    /\ due' = [due EXCEPT ![Head(todo)] = cache[topic] + 1]
    /\ todo' = Tail(todo)
    /\ UNCHANGED <<at, call, reg, ble>>

Handled ==
    /\ stage = "calling" /\ todo = <<>>
    /\ stage' = "idle" /\ close' = FALSE /\ topic' = "height"
    /\ UNCHANGED <<at, call, mail, due, near, reg, cache, todo>>

----------------------------------------------------------------------------

Proceed(c) ==
    \/ Register(c) \/ FirstWrite(c) \/ Receive(c) \/ Quiesce(c) \/ GiveUp(c) \/ Unregister(c)

Next ==
    \/ \E c \in Calls : (\E k \in Kinds : Enter(c, k)) \/ Proceed(c)
    \/ \E t \in Topics : Store(t)
    \/ Snapshot \/ CallBack \/ Handled

Spec == Init /\ [][Next]_vars

----------------------------------------------------------------------------
\* Safety.

\* The listeners registered for a topic are those of the calls under way, each once: "returns a
\* cancel function that unregisters the listener" (desk.go:234-236), that one and no
\* other, on every way out of a call.
RegistryExact ==
    \A t \in Topics :
        /\ ToSet(reg[t]) = {c \in Calls : at[c] \in Subscribed /\ TopicOf(kind[c]) = t}
        /\ \A i, j \in DOMAIN reg[t] : reg[t][i] = reg[t][j] => i = j

\* An arrival is never missed: once WaitForHeight was handed a height near its target,
\* the token waits in its channel until the loop takes it, even if the notification
\* came while the call was still waking the desk (monitor.go:91-110, 123-125).
NoLostArrival ==
    \A c \in Calls :
        kind[c] = "move" /\ near[c] /\ at[c] \in {"writing", "loop"} => mail[c] # <<>>

\* FetchSitStandTime, and CurrentHeight where the cache was empty, return the first
\* notification that was copied after they registered: none that was copied before, though
\* its callbacks may still be running, and none later that a full channel put in its place.
\* Where a move or a preset ends well, what ended it came no earlier.  (The first need not
\* be the reply to the call's own request: it may answer one of a call that timed out.
\* A height out of the cache may be of any age.)  desk.go:143-180, monitor.go:29-56,
\* stats.go:92-114.
AnswersAreFirst ==
    \A c \in Calls : outcome[c] = "ok" =>
        /\ 0 < seen[c] /\ seen[c] <= Seen(c) /\ first[c] <= seen[c]
        /\ kind[c] \in {"probe", "fetch"} /\ first[c] > 0 => seen[c] = first[c]

\* Callbacks run outside any lock, while listeners come and go; still each is run for the
\* notifications copied after its registration one after the other, none twice, none
\* skipped and none from before, also when its owner has unregistered in the meantime
\* (desk.go:153-159, 169-176).
HandedInOrder == [][CallBack => due[Head(todo)] = cache[topic]]_vars

\* Between two notifications every listener whose call is under way has been called for all
\* that arrived since it registered, however the others came and went (desk.go:234-250,
\* stats.go:63-77).
NothingMissed ==
    stage = "idle" => \A c \in Calls : at[c] \in Subscribed => due[c] = Seen(c) + 1

----------------------------------------------------------------------------
\* Why they hold, for any calls, whatever their number: the parts of an inductive invariant
\* (NotificationFanoutProofs).

\* A call that has not registered has nothing; it is in its channel's and its timer's
\* reach only between its registration and its return.
FreshInv ==
    \A c \in Calls :
        /\ at[c] = "idle" => kind[c] = "none"
        /\ at[c] \in {"idle", "registering"} => first[c] = 0 /\ seen[c] = 0
        /\ at[c] \in {"idle", "registering", "writing"} => ~armed[c]
        /\ at[c] \notin {"leaving", "done"} => outcome[c] = "none"
        /\ at[c] \notin Subscribed => mail[c] = <<>> /\ ~near[c]
        /\ at[c] \in Subscribed \cup {"registering"} => kind[c] # "none"
        /\ kind[c] \in Plain => mail[c] = <<>>
        /\ armed[c] => kind[c] = "preset"

\* A listener is called for notifications of its own topic only, and none is called
\* before it is registered.
TopicInv ==
    /\ \A t \in Topics : \A i \in DOMAIN reg[t] :
          TopicOf(kind[reg[t][i]]) = t /\ at[reg[t][i]] \notin {"idle", "registering"}
    /\ \A i \in DOMAIN todo :
          TopicOf(kind[todo[i]]) = topic /\ at[todo[i]] \notin {"idle", "registering"}
    /\ stage # "calling" => todo = <<>>
    /\ stage # "idle" => cache[topic] > 0

\* No listener is in a list twice.
OnceInv ==
    /\ \A t \in Topics : \A i, j \in DOMAIN reg[t] : reg[t][i] = reg[t][j] => i = j
    /\ \A i, j \in DOMAIN todo : todo[i] = todo[j] => i = j

\* What a listener is due: the notification in hand while it is yet to be called for it,
\* else what comes up.
DueInv ==
    \A c \in Calls :
        /\ c \in ToSet(todo) => due[c] = Seen(c)
        /\ c \in ToSet(reg[TopicOf(kind[c])]) \ ToSet(todo) => due[c] = Upcoming(TopicOf(kind[c]))

\* What waits in a channel came after the registration; a single answer is the first that
\* did.  A timer that runs has seen some.
MailInv ==
    \A c \in Calls :
        /\ first[c] <= due[c]
        /\ \A i \in DOMAIN mail[c] : first[c] <= mail[c][i] /\ mail[c][i] <= Seen(c)
        /\ armed[c] /\ at[c] = "loop" =>
              0 < seen[c] /\ first[c] <= seen[c]
        /\ kind[c] \in {"probe", "fetch"} /\ at[c] \in {"writing", "loop"} =>
              IF mail[c] = <<>> THEN due[c] = first[c]
              ELSE \A i \in DOMAIN mail[c] : mail[c][i] = first[c]

\* Calls that nest: one is busy; every listener sits where its owner remembers it, and
\* the busy call's is the last of its list.
NestInv ==
    /\ \A c, d \in Calls : Busy(c) /\ Busy(d) => c = d
    /\ \A t \in Topics : \A i \in DOMAIN reg[t] :
          /\ at[reg[t][i]] \in Subscribed
          /\ pos[reg[t][i]] = i
    /\ \A c \in Calls : at[c] \in Subscribed =>
          LET list == reg[TopicOf(kind[c])] IN
            /\ pos[c] \in 1..Len(list)
            /\ list[pos[c]] = c
            /\ Busy(c) => pos[c] = Len(list)

IInv ==
    /\ TypeOK /\ FreshInv /\ TopicInv /\ OnceInv /\ DueInv /\ MailInv
    /\ NoLostArrival /\ AnswersAreFirst
    /\ Discipline = "nested" => NestInv
=============================================================================
