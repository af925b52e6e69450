---------------------------- MODULE DarwinAdapter ----------------------------
(***************************************************************************)
(* The CoreBluetooth adapter (desk/adapter_darwin.go): connecting to one   *)
(* desk, discovering its attributes, subscribing to FE62, reading, and     *)
(* disconnecting.                                                          *)
(*                                                                         *)
(* The adapter turns the callbacks of CoreBluetooth into blocking calls: a *)
(* call asks the stack for something and waits on a channel of capacity 1  *)
(* for the callback, or for a timer.  Callbacks carry no trace of the call *)
(* they answer.  The stack is external: it works off connects and cancels  *)
(* in order, answers attribute requests in order while the link is up, and *)
(* may fail, be late or keep silent.                                       *)
(*                                                                         *)
(* An attempt is one ConnectWith with all that follows on its connection.  *)
(* A program makes one attempt at a time: the next one starts when Connect *)
(* has returned an error or Disconnect was called.                         *)
(***************************************************************************)
EXTENDS Naturals, SequencesExt

CONSTANTS Attempts,    \* connection attempts of one process to one desk
          NoAttempt,   \* "no entry in m.pending", "no delegate"
          MaxOps       \* bound: attribute operations after which none of the repeated
                       \* reads begins any more

ASSUME NoAttemptAssumption == NoAttempt \notin Attempts
ASSUME MaxOpsAssumption == MaxOps \in Nat

VARIABLES
    at,         \* where the goroutine of each attempt is
    mail,       \* Connect's channel: how the stack answered
    pending,    \* the attempt whose channel is in m.pending
    delegate,   \* the connection that receives the peripheral's callbacks
    services,   \* services found and not walked yet
    have,       \* haveCmd and haveResp
    no,         \* attribute operations so far; the last one is the one under way
    chan,       \* servicesCh, charsCh, readCh, notifyCh
    cb,         \* notifyCB is set
    link,       \* stack: the link to the desk is up
    work,       \* stack: connects and cancels not worked off
    asked,      \* stack: attribute requests not answered
    streaming,  \* stack: the desk sends notifications on FE62
    clean,      \* history: the stack had nothing to do when the attempt began
    late,       \* history: attempts under way of which an operation timed out
    mistaken,   \* history: and of which one ended with an event not raised for it
    lost        \* history: a notification found no callback

goroutine == <<services, have, no, cb>>
stack     == <<link, work, asked, streaming>>
history   == <<clean, late, mistaken, lost>>
vars      == <<at, mail, pending, delegate, goroutine, chan, stack, history>>

\* Operations, the channel each one waits on, and the service walks.
Channel == [services |-> "services", deskchars |-> "chars", infochars |-> "chars",
            name |-> "read", info |-> "read", fe62 |-> "read", notify |-> "notify"]
Operations == DOMAIN Channel
Channels   == {"services", "chars", "read", "notify"}
Walks      == {"deskchars", "infochars"}

Over   == {"idle", "failed", "closed"}
Places == Over \cup Operations \cup
          {"calling", "waiting", "aborting", "connected", "walking", "naming",
           "describing", "failing", "settled", "session"}

Token == [no : Nat, ok : BOOLEAN]
    \* the operation the event was raised for, 0 for a notification

TypeOK ==
    /\ at \in [Attempts -> Places]
    /\ mail \in [Attempts -> Seq({"up", "down"})] /\ \A c \in Attempts : Len(mail[c]) <= 1
    /\ pending \in Attempts \cup {NoAttempt} /\ delegate \in Attempts \cup {NoAttempt}
    /\ services \in [Attempts -> SUBSET Walks]
    /\ have \in [Attempts -> BOOLEAN]
    /\ no \in [Attempts -> Nat]
    /\ chan \in [Attempts -> [Channels -> Seq(Token)]]
    /\ \A c \in Attempts, ch \in Channels : Len(chan[c][ch]) <= 1
    /\ cb \in [Attempts -> BOOLEAN]
    /\ link \in BOOLEAN /\ streaming \in BOOLEAN /\ lost \in BOOLEAN
    /\ work \in Seq({"connect", "cancel"})
    /\ asked \in Seq([op : Operations, no : Nat])
    /\ {clean, late, mistaken} \subseteq SUBSET Attempts

Init ==
    /\ at = [c \in Attempts |-> "idle"]
    /\ mail = [c \in Attempts |-> <<>>]
    /\ pending = NoAttempt /\ delegate = NoAttempt
    /\ services = [c \in Attempts |-> {}]
    /\ have = [c \in Attempts |-> FALSE]
    /\ no = [c \in Attempts |-> 0]
    /\ chan = [c \in Attempts |-> [ch \in Channels |-> <<>>]]
    /\ cb = [c \in Attempts |-> FALSE]
    /\ link = FALSE /\ streaming = FALSE /\ work = <<>> /\ asked = <<>>
    /\ clean = {} /\ late = {} /\ mistaken = {} /\ lost = FALSE

Goto(c, place) == at' = [at EXCEPT ![c] = place]
Quiet == ~link /\ work = <<>>

\* Nobody reads the connection's channels any more.
Leave(c, place) ==
    /\ Goto(c, place)
    /\ mail' = [mail EXCEPT ![c] = <<>>]
    /\ services' = [services EXCEPT ![c] = {}]
    /\ have' = [have EXCEPT ![c] = FALSE]
    /\ no' = [no EXCEPT ![c] = 0]
    /\ chan' = [chan EXCEPT ![c] = [ch \in Channels |-> <<>>]]
    /\ late' = late \ {c} /\ mistaken' = mistaken \ {c}

----------------------------------------------------------------------------
\* Connect: the link.

\* The manager is enabled and the peripheral known, or Connect fails at once; the
\* channel goes into m.pending.
Enlist(c) ==
    /\ at[c] = "idle" /\ \A e \in Attempts : at[e] \in Over
    /\ \/ Goto(c, "calling") /\ pending' = c
       \/ Goto(c, "failed") /\ UNCHANGED pending
    /\ clean' = IF Quiet THEN clean \cup {c} ELSE clean
    /\ UNCHANGED <<mail, delegate, goroutine, chan, stack, late, mistaken, lost>>

\* cm.Connect.
Call(c) ==
    /\ at[c] = "calling"
    /\ work' = Append(work, "connect")
    /\ Goto(c, "waiting")
    /\ UNCHANGED <<mail, pending, delegate, goroutine, chan, link, asked, streaming, history>>

\* The timer fires: CancelConnect, and five more seconds for the disconnect event.
TimeOut(c) ==
    /\ at[c] = "waiting"
    /\ work' = Append(work, "cancel")
    /\ Goto(c, "aborting")
    /\ UNCHANGED <<mail, pending, delegate, goroutine, chan, link, asked, streaming, history>>

\* The timer fires again: the entry is dropped.
GiveUp(c) ==
    /\ at[c] = "aborting"
    /\ pending' = NoAttempt
    /\ Leave(c, "failed")
    /\ UNCHANGED <<delegate, cb, stack, clean, lost>>

\* A result is received: only one that is in time, without an error and followed by a
\* connected peripheral makes a connection, which takes over the callbacks.
Result(c) ==
    /\ at[c] \in {"waiting", "aborting"} /\ mail[c] # <<>>
    /\ IF at[c] = "waiting" /\ Head(mail[c]) = "up" /\ link
       THEN /\ Goto(c, "connected") /\ delegate' = c
            /\ mail' = [mail EXCEPT ![c] = <<>>]
            /\ UNCHANGED <<services, have, no, chan, late, mistaken>>
       ELSE Leave(c, "failed") /\ UNCHANGED delegate
    /\ UNCHANGED <<pending, cb, stack, clean, lost>>

----------------------------------------------------------------------------
\* Attribute operations: ask the stack, wait for an event or 10 s.

\* What may be asked for where.  The number of reads depends on the desk.
Ready(c, op) ==
    \/ at[c] = "connected" /\ op = "services"
    \/ at[c] = "walking" /\ op \in services[c]
    \/ at[c] = "naming" /\ op = "name"
    \/ at[c] = "describing" /\ op = "info"
    \/ at[c] = "settled" /\ op = "notify"
    \/ at[c] = "session" /\ op = "fe62"

\* Mutants of Issue: the characteristics of all services are asked for at once; the
\* callback is not in place when the descriptor is written.
IssueAhead(c, op) ==
    /\ Ready(c, op) /\ (op \in {"info", "fe62"} => no[c] < MaxOps)
    /\ no' = [no EXCEPT ![c] = @ + 1]
    /\ asked' = IF link
                THEN asked \o [k \in 1..(IF op \in Walks THEN 2 ELSE 1)
                                 |-> [op |-> op, no |-> no[c] + 1]]
                ELSE asked
    /\ services' = [services EXCEPT ![c] = @ \ {op}]
    /\ cb' = [cb EXCEPT ![c] = @ \/ op = "notify"]
    /\ Goto(c, op)
    /\ UNCHANGED <<mail, pending, delegate, have, chan, link, work, streaming, history>>
IssueWithoutCallback(c, op) ==
    /\ Ready(c, op) /\ (op \in {"info", "fe62"} => no[c] < MaxOps)
    /\ no' = [no EXCEPT ![c] = @ + 1]
    /\ asked' = IF link THEN Append(asked, [op |-> op, no |-> no[c] + 1]) ELSE asked
    /\ services' = [services EXCEPT ![c] = @ \ {op}]
    /\ Goto(c, op)
    /\ UNCHANGED <<mail, pending, delegate, have, cb, chan, link, work, streaming, history>>

\* The goroutine asks, then waits; the callback is set before the descriptor is written.
Issue(c, op) ==
    /\ Ready(c, op) /\ (op \in {"info", "fe62"} => no[c] < MaxOps)
    /\ no' = [no EXCEPT ![c] = @ + 1]
    /\ asked' = IF link THEN Append(asked, [op |-> op, no |-> no[c] + 1]) ELSE asked
    /\ services' = [services EXCEPT ![c] = @ \ {op}]
    /\ cb' = [cb EXCEPT ![c] = @ \/ op = "notify"]
    /\ Goto(c, op)
    /\ UNCHANGED <<mail, pending, delegate, have, chan, link, work, streaming, history>>

\* Where an operation leads: errors of the service and FE60 discoveries are fatal, every
\* other one only leaves a field empty or is kept for NotifyError.
Leads(op, ok) ==
    CASE op = "services"  -> IF ok THEN {"walking"} ELSE {"failing"}
      [] op = "deskchars" -> IF ok THEN {"naming", "walking"} ELSE {"failing"}
      [] op = "infochars" -> IF ok THEN {"describing"} ELSE {"walking"}
      [] op = "info"      -> {"describing"}
      [] op = "name"      -> {"walking"}
      [] op \in {"notify", "fe62"} -> {"session"}

\* What a discovery finds depends on the desk.
Found(c, op, ok) ==
    /\ IF op = "services" /\ ok
       THEN \E s \in SUBSET Walks : services' = [services EXCEPT ![c] = s]
       ELSE UNCHANGED services
    /\ IF op = "deskchars" /\ ok
       THEN \E h \in BOOLEAN : have' = [have EXCEPT ![c] = h]
       ELSE UNCHANGED have

\* waitWithTimeout receives from the channel.
Answered(c, op) ==
    /\ at[c] = op /\ chan[c][Channel[op]] # <<>>
    /\ chan' = [chan EXCEPT ![c][Channel[op]] = <<>>]
    /\ LET token == Head(chan[c][Channel[op]]) IN
          /\ mistaken' = IF token.no = no[c] THEN mistaken ELSE mistaken \cup {c}
          /\ \E place \in Leads(op, token.ok) : Goto(c, place)
          /\ Found(c, op, token.ok)
    /\ UNCHANGED <<mail, pending, delegate, no, cb, stack, clean, late, lost>>

\* Mutant of Expired: the wait for the descriptor write has no timer.
ExpiredButNotify(c, op) ==
    /\ at[c] = op /\ op # "notify"
    /\ late' = late \cup {c}
    /\ \E place \in Leads(op, FALSE) : Goto(c, place)
    /\ UNCHANGED <<mail, pending, delegate, goroutine, chan, stack, clean, mistaken, lost>>

\* waitWithTimeout gives up.  The request stays with the stack.
Expired(c, op) ==
    /\ at[c] = op
    /\ late' = late \cup {c}
    /\ \E place \in Leads(op, FALSE) : Goto(c, place)
    /\ UNCHANGED <<mail, pending, delegate, goroutine, chan, stack, clean, mistaken, lost>>

\* No more strings to read.
Described(c) ==
    /\ at[c] = "describing"
    /\ Goto(c, "walking")
    /\ UNCHANGED <<mail, pending, delegate, goroutine, chan, stack, history>>

\* Every service has been walked: both characteristics are there, or Connect fails.
Walked(c) ==
    /\ at[c] = "walking" /\ services[c] = {}
    /\ Goto(c, IF have[c] THEN "settled" ELSE "failing")
    /\ UNCHANGED <<mail, pending, delegate, goroutine, chan, stack, history>>

\* Mutant of Fail: the link of a connection that is not handed out is forgotten.
FailForgets(c) ==
    /\ at[c] = "failing"
    /\ Leave(c, "failed")
    /\ UNCHANGED <<pending, delegate, cb, stack, clean, lost>>

\* Connect fails after the link came up: Disconnect first.
Fail(c) ==
    /\ at[c] = "failing"
    /\ work' = Append(work, "cancel")
    /\ Leave(c, "failed")
    /\ UNCHANGED <<pending, delegate, cb, link, asked, streaming, clean, lost>>

\* Disconnect returns at once; CancelConnect is worked off later.
Disconnect(c) ==
    /\ at[c] = "session"
    /\ work' = Append(work, "cancel")
    /\ Leave(c, "closed")
    /\ UNCHANGED <<pending, delegate, cb, link, asked, streaming, clean, lost>>

----------------------------------------------------------------------------
\* The stack and the delegates.

\* Mutant of Complete: the entry is not deleted.
CompleteKeeps(result) ==
    /\ mail' = IF pending # NoAttempt
               THEN [mail EXCEPT ![pending] = Append(@, result)] ELSE mail
    /\ UNCHANGED pending

\* completePending: take the entry out of m.pending, then send to its channel.
Complete(result) ==
    IF pending # NoAttempt
    THEN /\ mail' = [mail EXCEPT ![pending] = Append(@, result)]
         /\ pending' = NoAttempt
    ELSE UNCHANGED <<mail, pending>>

Drop == link' = FALSE /\ asked' = <<>> /\ streaming' = FALSE

\* DidConnectPeripheral.
LinkUp ==
    /\ work # <<>> /\ Head(work) = "connect"
    /\ work' = Tail(work) /\ link' = TRUE
    /\ Complete("up")
    /\ UNCHANGED <<at, delegate, goroutine, chan, asked, streaming, history>>

\* DidFailToConnectPeripheral.
LinkFails ==
    /\ work # <<>> /\ Head(work) = "connect" /\ ~link
    /\ work' = Tail(work)
    /\ Complete("down")
    /\ UNCHANGED <<at, delegate, goroutine, chan, link, asked, streaming, history>>

\* CancelConnect takes effect on a connect not worked off or on the link, with
\* DidDisconnectPeripheral; without either nothing happens.
Cancel ==
    /\ \/ /\ Len(work) > 1 /\ work[1] = "connect" /\ work[2] = "cancel"
          /\ work' = Tail(Tail(work))
          /\ Drop /\ Complete("down")
       \/ /\ work # <<>> /\ Head(work) = "cancel"
          /\ work' = Tail(work)
          /\ IF link THEN Drop /\ Complete("down")
                     ELSE UNCHANGED <<link, asked, streaming, mail, pending>>
    /\ UNCHANGED <<at, delegate, goroutine, chan, history>>

\* The desk goes out of range.
LinkLost ==
    /\ link
    /\ Drop /\ Complete("down")
    /\ UNCHANGED <<at, delegate, goroutine, chan, work, history>>

\* deliver: a non-blocking send; what is sent to an abandoned connection is never read.
Deliver(ch, token) ==
    chan' = IF chan[delegate][ch] = <<>> /\ at[delegate] \notin Over
            THEN [chan EXCEPT ![delegate][ch] = <<token>>] ELSE chan

\* The next attribute request is answered.
Answer ==
    /\ link /\ asked # <<>>
    /\ asked' = Tail(asked)
    /\ \E ok \in BOOLEAN : Deliver(Channel[Head(asked).op], [no |-> Head(asked).no, ok |-> ok])
    /\ UNCHANGED <<at, mail, pending, delegate, goroutine, link, work, streaming, history>>

\* The descriptor write takes effect, whatever it is answered.
Stream ==
    /\ link /\ ~streaming /\ \E k \in DOMAIN asked : asked[k].op = "notify"
    /\ streaming' = TRUE
    /\ UNCHANGED <<at, mail, pending, delegate, goroutine, chan, link, work, asked, history>>

\* A notification of FE62: the callback is called, and readCh is signalled as well.
Notification ==
    /\ link /\ streaming
    /\ lost' = (lost \/ ~cb[delegate])
    /\ Deliver("read", [no |-> 0, ok |-> TRUE])
    /\ UNCHANGED <<at, mail, pending, delegate, goroutine, stack, clean, late, mistaken>>

----------------------------------------------------------------------------

\* What a goroutine does once its attempt has begun.
Proceed(c) ==
    \/ Call(c) \/ TimeOut(c) \/ GiveUp(c) \/ Result(c) \/ Described(c) \/ Walked(c) \/ Fail(c)
    \/ \E op \in Operations : Issue(c, op) \/ Answered(c, op) \/ Expired(c, op)

Next ==
    \/ \E c \in Attempts : Enlist(c) \/ Proceed(c) \/ Disconnect(c)
    \/ LinkUp \/ LinkFails \/ Cancel \/ LinkLost
    \/ Answer \/ Stream \/ Notification

Spec == Init /\ [][Next]_vars

\* Timers fire and goroutines run; nothing is asked of the stack.
FairSpec == Spec /\ \A c \in Attempts : WF_vars(Proceed(c))

----------------------------------------------------------------------------
\* Safety.

\* The send of completePending never blocks the delegate: no entry points to a channel
\* that already holds a result, however connect, cancel and disconnect events fall
\* (adapter_darwin.go:203-214).
DelegateNeverStuck == pending # NoAttempt => mail[pending] = <<>>

\* Every attempt began with the stack at rest: Disconnect and a Connect that failed do
\* not wait for it.
FromRest == \A c \in Attempts : at[c] = "idle" \/ c \in clean

\* The characteristic discoveries of two services share charsCh and all reads share
\* readCh: as long as nothing timed out and notifications are off, every operation ends
\* with the event raised for it (adapter_darwin.go:344-347, 390-468).
OwnEvents == FromRest => \A c \in mistaken : c \in late \/ cb[c]

\* No notification is dropped for want of a callback: it is in place before the desk
\* may send (adapter_darwin.go:493-503, 552-564).
NoNotificationLost == FromRest => ~lost

\* The stack is left at rest: no link survives a Connect that failed or a Disconnect, on
\* any path, once the stack has worked off its requests (adapter_darwin.go:284-320,
\* 326-329).
Orphaned == link /\ work = <<>> /\ \A c \in Attempts : at[c] \in Over
NoOrphanFromRest == FromRest => ~Orphaned

\* "the peripheral is not left in a half-connected state" (adapter_darwin.go:286): the
\* same without a condition on how the attempts began.
NoOrphanLink == ~Orphaned

----------------------------------------------------------------------------
\* The inductive invariant of the proofs.

Linking   == {"calling", "waiting", "aborting"}
UnderWay  == Places \ Over
Connected == UnderWay \ Linking

\* The attempt in m.pending still waits for its result, and one not begun has none.
PendingInv ==
    /\ pending # NoAttempt => mail[pending] = <<>> /\ at[pending] \in Linking
    /\ \A c \in Attempts : at[c] = "idle" => mail[c] = <<>>

\* An attempt that waits and is not in m.pending has its result, one that has a
\* connection has the callbacks.
OwnerInv == \A c \in Attempts :
    /\ at[c] \in Linking /\ pending # c => mail[c] # <<>>
    /\ at[c] \in Connected => delegate = c

\* One attempt at a time, and nothing without a link.
AloneInv ==
    /\ \A c \in Attempts : at[c] = "idle" => c \notin clean
    /\ \A c, d \in Attempts : at[c] \in UnderWay /\ at[d] \in UnderWay => c = d
    /\ ~link => asked = <<>> /\ ~streaming

\* What the stack has to do is what the attempt under way, or the last one, asked for.
WorkInv == FromRest =>
    /\ (\A c \in Attempts : at[c] \in Over \cup {"aborting"}) =>
          \/ work = <<>> /\ ~link
          \/ work = <<"cancel">>
          \/ work = <<"connect", "cancel">> /\ ~link
    /\ \A c \in Attempts :
          /\ at[c] = "calling" => work = <<>> /\ ~link /\ pending = c
          /\ at[c] = "waiting" =>
                \/ work = <<"connect">> /\ ~link /\ pending = c
                \/ work = <<>> /\ pending # c /\ (Head(mail[c]) = "down" => ~link)
          /\ at[c] \in Connected => work = <<>>

\* Before there is a connection the desk is asked nothing; whoever made it send has the
\* callback in place.
CallbackInv == FromRest =>
    /\ \A c \in Attempts : at[c] \in Linking => asked = <<>> /\ ~streaming
    /\ streaming \/ (\E k \in DOMAIN asked : asked[k].op = "notify") =>
          delegate \in Attempts /\ cb[delegate]
    /\ ~lost

\* An attempt without a timeout and without notifications has one request or one event
\* under way, that of its operation.
EventInv == FromRest => \A c \in Attempts :
    /\ at[c] \in Linking \cup {"idle"} => \A ch \in Channels : chan[c][ch] = <<>>
    /\ at[c] \in Connected /\ c \notin late /\ ~cb[c] =>
          /\ \/ asked = <<>>
             \/ /\ at[c] \in Operations /\ asked = <<[op |-> at[c], no |-> no[c]]>>
                /\ \A ch \in Channels : chan[c][ch] = <<>>
          /\ \A ch \in Channels :
                chan[c][ch] # <<>> => /\ Head(chan[c][ch]).no = no[c]
                                      /\ at[c] \in Operations /\ Channel[at[c]] = ch
    /\ c \in mistaken => c \in late \/ cb[c]

IInv == TypeOK /\ PendingInv /\ OwnerInv /\ AloneInv /\ WorkInv /\ CallbackInv /\ EventInv

----------------------------------------------------------------------------
\* Liveness, under FairSpec.

\* Connect and the subscription return, whatever the stack does or leaves undone
\* (adapter_darwin.go:288-320, 588-595).
AttemptReturns ==
    \A c \in Attempts : at[c] = "calling" ~> at[c] \in {"session", "closed", "failed"}
=============================================================================
