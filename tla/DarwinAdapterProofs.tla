------------------------- MODULE DarwinAdapterProofs -------------------------
(***************************************************************************)
(* Proofs about DarwinAdapter, for any attempts and any bound on the       *)
(* attribute operations: its types; that no callback of the stack waits    *)
(* for a goroutine of the adapter; and, for attempts that began with the   *)
(* stack at rest, that operations end with their own events, that no       *)
(* notification is lost and that no link is left behind.                   *)
(***************************************************************************)
EXTENDS DarwinAdapter, SequenceTheorems, TLAPS

USE NoAttemptAssumption, MaxOpsAssumption
USE DEF goroutine, stack, history, Linking

\* The parts of TypeOK, grouped by what changes together.
MailType ==
    /\ mail \in [Attempts -> Seq({"up", "down"})] /\ \A c \in Attempts : Len(mail[c]) <= 1
    /\ pending \in Attempts \cup {NoAttempt}
ChanType ==
    /\ chan \in [Attempts -> [Channels -> Seq(Token)]]
    /\ \A c \in Attempts, ch \in Channels : Len(chan[c][ch]) <= 1
AskedType == asked \in Seq([op : Operations, no : Nat])
RestType ==
    /\ at \in [Attempts -> Places]
    /\ delegate \in Attempts \cup {NoAttempt}
    /\ services \in [Attempts -> SUBSET Walks]
    /\ have \in [Attempts -> BOOLEAN]
    /\ no \in [Attempts -> Nat]
    /\ cb \in [Attempts -> BOOLEAN]
    /\ link \in BOOLEAN /\ streaming \in BOOLEAN /\ lost \in BOOLEAN
    /\ work \in Seq({"connect", "cancel"})
    /\ clean \subseteq Attempts /\ late \subseteq Attempts /\ mistaken \subseteq Attempts

LEMMA TypeParts == TypeOK <=> MailType /\ ChanType /\ AskedType /\ RestType
BY DEF TypeOK, MailType, ChanType, AskedType, RestType

----------------------------------------------------------------------------
\* What the operators keep.

\* A result goes to the attempt in m.pending alone, whose channel is empty.
LEMMA ResultKeeps ==
    ASSUME MailType, PendingInv, NEW result \in {"up", "down"}, Complete(result),
           at' = at
    PROVE  MailType' /\ PendingInv'
<1>. DEFINE box == [c \in Attempts |-> IF c = pending THEN <<result>> ELSE mail[c]]
<1>1. mail' = box /\ pending' = NoAttempt
    <2>1. CASE pending = NoAttempt
        BY <2>1 DEF Complete, MailType
    <2>2. CASE pending # NoAttempt
        <3>1. pending \in Attempts /\ mail[pending] = <<>>
            BY <2>2 DEF MailType, PendingInv
        <3>. QED  BY <2>2, <3>1 DEF Complete, MailType
    <2>. QED  BY <2>1, <2>2
<1>2. <<result>> \in Seq({"up", "down"}) /\ Len(<<result>>) <= 1
    OBVIOUS
<1>3. box \in [Attempts -> Seq({"up", "down"})]
    BY <1>2 DEF MailType
<1>4. MailType'
    BY <1>1, <1>2, <1>3 DEF MailType
<1>5. pending \in Attempts => at[pending] # "idle"
    BY DEF PendingInv
<1>6. PendingInv'
    BY <1>1, <1>5 DEF PendingInv
<1>. QED  BY <1>4, <1>6

\* Leaving empties the channels and touches nothing else's type.
LEMMA LeaveKeeps ==
    ASSUME MailType, ChanType, RestType, NEW c \in Attempts, NEW place \in Over \ {"idle"},
           Leave(c, place)
    PROVE  /\ at' = [at EXCEPT ![c] = place] /\ mail' = [mail EXCEPT ![c] = <<>>]
           /\ at' \in [Attempts -> Places]
           /\ mail' \in [Attempts -> Seq({"up", "down"})]
           /\ \A d \in Attempts : Len(mail'[d]) <= 1
           /\ ChanType'
           /\ services' \in [Attempts -> SUBSET Walks] /\ have' \in [Attempts -> BOOLEAN]
           /\ no' \in [Attempts -> Nat]
           /\ late' \subseteq Attempts /\ mistaken' \subseteq Attempts
<1>1. <<>> \in Seq({"up", "down"}) /\ Len(<<>>) <= 1
    OBVIOUS
<1>2. mail' \in [Attempts -> Seq({"up", "down"})] /\ \A d \in Attempts : Len(mail'[d]) <= 1
    BY <1>1 DEF Leave, MailType
<1>3. [ch \in Channels |-> <<>>] \in [Channels -> Seq(Token)]
    OBVIOUS
<1>4. \A d \in Attempts : chan'[d] = IF d = c THEN [ch \in Channels |-> <<>>] ELSE chan[d]
    BY DEF Leave, ChanType
<1>5. chan' \in [Attempts -> [Channels -> Seq(Token)]]
    BY <1>3 DEF Leave, ChanType
<1>6. ChanType'
    <2>1. \A d \in Attempts, ch \in Channels :
             chan'[d][ch] = IF d = c THEN <<>> ELSE chan[d][ch]
        BY <1>4
    <2>. QED  BY <1>1, <1>5, <2>1 DEF ChanType
<1>7. services' \in [Attempts -> SUBSET Walks] /\ have' \in [Attempts -> BOOLEAN]
      /\ no' \in [Attempts -> Nat]
    BY DEF Leave, RestType
<1>8. late' \subseteq Attempts /\ mistaken' \subseteq Attempts
    BY DEF Leave, RestType
<1>9. at' \in [Attempts -> Places]
    BY DEF Leave, Goto, RestType, Places, Over
<1>. QED  BY <1>2, <1>6, <1>7, <1>8, <1>9 DEF Leave, Goto

\* An event goes to an empty channel of the delegate or nowhere.
LEMMA DeliverKeeps ==
    ASSUME ChanType, NEW ch \in Channels, NEW token \in Token, Deliver(ch, token)
    PROVE  ChanType'
<1>1. CASE chan' = chan
    BY <1>1 DEF ChanType
<1>2. CASE chan' = [chan EXCEPT ![delegate][ch] = <<token>>]
    <2>1. <<token>> \in Seq(Token) /\ Len(<<token>>) <= 1
        OBVIOUS
    <2>2. \A d \in Attempts, k \in Channels :
             chan'[d][k] = IF d = delegate /\ k = ch THEN <<token>> ELSE chan[d][k]
        BY <1>2 DEF ChanType
    <2>3. chan' \in [Attempts -> [Channels -> Seq(Token)]]
        BY <1>2, <2>1 DEF ChanType
    <2>. QED  BY <2>1, <2>2, <2>3 DEF ChanType
<1>. QED  BY <1>1, <1>2 DEF Deliver

\* A request that is appended, taken off or dropped.
LEMMA Requests ==
    ASSUME NEW S, NEW s \in Seq(S)
    PROVE  /\ \A e \in S : Append(s, e) \in Seq(S)
           /\ s # <<>> => Tail(s) \in Seq(S) /\ Head(s) \in S
           /\ Len(s) > 1 => Tail(Tail(s)) \in Seq(S)
OBVIOUS

LEMMA WorkRequests ==
    ASSUME work \in Seq({"connect", "cancel"})
    PROVE  /\ Append(work, "connect") \in Seq({"connect", "cancel"})
           /\ Append(work, "cancel") \in Seq({"connect", "cancel"})
           /\ work # <<>> => Tail(work) \in Seq({"connect", "cancel"})
           /\ Len(work) > 1 => Tail(Tail(work)) \in Seq({"connect", "cancel"})
<1>1. "connect" \in {"connect", "cancel"} /\ "cancel" \in {"connect", "cancel"}
    OBVIOUS
<1>. QED  BY <1>1, Requests

\* Each operation waits on one of the four channels, and is no place of the connect.
LEMMA OperationChannels ==
    ASSUME NEW op \in Operations
    PROVE  /\ Channel[op] \in Channels
           /\ op \notin {"idle", "calling", "waiting", "aborting"}
<1>1. op \in {"services", "deskchars", "infochars", "name", "info", "fe62", "notify"}
    BY DEF Operations, Channel
<1>. QED  BY <1>1 DEF Channel, Channels

----------------------------------------------------------------------------
\* A step of a goroutine that is past its result, or has none to wait for, leaves
\* m.pending and its channels alone.
LEMMA ElsewhereKeeps ==
    ASSUME MailType, PendingInv, RestType, UNCHANGED <<mail, pending>>,
           NEW c \in Attempts, NEW place, at' = [at EXCEPT ![c] = place],
           \/ at[c] \notin {"idle", "calling", "waiting", "aborting"} /\ place # "idle"
           \/ at[c] \in {"calling", "waiting"} /\ place \in {"waiting", "aborting"}
    PROVE  MailType' /\ PendingInv'
<1>1. MailType'
    BY DEF MailType
<1>2. pending # NoAttempt => at'[pending] \in {"calling", "waiting", "aborting"}
    BY DEF PendingInv, MailType, RestType
<1>3. \A d \in Attempts : at'[d] = "idle" => at[d] = "idle"
    BY DEF RestType
<1>. QED  BY <1>1, <1>2, <1>3 DEF PendingInv

\* Leaving is a step elsewhere, or ends the wait of the attempt that leaves.
LEMMA LeaveKeepsInv ==
    ASSUME TypeOK, PendingInv, NEW c \in Attempts, NEW place \in Over \ {"idle"},
           Leave(c, place),
           pending' = IF pending = c THEN NoAttempt ELSE pending
    PROVE  MailType' /\ PendingInv'
<1>1. /\ at' = [at EXCEPT ![c] = place] /\ mail' = [mail EXCEPT ![c] = <<>>]
      /\ mail' \in [Attempts -> Seq({"up", "down"})]
      /\ \A d \in Attempts : Len(mail'[d]) <= 1
    BY LeaveKeeps, TypeParts
<1>2. MailType'
    BY <1>1, TypeParts DEF MailType
<1>3. \A d \in Attempts : at'[d] = (IF d = c THEN place ELSE at[d])
                          /\ mail'[d] = (IF d = c THEN <<>> ELSE mail[d])
    BY <1>1, TypeParts DEF RestType, MailType
<1>4. pending' # NoAttempt => pending' \in Attempts /\ pending' = pending /\ pending # c
    BY TypeParts DEF MailType
<1>. QED  BY <1>2, <1>3, <1>4 DEF PendingInv

----------------------------------------------------------------------------
\* Every step keeps the invariant.

LEMMA StepType ==
    ASSUME TypeOK, PendingInv, [Next]_vars
    PROVE  TypeOK' /\ PendingInv'
<1>0. MailType /\ ChanType /\ AskedType /\ RestType /\ PendingInv
    BY TypeParts
<1>. SUFFICES MailType' /\ ChanType' /\ AskedType' /\ RestType' /\ PendingInv'
    <2>1. (MailType' /\ ChanType' /\ AskedType' /\ RestType') => TypeOK'
        BY TypeParts, PTL
    <2>. QED  BY <2>1
<1>1. ASSUME NEW c \in Attempts, Enlist(c)
      PROVE  MailType' /\ ChanType' /\ AskedType' /\ RestType' /\ PendingInv'
    <2>1. at[c] = "idle"
        BY <1>1 DEF Enlist
    <2>2. at' \in [Attempts -> Places] /\ \A d \in Attempts \ {c} : at'[d] = at[d]
        BY <1>0, <1>1 DEF Enlist, Goto, RestType, Places, Over
    <2>3. MailType' /\ ChanType' /\ AskedType'
        BY <1>0, <1>1 DEF Enlist, MailType, ChanType, AskedType
    <2>4. RestType'
        BY <1>0, <1>1, <2>2 DEF Enlist, RestType
    <2>5. PendingInv'
        <3>1. CASE pending' = c /\ at' = [at EXCEPT ![c] = "calling"]
            BY <1>0, <1>1, <2>1, <3>1 DEF Enlist, PendingInv, RestType
        <3>2. CASE UNCHANGED pending /\ at' = [at EXCEPT ![c] = "failed"]
            BY <1>0, <1>1, <2>1, <3>2 DEF Enlist, PendingInv, RestType, MailType
        <3>. QED  BY <1>1, <3>1, <3>2 DEF Enlist, Goto
    <2>. QED  BY <2>3, <2>4, <2>5
<1>2. ASSUME NEW c \in Attempts, Call(c) \/ TimeOut(c)
      PROVE  MailType' /\ ChanType' /\ AskedType' /\ RestType' /\ PendingInv'
    <2>1. \E place \in {"waiting", "aborting"} :
             at[c] \in {"calling", "waiting"} /\ at' = [at EXCEPT ![c] = place]
        BY <1>2 DEF Call, TimeOut, Goto
    <2>2. MailType' /\ PendingInv'
        BY <1>0, <1>2, <2>1, ElsewhereKeeps DEF Call, TimeOut
    <2>3. ChanType' /\ AskedType'
        BY <1>0, <1>2 DEF Call, TimeOut, ChanType, AskedType
    <2>4. work' \in Seq({"connect", "cancel"})
        BY <1>0, <1>2, WorkRequests DEF Call, TimeOut, RestType
    <2>5. RestType'
        BY <1>0, <1>2, <2>1, <2>4 DEF Call, TimeOut, RestType, Places
    <2>. QED  BY <2>2, <2>3, <2>5
<1>3. ASSUME NEW c \in Attempts, GiveUp(c)
      PROVE  MailType' /\ ChanType' /\ AskedType' /\ RestType' /\ PendingInv'
    <2>1. Leave(c, "failed") /\ "failed" \in Over \ {"idle"}
        BY <1>3 DEF GiveUp, Over
    <2>2. at' \in [Attempts -> Places] /\ ChanType'
          /\ mail' \in [Attempts -> Seq({"up", "down"})]
          /\ (\A d \in Attempts : Len(mail'[d]) <= 1)
          /\ services' \in [Attempts -> SUBSET Walks] /\ have' \in [Attempts -> BOOLEAN]
          /\ no' \in [Attempts -> Nat]
          /\ late' \subseteq Attempts /\ mistaken' \subseteq Attempts
          /\ at' = [at EXCEPT ![c] = "failed"] /\ mail' = [mail EXCEPT ![c] = <<>>]
        BY <1>0, <2>1, LeaveKeeps
    <2>3. MailType' /\ AskedType' /\ RestType'
        BY <1>0, <1>3, <2>2 DEF GiveUp, MailType, AskedType, RestType
    <2>4. PendingInv'
        BY <1>0, <1>3, <2>2 DEF GiveUp, PendingInv, RestType, MailType
    <2>. QED  BY <2>2, <2>3, <2>4
<1>4. ASSUME NEW c \in Attempts, Result(c)
      PROVE  MailType' /\ ChanType' /\ AskedType' /\ RestType' /\ PendingInv'
    <2>1. pending # c
        BY <1>0, <1>4 DEF Result, PendingInv
    <2>2. CASE Goto(c, "connected") /\ delegate' = c /\ mail' = [mail EXCEPT ![c] = <<>>]
               /\ UNCHANGED <<services, have, no, chan, late, mistaken>>
        <3>1. <<>> \in Seq({"up", "down"}) /\ Len(<<>>) <= 1
            OBVIOUS
        <3>2. MailType'
            BY <1>0, <1>4, <2>2, <3>1 DEF Result, MailType
        <3>3. ChanType' /\ AskedType' /\ RestType'
            BY <1>0, <1>4, <2>2 DEF Result, Goto, ChanType, AskedType, RestType, Places
        <3>4. PendingInv'
            BY <1>0, <1>4, <2>1, <2>2 DEF Result, Goto, PendingInv, MailType, RestType
        <3>. QED  BY <3>2, <3>3, <3>4
    <2>3. CASE Leave(c, "failed") /\ UNCHANGED delegate
        <3>1. "failed" \in Over \ {"idle"}
            BY DEF Over
        <3>2. MailType' /\ PendingInv'
            BY <1>4, <2>1, <2>3, <3>1, LeaveKeepsInv DEF Result
        <3>3. at' \in [Attempts -> Places] /\ ChanType'
              /\ services' \in [Attempts -> SUBSET Walks] /\ have' \in [Attempts -> BOOLEAN]
              /\ no' \in [Attempts -> Nat]
              /\ late' \subseteq Attempts /\ mistaken' \subseteq Attempts
            BY <1>0, <2>3, <3>1, LeaveKeeps
        <3>4. AskedType' /\ RestType'
            BY <1>0, <1>4, <2>3, <3>3 DEF Result, AskedType, RestType
        <3>. QED  BY <3>2, <3>3, <3>4
    <2>. QED  BY <1>4, <2>2, <2>3 DEF Result
<1>5. ASSUME NEW c \in Attempts, Fail(c) \/ Disconnect(c)
      PROVE  MailType' /\ ChanType' /\ AskedType' /\ RestType' /\ PendingInv'
    <2>1. PICK place \in Over \ {"idle"} : Leave(c, place)
        BY <1>5 DEF Fail, Disconnect, Over
    <2>2. pending # c
        BY <1>0, <1>5 DEF Fail, Disconnect, PendingInv
    <2>3. MailType' /\ PendingInv'
        BY <1>5, <2>1, <2>2, LeaveKeepsInv DEF Fail, Disconnect
    <2>4. at' \in [Attempts -> Places] /\ ChanType'
          /\ services' \in [Attempts -> SUBSET Walks] /\ have' \in [Attempts -> BOOLEAN]
          /\ no' \in [Attempts -> Nat]
          /\ late' \subseteq Attempts /\ mistaken' \subseteq Attempts
        BY <1>0, <2>1, LeaveKeeps
    <2>5. work' \in Seq({"connect", "cancel"})
        BY <1>0, <1>5, WorkRequests DEF Fail, Disconnect, RestType
    <2>6. AskedType' /\ RestType'
        BY <1>0, <1>5, <2>4, <2>5 DEF Fail, Disconnect, AskedType, RestType
    <2>. QED  BY <2>3, <2>4, <2>6
<1>6. ASSUME NEW c \in Attempts, NEW op \in Operations, Issue(c, op)
      PROVE  MailType' /\ ChanType' /\ AskedType' /\ RestType' /\ PendingInv'
    <2>0. op \in Places /\ op # "idle"
          /\ at[c] \in {"connected", "walking", "naming", "describing", "settled", "session"}
        BY <1>6 DEF Issue, Ready, Places, Operations, Channel
    <2>1. at' = [at EXCEPT ![c] = op]
        BY <1>6 DEF Issue, Goto
    <2>2. MailType' /\ PendingInv'
        BY <1>0, <1>6, <2>0, <2>1, ElsewhereKeeps DEF Issue
    <2>3. ChanType'
        BY <1>0, <1>6 DEF Issue, ChanType
    <2>4. AskedType'
        <3>1. no[c] + 1 \in Nat
            BY <1>0 DEF RestType
        <3>2. [op |-> op, no |-> no[c] + 1] \in [op : Operations, no : Nat]
            BY <1>6, <3>1
        <3>3. asked' = asked \/ asked' = Append(asked, [op |-> op, no |-> no[c] + 1])
            BY <1>6 DEF Issue
        <3>. QED  BY <1>0, <3>2, <3>3, Requests DEF AskedType
    <2>5. RestType'
        <3>1. at' \in [Attempts -> Places]
            BY <1>0, <2>0, <2>1 DEF RestType
        <3>2. services' \in [Attempts -> SUBSET Walks] /\ no' \in [Attempts -> Nat]
            BY <1>0, <1>6 DEF Issue, RestType
        <3>3. cb' \in [Attempts -> BOOLEAN]
            BY <1>0, <1>6 DEF Issue, RestType
        <3>. QED  BY <1>0, <1>6, <3>1, <3>2, <3>3 DEF Issue, RestType
    <2>. QED  BY <2>2, <2>3, <2>4, <2>5
<1>7. ASSUME NEW c \in Attempts, NEW op \in Operations, Answered(c, op) \/ Expired(c, op)
      PROVE  MailType' /\ ChanType' /\ AskedType' /\ RestType' /\ PendingInv'
    <2>0. at[c] = op /\ op \notin {"idle", "calling", "waiting", "aborting"}
          /\ Channel[op] \in Channels
        BY <1>7, OperationChannels DEF Answered, Expired
    <2>1. PICK place \in {"walking", "failing", "naming", "describing", "session"} :
             at' = [at EXCEPT ![c] = place]
        BY <1>7 DEF Answered, Expired, Leads, Operations, Channel, Goto
    <2>2. MailType' /\ PendingInv'
        BY <1>0, <1>7, <2>0, <2>1, ElsewhereKeeps DEF Answered, Expired
    <2>3. AskedType' /\ at' \in [Attempts -> Places]
        BY <1>0, <1>7, <2>1 DEF Answered, Expired, AskedType, RestType, Places
    <2>4. CASE Answered(c, op)
        <3>1. <<>> \in Seq(Token) /\ Len(<<>>) <= 1
            OBVIOUS
        <3>2. chan' = [chan EXCEPT ![c][Channel[op]] = <<>>]
            BY <2>4 DEF Answered
        <3>3. chan' \in [Attempts -> [Channels -> Seq(Token)]]
            BY <1>0, <3>1, <3>2 DEF ChanType
        <3>4. \A d \in Attempts, ch \in Channels :
                 chan'[d][ch] = IF d = c /\ ch = Channel[op] THEN <<>> ELSE chan[d][ch]
            BY <1>0, <3>2 DEF ChanType
        <3>5. ChanType'
            BY <1>0, <3>1, <3>3, <3>4 DEF ChanType
        <3>6. services' \in [Attempts -> SUBSET Walks] /\ have' \in [Attempts -> BOOLEAN]
            BY <1>0, <2>4 DEF Answered, Found, RestType
        <3>7. mistaken' \subseteq Attempts
            BY <1>0, <2>4 DEF Answered, RestType
        <3>8. RestType'
            BY <1>0, <2>3, <2>4, <3>6, <3>7 DEF Answered, RestType
        <3>. QED  BY <2>2, <2>3, <3>5, <3>8
    <2>5. CASE Expired(c, op)
        <3>1. ChanType' /\ RestType'
            BY <1>0, <2>3, <2>5 DEF Expired, ChanType, RestType
        <3>. QED  BY <2>2, <2>3, <3>1
    <2>. QED  BY <1>7, <2>4, <2>5
<1>8. ASSUME NEW c \in Attempts, Described(c) \/ Walked(c)
      PROVE  MailType' /\ ChanType' /\ AskedType' /\ RestType' /\ PendingInv'
    <2>1. PICK place \in {"walking", "settled", "failing"} : at' = [at EXCEPT ![c] = place]
        BY <1>8 DEF Described, Walked, Goto
    <2>2. at[c] \notin {"idle", "calling", "waiting", "aborting"}
        BY <1>8 DEF Described, Walked
    <2>3. MailType' /\ PendingInv'
        BY <1>0, <1>8, <2>1, <2>2, ElsewhereKeeps DEF Described, Walked
    <2>4. ChanType' /\ AskedType' /\ RestType'
        BY <1>0, <1>8, <2>1 DEF Described, Walked, ChanType, AskedType, RestType, Places
    <2>. QED  BY <2>3, <2>4
<1>9. ASSUME LinkUp \/ LinkFails
      PROVE  MailType' /\ ChanType' /\ AskedType' /\ RestType' /\ PendingInv'
    <2>1. MailType' /\ PendingInv'
        BY <1>0, <1>9, ResultKeeps DEF LinkUp, LinkFails
    <2>2. work' \in Seq({"connect", "cancel"}) /\ link' \in BOOLEAN
        BY <1>0, <1>9, WorkRequests DEF LinkUp, LinkFails, RestType
    <2>3. ChanType' /\ AskedType' /\ RestType'
        BY <1>0, <1>9, <2>2 DEF LinkUp, LinkFails, ChanType, AskedType, RestType
    <2>. QED  BY <2>1, <2>3
<1>10. ASSUME Cancel \/ LinkLost
       PROVE  MailType' /\ ChanType' /\ AskedType' /\ RestType' /\ PendingInv'
    <2>1. MailType' /\ PendingInv'
        <3>1. CASE Complete("down")
            BY <1>0, <1>10, <3>1, ResultKeeps DEF Cancel, LinkLost
        <3>2. CASE UNCHANGED <<mail, pending>>
            BY <1>0, <1>10, <3>2 DEF Cancel, LinkLost, MailType, PendingInv
        <3>. QED  BY <1>10, <3>1, <3>2 DEF Cancel, LinkLost
    <2>2. work' \in Seq({"connect", "cancel"})
        BY <1>0, <1>10, WorkRequests DEF Cancel, LinkLost, RestType
    <2>3. link' \in BOOLEAN /\ streaming' \in BOOLEAN
        BY <1>0, <1>10 DEF Cancel, LinkLost, Drop, RestType
    <2>4. AskedType'
        <3>1. asked' = asked \/ asked' = <<>>
            BY <1>10 DEF Cancel, LinkLost, Drop
        <3>2. <<>> \in Seq([op : Operations, no : Nat])
            OBVIOUS
        <3>. QED  BY <1>0, <3>1, <3>2 DEF AskedType
    <2>5. ChanType' /\ RestType'
        BY <1>0, <1>10, <2>2, <2>3 DEF Cancel, LinkLost, ChanType, RestType
    <2>. QED  BY <2>1, <2>4, <2>5
<1>11. ASSUME Answer \/ Notification
       PROVE  MailType' /\ ChanType' /\ AskedType' /\ RestType' /\ PendingInv'
    <2>1. ChanType'
        <3>1. CASE Answer
            <4>1. Head(asked) \in [op : Operations, no : Nat]
                BY <1>0, <3>1, Requests DEF Answer, AskedType
            <4>2. Channel[Head(asked).op] \in Channels
                BY <4>1 DEF Operations, Channel, Channels
            <4>3. \A ok \in BOOLEAN : [no |-> Head(asked).no, ok |-> ok] \in Token
                BY <4>1 DEF Token
            <4>. QED  BY <1>0, <3>1, <4>2, <4>3, DeliverKeeps DEF Answer
        <3>2. CASE Notification
            <4>1. [no |-> 0, ok |-> TRUE] \in Token /\ "read" \in Channels
                BY DEF Token, Channels
            <4>. QED  BY <1>0, <3>2, <4>1, DeliverKeeps DEF Notification
        <3>. QED  BY <1>11, <3>1, <3>2
    <2>2. AskedType'
        BY <1>0, <1>11, Requests DEF Answer, Notification, AskedType
    <2>3. MailType' /\ PendingInv'
        BY <1>0, <1>11 DEF Answer, Notification, MailType, PendingInv
    <2>4. lost' \in BOOLEAN
        <3>1. CASE Answer
            BY <1>0, <3>1 DEF Answer, RestType
        <3>2. CASE Notification
            <4>1. (lost \/ ~cb[delegate]) \in BOOLEAN
                OBVIOUS
            <4>. QED  BY <3>2, <4>1 DEF Notification
        <3>. QED  BY <1>11, <3>1, <3>2
    <2>5. RestType'
        BY <1>0, <1>11, <2>4 DEF Answer, Notification, RestType
    <2>. QED  BY <2>1, <2>2, <2>3, <2>5
<1>12. ASSUME Stream \/ UNCHANGED vars
       PROVE  MailType' /\ ChanType' /\ AskedType' /\ RestType' /\ PendingInv'
    BY <1>0, <1>12 DEF Stream, vars, MailType, ChanType, AskedType, RestType, PendingInv
<1>. QED
    BY <1>1, <1>2, <1>3, <1>4, <1>5, <1>6, <1>7, <1>8, <1>9, <1>10, <1>11, <1>12
       DEF Next, Proceed

----------------------------------------------------------------------------
\* Where steps of a goroutine lead.

\* A step of a goroutine moves that goroutine only; a move past Linking starts there or
\* at a result, and only the enlisting of an attempt takes one out of Over.
LEMMA Moves ==
    ASSUME TypeOK, NEW c \in Attempts, Proceed(c) \/ Disconnect(c)
    PROVE  /\ at[c] \in UnderWay
           /\ \E place \in Places \ {"idle"} : at' = [at EXCEPT ![c] = place]
           /\ clean' = clean
<1>0. at \in [Attempts -> Places] /\ clean \subseteq Attempts
    BY TypeParts DEF RestType
<1>. USE <1>0
<1>1. CASE Call(c) \/ TimeOut(c)
    BY <1>1 DEF Call, TimeOut, Goto, UnderWay, Places, Over
<1>2. CASE GiveUp(c) \/ Result(c) \/ Fail(c) \/ Disconnect(c)
    BY <1>2 DEF GiveUp, Result, Fail, Disconnect, Leave, Goto, UnderWay, Places, Over
<1>3. CASE Described(c) \/ Walked(c)
    BY <1>3 DEF Described, Walked, Goto, UnderWay, Places, Over
<1>4. ASSUME NEW op \in Operations, Issue(c, op) PROVE UNCHANGED clean
         /\ at[c] \in UnderWay /\ \E place \in Places \ {"idle"} : at' = [at EXCEPT ![c] = place]
    <2>1. op \in Places \ {"idle"}
        BY <1>4, OperationChannels DEF Places
    <2>. QED  BY <1>4, <2>1 DEF Issue, Ready, Goto, UnderWay, Places, Over
<1>5. ASSUME NEW op \in Operations, Answered(c, op) \/ Expired(c, op) PROVE UNCHANGED clean
         /\ at[c] \in UnderWay /\ \E place \in Places \ {"idle"} : at' = [at EXCEPT ![c] = place]
    <2>1. at[c] \in Operations
        BY <1>5 DEF Answered, Expired
    <2>2. at[c] \in UnderWay
        BY <2>1 DEF Operations, Channel, UnderWay, Places, Over
    <2>3. PICK place \in {"walking", "failing", "naming", "describing", "session"} :
             at' = [at EXCEPT ![c] = place]
        BY <1>5 DEF Answered, Expired, Leads, Operations, Channel, Goto
    <2>. QED  BY <1>5, <2>2, <2>3 DEF Answered, Expired, Places
<1>. QED  BY <1>1, <1>2, <1>3, <1>4, <1>5 DEF Proceed

\* If every attempt began with the stack at rest, that was so a step before, and an
\* attempt that enlists finds it so.
LEMMA StaysFromRest ==
    ASSUME TypeOK, AloneInv, [Next]_vars, FromRest'
    PROVE  FromRest /\ \A c \in Attempts : Enlist(c) => Quiet
<1>0. at \in [Attempts -> Places] /\ clean \subseteq Attempts
    BY TypeParts DEF RestType
<1>. USE <1>0 DEF FromRest
<1>1. ASSUME NEW c \in Attempts, Enlist(c) PROVE FromRest /\ Quiet
    <2>1. at[c] = "idle" /\ at'[c] # "idle" /\ \A d \in Attempts \ {c} : at'[d] = at[d]
        BY <1>1 DEF Enlist, Goto
    <2>2. c \notin clean
        BY <2>1 DEF AloneInv
    <2>. QED  BY <1>1, <2>1, <2>2 DEF Enlist
<1>2. ASSUME NEW c \in Attempts, Proceed(c) \/ Disconnect(c) PROVE FromRest
    BY <1>2, Moves DEF UnderWay, Over
<1>3. ASSUME \/ LinkUp \/ LinkFails \/ Cancel \/ LinkLost
             \/ Answer \/ Stream \/ Notification \/ UNCHANGED vars
      PROVE  FromRest
    <2>1. UNCHANGED <<at, clean>>
        BY <1>3 DEF LinkUp, LinkFails, Cancel, LinkLost, Answer, Stream, Notification, vars
    <2>. QED  BY <2>1
<1>. QED  BY <1>1, <1>2, <1>3 DEF Next

----------------------------------------------------------------------------
\* One attempt at a time.

LEMMA StepAlone ==
    ASSUME TypeOK, AloneInv, [Next]_vars
    PROVE  AloneInv'
<1>0. at \in [Attempts -> Places] /\ clean \subseteq Attempts
    BY TypeParts DEF RestType
<1>. USE <1>0
<1>3. \A c \in Attempts : at'[c] = "idle" => c \notin clean'
    <2>1. ASSUME NEW c \in Attempts, Enlist(c)
          PROVE  \A d \in Attempts : at'[d] = "idle" => d \notin clean'
        BY <2>1 DEF Enlist, Goto, AloneInv
    <2>2. ASSUME NEW c \in Attempts, Proceed(c) \/ Disconnect(c)
          PROVE  \A d \in Attempts : at'[d] = "idle" => d \notin clean'
        BY <2>2, Moves DEF AloneInv
    <2>3. CASE \/ LinkUp \/ LinkFails \/ Cancel \/ LinkLost
               \/ Answer \/ Stream \/ Notification \/ UNCHANGED vars
        <3>1. UNCHANGED <<at, clean>>
            BY <2>3
               DEF LinkUp, LinkFails, Cancel, LinkLost, Answer, Stream, Notification, vars
        <3>. QED  BY <3>1 DEF AloneInv
    <2>. QED  BY <2>1, <2>2, <2>3 DEF Next
<1>1. \A c, d \in Attempts : at'[c] \in UnderWay /\ at'[d] \in UnderWay => c = d
    <2>1. ASSUME NEW c \in Attempts, Enlist(c)
          PROVE  \A d, e \in Attempts : at'[d] \in UnderWay /\ at'[e] \in UnderWay => d = e
        BY <2>1 DEF Enlist, Goto, UnderWay
    <2>2. ASSUME NEW c \in Attempts, Proceed(c) \/ Disconnect(c)
          PROVE  \A d, e \in Attempts : at'[d] \in UnderWay /\ at'[e] \in UnderWay => d = e
        BY <2>2, Moves DEF AloneInv
    <2>3. CASE UNCHANGED at
        BY <2>3 DEF AloneInv
    <2>4. CASE \/ LinkUp \/ LinkFails \/ Cancel \/ LinkLost
               \/ Answer \/ Stream \/ Notification \/ UNCHANGED vars
        BY <2>3, <2>4 DEF LinkUp, LinkFails, Cancel, LinkLost, Answer, Stream, Notification, vars
    <2>. QED  BY <2>1, <2>2, <2>4 DEF Next
<1>2. ~link' => asked' = <<>> /\ ~streaming'
    <2>1. CASE UNCHANGED <<link, asked, streaming>>
        BY <2>1 DEF AloneInv
    <2>2. ASSUME NEW c \in Attempts, Enlist(c) \/ Disconnect(c)
          PROVE  UNCHANGED <<link, asked, streaming>>
        BY <2>2 DEF Enlist, Disconnect
    <2>3. ASSUME NEW c \in Attempts,
                 \/ Call(c) \/ TimeOut(c) \/ GiveUp(c) \/ Result(c) \/ Described(c)
                 \/ Walked(c) \/ Fail(c)
          PROVE  UNCHANGED <<link, asked, streaming>>
        BY <2>3 DEF Call, TimeOut, GiveUp, Result, Described, Walked, Fail
    <2>4. ASSUME NEW c \in Attempts, NEW op \in Operations, Answered(c, op) \/ Expired(c, op)
          PROVE  UNCHANGED <<link, asked, streaming>>
        BY <2>4 DEF Answered, Expired
    <2>5. ASSUME NEW c \in Attempts, NEW op \in Operations, Issue(c, op)
          PROVE  UNCHANGED <<link, streaming>> /\ (~link => UNCHANGED asked)
        BY <2>5 DEF Issue
    <2>6. CASE LinkUp \/ LinkFails \/ LinkLost \/ Notification \/ UNCHANGED vars
        BY <2>6 DEF LinkUp, LinkFails, LinkLost, Drop, Notification, vars, AloneInv
    <2>7. CASE Cancel
        BY <2>7 DEF Cancel, Drop, AloneInv
    <2>8. CASE Answer \/ Stream
        BY <2>8 DEF Answer, Stream
    <2>. QED
        BY <2>1, <2>2, <2>3, <2>4, <2>5, <2>6, <2>7, <2>8 DEF Next, Proceed, AloneInv
<1>. QED  BY <1>1, <1>2, <1>3 DEF AloneInv

----------------------------------------------------------------------------
\* Results and callbacks.

LEMMA StepOwner ==
    ASSUME TypeOK, PendingInv, OwnerInv, AloneInv, [Next]_vars
    PROVE  OwnerInv'
<1>0. /\ at \in [Attempts -> Places] /\ mail \in [Attempts -> Seq({"up", "down"})]
      /\ pending \in Attempts \cup {NoAttempt}
    BY TypeParts DEF RestType, MailType
<1>. USE <1>0
<1>1. ASSUME NEW c \in Attempts, Enlist(c) PROVE OwnerInv'
    <2>1. \A d \in Attempts : at[d] \notin UnderWay
        BY <1>1 DEF Enlist, UnderWay
    <2>2. \A d \in Attempts : at'[d] \in UnderWay => d = c
        <3>1. \A d \in Attempts \ {c} : at'[d] = at[d]
            BY <1>1 DEF Enlist, Goto
        <3>. QED  BY <2>1, <3>1
    <2>3. at'[c] = "failed" \/ (at'[c] = "calling" /\ pending' = c)
        <3>1. \/ at' = [at EXCEPT ![c] = "calling"] /\ pending' = c
              \/ at' = [at EXCEPT ![c] = "failed"]
            BY <1>1 DEF Enlist, Goto
        <3>. QED  BY <1>1, <3>1
    <2>. QED  BY <2>2, <2>3 DEF OwnerInv, UnderWay, Connected, Places, Over
<1>2. ASSUME NEW c \in Attempts, Call(c) \/ TimeOut(c) PROVE OwnerInv'
    BY <1>2 DEF Call, TimeOut, Goto, OwnerInv, UnderWay, Connected, Places, Over
<1>3. ASSUME NEW c \in Attempts, GiveUp(c) \/ Fail(c) \/ Disconnect(c) PROVE OwnerInv'
    <2>1. at[c] \in UnderWay /\ (\E place \in Over : at' = [at EXCEPT ![c] = place])
          /\ UNCHANGED delegate
        BY <1>3 DEF GiveUp, Fail, Disconnect, Leave, Goto, UnderWay, Places, Over
    <2>2. \A d \in Attempts : at'[d] \notin UnderWay
        BY <2>1 DEF AloneInv, UnderWay
    <2>. QED  BY <2>2 DEF OwnerInv, UnderWay, Connected, Places, Over
<1>4. ASSUME NEW c \in Attempts, Result(c) PROVE OwnerInv'
    <2>1. \A d \in Attempts : d # c => at[d] \notin UnderWay
        BY <1>4 DEF Result, AloneInv, UnderWay, Places, Over
    <2>2. \/ at' = [at EXCEPT ![c] = "connected"] /\ delegate' = c
          \/ at' = [at EXCEPT ![c] = "failed"]
        BY <1>4 DEF Result, Leave, Goto
    <2>. QED  BY <2>1, <2>2 DEF OwnerInv, UnderWay, Connected, Places, Over
<1>5. ASSUME NEW c \in Attempts, at[c] \in Connected, at'[c] \in Connected,
             \A d \in Attempts \ {c} : at'[d] = at[d],
             UNCHANGED <<mail, pending, delegate>>
      PROVE  OwnerInv'
    BY <1>5 DEF OwnerInv, Connected
<1>6. ASSUME NEW c \in Attempts, Described(c) \/ Walked(c) PROVE OwnerInv'
    <2>1. at[c] \in Connected /\ at'[c] \in Connected
          /\ (\A d \in Attempts \ {c} : at'[d] = at[d])
          /\ UNCHANGED <<mail, pending, delegate>>
        BY <1>6 DEF Described, Walked, Goto, Connected, UnderWay, Places, Over
    <2>. QED  BY <1>5, <2>1
<1>7. ASSUME NEW c \in Attempts, NEW op \in Operations,
             Issue(c, op) \/ Answered(c, op) \/ Expired(c, op)
      PROVE  OwnerInv'
    <2>1. op \in Connected
        BY <1>7 DEF Operations, Channel, Connected, UnderWay, Places, Over
    <2>2. at[c] \in Connected /\ at'[c] \in Connected
          /\ (\A d \in Attempts \ {c} : at'[d] = at[d])
          /\ UNCHANGED <<mail, pending, delegate>>
        <3>1. CASE Issue(c, op)
            BY <2>1, <3>1 DEF Issue, Ready, Goto, Connected, UnderWay, Places, Over
        <3>2. CASE Answered(c, op) \/ Expired(c, op)
            <4>1. PICK place \in {"walking", "failing", "naming", "describing", "session"} :
                     at' = [at EXCEPT ![c] = place]
                BY <1>7, <3>2 DEF Answered, Expired, Leads, Operations, Channel, Goto
            <4>2. place \in Connected
                BY DEF Connected, UnderWay, Places, Over
            <4>. QED  BY <2>1, <3>2, <4>1, <4>2 DEF Answered, Expired
        <3>. QED  BY <1>7, <3>1, <3>2
    <2>. QED  BY <1>5, <2>2
<1>8. ASSUME NEW result \in {"up", "down"}, Complete(result), UNCHANGED <<at, delegate>>
      PROVE  OwnerInv'
    <2>1. \A c \in Attempts : mail'[c] = (IF c = pending THEN <<result>> ELSE mail[c])
        <3>1. CASE pending = NoAttempt
            BY <1>8, <3>1 DEF Complete
        <3>2. CASE pending # NoAttempt
            <4>1. pending \in Attempts /\ mail[pending] = <<>>
                BY <3>2 DEF PendingInv
            <4>. QED  BY <1>8, <3>2, <4>1 DEF Complete
        <3>. QED  BY <3>1, <3>2
    <2>2. <<result>> # <<>>
        OBVIOUS
    <2>. QED  BY <1>8, <2>1, <2>2 DEF OwnerInv
<1>9. CASE LinkUp \/ LinkFails \/ Cancel \/ LinkLost
    <2>1. CASE Complete("up") \/ Complete("down")
        BY <1>8, <1>9, <2>1 DEF LinkUp, LinkFails, Cancel, LinkLost
    <2>2. CASE UNCHANGED <<mail, pending>>
        BY <1>9, <2>2 DEF LinkUp, LinkFails, Cancel, LinkLost, OwnerInv
    <2>. QED  BY <1>9, <2>1, <2>2 DEF LinkUp, LinkFails, Cancel, LinkLost
<1>10. CASE Answer \/ Stream \/ Notification \/ UNCHANGED vars
    BY <1>10 DEF Answer, Stream, Notification, vars, OwnerInv
<1>. QED
    BY <1>1, <1>2, <1>3, <1>4, <1>6, <1>7, <1>9, <1>10 DEF Next, Proceed

----------------------------------------------------------------------------
\* The requests of the stack.

\* The few sequences of requests there are, and what becomes of them.
LEMMA Words ==
    /\ Append(<<>>, "connect") = <<"connect">> /\ Append(<<>>, "cancel") = <<"cancel">>
    /\ Append(<<"connect">>, "cancel") = <<"connect", "cancel">>
    /\ Tail(<<"connect">>) = <<>> /\ Tail(<<"cancel">>) = <<>>
    /\ Tail(<<"connect", "cancel">>) = <<"cancel">>
    /\ Head(<<"connect">>) = "connect" /\ Head(<<"cancel">>) = "cancel"
    /\ Head(<<"connect", "cancel">>) = "connect"
    /\ <<"connect">> # <<>> /\ <<"cancel">> # <<>> /\ <<"connect", "cancel">> # <<>>
    /\ Len(<<>>) = 0 /\ Len(<<"connect">>) = 1 /\ Len(<<"cancel">>) = 1
    /\ Head(<<"up">>) = "up" /\ Head(<<"down">>) = "down" /\ <<"up">> # <<>> /\ <<"down">> # <<>>
<1>1. Append(<<>>, "connect") = <<"connect">> /\ Append(<<>>, "cancel") = <<"cancel">>
    OBVIOUS
<1>2. Append(<<"connect">>, "cancel") = <<"connect", "cancel">>
    <2>. DEFINE S == {"connect", "cancel"}
                s == <<"connect">>
                t == Append(s, "cancel")
    <2>1. s \in Seq(S) /\ <<"connect", "cancel">> \in Seq(S)
        OBVIOUS
    <2>2. t \in Seq(S) /\ Len(t) = 2 /\ t[1] = "connect" /\ t[2] = "cancel"
        BY <2>1
    <2>3. Len(<<"connect", "cancel">>) = 2
        OBVIOUS
    <2>4. <<"connect", "cancel">>[1] = "connect" /\ <<"connect", "cancel">>[2] = "cancel"
        OBVIOUS
    <2>. HIDE DEF t
    <2>5. \A i \in 1..2 : t[i] = <<"connect", "cancel">>[i]
        BY <2>2, <2>4
    <2>6. t = <<"connect", "cancel">>
        BY <2>1, <2>2, <2>3, <2>5, SeqEqual
    <2>. QED  BY <2>6 DEF t
<1>3. Tail(<<"connect">>) = <<>> /\ Tail(<<"cancel">>) = <<>>
    OBVIOUS
<1>4. Tail(<<"connect", "cancel">>) = <<"cancel">>
    OBVIOUS
<1>5. /\ Head(<<"connect">>) = "connect" /\ Head(<<"cancel">>) = "cancel"
      /\ Head(<<"connect", "cancel">>) = "connect"
    OBVIOUS
<1>6. /\ Len(<<>>) = 0 /\ Len(<<"connect">>) = 1 /\ Len(<<"cancel">>) = 1
      /\ Len(<<"connect", "cancel">>) = 2 /\ Len(<<"up">>) = 1 /\ Len(<<"down">>) = 1
    OBVIOUS
<1>7. Head(<<"up">>) = "up" /\ Head(<<"down">>) = "down"
    OBVIOUS
<1>. QED  BY <1>1, <1>2, <1>3, <1>4, <1>5, <1>6, <1>7

\* Where an attempt is, apart from the names of the places.
LEMMA PlacesApart ==
    /\ Places = UnderWay \cup Over /\ UnderWay = Linking \cup Connected
    /\ UnderWay \cap Over = {} /\ Linking \cap Connected = {}
    /\ "idle" \in Over /\ "failed" \in Over /\ "closed" \in Over
BY DEF UnderWay, Connected, Places, Over

\* A step between two places of a connection.
ConnectedStep(c) ==
    /\ at[c] \in Connected
    /\ \E place \in Connected : at' = [at EXCEPT ![c] = place]
    /\ UNCHANGED <<mail, pending, delegate, link, work, streaming, clean, lost>>

LEMMA ConnectedSteps ==
    ASSUME NEW c \in Attempts,
           \/ Described(c) \/ Walked(c)
           \/ \E op \in Operations : Issue(c, op) \/ Answered(c, op) \/ Expired(c, op)
    PROVE  ConnectedStep(c)
<1>1. CASE Described(c) \/ Walked(c)
    <2>1. PICK place \in {"walking", "settled", "failing"} : at' = [at EXCEPT ![c] = place]
        BY <1>1 DEF Described, Walked, Goto
    <2>. QED
        BY <1>1, <2>1 DEF Described, Walked, ConnectedStep, Connected, UnderWay, Places, Over
<1>2. ASSUME NEW op \in Operations, Issue(c, op) \/ Answered(c, op) \/ Expired(c, op)
      PROVE  ConnectedStep(c)
    <2>1. op \in Connected
        BY <1>2 DEF Operations, Channel, Connected, UnderWay, Places, Over
    <2>2. CASE Issue(c, op)
        BY <2>1, <2>2 DEF Issue, Ready, Goto, ConnectedStep, Connected, UnderWay, Places, Over
    <2>3. CASE Answered(c, op) \/ Expired(c, op)
        <3>1. PICK place \in {"walking", "failing", "naming", "describing", "session"} :
                 at' = [at EXCEPT ![c] = place]
            BY <1>2, <2>3 DEF Answered, Expired, Leads, Operations, Channel, Goto
        <3>2. place \in Connected
            BY DEF Connected, UnderWay, Places, Over
        <3>. QED  BY <2>1, <2>3, <3>1, <3>2 DEF Answered, Expired, ConnectedStep
    <2>. QED  BY <1>2, <2>2, <2>3
<1>. QED  BY <1>1, <1>2

LEMMA StepWork ==
    ASSUME TypeOK, PendingInv, OwnerInv, AloneInv, WorkInv, [Next]_vars
    PROVE  WorkInv'
<1>0. /\ at \in [Attempts -> Places] /\ mail \in [Attempts -> Seq({"up", "down"})]
      /\ pending \in Attempts \cup {NoAttempt}
    BY TypeParts DEF RestType, MailType
<1>. SUFFICES ASSUME FromRest' PROVE WorkInv'
    BY DEF WorkInv
<1>1. FromRest /\ \A c \in Attempts : Enlist(c) => Quiet
    BY StaysFromRest
<1>. DEFINE Rests == \A c \in Attempts : at[c] \in Over \cup {"aborting"}
            Left  == \/ work = <<>> /\ ~link
                     \/ work = <<"cancel">>
                     \/ work = <<"connect", "cancel">> /\ ~link
            Own(c) == /\ at[c] = "calling" => work = <<>> /\ ~link /\ pending = c
                      /\ at[c] = "waiting" =>
                            \/ work = <<"connect">> /\ ~link /\ pending = c
                            \/ work = <<>> /\ pending # c /\ (Head(mail[c]) = "down" => ~link)
                      /\ at[c] \in Connected => work = <<>>
<1>2. (Rests => Left) /\ \A c \in Attempts : Own(c)
    BY <1>1 DEF WorkInv
<1>3. ASSUME (Rests => Left)', \A c \in Attempts : Own(c)' PROVE WorkInv'
    BY <1>3 DEF WorkInv
<1>4. ASSUME NEW c \in Attempts, at[c] \in UnderWay
      PROVE  /\ \A d \in Attempts \ {c} : at[d] \in Over
             /\ pending \in {c, NoAttempt}
             /\ at[c] = "aborting" => Rests
    BY <1>0, <1>4, PlacesApart DEF AloneInv, PendingInv
<1>5. ASSUME NEW c \in Attempts, Enlist(c) PROVE WorkInv'
    <2>1. work' = <<>> /\ ~link'
        BY <1>1, <1>5 DEF Quiet, Enlist
    <2>2. \/ at' = [at EXCEPT ![c] = "calling"] /\ pending' = c
          \/ at' = [at EXCEPT ![c] = "failed"]
        BY <1>5 DEF Enlist, Goto
    <2>3. \A d \in Attempts \ {c} : at'[d] \in Over
        BY <1>0, <1>5, <2>2 DEF Enlist
    <2>4. at'[c] = "failed" \/ (at'[c] = "calling" /\ pending' = c)
        BY <1>0, <1>5, <2>2
    <2>5. \A d \in Attempts : Own(d)'
        BY <2>1, <2>3, <2>4, PlacesApart DEF Connected, Over
    <2>. QED  BY <1>3, <2>1, <2>5
<1>6. ASSUME NEW c \in Attempts, Call(c) PROVE WorkInv'
    <2>1. at[c] = "calling" /\ at' = [at EXCEPT ![c] = "waiting"] /\ work' = Append(work, "connect")
          /\ UNCHANGED <<pending, link, mail>>
        BY <1>6 DEF Call, Goto
    <2>2. work' = <<"connect">> /\ ~link' /\ pending' = c
        BY <1>2, <2>1, Words
    <2>3. at'[c] = "waiting" /\ \A d \in Attempts \ {c} : at'[d] \in Over
        BY <1>0, <1>4, <2>1, PlacesApart
    <2>. QED  BY <1>3, <2>2, <2>3, PlacesApart DEF Over, Connected
<1>7. ASSUME NEW c \in Attempts, TimeOut(c) PROVE WorkInv'
    <2>1. at[c] = "waiting" /\ at' = [at EXCEPT ![c] = "aborting"] /\ work' = Append(work, "cancel")
          /\ UNCHANGED <<pending, link, mail>>
        BY <1>7 DEF TimeOut, Goto
    <2>2. Left'
        BY <1>2, <2>1, Words
    <2>3. at'[c] = "aborting" /\ \A d \in Attempts \ {c} : at'[d] \in Over
        BY <1>0, <1>4, <2>1, PlacesApart
    <2>. QED  BY <1>3, <2>2, <2>3, PlacesApart DEF Over, Connected
<1>8. ASSUME NEW c \in Attempts, at[c] \in UnderWay, NEW place \in Over,
             at' = [at EXCEPT ![c] = place], Left'
      PROVE  WorkInv'
    <2>1. \A d \in Attempts : at'[d] \in Over
        BY <1>0, <1>4, <1>8
    <2>. QED  BY <1>3, <1>8, <2>1, PlacesApart DEF Over, Connected
<1>9. ASSUME NEW c \in Attempts, GiveUp(c) PROVE WorkInv'
    <2>1. at[c] = "aborting" /\ at' = [at EXCEPT ![c] = "failed"] /\ UNCHANGED <<work, link>>
        BY <1>9 DEF GiveUp, Leave, Goto
    <2>. QED  BY <1>2, <1>4, <1>8, <2>1, PlacesApart
<1>10. ASSUME NEW c \in Attempts, Result(c) PROVE WorkInv'
    <2>1. mail[c] # <<>> /\ UNCHANGED <<pending, work, link>>
        BY <1>10 DEF Result
    <2>2. pending # c
        BY <2>1 DEF PendingInv
    <2>3. CASE at[c] = "aborting"
        <3>1. at' = [at EXCEPT ![c] = "failed"]
            BY <1>10, <2>3 DEF Result, Leave, Goto
        <3>. QED  BY <1>2, <1>4, <1>8, <2>1, <2>3, <3>1, PlacesApart
    <2>4. CASE at[c] = "waiting"
        <3>1. work = <<>> /\ (Head(mail[c]) = "down" => ~link)
            BY <1>2, <2>2, <2>4
        <3>2. CASE at' = [at EXCEPT ![c] = "connected"]
            <4>1. at'[c] = "connected" /\ \A d \in Attempts \ {c} : at'[d] \in Over
                BY <1>0, <1>4, <2>4, <3>2, PlacesApart
            <4>. QED
                BY <1>3, <2>1, <3>1, <4>1, PlacesApart DEF Connected, UnderWay, Over, Places
        <3>3. CASE at' = [at EXCEPT ![c] = "failed"] /\ ~(Head(mail[c]) = "up" /\ link)
            <4>1. Head(mail[c]) \in {"up", "down"}
                BY <1>0, <2>1, Requests
            <4>. QED  BY <1>8, <2>1, <2>4, <3>1, <3>3, <4>1, PlacesApart
        <3>. QED  BY <1>10, <2>4, <3>2, <3>3 DEF Result, Leave, Goto
    <2>. QED  BY <1>10, <2>3, <2>4 DEF Result
<1>11. ASSUME NEW c \in Attempts, Fail(c) \/ Disconnect(c) PROVE WorkInv'
    <2>1. at[c] \in Connected /\ work' = Append(work, "cancel")
          /\ \E place \in Over : at' = [at EXCEPT ![c] = place]
        BY <1>11 DEF Fail, Disconnect, Leave, Goto, Connected, UnderWay, Places, Over
    <2>2. work' = <<"cancel">>
        BY <1>2, <2>1, Words
    <2>. QED  BY <1>8, <2>1, <2>2, PlacesApart
<1>12. ASSUME NEW c \in Attempts, ConnectedStep(c) PROVE WorkInv'
    <2>1. work' = <<>> /\ at'[c] \in Connected
        BY <1>0, <1>2, <1>12 DEF ConnectedStep
    <2>2. \A d \in Attempts \ {c} : at'[d] \in Over
        BY <1>0, <1>4, <1>12, PlacesApart DEF ConnectedStep
    <2>. QED  BY <1>3, <2>1, <2>2, PlacesApart DEF Over
<1>13. ASSUME NEW result \in {"up", "down"}, Complete(result)
       PROVE  /\ pending' = NoAttempt
              /\ \A c \in Attempts : mail'[c] = IF c = pending THEN <<result>> ELSE mail[c]
    <2>1. CASE pending = NoAttempt
        BY <1>13, <2>1 DEF Complete
    <2>2. CASE pending # NoAttempt
        <3>1. pending \in Attempts /\ mail[pending] = <<>>
            BY <1>0, <2>2 DEF PendingInv
        <3>. QED  BY <1>0, <1>13, <2>2, <3>1 DEF Complete
    <2>. QED  BY <2>1, <2>2
<1>14. Rests \/ \E c \in Attempts : at[c] \in {"calling", "waiting"} \cup Connected
    BY <1>0, PlacesApart
<1>15. ASSUME LinkUp \/ LinkFails PROVE WorkInv'
    <2>1. PICK result \in {"up", "down"} :
             /\ Complete(result) /\ (result = "down" => ~link')
             /\ work # <<>> /\ Head(work) = "connect" /\ work' = Tail(work) /\ UNCHANGED at
        BY <1>15 DEF LinkUp, LinkFails
    <2>2. CASE Rests
        <3>1. work' = <<"cancel">>
            BY <1>2, <2>1, <2>2, Words
        <3>. QED  BY <1>3, <2>1, <2>2, <3>1, PlacesApart DEF Over, Connected
    <2>3. ASSUME NEW c \in Attempts, at[c] \in {"calling", "waiting"} \cup Connected
          PROVE  WorkInv'
        <3>1. at[c] = "waiting" /\ work = <<"connect">> /\ pending = c
            BY <1>2, <2>1, <2>3
        <3>2. work' = <<>> /\ pending' = NoAttempt /\ mail'[c] = <<result>>
            BY <1>13, <2>1, <3>1, Words
        <3>3. Own(c)'
            BY <2>1, <3>1, <3>2, Words, PlacesApart
        <3>4. \A d \in Attempts \ {c} : at[d] \in Over
            BY <1>4, <3>1, PlacesApart
        <3>. QED  BY <1>3, <2>1, <3>1, <3>3, <3>4, PlacesApart DEF Over
    <2>. QED  BY <1>14, <2>2, <2>3
<1>16. ASSUME Cancel PROVE WorkInv'
    <2>1. work # <<>> /\ UNCHANGED at
        BY <1>16 DEF Cancel
    <2>2. CASE Rests
        <3>0. work = <<"cancel">> \/ work = <<"connect", "cancel">>
            BY <1>2, <2>1, <2>2
        <3>1. work' = <<>> /\ ~link'
            <4>1. CASE work = <<"cancel">>
                BY <1>16, <4>1, Words DEF Cancel, Drop
            <4>2. CASE work = <<"connect", "cancel">>
                BY <1>16, <4>2, Words DEF Cancel, Drop
            <4>. QED  BY <3>0, <4>1, <4>2
        <3>. QED  BY <1>3, <2>1, <2>2, <3>1, PlacesApart DEF Over, Connected
    <2>3. ASSUME NEW c \in Attempts, at[c] \in {"calling", "waiting"} \cup Connected
          PROVE  WorkInv'
        <3>1. work = <<"connect">>
            BY <1>2, <2>1, <2>3
        <3>2. Len(work) = 1 /\ Head(work) = "connect"
            BY <3>1, Words
        <3>3. Len(work) > 1 \/ Head(work) = "cancel"
            BY <1>16 DEF Cancel
        <3>. QED  BY <3>2, <3>3
    <2>. QED  BY <1>14, <2>2, <2>3
<1>17. ASSUME LinkLost PROVE WorkInv'
    <2>1. link /\ ~link' /\ UNCHANGED <<at, work>> /\ Complete("down")
        BY <1>17 DEF LinkLost, Drop
    <2>2. pending' = NoAttempt
        BY <1>13, <2>1
    <2>3. (Rests => Left)'
        BY <1>2, <2>1
    <2>4. \A c \in Attempts : Own(c)'
        BY <1>2, <2>1, <2>2
    <2>. QED  BY <1>3, <2>3, <2>4
<1>18. ASSUME Answer \/ Stream \/ Notification \/ UNCHANGED vars PROVE WorkInv'
    <2>1. UNCHANGED <<at, mail, pending, link, work>>
        BY <1>18 DEF Answer, Stream, Notification, vars
    <2>2. (Rests => Left)' /\ \A c \in Attempts : Own(c)'
        BY <1>2, <2>1
    <2>. QED  BY <1>3, <2>2
<1>. QED
    BY <1>5, <1>6, <1>7, <1>9, <1>10, <1>11, <1>12, <1>15, <1>16, <1>17, <1>18, ConnectedSteps
       DEF Next, Proceed

----------------------------------------------------------------------------
\* Notifications and callbacks.

LEMMA StepCallback ==
    ASSUME TypeOK, PendingInv, OwnerInv, AloneInv, CallbackInv, [Next]_vars
    PROVE  CallbackInv'
<1>0. /\ at \in [Attempts -> Places] /\ cb \in [Attempts -> BOOLEAN]
      /\ asked \in Seq([op : Operations, no : Nat]) /\ lost \in BOOLEAN
    BY TypeParts DEF RestType, AskedType
<1>. SUFFICES ASSUME FromRest' PROVE CallbackInv'
    BY DEF CallbackInv
<1>1. FromRest /\ \A c \in Attempts : Enlist(c) => Quiet
    BY StaysFromRest
<1>. DEFINE Asks    == \E k \in DOMAIN asked : asked[k].op = "notify"
            Silent  == asked = <<>> /\ ~streaming
            Served  == delegate \in Attempts /\ cb[delegate]
<1>2. /\ \A c \in Attempts : at[c] \in Linking => Silent
      /\ streaming \/ Asks => Served
      /\ ~lost
    BY <1>1 DEF CallbackInv
<1>3. ASSUME \A c \in Attempts : at'[c] \in Linking => Silent',
             (streaming \/ Asks => Served)', ~lost'
      PROVE  CallbackInv'
    BY <1>3 DEF CallbackInv
<1>4. ASSUME NEW c \in Attempts, at[c] \in UnderWay
      PROVE  \A d \in Attempts \ {c} : at[d] \in Over
    BY <1>0, <1>4, PlacesApart DEF AloneInv
<1>5. Silent => ~Asks
    OBVIOUS
<1>6. ASSUME NEW c \in Attempts, Enlist(c) PROVE CallbackInv'
    <2>1. Silent'
        BY <1>1, <1>6 DEF Quiet, AloneInv, Enlist
    <2>2. ~Asks'
        BY <2>1
    <2>. QED  BY <1>2, <1>3, <1>6, <2>1, <2>2 DEF Enlist
<1>7. ASSUME NEW c \in Attempts, Call(c) \/ TimeOut(c) PROVE CallbackInv'
    <2>1. Silent
        BY <1>2, <1>7 DEF Call, TimeOut
    <2>2. UNCHANGED <<asked, streaming, lost>>
        BY <1>7 DEF Call, TimeOut
    <2>. QED  BY <1>2, <1>3, <1>5, <2>1, <2>2
<1>8. ASSUME NEW c \in Attempts, GiveUp(c) \/ Fail(c) \/ Disconnect(c) PROVE CallbackInv'
    <2>1. at[c] \in UnderWay /\ (\E place \in Over : at' = [at EXCEPT ![c] = place])
          /\ UNCHANGED <<asked, streaming, lost, delegate, cb>>
        BY <1>8 DEF GiveUp, Fail, Disconnect, Leave, Goto, UnderWay, Places, Over
    <2>2. \A d \in Attempts : at'[d] \notin Linking
        BY <1>0, <1>4, <2>1, PlacesApart
    <2>. QED  BY <1>2, <1>3, <2>1, <2>2
<1>9. ASSUME NEW c \in Attempts, Result(c) PROVE CallbackInv'
    <2>1. Silent /\ UNCHANGED <<asked, streaming, lost>>
        BY <1>2, <1>9 DEF Result
    <2>. QED  BY <1>2, <1>3, <1>5, <2>1
<1>10. ASSUME NEW c \in Attempts, ConnectedStep(c), UNCHANGED <<asked, cb>>
       PROVE  CallbackInv'
    <2>1. \A d \in Attempts : at'[d] \notin Linking
        BY <1>0, <1>4, <1>10, PlacesApart DEF ConnectedStep
    <2>. QED  BY <1>2, <1>3, <1>10, <2>1 DEF ConnectedStep
<1>11. ASSUME NEW c \in Attempts, NEW op \in Operations, Issue(c, op) PROVE CallbackInv'
    <2>0. ConnectedStep(c)
        BY <1>11, ConnectedSteps
    <2>1. (\A d \in Attempts : at'[d] \notin Linking) /\ delegate = c
        BY <1>0, <1>4, <2>0, PlacesApart DEF ConnectedStep, OwnerInv
    <2>2. cb'[c] = (cb[c] \/ op = "notify") /\ UNCHANGED <<streaming, delegate, lost>>
        BY <1>0, <1>11 DEF Issue
    <2>3. Asks' => Asks \/ op = "notify"
        <3>1. CASE UNCHANGED asked
            BY <3>1
        <3>2. CASE asked' = Append(asked, [op |-> op, no |-> no[c] + 1])
            <4>1. ASSUME NEW k \in DOMAIN asked', asked'[k].op = "notify", op # "notify"
                  PROVE  k \in DOMAIN asked /\ asked[k].op = "notify"
                BY <1>0, <3>2, <4>1
            <4>. QED  BY <4>1
        <3>. QED  BY <1>11, <3>1, <3>2 DEF Issue
    <2>. QED  BY <1>0, <1>2, <1>3, <2>1, <2>2, <2>3
<1>12. ASSUME NEW c \in Attempts,
              \/ Described(c) \/ Walked(c)
              \/ \E op \in Operations : Answered(c, op) \/ Expired(c, op)
       PROVE  CallbackInv'
    <2>1. UNCHANGED <<asked, cb>>
        BY <1>12 DEF Described, Walked, Answered, Expired
    <2>. QED  BY <1>10, <1>12, <2>1, ConnectedSteps
<1>13. ASSUME LinkUp \/ LinkFails \/ Cancel \/ LinkLost \/ UNCHANGED vars PROVE CallbackInv'
    <2>1. UNCHANGED <<at, delegate, cb, lost>> /\ (Silent' \/ UNCHANGED <<asked, streaming>>)
        BY <1>13 DEF LinkUp, LinkFails, Cancel, LinkLost, Drop, vars
    <2>2. Silent' => ~Asks'
        OBVIOUS
    <2>. QED  BY <1>2, <1>3, <2>1, <2>2
<1>14. ASSUME Answer PROVE CallbackInv'
    <2>1. asked # <<>> /\ asked' = Tail(asked)
          /\ UNCHANGED <<at, delegate, cb, streaming, lost>>
        BY <1>14 DEF Answer
    <2>2. \A c \in Attempts : at[c] \notin Linking
        BY <1>2, <2>1
    <2>3. Asks' => Asks
        <3>1. ASSUME NEW k \in DOMAIN asked', asked'[k].op = "notify"
              PROVE  k + 1 \in DOMAIN asked /\ asked[k + 1].op = "notify"
            BY <1>0, <2>1, <3>1
        <3>. QED  BY <3>1
    <2>. QED  BY <1>2, <1>3, <2>1, <2>2, <2>3
<1>15. ASSUME Stream PROVE CallbackInv'
    <2>1. Asks /\ UNCHANGED <<at, asked, delegate, cb, lost>>
        BY <1>15 DEF Stream
    <2>2. \A c \in Attempts : at[c] \notin Linking
        BY <1>2, <1>5, <2>1
    <2>. QED  BY <1>2, <1>3, <2>1, <2>2
<1>16. ASSUME Notification PROVE CallbackInv'
    <2>1. streaming /\ UNCHANGED <<at, asked, streaming, delegate, cb>>
          /\ lost' = (lost \/ ~cb[delegate])
        BY <1>16 DEF Notification
    <2>. QED  BY <1>2, <1>3, <2>1
<1>. QED
    BY <1>6, <1>7, <1>8, <1>9, <1>11, <1>12, <1>13, <1>14, <1>15, <1>16 DEF Next, Proceed

----------------------------------------------------------------------------
\* Events and operations.

LEMMA StepEvent ==
    ASSUME TypeOK, PendingInv, OwnerInv, AloneInv, CallbackInv, EventInv, [Next]_vars
    PROVE  EventInv'
<1>0. /\ at \in [Attempts -> Places] /\ cb \in [Attempts -> BOOLEAN]
      /\ no \in [Attempts -> Nat] /\ chan \in [Attempts -> [Channels -> Seq(Token)]]
      /\ asked \in Seq([op : Operations, no : Nat])
    BY TypeParts DEF RestType, ChanType, AskedType
<1>. SUFFICES ASSUME FromRest' PROVE EventInv'
    BY DEF EventInv
<1>. DEFINE Empty(c) == \A ch \in Channels : chan[c][ch] = <<>>
            Waits(c) == /\ at[c] \in Operations
                        /\ asked = <<[op |-> at[c], no |-> no[c]]>> /\ Empty(c)
            Hears(c) == \A ch \in Channels : chan[c][ch] # <<>> =>
                           /\ Head(chan[c][ch]).no = no[c]
                           /\ at[c] \in Operations /\ Channel[at[c]] = ch
            Fresh(c) == c \notin late /\ ~cb[c]
            EventsOf(c) == /\ at[c] \in Linking \cup {"idle"} => Empty(c)
                           /\ at[c] \in Connected /\ Fresh(c) =>
                                 (asked = <<>> \/ Waits(c)) /\ Hears(c)
                           /\ c \in mistaken => ~Fresh(c)
<1>1. FromRest
    BY StaysFromRest
<1>2. \A c \in Attempts : EventsOf(c)
    BY <1>1 DEF EventInv
<1>3. ASSUME \A c \in Attempts : EventsOf(c)' PROVE EventInv'
    BY <1>3 DEF EventInv
<1>4. ASSUME NEW c \in Attempts, at[c] \in UnderWay
      PROVE  \A d \in Attempts \ {c} : at[d] \in Over
    BY <1>0, <1>4, PlacesApart DEF AloneInv
<1>5. ASSUME NEW c \in Attempts, at[c] \in Linking PROVE asked = <<>> /\ ~streaming
    BY <1>1, <1>5 DEF CallbackInv
\* Nothing that counts changes for an attempt that is not under way.
<1>6. ASSUME NEW d \in Attempts, at[d] \in Over, at'[d] = at[d], chan'[d] = chan[d],
             cb'[d] = cb[d], d \in late' <=> d \in late, d \in mistaken' <=> d \in mistaken
      PROVE  EventsOf(d)'
    BY <1>2, <1>6, PlacesApart
<1>7. ASSUME NEW c \in Attempts, EventsOf(c)', \A d \in Attempts \ {c} : at[d] \in Over,
             \A d \in Attempts \ {c} :
                /\ at'[d] = at[d] /\ chan'[d] = chan[d] /\ cb'[d] = cb[d]
                /\ (d \in late' <=> d \in late) /\ (d \in mistaken' <=> d \in mistaken)
      PROVE  EventInv'
    BY <1>3, <1>6, <1>7
<1>8. ASSUME NEW c \in Attempts, Enlist(c) PROVE EventInv'
    <2>1. at[c] = "idle" /\ (\A d \in Attempts : at[d] \in Over)
          /\ (at' = [at EXCEPT ![c] = "calling"] \/ at' = [at EXCEPT ![c] = "failed"])
          /\ UNCHANGED <<chan, cb, late, mistaken>>
        BY <1>8 DEF Enlist, Goto
    <2>2. at'[c] \in {"calling", "failed"} /\ \A d \in Attempts \ {c} : at'[d] = at[d]
        BY <1>0, <2>1
    <2>3. EventsOf(c)'
        BY <1>2, <2>1, <2>2, PlacesApart
    <2>. QED  BY <1>7, <2>1, <2>2, <2>3
<1>9. ASSUME NEW c \in Attempts, Call(c) \/ TimeOut(c) PROVE EventInv'
    <2>1. at[c] \in Linking /\ (\E place \in Linking : at' = [at EXCEPT ![c] = place])
          /\ UNCHANGED <<chan, cb, late, mistaken>>
        BY <1>9 DEF Call, TimeOut, Goto
    <2>2. at'[c] \in Linking /\ \A d \in Attempts \ {c} : at'[d] = at[d]
        BY <1>0, <2>1
    <2>3. EventsOf(c)'
        BY <1>2, <2>1, <2>2, PlacesApart
    <2>4. \A d \in Attempts \ {c} : at[d] \in Over
        BY <1>4, <2>1, PlacesApart
    <2>. QED  BY <1>7, <2>1, <2>2, <2>3, <2>4
<1>10. ASSUME NEW c \in Attempts, at[c] \in UnderWay, NEW place \in {"failed", "closed"},
              Leave(c, place), UNCHANGED cb
       PROVE  EventInv'
    <2>1. at' = [at EXCEPT ![c] = place] /\ late' = late \ {c} /\ mistaken' = mistaken \ {c}
          /\ chan' = [chan EXCEPT ![c] = [ch \in Channels |-> <<>>]]
        BY <1>10 DEF Leave, Goto
    <2>2. at'[c] = place /\ \A d \in Attempts \ {c} : at'[d] = at[d] /\ chan'[d] = chan[d]
        BY <1>0, <1>10, <2>1
    <2>3. place \notin Linking \cup {"idle"} /\ place \notin Connected
        BY <1>10, PlacesApart
    <2>4. EventsOf(c)'
        BY <2>1, <2>2, <2>3
    <2>5. \A d \in Attempts \ {c} : at[d] \in Over
        BY <1>4, <1>10
    <2>. QED  BY <1>7, <1>10, <2>1, <2>2, <2>4, <2>5
<1>11. ASSUME NEW c \in Attempts, GiveUp(c) \/ Fail(c) \/ Disconnect(c) PROVE EventInv'
    <2>1. at[c] \in UnderWay /\ (\E place \in {"failed", "closed"} : Leave(c, place))
          /\ UNCHANGED cb
        BY <1>11 DEF GiveUp, Fail, Disconnect, UnderWay, Places, Over
    <2>. QED  BY <1>10, <2>1
<1>12. ASSUME NEW c \in Attempts, Result(c) PROVE EventInv'
    <2>1. at[c] \in Linking /\ UNCHANGED <<asked, cb>>
        BY <1>12 DEF Result
    <2>2. CASE Goto(c, "connected") /\ UNCHANGED <<no, chan, late, mistaken>>
        <3>1. at'[c] = "connected" /\ \A d \in Attempts \ {c} : at'[d] = at[d]
            BY <1>0, <2>2 DEF Goto
        <3>2. Empty(c) /\ asked = <<>>
            BY <1>2, <1>5, <2>1
        <3>3. at'[c] \notin Linking \cup {"idle"}
            BY <3>1
        <3>4. EventsOf(c)'
            BY <1>2, <2>1, <2>2, <3>2, <3>3
        <3>5. \A d \in Attempts \ {c} : at[d] \in Over
            BY <1>4, <2>1, PlacesApart
        <3>. QED  BY <1>7, <2>1, <2>2, <3>1, <3>4, <3>5
    <2>3. CASE Leave(c, "failed")
        BY <1>10, <2>1, <2>3, PlacesApart
    <2>. QED  BY <1>12, <2>2, <2>3 DEF Result
<1>13. ASSUME NEW c \in Attempts, ConnectedStep(c)
       PROVE  /\ \A d \in Attempts \ {c} : at[d] \in Over /\ at'[d] = at[d]
              /\ at[c] \in Connected /\ at'[c] \in Connected
              /\ at'[c] \notin Linking \cup {"idle"}
    BY <1>0, <1>4, <1>13, PlacesApart DEF ConnectedStep
<1>14. ASSUME NEW c \in Attempts, Described(c) \/ Walked(c) PROVE EventInv'
    <2>1. ConnectedStep(c) /\ UNCHANGED <<asked, no, chan, cb, late, mistaken>>
          /\ at[c] \in {"describing", "walking"}
        BY <1>14, ConnectedSteps DEF Described, Walked
    <2>2. at[c] \notin Operations
        BY <2>1 DEF Operations, Channel
    <2>3. EventsOf(c)'
        BY <1>2, <1>13, <2>1, <2>2
    <2>. QED  BY <1>7, <1>13, <2>1, <2>3
<1>15. ASSUME NEW c \in Attempts, NEW op \in Operations, Issue(c, op) PROVE EventInv'
    <2>1. ConnectedStep(c) /\ UNCHANGED <<chan, late, mistaken>>
        BY <1>15, ConnectedSteps DEF Issue
    <2>2. /\ at' = [at EXCEPT ![c] = op] /\ no' = [no EXCEPT ![c] = @ + 1]
          /\ cb' = [cb EXCEPT ![c] = @ \/ op = "notify"]
          /\ asked' = asked \/ asked' = Append(asked, [op |-> op, no |-> no[c] + 1])
        BY <1>15 DEF Issue, Goto
    <2>3. /\ at'[c] = op /\ no'[c] = no[c] + 1 /\ cb'[c] = (cb[c] \/ op = "notify")
          /\ \A d \in Attempts \ {c} : cb'[d] = cb[d]
        BY <1>0, <2>2
    <2>4. at[c] \notin Operations
        BY <1>15 DEF Issue, Ready, Operations, Channel
    <2>5. ASSUME Fresh(c)' PROVE (asked = <<>> \/ Waits(c))' /\ Hears(c)'
        <3>1. Fresh(c)
            BY <2>1, <2>3, <2>5
        <3>2. asked = <<>> /\ Empty(c)
            BY <1>2, <1>13, <2>1, <2>4, <3>1
        <3>3. Append(<<>>, [op |-> op, no |-> no[c] + 1]) = <<[op |-> op, no |-> no[c] + 1]>>
            OBVIOUS
        <3>4. asked' = <<>> \/ asked' = <<[op |-> at'[c], no |-> no'[c]]>>
            BY <2>2, <2>3, <3>2, <3>3
        <3>. QED  BY <1>15, <2>1, <2>3, <3>2, <3>4
    <2>6. c \in mistaken' => ~Fresh(c)'
        BY <1>2, <2>1, <2>3
    <2>7. EventsOf(c)'
        BY <1>13, <2>1, <2>5, <2>6
    <2>. QED  BY <1>7, <1>13, <2>1, <2>3, <2>7
<1>16. ASSUME NEW c \in Attempts, NEW op \in Operations, Answered(c, op) PROVE EventInv'
    <2>1. ConnectedStep(c) /\ UNCHANGED <<asked, no, cb, late>>
        BY <1>16, ConnectedSteps DEF Answered
    <2>2. /\ at[c] = op /\ chan[c][Channel[op]] # <<>>
          /\ chan' = [chan EXCEPT ![c][Channel[op]] = <<>>]
          /\ mistaken' = IF Head(chan[c][Channel[op]]).no = no[c]
                         THEN mistaken ELSE mistaken \cup {c}
        BY <1>16 DEF Answered
    <2>3. Channel[op] \in Channels
        BY <1>16, OperationChannels
    <2>4. /\ \A ch \in Channels : chan'[c][ch] = IF ch = Channel[op] THEN <<>> ELSE chan[c][ch]
          /\ \A d \in Attempts \ {c} : chan'[d] = chan[d]
        BY <1>0, <2>2, <2>3
    <2>5. ASSUME Fresh(c) PROVE asked' = <<>> /\ Empty(c)' /\ UNCHANGED mistaken
        <3>1. (asked = <<>> \/ Waits(c)) /\ Hears(c)
            BY <1>2, <1>13, <2>1, <2>5
        <3>2. asked = <<>>
            BY <2>2, <2>3, <3>1
        <3>3. Head(chan[c][Channel[op]]).no = no[c]
            BY <2>2, <2>3, <3>1
        <3>4. \A ch \in Channels : chan[c][ch] # <<>> => ch = Channel[op]
            BY <2>2, <3>1
        <3>. QED  BY <2>1, <2>2, <2>4, <3>2, <3>3, <3>4
    <2>6. Fresh(c)' <=> Fresh(c)
        BY <2>1
    <2>7. EventsOf(c)'
        <3>1. CASE Fresh(c)
            <4>1. asked' = <<>> /\ Hears(c)' /\ c \notin mistaken'
                BY <1>2, <2>5, <3>1
            <4>. QED  BY <1>13, <2>1, <4>1
        <3>2. CASE ~Fresh(c)
            BY <1>13, <2>1, <2>6, <3>2
        <3>. QED  BY <3>1, <3>2
    <2>8. \A d \in Attempts \ {c} : d \in mistaken' <=> d \in mistaken
        BY <2>2
    <2>. QED  BY <1>7, <1>13, <2>1, <2>4, <2>7, <2>8
<1>17. ASSUME NEW c \in Attempts, NEW op \in Operations, Expired(c, op) PROVE EventInv'
    <2>1. ConnectedStep(c) /\ UNCHANGED <<chan, cb, mistaken>> /\ late' = late \cup {c}
        BY <1>17, ConnectedSteps DEF Expired
    <2>2. EventsOf(c)'
        BY <1>13, <2>1
    <2>. QED  BY <1>7, <1>13, <2>1, <2>2
<1>18. ASSUME UNCHANGED <<at, no, chan, cb, late, mistaken>>, asked' = asked \/ asked' = <<>>
       PROVE  EventInv'
    <2>1. ASSUME NEW c \in Attempts PROVE EventsOf(c)'
        <3>1. EventsOf(c)
            BY <1>2, <2>1
        <3>. QED  BY <1>18, <3>1
    <2>. QED  BY <1>3, <2>1
<1>19. ASSUME LinkUp \/ LinkFails \/ Cancel \/ LinkLost \/ Stream \/ UNCHANGED vars
       PROVE  EventInv'
    <2>1. UNCHANGED <<at, no, chan, cb, late, mistaken>> /\ (asked' = asked \/ asked' = <<>>)
        BY <1>19 DEF LinkUp, LinkFails, Cancel, LinkLost, Drop, Stream, vars
    <2>. QED  BY <1>18, <2>1
\* An event changes the channels of the delegate, if that has a connection, or nothing.
<1>20. ASSUME NEW ch \in Channels, NEW token \in Token, Deliver(ch, token),
              asked # <<>> \/ streaming, chan' # chan
       PROVE  /\ delegate \in Attempts /\ at[delegate] \in Connected
              /\ \A k \in Channels :
                    chan'[delegate][k] = IF k = ch THEN <<token>> ELSE chan[delegate][k]
              /\ \A d \in Attempts \ {delegate} : chan'[d] = chan[d]
    <2>1. at[delegate] \notin Over /\ chan' = [chan EXCEPT ![delegate][ch] = <<token>>]
        BY <1>20 DEF Deliver
    <2>2. delegate \in Attempts
        BY <1>0, <1>20, <2>1
    <2>3. at[delegate] \in Connected
        BY <1>0, <1>5, <1>20, <2>1, <2>2, PlacesApart
    <2>4. \A k \in Channels :
             chan'[delegate][k] = IF k = ch THEN <<token>> ELSE chan[delegate][k]
        BY <1>0, <1>20, <2>1, <2>2
    <2>5. \A d \in Attempts \ {delegate} : chan'[d] = chan[d]
        BY <1>0, <2>1
    <2>. QED  BY <2>2, <2>3, <2>4, <2>5
<1>21. ASSUME Answer PROVE EventInv'
    <2>1. /\ asked # <<>> /\ asked' = Tail(asked) /\ Head(asked) \in [op : Operations, no : Nat]
          /\ UNCHANGED <<at, no, cb, late, mistaken, delegate>>
        BY <1>0, <1>21, Requests DEF Answer
    <2>2. PICK token \in Token : token.no = Head(asked).no
                                 /\ Deliver(Channel[Head(asked).op], token)
        <3>1. \A ok \in BOOLEAN : [no |-> Head(asked).no, ok |-> ok] \in Token
            BY <2>1 DEF Token
        <3>. QED  BY <1>21, <3>1 DEF Answer
    <2>3. Channel[Head(asked).op] \in Channels
        BY <2>1, OperationChannels
    <2>4. ASSUME NEW c \in Attempts, Waits(c)
          PROVE  asked' = <<>> /\ Head(asked).op = at[c] /\ Head(asked).no = no[c]
        <3>1. Head(<<[op |-> at[c], no |-> no[c]]>>) = [op |-> at[c], no |-> no[c]]
              /\ Tail(<<[op |-> at[c], no |-> no[c]]>>) = <<>>
            OBVIOUS
        <3>. QED  BY <2>1, <2>4, <3>1
    <2>5. CASE chan' = chan
        <3>1. ASSUME NEW c \in Attempts PROVE EventsOf(c)'
            <4>1. EventsOf(c)
                BY <1>2, <3>1
            <4>2. at[c] \in Connected /\ Fresh(c) => asked' = <<>>
                BY <2>1, <2>4, <4>1, <3>1
            <4>. QED  BY <2>1, <2>5, <4>1, <4>2
        <3>. QED  BY <1>3, <3>1
    <2>6. CASE chan' # chan
        <3>1. /\ delegate \in Attempts /\ at[delegate] \in Connected
              /\ \A k \in Channels :
                    chan'[delegate][k] = IF k = Channel[Head(asked).op] THEN <<token>>
                                         ELSE chan[delegate][k]
              /\ \A d \in Attempts \ {delegate} : chan'[d] = chan[d]
            BY <1>20, <2>1, <2>2, <2>3, <2>6
        <3>2. EventsOf(delegate)
            BY <1>2, <3>1
        <3>3. ASSUME Fresh(delegate) PROVE asked' = <<>> /\ Hears(delegate)'
            <4>1. Waits(delegate)
                BY <2>1, <3>1, <3>2, <3>3
            <4>2. asked' = <<>> /\ Head(asked).op = at[delegate] /\ token.no = no[delegate]
                BY <2>2, <2>4, <3>1, <4>1
            <4>3. Head(<<token>>) = token
                OBVIOUS
            <4>4. ASSUME NEW k \in Channels, chan'[delegate][k] # <<>>
                  PROVE  k = Channel[at[delegate]] /\ chan'[delegate][k] = <<token>>
                BY <3>1, <4>1, <4>2, <4>4
            <4>. QED  BY <2>1, <4>1, <4>2, <4>3, <4>4
        <3>4. at[delegate] \notin Linking \cup {"idle"}
            BY <3>1, PlacesApart
        <3>5. EventsOf(delegate)'
            BY <2>1, <3>2, <3>3, <3>4
        <3>6. \A d \in Attempts \ {delegate} : at[d] \in Over
            BY <1>4, <3>1, PlacesApart
        <3>. QED  BY <1>7, <2>1, <3>1, <3>5, <3>6
    <2>. QED  BY <2>5, <2>6
<1>22. ASSUME Notification PROVE EventInv'
    <2>1. /\ streaming /\ UNCHANGED <<at, no, cb, asked, late, mistaken, delegate>>
          /\ Deliver("read", [no |-> 0, ok |-> TRUE])
        BY <1>22 DEF Notification
    <2>2. cb[delegate]
        BY <1>1, <2>1 DEF CallbackInv
    <2>3. [no |-> 0, ok |-> TRUE] \in Token /\ "read" \in Channels
        BY DEF Token, Channels
    <2>4. CASE chan' = chan
        BY <1>18, <2>1, <2>4
    <2>5. CASE chan' # chan
        <3>1. /\ delegate \in Attempts /\ at[delegate] \in Connected
              /\ \A d \in Attempts \ {delegate} : chan'[d] = chan[d]
            BY <1>20, <2>1, <2>3, <2>5
        <3>2. at[delegate] \notin Linking \cup {"idle"}
            BY <3>1, PlacesApart
        <3>3. EventsOf(delegate)'
            BY <2>1, <2>2, <3>2
        <3>4. \A d \in Attempts \ {delegate} : at[d] \in Over
            BY <1>4, <3>1, PlacesApart
        <3>. QED  BY <1>7, <2>1, <3>1, <3>3, <3>4
    <2>. QED  BY <2>4, <2>5
<1>. QED
    BY <1>8, <1>9, <1>11, <1>12, <1>14, <1>15, <1>16, <1>17, <1>19, <1>21, <1>22
       DEF Next, Proceed

----------------------------------------------------------------------------
\* The inductive invariant, and what follows from it.

LEMMA Start == Init => IInv
<1>. SUFFICES ASSUME Init PROVE IInv
    OBVIOUS
<1>1. /\ \A c \in Attempts : at[c] = "idle" /\ mail[c] = <<>>
      /\ \A c \in Attempts, ch \in Channels : chan[c][ch] = <<>>
      /\ pending = NoAttempt /\ asked = <<>> /\ ~streaming /\ ~link /\ work = <<>>
      /\ clean = {} /\ mistaken = {} /\ ~lost
    BY DEF Init
<1>2. MailType /\ ChanType
    <2>1. <<>> \in Seq({"up", "down"}) /\ <<>> \in Seq(Token) /\ Len(<<>>) <= 1
        OBVIOUS
    <2>. QED  BY <2>1 DEF Init, MailType, ChanType
<1>3. AskedType /\ RestType
    <2>1. <<>> \in Seq([op : Operations, no : Nat]) /\ <<>> \in Seq({"connect", "cancel"})
        OBVIOUS
    <2>. QED  BY <2>1 DEF Init, AskedType, RestType, Places, Over
<1>4. "idle" \notin Linking /\ "idle" \notin UnderWay /\ "idle" \notin Connected
    BY PlacesApart
<1>5. PendingInv /\ OwnerInv /\ AloneInv
    BY <1>1, <1>4 DEF PendingInv, OwnerInv, AloneInv
<1>6. WorkInv
    BY <1>1, <1>4 DEF WorkInv
<1>7. CallbackInv
    <2>1. ~\E k \in DOMAIN asked : asked[k].op = "notify"
        BY <1>1
    <2>. QED  BY <1>1, <1>4, <2>1 DEF CallbackInv
<1>8. EventInv
    BY <1>1, <1>4 DEF EventInv
<1>. QED  BY <1>2, <1>3, <1>5, <1>6, <1>7, <1>8, TypeParts DEF IInv

LEMMA Inductive == Spec => []IInv
<1>1. IInv /\ [Next]_vars => IInv'
    <2>. SUFFICES ASSUME IInv, [Next]_vars PROVE IInv'
        OBVIOUS
    <2>. USE DEF IInv
    <2>1. TypeOK' /\ PendingInv'
        BY StepType
    <2>2. OwnerInv' /\ AloneInv'
        BY StepOwner, StepAlone
    <2>3. WorkInv' /\ CallbackInv' /\ EventInv'
        BY StepWork, StepCallback, StepEvent
    <2>. QED  BY <2>1, <2>2, <2>3
<1>. QED  BY <1>1, Start, PTL DEF Spec

\* Whatever the stack reports and whenever timers fire, every variable of the adapter
\* and of the stack's requests keeps its range; no channel of the adapter ever holds more
\* than the one value its capacity allows (adapter_darwin.go:288, 344-350).
THEOREM TypeCorrect == Spec => []TypeOK
<1>1. IInv => TypeOK
    BY DEF IInv
<1>. QED  BY <1>1, Inductive, PTL

\* The send of completePending finds its channel empty: the callback thread of the stack
\* never waits for a goroutine that has stopped receiving (adapter_darwin.go:203-214).
THEOREM NeverStuck == Spec => []DelegateNeverStuck
<1>1. IInv => DelegateNeverStuck
    BY DEF IInv, PendingInv, DelegateNeverStuck
<1>. QED  BY <1>1, Inductive, PTL

\* For any number of attempts that each began with the stack at rest: until something
\* times out or notifications are on, no operation ends with the event of another one,
\* although they share channels (adapter_darwin.go:344-347, 390-468).
THEOREM EventsMatch == Spec => []OwnEvents
<1>1. IInv => OwnEvents
    BY TypeParts DEF IInv, RestType, EventInv, OwnEvents
<1>. QED  BY <1>1, Inductive, PTL

\* For such attempts every notification finds the callback of the connection it is for
\* (adapter_darwin.go:493-503, 552-564).
THEOREM NotificationsArrive == Spec => []NoNotificationLost
<1>1. IInv => NoNotificationLost
    BY DEF IInv, CallbackInv, NoNotificationLost
<1>. QED  BY <1>1, Inductive, PTL

\* Such attempts leave no link behind, however they end (adapter_darwin.go:284-320,
\* 326-329).
THEOREM LeavesNoLink == Spec => []NoOrphanFromRest
<1>1. IInv => NoOrphanFromRest
    <2>1. <<>> # <<"cancel">> /\ <<>> # <<"connect", "cancel">>
        BY Words
    <2>. QED  BY <2>1 DEF IInv, WorkInv, NoOrphanFromRest, Orphaned
<1>. QED  BY <1>1, Inductive, PTL
=============================================================================
