-------------------- MODULE MessagePlaneRefinementProofs --------------------
(***************************************************************************)
(* The message plane implements AtLeastOnceQueue: the initial states map to *)
(* initial states, and every step to a step of the queue or to none.       *)
(***************************************************************************)
EXTENDS MessagePlaneRefinement, MessageDeliveryProofs

USE DEF kafkaVars, offsetVars, recordVars, lockVars, receiverVars, clientVars,
        reaperVars, historyVars, boundVars

-----------------------------------------------------------------------------
(* What is deleted was received                                            *)

\* DeleteMessage acks a handle that some caller was given.
AckInv == \A c \in Client : cpc[c] = "ack" => ch[c] \in delivered

LEMMA DeliveredGrows == ASSUME [Next]_vars PROVE delivered \subseteq delivered'
<1>1. ASSUME NEW r \in Receiver, ReceiverNext(r) PROVE delivered \subseteq delivered'
  BY <1>1 DEF ReceiverNext, ReceiveStart, ReceiveStep, ReceiveFails, PopRedeliverable,
     GetInFlight, AcquireRedelivered, PushBack, ExtendExists, ExtendZAdd, Poll, AddPending,
     PutInFlight, AcquireFresh, Park, ReceiveReturn, ReceiveAgain
<1> QED
  BY <1>1, ClientFrame, ReaperFrame, TickFrame, MoveFrame DEF Next, vars

LEMMA AckInvStep == ASSUME TypeOK, AckInv, [Next]_vars PROVE AckInv'
<1>1. CASE UNCHANGED clientVars
  BY <1>1, DeliveredGrows DEF AckInv
<1>2. ASSUME NEW c \in Client, ClientNext(c) PROVE AckInv'
  <2>1. delivered' = delivered
    BY <1>2, ClientFrame
  <2>2. ASSUME NEW d \in Client, d # c PROVE cpc'[d] = cpc[d] /\ ch'[d] = ch[d]
    BY <1>2, <2>2 DEF TypeOK, TypeClient, ClientNext, DeleteStep, DeleteGet, DeleteAck, DeleteMin,
       DeleteWatermark, DeleteCommit, VisExists, VisZAdd, CallFails, EndCall
  <2>3. ASSUME cpc'[c] = "ack" PROVE ch'[c] \in delivered
    BY <1>2, <2>3 DEF TypeOK, TypeClient, ClientNext, DeleteStep, DeleteGet, DeleteAck, DeleteMin,
       DeleteWatermark, DeleteCommit, VisExists, VisZAdd, CallFails, EndCall
  <2> QED
    BY <2>1, <2>2, <2>3 DEF AckInv
<1> QED
  BY <1>1, <1>2, ReceiverFrame, ReaperFrame, TickFrame, MoveFrame DEF Next, vars

-----------------------------------------------------------------------------
(* What a call returns was handed out                                      *)

\* Every handle in a response has been counted.
OfferedInv == \A r \in Receiver : \A i \in DOMAIN rout[r] : handouts[rout[r][i]] > 0

\* A step of ReceiveMessage hands out the handle it holds, or nothing.
HandsOutCur(r) ==
    /\ rcur[r] \in Handle
    /\ handouts' = [handouts EXCEPT ![rcur[r]] = @ + 1]
    /\ rout' = [rout EXCEPT ![r] = Append(@, rcur[r])]
    /\ UNCHANGED <<delivered, overtaken>>

LEMMA HandOutCases ==
  ASSUME TypeOK, NEW r \in Receiver, ReceiverNext(r)
  PROVE  \/ HandsOutCur(r)
         \/ UNCHANGED handouts /\ (rout' = rout \/ rout' = [rout EXCEPT ![r] = <<>>])
<1>1. CASE ExtendExists(r) \/ ExtendZAdd(r) \/ PutInFlight(r) \/ AcquireFresh(r)
  <2>1. rcur[r] \in Handle
    BY <1>1 DEF ExtendExists, ExtendZAdd, PutInFlight, AcquireFresh, TypeOK, TypeReceiver,
       ReceiverHolds
  <2> QED
    BY <1>1, <2>1 DEF ExtendExists, ExtendZAdd, PutInFlight, AcquireFresh, HandOut, HandsOutCur
<1>2. CASE ~(ExtendExists(r) \/ ExtendZAdd(r) \/ PutInFlight(r) \/ AcquireFresh(r))
  BY <1>2 DEF ReceiverNext, ReceiveStart, ReceiveStep, ReceiveFails, PopRedeliverable,
     GetInFlight, AcquireRedelivered, PushBack, Poll, AddPending, Park, ReceiveReturn,
     ReceiveAgain, EndReceive
<1> QED
  BY <1>1, <1>2

LEMMA OfferedInvStep == ASSUME TypeOK, OfferedInv, [Next]_vars PROVE OfferedInv'
<1>0. rout \in [Receiver -> Seq(Handle)] /\ handouts \in [Handle -> Nat]
  BY DEF TypeOK, TypeReceiver, TypeHistory
<1>1. ASSUME NEW r \in Receiver, HandsOutCur(r) PROVE OfferedInv'
  <2>1. SUFFICES ASSUME NEW q \in Receiver, NEW i \in DOMAIN rout'[q]
                 PROVE  handouts'[rout'[q][i]] > 0
    BY DEF OfferedInv
  <2>2. \A h \in Handle : handouts'[h] \in Nat /\ handouts'[h] >= handouts[h]
    BY <1>0, <1>1 DEF HandsOutCur
  <2>3. ASSUME i \in DOMAIN rout[q], rout'[q][i] = rout[q][i] PROVE handouts'[rout'[q][i]] > 0
    <3>1. rout[q][i] \in Handle /\ handouts[rout[q][i]] > 0
      BY <1>0, <2>3 DEF OfferedInv
    <3> QED
      BY <1>0, <2>2, <2>3, <3>1
  <2>4. CASE q # r
    BY <1>0, <1>1, <2>1, <2>3, <2>4 DEF HandsOutCur
  <2>5. CASE q = r
    <3>1. rout'[q] = Append(rout[q], rcur[r]) /\ rout[q] \in Seq(Handle) /\ rcur[r] \in Handle
      BY <1>0, <1>1, <2>5 DEF HandsOutCur
    <3>2. (i \in DOMAIN rout[q] /\ rout'[q][i] = rout[q][i]) \/ rout'[q][i] = rcur[r]
      BY <2>1, <3>1
    <3>3. handouts'[rcur[r]] > 0
      BY <1>0, <1>1 DEF HandsOutCur
    <3> QED
      BY <2>3, <3>2, <3>3
  <2> QED
    BY <2>4, <2>5
<1>2. ASSUME UNCHANGED handouts, \A q \in Receiver : rout'[q] = rout[q] \/ rout'[q] = <<>>
      PROVE  OfferedInv'
  BY <1>2 DEF OfferedInv
<1>3. ASSUME NEW r \in Receiver, ReceiverNext(r) PROVE OfferedInv'
  BY <1>0, <1>1, <1>2, <1>3, HandOutCases
<1>4. ASSUME NEW R \in SUBSET Receiver, Crash(R) PROVE OfferedInv'
  BY <1>2, <1>4 DEF Crash
<1> QED
  BY <1>2, <1>3, <1>4, ClientFrame, ReaperFrame, TickFrame DEF Next, Rebalance, vars

-----------------------------------------------------------------------------
(* The steps of the queue that is promised                                 *)

LEMMA QueueInit == Init => Queue!Init
BY LogAssumption DEF Init, Queue!Init, Message, Offset

\* A step that leaves the histories and the committed offsets alone is none.
LEMMA QueueStutter ==
  ASSUME UNCHANGED <<handouts, delivered, acked, dead, dlq, overtaken, committed>>
  PROVE  UNCHANGED Queue!vars
BY DEF Queue!vars

\* What the queue calls finished is what is done.
LEMMA QueueFinished == TypeOK => Queue!Finished = Done
<1> SUFFICES ASSUME TypeOK PROVE Queue!Finished = Done
  OBVIOUS
<1>1. acked \cup dead \subseteq Handle
  BY DEF TypeOK, TypeHistory
<1>2. \A h \in acked \cup dead : [k \in Handle |-> Msg(k)][h] = Msg(h)
  BY <1>1
<1> QED
  BY <1>2, Zenon DEF Queue!Finished, Done

\* A handle is put in a response, and has a chance left.
LEMMA QueueHandOut ==
  ASSUME TypeOK, HandoutsBounded', NEW r \in Receiver, ReceiverNext(r), HandsOutCur(r)
  PROVE  \E h \in Handle : Queue!HandOut(h)
<1>1. rcur[r] \in Handle /\ handouts' = [handouts EXCEPT ![rcur[r]] = @ + 1]
  BY DEF HandsOutCur
<1>2. handouts[rcur[r]] < MaxReceiveCount
  BY <1>1, CountAssumption DEF HandoutsBounded, TypeOK, TypeHistory
<1>3. UNCHANGED <<delivered, acked, dead, dlq, overtaken, committed>>
  BY ReceiverFrame DEF HandsOutCur
<1> QED
  BY <1>1, <1>2, <1>3 DEF Queue!HandOut

\* ReceiveMessage returns what it handed out.
LEMMA QueueReceive ==
  ASSUME TypeOK, OfferedInv, NEW r \in Receiver, ReceiveReturn(r)
  PROVE  Queue!Receive
<1> DEFINE some == {rout[r][i] : i \in DOMAIN rout[r]}
<1>1. \A i \in DOMAIN rout[r] : rout[r][i] \in Handle /\ handouts[rout[r][i]] > 0
  BY DEF TypeOK, TypeReceiver, OfferedInv
<1>2. some \in SUBSET {h \in Handle : handouts[h] > 0}
  BY <1>1
<1>3. delivered' = delivered \cup some
  BY DEF ReceiveReturn
<1>4. UNCHANGED <<handouts, acked, dead, dlq, overtaken, committed>>
  BY DEF ReceiveReturn
<1> HIDE DEF some
<1> QED
  BY <1>2, <1>3, <1>4 DEF Queue!Receive

\* AddPending tracks a message before the earlier ones.
LEMMA QueueOvertake ==
  ASSUME HandleInv, NEW r \in Receiver, AddPending(r)
  PROVE  Queue!Overtake
<1>0. TypeOK
  BY DEF HandleInv
<1>1. PICK h \in Handle : overtaken' = overtaken \cup Overtaken(h)
  BY DEF AddPending
<1>2. Done \subseteq EverTracked
  BY DEF HandleInv, LifeInv, Done, EverTracked
<1>3. Overtaken(h) \in SUBSET (Message \ Queue!Finished)
  BY <1>0, <1>2, QueueFinished DEF Overtaken
<1>4. UNCHANGED <<handouts, delivered, acked, dead, dlq, committed>>
  BY DEF AddPending
<1> QED
  BY <1>1, <1>3, <1>4 DEF Queue!Overtake

\* ack.lua acks a handle that was received and has met no end.
LEMMA QueueDelete ==
  ASSUME HandleInv, AckInv, NEW c \in Client, DeleteAck(c), ch[c] \in inflight
  PROVE  \E h \in Handle : Queue!Delete(h)
<1>1. ch[c] \in Handle /\ ch[c] \in delivered \ (acked \cup dead)
  BY DEF AckInv, DeleteAck, HandleInv, LifeInv, TypeOK, TypeRecords
<1>2. acked' = acked \cup {ch[c]}
  BY DEF DeleteAck, AckScript
<1>3. UNCHANGED <<handouts, delivered, dead, dlq, overtaken, committed>>
  BY DEF DeleteAck
<1> QED
  BY <1>1, <1>2, <1>3 DEF Queue!Delete

\* CommitOffset.
LEMMA QueueCommit ==
  ASSUME TypeOK, CommitsPassOnlyDone', NEW c \in Client, DeleteCommit(c)
  PROVE  Queue!Commit
<1>1. UNCHANGED <<handouts, delivered, acked, dead, dlq, overtaken>>
  BY DEF DeleteCommit
<1>2. \A m \in Message : m[2] < committed'[m[1]] => m \in Done \cup overtaken
  BY <1>1 DEF CommitsPassOnlyDone, Done
<1>3. {m \in Message : m[2] < committed'[m[1]]} \in SUBSET (Queue!Finished \cup overtaken)
  BY <1>2, QueueFinished
<1> QED
  BY <1>1, <1>3 DEF Queue!Commit

\* reap.lua takes a message out.
LEMMA QueueDeadLetter ==
  ASSUME HandleInv, NEW w \in Reaper, Reap(w)
  PROVE  (\E h \in Handle : Queue!DeadLetter(h)) \/ UNCHANGED Queue!vars
<1>1. PICK h \in wbatch[w] : ReapGone(h) \/ ReapRedeliver(h) \/ ReapDLQ(h)
  BY DEF Reap
<1>2. UNCHANGED <<handouts, delivered, acked, dlq, overtaken, committed>>
  BY DEF Reap
<1>3. CASE ReapDLQ(h)
  <2>1. h \in Handle /\ h \notin acked \cup dead
    BY <1>3 DEF HandleInv, LifeInv, TypeOK, TypeReaper, ReapDLQ, ReapFound
  <2>2. dead' = dead \cup {h}
    BY <1>3 DEF ReapDLQ
  <2> QED
    BY <1>2, <2>1, <2>2 DEF Queue!DeadLetter
<1>4. CASE ReapGone(h) \/ ReapRedeliver(h)
  BY <1>2, <1>4, QueueStutter DEF ReapGone, ReapRedeliver
<1> QED
  BY <1>1, <1>3, <1>4

\* routeToDLQ.
LEMMA QueueSendToDLQ ==
  ASSUME HandleInv, NEW w \in Reaper, RouteToDLQ(w)
  PROVE  (\E h \in Handle : Queue!SendToDLQ(h)) \/ UNCHANGED Queue!vars
<1>1. UNCHANGED <<handouts, delivered, acked, dead, overtaken, committed>>
  BY DEF RouteToDLQ
<1>2. /\ wh[w] \in dead /\ wh[w] \in Handle /\ dlq[wh[w]] = 0
      /\ dlq \in [Handle -> Nat]
  BY DEF RouteToDLQ, HandleInv, RoutingInv, TypeOK, TypeHistory
<1>3. CASE dlq' = dlq
  BY <1>1, <1>3, QueueStutter
<1>4. CASE dlq' = [dlq EXCEPT ![wh[w]] = dlq[wh[w]] + 1]
  <2>1. {k \in Handle : dlq'[k] > 0} = {k \in Handle : dlq[k] > 0} \cup {wh[w]}
    BY <1>2, <1>4
  <2>2. wh[w] \in dead \ {k \in Handle : dlq[k] > 0}
    BY <1>2
  <2> QED
    BY <1>1, <1>2, <2>1, <2>2 DEF Queue!SendToDLQ
<1> QED
  BY <1>3, <1>4 DEF RouteToDLQ

LEMMA QueueStep ==
  ASSUME HandleInv, AckInv, OfferedInv, HandoutsBounded', CommitsPassOnlyDone', [Next]_vars
  PROVE  [Queue!Next]_(Queue!vars)
<1>0. TypeOK
  BY DEF HandleInv
<1>1. ASSUME NEW r \in Receiver, ReceiverNext(r)
      PROVE  \/ \E h \in Handle : Queue!HandOut(h)
             \/ Queue!Receive \/ Queue!Overtake \/ UNCHANGED Queue!vars
  <2>1. CASE ReceiveReturn(r)
    BY <1>0, <2>1, QueueReceive
  <2>2. CASE AddPending(r)
    BY <2>2, QueueOvertake
  <2>3. CASE HandsOutCur(r)
    BY <1>0, <1>1, <2>3, QueueHandOut
  <2>4. CASE ~ReceiveReturn(r) /\ ~AddPending(r) /\ ~HandsOutCur(r)
    <3>1. UNCHANGED <<delivered, overtaken>>
      BY <1>1, <2>4 DEF ReceiverNext, ReceiveStart, ReceiveStep, ReceiveFails, PopRedeliverable,
         GetInFlight, AcquireRedelivered, PushBack, ExtendExists, ExtendZAdd, Poll,
         PutInFlight, AcquireFresh, Park, ReceiveAgain
    <3>2. UNCHANGED handouts
      BY <1>0, <1>1, <2>4, HandOutCases
    <3> QED
      BY <1>1, <3>1, <3>2, ReceiverFrame, QueueStutter
  <2> QED
    BY <2>1, <2>2, <2>3, <2>4
<1>2. ASSUME NEW c \in Client, ClientNext(c)
      PROVE  (\E h \in Handle : Queue!Delete(h)) \/ Queue!Commit \/ UNCHANGED Queue!vars
  <2>1. CASE DeleteAck(c) /\ ch[c] \in inflight
    BY <2>1, QueueDelete
  <2>2. CASE DeleteCommit(c)
    BY <1>0, <2>2, QueueCommit
  <2>3. CASE ~(DeleteAck(c) /\ ch[c] \in inflight) /\ ~DeleteCommit(c)
    <3>1. UNCHANGED <<acked, committed>>
      BY <1>2, <2>3 DEF ClientNext, DeleteStep, DeleteGet, DeleteAck, DeleteMin, DeleteWatermark,
         VisExists, VisZAdd, CallFails
    <3> QED
      BY <1>2, <3>1, ClientFrame, QueueStutter
  <2> QED
    BY <2>1, <2>2, <2>3
<1>3. ASSUME NEW w \in Reaper, ReaperNext(w)
      PROVE  \/ \E h \in Handle : Queue!DeadLetter(h) \/ Queue!SendToDLQ(h)
             \/ UNCHANGED Queue!vars
  <2>1. CASE Reap(w)
    BY <2>1, QueueDeadLetter
  <2>2. CASE RouteToDLQ(w)
    BY <2>2, QueueSendToDLQ
  <2>3. CASE Sweep(w) \/ SweepFails(w)
    BY <2>3, QueueStutter DEF Sweep, SweepFails
  <2> QED
    BY <1>3, <2>1, <2>2, <2>3 DEF ReaperNext, SweepStep
<1>4. CASE Tick \/ (\E R \in SUBSET Receiver : Crash(R)) \/ (\E p \in Part : Rebalance(p))
  BY <1>4, TickFrame, MoveFrame, QueueStutter
<1>5. CASE UNCHANGED vars
  BY <1>5, QueueStutter DEF vars
<1> QED
  BY <1>1, <1>2, <1>3, <1>4, <1>5 DEF Next, Queue!Next

\* The message plane keeps the promise of a queue, with any number of receives,
\* deletes and reapers at work, one request at a time and through crashes,
\* rebalances and failures: everything it does is what AtLeastOnceQueue allows.
THEOREM QueueIsImplemented == Spec => ImplementsQueue
<1>1. Init => Queue!Init /\ AckInv /\ OfferedInv
  BY QueueInit DEF Init, AckInv, OfferedInv
<1>2. HandleInv /\ AckInv /\ OfferedInv /\ [Next]_vars => (AckInv /\ OfferedInv)'
  BY AckInvStep, OfferedInvStep DEF HandleInv
<1>3. HandleInv /\ AckInv /\ OfferedInv /\ HandoutsBounded' /\ CommitsPassOnlyDone' /\ [Next]_vars
      => [Queue!Next]_(Queue!vars)
  BY QueueStep
<1> QED
  BY <1>1, <1>2, <1>3, CommitsAreSafe, HandoutsAreBounded, HandleInvInvariant, PTL
     DEF Spec, ImplementsQueue, Queue!Spec
=============================================================================
