------------------------- MODULE MessagePlaneProofs -------------------------
(***************************************************************************)
(* Theorems about MessagePlane, for every value of its constants.          *)
(***************************************************************************)
EXTENDS MessagePlane, TLAPS, FiniteSetTheorems

USE DEF kafkaVars, offsetVars, recordVars, lockVars, receiverVars, clientVars,
        reaperVars, historyVars, boundVars

-----------------------------------------------------------------------------
(* Frames: what the steps of each kind of process leave alone.             *)

LEMMA ReceiverFrame ==
  ASSUME NEW r \in Receiver, ReceiverNext(r)
  PROVE  UNCHANGED <<committed, watermark, clientVars, reaperVars, acked, dead, dlq, faults>>
BY DEF ReceiverNext, ReceiveStart, ReceiveStep, ReceiveFails, PopRedeliverable, GetInFlight,
   AcquireRedelivered, PushBack, ExtendExists, ExtendZAdd, Poll, AddPending, PutInFlight,
   AcquireFresh, Park, ReceiveReturn, ReceiveAgain

LEMMA ClientFrame ==
  ASSUME NEW c \in Client, ClientNext(c)
  PROVE  UNCHANGED <<position, count, redeliver, receiverVars, reaperVars, minted, delivered,
                     handouts, dead, dlq, overtaken, cancels>>
BY DEF ClientNext, DeleteStep, DeleteGet, DeleteAck, DeleteMin, DeleteWatermark, DeleteCommit,
   VisExists, VisZAdd, CallFails

LEMMA ReaperFrame ==
  ASSUME NEW w \in Reaper, ReaperNext(w)
  PROVE  UNCHANGED <<kafkaVars, watermark, receiverVars, clientVars, minted, delivered,
                     handouts, acked, overtaken, cancels>>
BY DEF ReaperNext, SweepStep, Sweep, Reap, RouteToDLQ, SweepFails

LEMMA TickFrame ==
  ASSUME Tick
  PROVE  UNCHANGED <<kafkaVars, offsetVars, count, visIndex, redeliver, receiverVars,
                     clientVars, reaperVars, historyVars, boundVars>>
BY DEF Tick

\* A crash or a rebalance leaves Redis, clients and reapers alone.
LEMMA MoveFrame ==
  ASSUME (\E R \in SUBSET Receiver : Crash(R)) \/ (\E p \in Part : Rebalance(p))
  PROVE  UNCHANGED <<committed, offsetVars, recordVars, redeliver, lockVars, clientVars,
                     reaperVars, historyVars, cancels>>
BY DEF Crash, Rebalance

-----------------------------------------------------------------------------
(* Type correctness                                                        *)

\* Putting a handle in a response keeps the locals of the call in their types.
LEMMA HandOutType ==
  ASSUME TypeReceiver, NEW r \in Receiver, NEW h \in Handle, NEW next \in {"pop", "record"},
         HandOut(r, h, next), UNCHANGED <<rvis, rbatch>>
  PROVE  TypeReceiver'
<1> USE HandleAssumption DEF TypeReceiver, ReceiverPc, ReceiverHolds, HandOut
<1>1. Append(rout[r], h) \in Seq(Handle)
  OBVIOUS
<1>2. rout' \in [Receiver -> Seq(Handle)]
  BY <1>1
<1>3. rpc' \in [Receiver -> ReceiverPc] /\ rpc'[r] \in {"pop", "record"}
  OBVIOUS
<1> QED
  BY <1>2, <1>3

LEMMA TypeReceiverStep == ASSUME TypeOK, [Next]_vars PROVE TypeReceiver'
<1> USE HandleAssumption, TimeAssumption
        DEF TypeOK, TypeReceiver, ReceiverPc, ReceiverHolds
<1>1. ASSUME NEW r \in Receiver, ReceiveStart(r) PROVE TypeReceiver'
  BY <1>1 DEF ReceiveStart
<1>2. ASSUME NEW r \in Receiver, PopRedeliverable(r) PROVE TypeReceiver'
  <2>1. CASE redeliver = <<>>
    BY <1>2, <2>1 DEF PopRedeliverable
  <2>2. CASE redeliver # <<>>
    <3>1. Head(redeliver) \in Handle
      BY <2>2 DEF TypeRecords
    <3> QED
      BY <1>2, <2>2, <3>1 DEF PopRedeliverable
  <2> QED
    BY <2>1, <2>2
<1>3. ASSUME NEW r \in Receiver, GetInFlight(r) PROVE TypeReceiver'
  BY <1>3 DEF GetInFlight
<1>4. ASSUME NEW r \in Receiver, AcquireRedelivered(r) PROVE TypeReceiver'
  BY <1>4 DEF AcquireRedelivered
<1>5. ASSUME NEW r \in Receiver, PushBack(r) \/ Park(r) PROVE TypeReceiver'
  BY <1>5 DEF PushBack, Park
<1>6. ASSUME NEW r \in Receiver, ExtendExists(r) PROVE TypeReceiver'
  <2>1. rcur[r] \in Handle
    BY <1>6 DEF ExtendExists
  <2> QED
    BY <1>6, <2>1, HandOutType DEF ExtendExists
<1>7. ASSUME NEW r \in Receiver, ExtendZAdd(r) PROVE TypeReceiver'
  <2>1. rcur[r] \in Handle
    BY <1>7 DEF ExtendZAdd
  <2> QED
    BY <1>7, <2>1, HandOutType DEF ExtendZAdd
<1>8. ASSUME NEW r \in Receiver, Poll(r) PROVE TypeReceiver'
  BY <1>8 DEF Poll, Fetched
<1>9. ASSUME NEW r \in Receiver, AddPending(r) PROVE TypeReceiver'
  BY <1>9 DEF AddPending
<1>10. ASSUME NEW r \in Receiver, PutInFlight(r) PROVE TypeReceiver'
  <2>1. rcur[r] \in Handle
    BY <1>10 DEF PutInFlight
  <2> QED
    BY <1>10, <2>1, HandOutType DEF PutInFlight
<1>11. ASSUME NEW r \in Receiver, AcquireFresh(r) PROVE TypeReceiver'
  <2>1. rcur[r] \in Handle
    BY <1>11 DEF AcquireFresh
  <2> QED
    BY <1>11, <2>1, HandOutType DEF AcquireFresh
<1>12. ASSUME NEW r \in Receiver, ReceiveReturn(r) \/ ReceiveFails(r) PROVE TypeReceiver'
  <2>1. EndReceive(r)
    BY <1>12 DEF ReceiveReturn, ReceiveFails
  <2>2. <<>> \in Seq(Handle)
    OBVIOUS
  <2> QED
    BY <2>1, <2>2 DEF EndReceive
<1>13. ASSUME NEW r \in Receiver, ReceiveAgain(r) PROVE TypeReceiver'
  BY <1>13 DEF ReceiveAgain, BatchDone
<1>14. ASSUME NEW R \in SUBSET Receiver, Crash(R) PROVE TypeReceiver'
  BY <1>14 DEF Crash
<1>15. ASSUME UNCHANGED receiverVars PROVE TypeReceiver'
  BY <1>15
<1> QED
  BY <1>1, <1>2, <1>3, <1>4, <1>5, <1>6, <1>7, <1>8, <1>9, <1>10, <1>11, <1>12, <1>13, <1>14,
     <1>15, ClientFrame, ReaperFrame, TickFrame
     DEF Next, ReceiverNext, ReceiveStep, Rebalance, vars

LEMMA TypeClientStep == ASSUME TypeOK, [Next]_vars PROVE TypeClient'
<1> USE HandleAssumption, TimeAssumption, LogAssumption
        DEF TypeOK, TypeClient, ClientPc
<1>1. ASSUME NEW c \in Client, EndCall(c) PROVE TypeClient'
  BY <1>1 DEF EndCall
<1>2. ASSUME NEW c \in Client, DeleteGet(c) PROVE TypeClient'
  BY <1>2 DEF DeleteGet, TypeRecords
<1>3. ASSUME NEW c \in Client, DeleteAck(c) PROVE TypeClient'
  BY <1>1, <1>3 DEF DeleteAck
<1>4. ASSUME NEW c \in Client, DeleteMin(c) PROVE TypeClient'
  <2>1. ch[c].part \in Part /\ pending[ch[c].part] \subseteq 0 .. LogEnd
    BY <1>4 DEF DeleteMin, TypeOffsets, Handle, Offset
  <2> QED
    BY <1>1, <1>4, <2>1 DEF DeleteMin
<1>5. ASSUME NEW c \in Client, DeleteWatermark(c) PROVE TypeClient'
  BY <1>5 DEF DeleteWatermark
<1>6. ASSUME NEW c \in Client, DeleteCommit(c) \/ VisZAdd(c) \/ CallFails(c) PROVE TypeClient'
  BY <1>1, <1>6 DEF DeleteCommit, VisZAdd, CallFails
<1>7. ASSUME NEW c \in Client, VisExists(c) PROVE TypeClient'
  BY <1>7 DEF VisExists, TypeRecords
<1>8. ASSUME UNCHANGED clientVars PROVE TypeClient'
  BY <1>8
<1> QED
  BY <1>2, <1>3, <1>4, <1>5, <1>6, <1>7, <1>8, ReceiverFrame, ReaperFrame, TickFrame, MoveFrame
     DEF Next, ClientNext, DeleteStep, vars

LEMMA TypeReaperStep == ASSUME TypeOK, [Next]_vars PROVE TypeReaper'
<1> USE HandleAssumption DEF TypeOK, TypeReaper, ReaperPc
<1>1. ASSUME NEW w \in Reaper, Sweep(w) PROVE TypeReaper'
  BY <1>1 DEF Sweep, Expired, TypeRecords
<1>2. ASSUME NEW w \in Reaper, Reap(w) PROVE TypeReaper'
  BY <1>2 DEF Reap, NextInBatch
<1>3. ASSUME NEW w \in Reaper, RouteToDLQ(w) PROVE TypeReaper'
  BY <1>3 DEF RouteToDLQ, NextInBatch, EndSweep
<1>4. ASSUME NEW w \in Reaper, SweepFails(w) PROVE TypeReaper'
  BY <1>4 DEF SweepFails, EndSweep
<1>5. ASSUME UNCHANGED reaperVars PROVE TypeReaper'
  BY <1>5
<1> QED
  BY <1>1, <1>2, <1>3, <1>4, <1>5, ReceiverFrame, ClientFrame, TickFrame, MoveFrame
     DEF Next, ReaperNext, SweepStep, vars

LEMMA TypeOffsetsStep == ASSUME TypeOK, [Next]_vars PROVE TypeOffsets'
<1> USE LogAssumption DEF TypeOK, TypeOffsets
<1>1. ASSUME NEW r \in Receiver, Poll(r) PROVE TypeOffsets'
  BY <1>1 DEF Poll
<1>2. ASSUME NEW r \in Receiver, AddPending(r) PROVE TypeOffsets'
  BY <1>2 DEF AddPending, Handle
<1>3. ASSUME NEW r \in Receiver, ReceiverNext(r), ~Poll(r), ~AddPending(r)
      PROVE  UNCHANGED <<kafkaVars, offsetVars>>
  BY <1>3 DEF ReceiverNext, ReceiveStart, ReceiveStep, ReceiveFails, PopRedeliverable,
     GetInFlight, AcquireRedelivered, PushBack, ExtendExists, ExtendZAdd, PutInFlight,
     AcquireFresh, Park, ReceiveReturn, ReceiveAgain
<1>4. ASSUME NEW c \in Client, DeleteAck(c) PROVE TypeOffsets'
  BY <1>4, HandleAssumption DEF DeleteAck, AckScript, ZRemPending, Handle, TypeClient
<1>5. ASSUME NEW c \in Client, DeleteWatermark(c) PROVE TypeOffsets'
  BY <1>5, HandleAssumption DEF DeleteWatermark, Handle, TypeClient
<1>6. ASSUME NEW c \in Client, DeleteCommit(c) PROVE TypeOffsets'
  BY <1>6, HandleAssumption DEF DeleteCommit, OffsetToCommit, Handle, TypeClient
<1>7. ASSUME NEW c \in Client, ClientNext(c), ~DeleteAck(c), ~DeleteWatermark(c), ~DeleteCommit(c)
      PROVE  UNCHANGED <<kafkaVars, offsetVars>>
  BY <1>7 DEF ClientNext, DeleteStep, DeleteGet, DeleteMin, VisExists, VisZAdd, CallFails
<1>8. ASSUME NEW w \in Reaper, ReaperNext(w) PROVE TypeOffsets'
  <2>1. CASE Reap(w)
    <3>1. PICK h \in wbatch[w] : ReapGone(h) \/ ReapRedeliver(h) \/ ReapDLQ(h)
      BY <2>1 DEF Reap
    <3>2. h.part \in Part
      BY <3>1 DEF TypeReaper, Handle
    <3>3. pending' \in [Part -> SUBSET Offset]
      BY <3>1, <3>2 DEF ReapGone, ReapRedeliver, ReapDLQ, ZRemPending
    <3> QED
      BY <1>8, <3>3, ReaperFrame
  <2>2. CASE ~Reap(w)
    BY <1>8, <2>2 DEF ReaperNext, SweepStep, Sweep, RouteToDLQ, SweepFails
  <2> QED
    BY <2>1, <2>2
<1>9. ASSUME NEW R \in SUBSET Receiver, Crash(R) PROVE TypeOffsets'
  BY <1>9 DEF Crash
<1>10. ASSUME NEW p \in Part, Rebalance(p) PROVE TypeOffsets'
  BY <1>10 DEF Rebalance
<1>11. ASSUME UNCHANGED <<kafkaVars, offsetVars>> PROVE TypeOffsets'
  BY <1>11
<1> QED
  BY <1>1, <1>2, <1>3, <1>4, <1>5, <1>6, <1>7, <1>8, <1>9, <1>10, <1>11, TickFrame DEF Next, vars

LEMMA TypeHistoryStep == ASSUME TypeOK, [Next]_vars PROVE TypeHistory'
<1> USE FaultAssumption DEF TypeOK, TypeHistory
<1>1. ASSUME NEW r \in Receiver, ExtendExists(r) \/ ExtendZAdd(r) \/ PutInFlight(r) \/ AcquireFresh(r)
      PROVE  TypeHistory'
  <2>1. rcur[r] \in Handle
    BY <1>1 DEF ExtendExists, ExtendZAdd, PutInFlight, AcquireFresh, TypeReceiver, ReceiverHolds
  <2>2. handouts' = handouts \/ handouts' = [handouts EXCEPT ![rcur[r]] = @ + 1]
    BY <1>1 DEF ExtendExists, ExtendZAdd, PutInFlight, AcquireFresh, HandOut
  <2>3. UNCHANGED <<minted, delivered, acked, dead, dlq, overtaken, boundVars>>
    BY <1>1 DEF ExtendExists, ExtendZAdd, PutInFlight, AcquireFresh
  <2> QED
    BY <2>1, <2>2, <2>3
<1>2. ASSUME NEW r \in Receiver, AddPending(r) PROVE TypeHistory'
  BY <1>2 DEF AddPending, Overtaken
<1>3. ASSUME NEW r \in Receiver, ReceiveReturn(r) PROVE TypeHistory'
  BY <1>3 DEF ReceiveReturn, TypeReceiver
<1>4. ASSUME NEW r \in Receiver, ReceiveFails(r) PROVE TypeHistory'
  BY <1>4 DEF ReceiveFails
<1>5. ASSUME NEW r \in Receiver,
             \/ ReceiveStart(r) \/ PopRedeliverable(r) \/ GetInFlight(r) \/ AcquireRedelivered(r)
             \/ PushBack(r) \/ Poll(r) \/ Park(r) \/ ReceiveAgain(r)
      PROVE  UNCHANGED <<historyVars, boundVars>>
  BY <1>5 DEF ReceiveStart, PopRedeliverable, GetInFlight, AcquireRedelivered, PushBack, Poll,
     Park, ReceiveAgain
<1>6. ASSUME NEW c \in Client, ClientNext(c) PROVE TypeHistory'
  BY <1>6, HandleAssumption DEF ClientNext, DeleteStep, DeleteGet, DeleteAck, AckScript, DeleteMin,
     DeleteWatermark, DeleteCommit, VisExists, VisZAdd, CallFails, TypeClient
<1>7. ASSUME NEW w \in Reaper, Sweep(w) \/ Reap(w) \/ SweepFails(w) PROVE TypeHistory'
  <2>1. CASE Reap(w)
    <3>1. PICK h \in wbatch[w] : ReapGone(h) \/ ReapRedeliver(h) \/ ReapDLQ(h)
      BY <2>1 DEF Reap
    <3>2. h \in Handle /\ (dead' = dead \/ dead' = dead \cup {h})
      BY <3>1 DEF ReapGone, ReapRedeliver, ReapDLQ, TypeReaper
    <3> QED
      BY <2>1, <3>2 DEF Reap
  <2>2. CASE Sweep(w) \/ SweepFails(w)
    BY <2>2 DEF Sweep, SweepFails
  <2> QED
    BY <1>7, <2>1, <2>2
<1>8. ASSUME NEW w \in Reaper, RouteToDLQ(w) PROVE TypeHistory'
  BY <1>8, HandleAssumption DEF RouteToDLQ, TypeReaper
<1>9. ASSUME NEW R \in SUBSET Receiver, Crash(R) PROVE TypeHistory'
  BY <1>9 DEF Crash
<1>10. ASSUME NEW p \in Part, Rebalance(p) PROVE TypeHistory'
  BY <1>10 DEF Rebalance
<1>11. ASSUME UNCHANGED <<historyVars, boundVars>> PROVE TypeHistory'
  BY <1>11
<1> QED
  BY <1>1, <1>2, <1>3, <1>4, <1>5, <1>6, <1>7, <1>8, <1>9, <1>10, <1>11, TickFrame
     DEF Next, ReceiverNext, ReceiveStep, ReaperNext, SweepStep, vars

LEMMA TypeRecordsStep == ASSUME TypeOK, [Next]_vars PROVE TypeRecords'
<1> USE HandleAssumption, CountAssumption, TimeAssumption DEF TypeOK, TypeRecords
<1>1. ASSUME NEW r \in Receiver, PopRedeliverable(r) PROVE TypeRecords'
  <2>1. redeliver # <<>> => Tail(redeliver) \in Seq(Handle)
    OBVIOUS
  <2>2. redeliver' \in Seq(Handle)
    BY <1>1, <2>1 DEF PopRedeliverable
  <2> QED
    BY <1>1, <2>2 DEF PopRedeliverable
<1>2. ASSUME NEW r \in Receiver, AcquireRedelivered(r) \/ AcquireFresh(r) PROVE TypeRecords'
  <2>1. rcur[r] \in Handle /\ rvis[r] \in Nat
    BY <1>2 DEF AcquireRedelivered, AcquireFresh, TypeReceiver, ReceiverHolds
  <2>2. UNCHANGED lockVars \/ SetNXLock(rcur[r], rvis[r])
    BY <1>2 DEF AcquireRedelivered, AcquireFresh
  <2>3. UNCHANGED <<recordVars, redeliver>>
    BY <1>2 DEF AcquireRedelivered, AcquireFresh
  <2> QED
    BY <2>1, <2>2, <2>3 DEF SetNXLock
<1>3. ASSUME NEW r \in Receiver, PushBack(r) \/ Park(r) PROVE TypeRecords'
  <2>1. rcur[r] \in Handle
    BY <1>3 DEF PushBack, Park, TypeReceiver, ReceiverHolds
  <2> QED
    <3>1. redeliver' = Append(redeliver, rcur[r]) /\ UNCHANGED <<recordVars, lockVars>>
      BY <1>3 DEF PushBack, Park, PushRedeliverable
    <3>2. Append(redeliver, rcur[r]) \in Seq(Handle)
      BY <2>1
    <3> QED
      BY <3>1, <3>2
<1>4. ASSUME NEW r \in Receiver, ExtendZAdd(r) PROVE TypeRecords'
  <2>1. rcur[r] \in Handle /\ rvis[r] \in Nat
    BY <1>4 DEF ExtendZAdd, TypeReceiver, ReceiverHolds
  <2> QED
    BY <1>4, <2>1 DEF ExtendZAdd, ZAddVisIndex
<1>5. ASSUME NEW r \in Receiver, PutInFlight(r) PROVE TypeRecords'
  <2>1. rcur[r] \in Handle /\ rvis[r] \in Nat /\ rvis[r] + Grace \in Nat
    BY <1>5 DEF PutInFlight, TypeReceiver, ReceiverHolds
  <2>2. UNCHANGED <<redeliver, lockVars>>
    BY <1>5 DEF PutInFlight
  <2> QED
    BY <1>5, <2>1, <2>2 DEF PutInFlight, ZAddVisIndex
<1>6. ASSUME NEW r \in Receiver,
             \/ ReceiveStart(r) \/ GetInFlight(r) \/ ExtendExists(r) \/ Poll(r) \/ AddPending(r)
             \/ ReceiveReturn(r) \/ ReceiveAgain(r) \/ ReceiveFails(r)
      PROVE  UNCHANGED <<recordVars, redeliver, lockVars>>
  BY <1>6 DEF ReceiveStart, GetInFlight, ExtendExists, Poll, AddPending, ReceiveReturn,
     ReceiveAgain, ReceiveFails
<1>7. ASSUME NEW h \in Handle, ReleaseLock(h)
      PROVE  lock' \in [Group -> Handle \cup {NoHandle}] /\ lockTTL' \in [Group -> Nat]
  BY <1>7 DEF ReleaseLock
<1>8. ASSUME NEW c \in Client, DeleteAck(c) PROVE TypeRecords'
  <2>1. ch[c] \in Handle
    BY <1>8 DEF DeleteAck, TypeClient
  <2>2. CASE AckScript(ch[c])
    BY <1>7, <1>8, <2>1, <2>2, ClientFrame
       DEF AckScript, ZRemVisIndex, DelInFlight, ClientNext, DeleteStep
  <2> QED
    BY <1>8, <2>2 DEF DeleteAck
<1>9. ASSUME NEW c \in Client, VisZAdd(c) PROVE TypeRecords'
  <2>1. ch[c] \in Handle /\ cto[c] \in Nat
    BY <1>9 DEF VisZAdd, TypeClient
  <2> QED
    BY <1>9, <2>1 DEF VisZAdd, ZAddVisIndex
<1>10. ASSUME NEW c \in Client,
              \/ DeleteGet(c) \/ DeleteMin(c) \/ DeleteWatermark(c) \/ DeleteCommit(c)
              \/ VisExists(c) \/ CallFails(c)
       PROVE  UNCHANGED <<recordVars, redeliver, lockVars>>
  BY <1>10 DEF DeleteGet, DeleteMin, DeleteWatermark, DeleteCommit, VisExists, CallFails
<1>11. ASSUME NEW w \in Reaper, Reap(w) PROVE TypeRecords'
  <2>1. PICK h \in wbatch[w] : ReapGone(h) \/ ReapRedeliver(h) \/ ReapDLQ(h)
    BY <1>11 DEF Reap
  <2>2. h \in Handle
    BY <2>1 DEF TypeReaper
  <2>3. CASE ReapGone(h)
    BY <2>2, <2>3 DEF ReapGone, ZRemVisIndex
  <2>4. CASE ReapRedeliver(h)
    <3>1. count' \in [Handle -> 0 .. MaxReceiveCount]
      BY <2>2, <2>4 DEF ReapRedeliver, Exhausted, ReceiveCountAfterReap
    <3>2. redeliver' \in Seq(Handle)
      BY <2>2, <2>4 DEF ReapRedeliver, PushRedeliverable
    <3> QED
      BY <1>7, <2>2, <2>4, <3>1, <3>2 DEF ReapRedeliver, ZRemVisIndex
  <2>5. CASE ReapDLQ(h)
    BY <1>7, <2>2, <2>5 DEF ReapDLQ, ZRemVisIndex, DelInFlight
  <2> QED
    BY <2>1, <2>3, <2>4, <2>5
<1>12. ASSUME NEW w \in Reaper, Sweep(w) \/ RouteToDLQ(w) \/ SweepFails(w)
       PROVE  UNCHANGED <<recordVars, redeliver, lockVars>>
  BY <1>12 DEF Sweep, RouteToDLQ, SweepFails
<1>13. CASE Tick
  BY <1>13 DEF Tick, CountDown
<1>14. ASSUME UNCHANGED <<recordVars, redeliver, lockVars>> PROVE TypeRecords'
  BY <1>14
<1> QED
  BY <1>1, <1>2, <1>3, <1>4, <1>5, <1>6, <1>8, <1>9, <1>10, <1>11, <1>12, <1>13, <1>14, MoveFrame
     DEF Next, ReceiverNext, ReceiveStep, ClientNext, DeleteStep, ReaperNext, SweepStep, vars

LEMMA TypeInit == Init => TypeOK
BY LogAssumption, HandleAssumption, CountAssumption, FaultAssumption
   DEF Init, TypeOK, TypeOffsets, TypeRecords, TypeReceiver, TypeClient, TypeReaper, TypeHistory,
       ReceiverPc, ReceiverHolds, ClientPc, ReaperPc

LEMMA TypeStep == TypeOK /\ [Next]_vars => TypeOK'
BY TypeReceiverStep, TypeClientStep, TypeReaperStep, TypeOffsetsStep, TypeRecordsStep,
   TypeHistoryStep DEF TypeOK

\* Every variable of the message plane keeps its type, a call holds a receipt
\* handle exactly at the steps where its code does, and a receiveCount never
\* exceeds MaxReceiveCount.
THEOREM TypeCorrect == Spec => []TypeOK
BY TypeInit, TypeStep, PTL DEF Spec

-----------------------------------------------------------------------------
(* The life of a receipt handle                                            *)

\* No commit can pass the message of h before it is done.
Tracked(h) == h.off \in pending[h.part] \/ Msg(h) \in Done

\* A record is tracked from before it is written: its offset is already
\* pending when PutInFlight is about to run.
TrackedInv ==
    /\ \A h \in inflight : Tracked(h)
    /\ \A r \in Receiver : rpc[r] = "put" => Tracked(rcur[r])

\* A handle is new until PutInFlight writes its record, and no two calls hold
\* the same new handle; once it is acked or dead it has no record any more.
LifeInv ==
    /\ inflight \cup acked \cup dead \subseteq minted
    /\ inflight \cap (acked \cup dead) = {}
    /\ acked \cap dead = {}
    /\ \A r \in Receiver :
          rpc[r] = "put" => rcur[r] \in minted \ (inflight \cup acked \cup dead)
    /\ \A r, q \in Receiver :
          rpc[r] = "put" /\ rpc[q] = "put" /\ rcur[r] = rcur[q] => r = q

\* A reaper that is about to send h to the DLQ took it out itself, is the only
\* one to do so, and has not sent it before.
RoutingInv ==
    /\ \A h \in Handle : dlq[h] <= 1 /\ (dlq[h] = 1 => h \in dead)
    /\ \A w \in Reaper : wpc[w] = "dlq" => wh[w] \in dead /\ dlq[wh[w]] = 0
    /\ \A w, v \in Reaper : wpc[w] = "dlq" /\ wpc[v] = "dlq" /\ wh[w] = wh[v] => w = v

HandleInv == TypeOK /\ TrackedInv /\ LifeInv /\ RoutingInv

\* What a step can do to the records: nothing but losing some of them to their
\* TTL, taking one out for good, or adding one in the two steps of handOutFresh.
Quiet == inflight' \subseteq inflight /\ UNCHANGED <<pending, acked, dead, minted>>

Finish(h) ==
    /\ h \in inflight
    /\ inflight' = inflight \ {h}
    /\ ZRemPending(h)
    /\ \/ acked' = acked \cup {h} /\ dead' = dead
       \/ dead' = dead \cup {h} /\ acked' = acked
    /\ minted' = minted

LEMMA StepCases ==
  ASSUME TypeOK, [Next]_vars
  PROVE  \/ Quiet
         \/ \E r \in Receiver : AddPending(r) \/ PutInFlight(r)
         \/ \E h \in Handle : Finish(h)
<1>1. ASSUME NEW r \in Receiver, ReceiverNext(r), ~AddPending(r), ~PutInFlight(r) PROVE Quiet
  BY <1>1 DEF Quiet, ReceiverNext, ReceiveStart, ReceiveStep, ReceiveFails, PopRedeliverable,
     GetInFlight, AcquireRedelivered, PushBack, ExtendExists, ExtendZAdd, Poll, AcquireFresh,
     Park, ReceiveReturn, ReceiveAgain
<1>2. ASSUME NEW c \in Client, ClientNext(c) PROVE Quiet \/ \E h \in Handle : Finish(h)
  <2>1. CASE DeleteAck(c) /\ ch[c] \in inflight
    <3>1. ch[c] \in Handle
      BY <2>1 DEF TypeOK, TypeRecords
    <3>2. Finish(ch[c])
      BY <2>1 DEF DeleteAck, AckScript, DelInFlight, Finish
    <3> QED
      BY <3>1, <3>2
  <2>2. CASE ~(DeleteAck(c) /\ ch[c] \in inflight)
    BY <1>2, <2>2 DEF Quiet, ClientNext, DeleteStep, DeleteGet, DeleteAck, DeleteMin,
       DeleteWatermark, DeleteCommit, VisExists, VisZAdd, CallFails
  <2> QED
    BY <2>1, <2>2
<1>3. ASSUME NEW w \in Reaper, ReaperNext(w) PROVE Quiet \/ \E h \in Handle : Finish(h)
  <2>1. CASE Reap(w)
    <3>1. PICK h \in wbatch[w] : ReapGone(h) \/ ReapRedeliver(h) \/ ReapDLQ(h)
      BY <2>1 DEF Reap
    <3>2. h \in Handle
      BY <3>1 DEF TypeOK, TypeReaper
    <3>3. UNCHANGED <<acked, minted>>
      BY <2>1 DEF Reap
    <3>4. CASE ReapDLQ(h)
      BY <3>2, <3>3, <3>4 DEF Finish, ReapDLQ, ReapFound, DelInFlight
    <3>5. CASE ReapGone(h) \/ ReapRedeliver(h)
      BY <3>3, <3>5 DEF Quiet, ReapGone, ReapRedeliver
    <3> QED
      BY <3>1, <3>4, <3>5
  <2>2. CASE ~Reap(w)
    BY <1>3, <2>2 DEF Quiet, ReaperNext, SweepStep, Sweep, RouteToDLQ, SweepFails
  <2> QED
    BY <2>1, <2>2
<1>4. CASE Tick
  BY <1>4 DEF Tick, Quiet
<1> QED
  BY <1>1, <1>2, <1>3, <1>4, MoveFrame DEF Next, Quiet, vars

\* A step of one ReceiveMessage call leaves the locals of the others alone.
LEMMA OtherReceivers ==
  ASSUME TypeOK, NEW r \in Receiver, NEW q \in Receiver, ReceiverNext(r), q # r
  PROVE  rpc'[q] = rpc[q] /\ rcur'[q] = rcur[q] /\ rbatch'[q] = rbatch[q] /\ rout'[q] = rout[q]
BY DEF TypeOK, TypeReceiver, ReceiverNext, ReceiveStart, ReceiveStep, ReceiveFails,
   PopRedeliverable, GetInFlight, AcquireRedelivered, PushBack, ExtendExists, ExtendZAdd, Poll,
   AddPending, PutInFlight, AcquireFresh, Park, ReceiveReturn, ReceiveAgain, EndReceive, HandOut

\* Only AddPending brings a call to PutInFlight, and there it stays put until
\* it takes that step.
LEMMA ReachesPut ==
  ASSUME TypeOK, [Next]_vars, NEW q \in Receiver, rpc'[q] = "put", ~AddPending(q)
  PROVE  rpc[q] = "put" /\ rcur'[q] = rcur[q] /\ ~PutInFlight(q)
<1>1. ASSUME ReceiverNext(q) PROVE FALSE
  BY <1>1 DEF TypeOK, TypeReceiver, ReceiverPc, ReceiverNext, ReceiveStart, ReceiveStep,
     ReceiveFails, PopRedeliverable, GetInFlight, AcquireRedelivered, PushBack, ExtendExists,
     ExtendZAdd, Poll, PutInFlight, AcquireFresh, Park, ReceiveReturn, ReceiveAgain, EndReceive,
     HandOut
<1>2. ~PutInFlight(q)
  BY <1>1 DEF ReceiverNext, ReceiveStep
<1>3. ASSUME NEW r \in Receiver, ReceiverNext(r) PROVE rpc[q] = "put" /\ rcur'[q] = rcur[q]
  BY <1>1, <1>3, OtherReceivers
<1>4. ASSUME NEW R \in SUBSET Receiver, Crash(R) PROVE rpc[q] = "put" /\ rcur'[q] = rcur[q]
  BY <1>4 DEF Crash
<1>5. ASSUME UNCHANGED receiverVars PROVE rpc[q] = "put" /\ rcur'[q] = rcur[q]
  BY <1>5
<1> QED
  BY <1>2, <1>3, <1>4, <1>5, ClientFrame, ReaperFrame, TickFrame DEF Next, Rebalance, vars

LEMMA TrackedInvStep == ASSUME TypeOK, TrackedInv, [Next]_vars PROVE TrackedInv'
<1> DEFINE Kept(h) == Tracked(h) => Tracked(h)'
<1>1. ASSUME NEW r \in Receiver, NEW h \in Handle, AddPending(r) PROVE Kept(h)
  <2>1. pending[h.part] \subseteq pending'[h.part]
    BY <1>1 DEF AddPending, TypeOK, TypeOffsets, Handle
  <2>2. Done' = Done
    BY <1>1 DEF AddPending, Done
  <2> QED
    BY <2>1, <2>2 DEF Tracked, Msg
<1>2. ASSUME NEW k \in Handle, NEW h \in Handle, Finish(k) PROVE Kept(h)
  <2>1. Done' = Done \cup {Msg(k)}
    BY <1>2 DEF Finish, Done
  <2>2. CASE Msg(h) = Msg(k)
    BY <2>1, <2>2 DEF Tracked, Msg
  <2>3. CASE Msg(h) # Msg(k)
    <3>1. h.off \in pending[h.part] => h.off \in pending'[h.part]
      BY <1>2, <2>3 DEF Finish, ZRemPending, TypeOK, TypeOffsets, Handle, Msg
    <3> QED
      BY <2>1, <3>1 DEF Tracked, Msg
  <2> QED
    BY <2>2, <2>3
<1>3. ASSUME NEW h \in Handle, Quiet \/ \E r \in Receiver : PutInFlight(r) PROVE Kept(h)
  BY <1>3 DEF Quiet, PutInFlight, Tracked, Done, Msg
<1>4. ASSUME NEW h \in Handle PROVE Kept(h)
  BY <1>1, <1>2, <1>3, StepCases
<1>5. ASSUME NEW h \in inflight' PROVE Tracked(h)'
  <2>1. CASE h \in inflight
    BY <1>4, <2>1 DEF TrackedInv, TypeOK, TypeRecords
  <2>2. CASE h \notin inflight
    <3>1. PICK r \in Receiver : PutInFlight(r)
      BY <1>5, <2>2, StepCases DEF Quiet, Finish, AddPending
    <3>2. h = rcur[r] /\ rpc[r] = "put" /\ h \in Handle
      BY <1>5, <2>2, <3>1 DEF PutInFlight, TypeOK, TypeReceiver, ReceiverHolds
    <3> QED
      BY <1>4, <3>2 DEF TrackedInv
  <2> QED
    BY <2>1, <2>2
<1>6. ASSUME NEW q \in Receiver, rpc'[q] = "put" PROVE Tracked(rcur[q])'
  <2>1. CASE AddPending(q)
    BY <2>1 DEF AddPending, TypeOK, TypeOffsets, TypeReceiver, Handle, Tracked
  <2>2. CASE ~AddPending(q)
    <3>1. PICK h \in Handle : rpc[q] = "put" /\ rcur'[q] = h /\ rcur[q] = h
      BY <1>6, <2>2, ReachesPut, HandleAssumption DEF TypeOK, TypeReceiver, ReceiverHolds
    <3>2. Tracked(h)'
      BY <1>4, <3>1 DEF TrackedInv
    <3> QED
      BY <3>1, <3>2 DEF Tracked, Msg
  <2> QED
    BY <2>1, <2>2
<1> QED
  BY <1>5, <1>6 DEF TrackedInv

LEMMA LifeInvStep == ASSUME TypeOK, LifeInv, [Next]_vars PROVE LifeInv'
<1> USE DEF LifeInv
<1>1. CASE Quiet
  <2>1. ~\E r \in Receiver : AddPending(r)
    BY <1>1 DEF Quiet, AddPending
  <2>2. ASSUME NEW q \in Receiver, rpc'[q] = "put" PROVE rpc[q] = "put" /\ rcur'[q] = rcur[q]
    BY <2>1, <2>2, ReachesPut
  <2> QED
    BY <1>1, <2>2 DEF Quiet
<1>2. ASSUME NEW r \in Receiver, AddPending(r) PROVE LifeInv'
  <2>1. PICK h \in Handle \ minted : rcur' = [rcur EXCEPT ![r] = h] /\ minted' = minted \cup {h}
    BY <1>2 DEF AddPending
  <2>2. UNCHANGED <<inflight, acked, dead>> /\ rpc' = [rpc EXCEPT ![r] = "put"]
    BY <1>2 DEF AddPending
  <2>3. rcur'[r] = h /\ \A q \in Receiver \ {r} : rcur'[q] = rcur[q] /\ rpc'[q] = rpc[q]
    BY <2>1, <2>2 DEF TypeOK, TypeReceiver
  <2> QED
    BY <2>1, <2>2, <2>3
<1>3. ASSUME NEW r \in Receiver, PutInFlight(r) PROVE LifeInv'
  <2>1. inflight' = inflight \cup {rcur[r]} /\ UNCHANGED <<minted, acked, dead>> /\ rpc[r] = "put"
    BY <1>3 DEF PutInFlight
  <2>2. ~\E q \in Receiver : AddPending(q)
    BY <2>1 DEF AddPending
  <2>3. ASSUME NEW q \in Receiver, rpc'[q] = "put"
        PROVE  rpc[q] = "put" /\ rcur'[q] = rcur[q] /\ q # r
    BY <1>3, <2>2, <2>3, ReachesPut
  <2> QED
    BY <2>1, <2>3
<1>4. ASSUME NEW h \in Handle, Finish(h) PROVE LifeInv'
  <2>1. ~\E r \in Receiver : AddPending(r)
    BY <1>4 DEF Finish, AddPending
  <2>2. ASSUME NEW q \in Receiver, rpc'[q] = "put"
        PROVE  rpc[q] = "put" /\ rcur'[q] = rcur[q] /\ rcur[q] # h
    BY <1>4, <2>1, <2>2, ReachesPut DEF Finish
  <2> QED
    BY <1>4, <2>2 DEF Finish
<1> QED
  BY <1>1, <1>2, <1>3, <1>4, StepCases

LEMMA RoutingInvStep == ASSUME TypeOK, LifeInv, RoutingInv, [Next]_vars PROVE RoutingInv'
<1> USE DEF RoutingInv
<1>1. ASSUME NEW w \in Reaper, NEW h \in wbatch[w], ReapDLQ(h), Reap(w),
             wpc' = [wpc EXCEPT ![w] = "dlq"], wh' = [wh EXCEPT ![w] = h]
      PROVE  RoutingInv'
  <2>1. h \in Handle /\ h \in inflight /\ h \notin dead
    BY <1>1 DEF TypeOK, TypeReaper, ReapDLQ, ReapFound, LifeInv
  <2>2. dead' = dead \cup {h} /\ dlq' = dlq /\ dlq[h] = 0
    BY <1>1, <2>1 DEF ReapDLQ, Reap, TypeOK, TypeHistory
  <2>3. \A v \in Reaper : wpc[v] = "dlq" => wh[v] # h
    BY <2>1
  <2>4. wpc'[w] = "dlq" /\ wh'[w] = h /\ \A v \in Reaper \ {w} : wpc'[v] = wpc[v] /\ wh'[v] = wh[v]
    BY <1>1 DEF TypeOK, TypeReaper
  <2> QED
    BY <2>1, <2>2, <2>3, <2>4
<1>2. ASSUME NEW w \in Reaper, RouteToDLQ(w) PROVE RoutingInv'
  <2>1. wh[w] \in Handle /\ wh[w] \in dead /\ dlq[wh[w]] = 0 /\ dead' = dead
    BY <1>2, HandleAssumption DEF RouteToDLQ, TypeOK, TypeReaper
  <2>2. wpc'[w] # "dlq" /\ \A v \in Reaper \ {w} : wpc'[v] = wpc[v] /\ wh'[v] = wh[v]
    BY <1>2 DEF RouteToDLQ, NextInBatch, EndSweep, TypeOK, TypeReaper
  <2>3. \A k \in Handle \ {wh[w]} : dlq'[k] = dlq[k]
    BY <1>2 DEF RouteToDLQ, TypeOK, TypeHistory
  <2>4. dlq'[wh[w]] \in {0, 1}
    BY <1>2, <2>1 DEF RouteToDLQ, TypeOK, TypeHistory
  <2>5. \A v \in Reaper \ {w} : wpc[v] = "dlq" => wh[v] \in Handle /\ wh[v] # wh[w]
    BY <1>2, HandleAssumption DEF RouteToDLQ, TypeOK, TypeReaper
  <2> QED
    BY <2>1, <2>2, <2>3, <2>4, <2>5
<1>3. ASSUME dead \subseteq dead', dlq' = dlq,
             \A w \in Reaper : wpc'[w] = "dlq" => wpc[w] = "dlq" /\ wh'[w] = wh[w]
      PROVE  RoutingInv'
  BY <1>3
<1>4. ASSUME NEW w \in Reaper, ReaperNext(w) PROVE RoutingInv'
  <2>1. CASE Reap(w)
    <3>1. PICK h \in wbatch[w] :
             \/ /\ ReapGone(h) \/ ReapRedeliver(h)
                /\ NextInBatch(w, wbatch[w] \ {h})
                /\ UNCHANGED wh
             \/ /\ ReapDLQ(h)
                /\ wh' = [wh EXCEPT ![w] = h]
                /\ wpc' = [wpc EXCEPT ![w] = "dlq"]
      BY <2>1 DEF Reap
    <3>2. dlq' = dlq
      BY <2>1 DEF Reap
    <3>3. CASE ReapDLQ(h) /\ wh' = [wh EXCEPT ![w] = h] /\ wpc' = [wpc EXCEPT ![w] = "dlq"]
      BY <1>1, <2>1, <3>3
    <3>4. CASE (ReapGone(h) \/ ReapRedeliver(h)) /\ NextInBatch(w, wbatch[w] \ {h}) /\ UNCHANGED wh
      BY <1>3, <3>2, <3>4 DEF ReapGone, ReapRedeliver, NextInBatch, TypeOK, TypeReaper
    <3> QED
      BY <3>1, <3>3, <3>4
  <2>2. CASE Sweep(w) \/ SweepFails(w)
    BY <1>3, <2>2 DEF Sweep, SweepFails, EndSweep, TypeOK, TypeReaper
  <2> QED
    BY <1>2, <1>4, <2>1, <2>2 DEF ReaperNext, SweepStep
<1>5. dead \subseteq dead'
  BY StepCases DEF Quiet, Finish, AddPending, PutInFlight
<1> QED
  BY <1>3, <1>4, <1>5, ReceiverFrame, ClientFrame, TickFrame, MoveFrame DEF Next, vars

LEMMA HandleInvInvariant == Spec => []HandleInv
<1>1. Init => TypeOK
  BY TypeInit
<1>2. Init => TrackedInv /\ LifeInv /\ RoutingInv
  BY DEF Init, TrackedInv, LifeInv, RoutingInv
<1>3. HandleInv /\ [Next]_vars => HandleInv'
  BY TypeStep, TrackedInvStep, LifeInvStep, RoutingInvStep DEF HandleInv
<1> QED
  BY <1>1, <1>2, <1>3, PTL DEF Spec, HandleInv

\* A record that is in flight has its offset in the pending set until its
\* message is acked or dead-lettered: AddPending comes before PutInFlight, and
\* only ack.lua and reap.lua take an offset out, with the record.
THEOREM InFlightIsTracked == Spec => []TrackedUntilDone
<1>1. HandleInv => TrackedUntilDone
  BY DEF HandleInv, TrackedInv, TrackedUntilDone, Tracked
<1> QED
  BY <1>1, HandleInvInvariant, PTL

\* However many reapers and deletes race, a handle is acked or dead-lettered,
\* never both, and is sent to the DLQ at most once.
THEOREM OneEnd == Spec => []TerminalExclusive
<1>1. HandleInv => TerminalExclusive
  BY DEF HandleInv, LifeInv, RoutingInv, TerminalExclusive
<1> QED
  BY <1>1, HandleInvInvariant, PTL

-----------------------------------------------------------------------------
(* What a commit may pass                                                  *)

\* The offset is pending, or its message is done.
Seen(p, o) == o \in pending[p] \/ <<p, o>> \in Done

\* Nothing that was ever tracked is lost from sight.
StaysSeen == \A h \in minted : Seen(h.part, h.off)

\* What was seen of a partition has no gaps but the overtaken messages.
NoGaps ==
    \A p \in Part : \A o, k \in Offset :
        Seen(p, o) /\ k < o => Seen(p, k) \/ <<p, k>> \in overtaken

\* A commit that is under way is as safe as one that was made.
CommitSafe ==
    \A c \in Client, k \in Offset :
       cpc[c] \in {"watermark", "commit"} /\ k < cmin[c]
       => <<ch[c].part, k>> \in Done \cup overtaken

CommitInv == StaysSeen /\ NoGaps /\ CommitSafe /\ CommitsPassOnlyDone

LEMMA DoneGrows == ASSUME TypeOK, [Next]_vars PROVE Done \subseteq Done'
BY StepCases DEF Quiet, Finish, AddPending, PutInFlight, Done

\* Only AddPending overtakes, and only it makes a handle.
LEMMA OvertakenGrows ==
  ASSUME [Next]_vars
  PROVE  /\ overtaken \subseteq overtaken'
         /\ UNCHANGED <<overtaken, minted>> \/ \E r \in Receiver : AddPending(r)
<1>1. ASSUME NEW r \in Receiver, ReceiverNext(r), ~AddPending(r) PROVE UNCHANGED <<overtaken, minted>>
  BY <1>1 DEF ReceiverNext, ReceiveStart, ReceiveStep, ReceiveFails, PopRedeliverable,
     GetInFlight, AcquireRedelivered, PushBack, ExtendExists, ExtendZAdd, Poll, PutInFlight,
     AcquireFresh, Park, ReceiveReturn, ReceiveAgain
<1>2. ASSUME NEW r \in Receiver, AddPending(r) PROVE overtaken \subseteq overtaken'
  BY <1>2 DEF AddPending
<1> QED
  BY <1>1, <1>2, ClientFrame, ReaperFrame, TickFrame, MoveFrame DEF Next, vars

\* Nothing that was seen is forgotten, and what is seen for the first time is
\* the record that AddPending takes from a batch.
LEMMA SeenStep ==
  ASSUME HandleInv, [Next]_vars, NEW p \in Part, NEW o \in Offset
  PROVE  /\ Seen(p, o) => Seen(p, o)'
         /\ Seen(p, o)' => \/ Seen(p, o)
                           \/ \E r \in Receiver, h \in Handle :
                                 /\ AddPending(r) /\ Msg(h) = <<p, o>>
                                 /\ overtaken' = overtaken \cup Overtaken(h)
<1>0. TypeOK
  BY DEF HandleInv
<1>1. CASE Quiet \/ \E r \in Receiver : PutInFlight(r)
  BY <1>1 DEF Quiet, PutInFlight, Seen, Done
<1>2. ASSUME NEW h \in Handle, Finish(h) PROVE Seen(p, o)' <=> Seen(p, o) \/ Msg(h) = <<p, o>>
  <2>1. Done' = Done \cup {Msg(h)}
    BY <1>2 DEF Finish, Done
  <2>2. pending'[p] = IF p = h.part THEN pending[p] \ {h.off} ELSE pending[p]
    BY <1>0, <1>2 DEF Finish, ZRemPending, TypeOK, TypeOffsets, Handle
  <2> QED
    BY <2>1, <2>2 DEF Seen, Msg
<1>3. ASSUME NEW h \in Handle, Finish(h), Msg(h) = <<p, o>> PROVE Seen(p, o)
  BY <1>3 DEF Finish, HandleInv, TrackedInv, Tracked, Seen, Msg
<1>4. ASSUME NEW r \in Receiver, AddPending(r)
      PROVE  /\ Seen(p, o) => Seen(p, o)'
             /\ Seen(p, o)' => \/ Seen(p, o)
                               \/ \E h \in Handle : /\ Msg(h) = <<p, o>>
                                                    /\ overtaken' = overtaken \cup Overtaken(h)
  <2>1. PICK h \in Handle : /\ pending' = [pending EXCEPT ![h.part] = @ \cup {h.off}]
                            /\ overtaken' = overtaken \cup Overtaken(h)
    BY <1>4 DEF AddPending
  <2>2. Done' = Done
    BY <1>4 DEF AddPending, Done
  <2>3. /\ Seen(p, o) => Seen(p, o)'
        /\ Seen(p, o)' => Seen(p, o) \/ Msg(h) = <<p, o>>
    BY <1>0, <2>1, <2>2 DEF Seen, Msg, TypeOK, TypeOffsets, Handle
  <2> QED
    BY <2>1, <2>3
<1> QED
  BY <1>0, <1>1, <1>2, <1>3, <1>4, StepCases

LEMMA CommitStep == ASSUME HandleInv, CommitInv, [Next]_vars PROVE CommitInv'
<1>0. TypeOK
  BY DEF HandleInv
<1>1. StaysSeen'
  <2>1. SUFFICES ASSUME NEW h \in minted' PROVE Seen(h.part, h.off)'
    BY DEF StaysSeen
  <2>2. CASE h \in minted
    <3>1. h.part \in Part /\ h.off \in Offset /\ Seen(h.part, h.off)
      BY <1>0, <2>2 DEF TypeOK, TypeHistory, Handle, CommitInv, StaysSeen
    <3> QED
      BY <3>1, SeenStep
  <2>3. CASE h \notin minted
    <3>1. PICK r \in Receiver : AddPending(r)
      BY <2>1, <2>3, OvertakenGrows
    <3>2. h \in Handle /\ pending' = [pending EXCEPT ![h.part] = @ \cup {h.off}]
      BY <2>1, <2>3, <3>1 DEF AddPending
    <3> QED
      BY <1>0, <3>2 DEF Seen, TypeOK, TypeOffsets, Handle
  <2> QED
    BY <2>2, <2>3
<1>2. NoGaps'
  <2>1. SUFFICES ASSUME NEW p \in Part, NEW o \in Offset, NEW k \in Offset, k < o, Seen(p, o)'
                 PROVE  Seen(p, k)' \/ <<p, k>> \in overtaken'
    BY DEF NoGaps
  <2>2. CASE Seen(p, o)
    BY <2>1, <2>2, SeenStep, OvertakenGrows DEF CommitInv, NoGaps
  <2>3. ASSUME NEW h \in Handle, Msg(h) = <<p, o>>, overtaken' = overtaken \cup Overtaken(h)
        PROVE  Seen(p, k)' \/ <<p, k>> \in overtaken'
    <3>1. h.part = p /\ h.off = o
      BY <2>3 DEF Msg
    <3>2. CASE <<p, k>> \in EverTracked
      <4>1. PICK j \in minted : j.part = p /\ j.off = k
        BY <3>2 DEF EverTracked, Msg
      <4>2. Seen(p, k)
        BY <4>1 DEF CommitInv, StaysSeen
      <4> QED
        BY <4>2, SeenStep
    <3>3. CASE <<p, k>> \notin EverTracked
      BY <2>1, <2>3, <3>1, <3>3 DEF Overtaken, Message
    <3> QED
      BY <3>2, <3>3
  <2> QED
    BY <2>1, <2>2, <2>3, SeenStep
<1>3. CommitsPassOnlyDone'
  <2>1. CASE committed' = committed
    BY <1>0, <2>1, DoneGrows, OvertakenGrows DEF CommitInv, CommitsPassOnlyDone
  <2>2. ASSUME NEW c \in Client, DeleteCommit(c) PROVE CommitsPassOnlyDone'
    BY <1>0, <2>2, DoneGrows, OvertakenGrows
       DEF CommitInv, CommitsPassOnlyDone, CommitSafe, DeleteCommit, OffsetToCommit, Message,
           TypeOK, TypeOffsets
  <2>3. ASSUME NEW c \in Client, ClientNext(c), ~DeleteCommit(c) PROVE committed' = committed
    BY <2>3 DEF ClientNext, DeleteStep, DeleteGet, DeleteAck, DeleteMin, DeleteWatermark,
       VisExists, VisZAdd, CallFails
  <2> QED
    BY <2>1, <2>2, <2>3, ReceiverFrame, ReaperFrame, TickFrame, MoveFrame DEF Next, vars
<1>4. CommitSafe'
  <2>1. SUFFICES ASSUME NEW c \in Client, NEW k \in Offset, cpc'[c] \in {"watermark", "commit"},
                        k < cmin'[c]
                 PROVE  <<ch'[c].part, k>> \in Done' \cup overtaken'
    BY DEF CommitSafe
  <2>2. CASE cpc[c] \in {"watermark", "commit"} /\ cmin'[c] = cmin[c] /\ ch'[c] = ch[c]
    BY <1>0, <2>1, <2>2, DoneGrows, OvertakenGrows DEF CommitInv, CommitSafe
  <2>3. CASE DeleteMin(c)
    <3>1. PICK o \in pending[ch[c].part] :
             /\ \A j \in pending[ch[c].part] : o <= j
             /\ cmin'[c] = o /\ ch'[c] = ch[c]
      BY <1>0, <2>1, <2>3 DEF DeleteMin, EndCall, TypeOK, TypeClient
    <3>2. ch[c].part \in Part /\ o \in Offset
      BY <1>0, <2>3, <3>1, HandleAssumption DEF DeleteMin, TypeOK, TypeClient, TypeOffsets, Handle
    <3>3. Seen(ch[c].part, k) \/ <<ch[c].part, k>> \in overtaken
      BY <2>1, <3>1, <3>2 DEF CommitInv, NoGaps, Seen
    <3>4. k \notin pending[ch[c].part]
      BY <2>1, <3>1, <3>2, LogAssumption DEF Offset
    <3> QED
      BY <1>0, <3>1, <3>3, <3>4, DoneGrows, OvertakenGrows DEF Seen
  <2>4. CASE ClientNext(c) /\ ~DeleteMin(c)
    BY <1>0, <2>1, <2>2, <2>4 DEF ClientNext, DeleteStep, DeleteGet, DeleteAck, DeleteWatermark,
       DeleteCommit, VisExists, VisZAdd, CallFails, EndCall, TypeOK, TypeClient
  <2>5. ASSUME NEW d \in Client, ClientNext(d), d # c
        PROVE  cpc'[c] = cpc[c] /\ cmin'[c] = cmin[c] /\ ch'[c] = ch[c]
    BY <1>0, <2>5 DEF ClientNext, DeleteStep, DeleteGet, DeleteAck, DeleteMin, DeleteWatermark,
       DeleteCommit, VisExists, VisZAdd, CallFails, EndCall, TypeOK, TypeClient
  <2> QED
    BY <2>1, <2>2, <2>3, <2>4, <2>5, ReceiverFrame, ReaperFrame, TickFrame, MoveFrame DEF Next, vars
<1> QED
  BY <1>1, <1>2, <1>3, <1>4 DEF CommitInv

\* The guarantee of the watermark, with any number of overlapping receives of any
\* batch size, cut short anywhere, any number of racing deletes and reapers, and
\* through crashes and rebalances: the committed offset passes a message that is
\* neither acked nor dead-lettered only if a later one was tracked before it.
THEOREM CommitsAreSafe == Spec => []CommitsPassOnlyDone
<1>1. Init => CommitInv
  BY LogAssumption DEF Init, CommitInv, StaysSeen, NoGaps, CommitSafe, CommitsPassOnlyDone, Seen,
     Done, Message, Offset
<1>2. HandleInv /\ CommitInv /\ [Next]_vars => CommitInv'
  BY CommitStep
<1>3. CommitInv => CommitsPassOnlyDone
  BY DEF CommitInv
<1> QED
  BY <1>1, <1>2, <1>3, HandleInvInvariant, PTL DEF Spec
=============================================================================
