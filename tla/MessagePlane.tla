---------------------------- MODULE MessagePlane ----------------------------
(***************************************************************************)
(* The message plane of one queue: the ReceiveMessage, DeleteMessage and   *)
(* ChangeMessageVisibility calls (internal/core/queue), the reaper's sweep *)
(* (internal/core/reaper), the Redis keys they share (internal/redis and   *)
(* its two Lua scripts) and the offsets of the Kafka consumer group        *)
(* (internal/kafka).                                                       *)
(*                                                                         *)
(* A step is one Redis command, one MULTI/EXEC pipeline, one Lua script or *)
(* one Kafka request: everything between two such steps is local to a      *)
(* goroutine, and any other goroutine or replica may run in between.       *)
(*                                                                         *)
(* The log of every partition is filled from the start: a poll may always  *)
(* return fewer records than there are, which stands for records that were *)
(* not produced yet.  Time is a Tick action that counts every running      *)
(* timer down by one; a timer at 0 has passed.                             *)
(***************************************************************************)
EXTENDS Naturals, Sequences, FiniteSets

CONSTANTS
    Part,             \* the (shard, partition) pairs of the queue
    LogEnd,           \* records per partition (bound)
    Group, NoGroup,   \* message groups; NoGroup for a queue that is not FIFO
    GroupOf,          \* the group of every message: the record's key
    Uuid,             \* uuids: how often one record can be received (bound)
    NoHandle,         \* no receipt handle
    Receiver,         \* concurrent ReceiveMessage calls
    Client,           \* concurrent DeleteMessage / ChangeMessageVisibility calls
    Reaper,           \* replicas sweeping this queue
    MaxMessages,      \* MaxNumberOfMessages after clamping to 1..10
    PollBatch,        \* most records one Poll returns (bound)
    SweepBatch,       \* sweepBatchSize
    Timeouts,         \* visibility timeouts ReceiveMessage is called with
    ExtendTimeouts,   \* timeouts ChangeMessageVisibility is called with
    Grace,            \* what PutInFlight adds to the record's TTL (a minute)
    MaxReceiveCount,  \* the queue's MaxReceiveCount
    HasDLQ,           \* is a dead-letter queue configured?
    DLQMetas,         \* what its metadata may be found to be: see DLQMeta
    MaxFaults,        \* crashes, rebalances, failed requests (bound)
    MaxCancels        \* ReceiveMessage calls cut short (bound)

Offset  == 0 .. LogEnd - 1
Message == Part \X Offset

\* newReceiptHandle: shard, partition and offset, made unique by a uuid.
Handle == [part : Part, off : Offset, uuid : Uuid]

\* The metadata of the dead-letter queue, which has an operator and a life of
\* its own: not published (yet, or any more), or of one of the two kinds.
DLQMeta == {"absent", "standard", "fifo"}

ASSUME PartAssumption == IsFiniteSet(Part)
ASSUME LogAssumption == LogEnd \in Nat /\ PollBatch \in Nat /\ MaxMessages \in Nat \ {0}
ASSUME GroupAssumption == NoGroup \notin Group /\ GroupOf \in [Message -> Group \cup {NoGroup}]
ASSUME HandleAssumption == NoHandle \notin Handle
ASSUME TimeAssumption ==
    Timeouts \subseteq Nat /\ ExtendTimeouts \subseteq Nat /\ Grace \in Nat \ {0}
ASSUME CountAssumption == MaxReceiveCount \in Nat \ {0} /\ HasDLQ \in BOOLEAN
ASSUME DLQAssumption == DLQMetas \subseteq DLQMeta /\ DLQMetas # {}
ASSUME FaultAssumption == MaxFaults \in Nat /\ MaxCancels \in Nat

VARIABLES
    position,   \* Kafka: next offset the partition's owner fetches
    committed,  \* Kafka: the group's committed offset
    pending,    \* kmsvc:pending   ZSET: offsets consumed and not acked
    watermark,  \* kmsvc:watermark (the stored value plus one; 0 when unset)
    inflight,   \* kmsvc:inflight  hashes: the handles that have a record
    ttl,        \* ... and the time each record has left
    count,      \* ... its receiveCount (the last one, once it is gone)
    visIndex,   \* kmsvc:vis_index ZSET: its members
    deadline,   \* ... and the time until each one's score has passed
    redeliver,  \* kmsvc:redeliver list of handles
    lock,       \* kmsvc:fifo_lock: the handle that holds each group
    lockTTL,    \* ... and its time left; 0 for a lock set without expiry
    rpc, rvis, rcur, rbatch, rout,  \* a ReceiveMessage call's locals
    cpc, ch, cmin, cto,             \* a Delete or ChangeVisibility call's locals
    wpc, wbatch, wh,                \* a Sweep's locals
    minted,     \* history: handles made so far
    delivered,  \* history: handles some caller has been given
    handouts,   \* history: times each handle was put in a response
    acked,      \* history: handles ack.lua acked
    dead,       \* history: handles reap.lua took out for the DLQ
    dlq,        \* history: times each handle was sent to the DLQ
    overtaken,  \* history: messages not tracked yet when a later offset was
    faults, cancels

kafkaVars == <<position, committed>>
offsetVars == <<pending, watermark>>
recordVars == <<inflight, ttl, count, visIndex, deadline>>
lockVars == <<lock, lockTTL>>
receiverVars == <<rpc, rvis, rcur, rbatch, rout>>
clientVars == <<cpc, ch, cmin, cto>>
reaperVars == <<wpc, wbatch, wh>>
historyVars == <<minted, delivered, handouts, acked, dead, dlq, overtaken>>
boundVars == <<faults, cancels>>
vars == <<kafkaVars, offsetVars, recordVars, redeliver, lockVars, receiverVars,
          clientVars, reaperVars, historyVars, boundVars>>

Msg(h) == <<h.part, h.off>>
GroupId(h) == GroupOf[Msg(h)]
Grouped(h) == GroupId(h) # NoGroup

\* Messages the queue is finished with: acked, or taken out for the DLQ.
Done == {Msg(h) : h \in acked \cup dead}

Init ==
    /\ position = [p \in Part |-> 0]
    /\ committed = [p \in Part |-> 0]
    /\ pending = [p \in Part |-> {}]
    /\ watermark = [p \in Part |-> 0]
    /\ inflight = {}
    /\ ttl = [h \in Handle |-> 0]
    /\ count = [h \in Handle |-> 0]
    /\ visIndex = {}
    /\ deadline = [h \in Handle |-> 0]
    /\ redeliver = <<>>
    /\ lock = [g \in Group |-> NoHandle]
    /\ lockTTL = [g \in Group |-> 0]
    /\ rpc = [r \in Receiver |-> "idle"]
    /\ rvis = [r \in Receiver |-> 0]
    /\ rcur = [r \in Receiver |-> NoHandle]
    /\ rbatch = [r \in Receiver |-> {}]
    /\ rout = [r \in Receiver |-> <<>>]
    /\ cpc = [c \in Client |-> "idle"]
    /\ ch = [c \in Client |-> NoHandle]
    /\ cmin = [c \in Client |-> 0]
    /\ cto = [c \in Client |-> 0]
    /\ wpc = [w \in Reaper |-> "idle"]
    /\ wbatch = [w \in Reaper |-> {}]
    /\ wh = [w \in Reaper |-> NoHandle]
    /\ minted = {} /\ delivered = {} /\ acked = {} /\ dead = {} /\ overtaken = {}
    /\ handouts = [h \in Handle |-> 0]
    /\ dlq = [h \in Handle |-> 0]
    /\ faults = 0 /\ cancels = 0

-----------------------------------------------------------------------------
(* Redis commands shared by several calls.                                 *)

\* ZADD vis_index with score now + t.
ZAddVisIndex(h, t) ==
    /\ visIndex' = visIndex \cup {h}
    /\ deadline' = [deadline EXCEPT ![h] = t]

\* ZREM vis_index.
ZRemVisIndex(h) ==
    /\ visIndex' = visIndex \ {h}
    /\ deadline' = [deadline EXCEPT ![h] = 0]

\* Mutant: the record survives.
MutDelInFlightForgotten(h) == UNCHANGED <<inflight, ttl>>
\* DEL of the in-flight record.
DelInFlight(h) ==
    /\ inflight' = inflight \ {h}
    /\ ttl' = [ttl EXCEPT ![h] = 0]

\* Mutant: DEL of the whole set where one member should go.
MutZRemPendingAll(h) == pending' = [pending EXCEPT ![h.part] = {}]
\* ZREM of the record's offset from its partition's pending set.
ZRemPending(h) == pending' = [pending EXCEPT ![h.part] = @ \ {h.off}]

\* Mutant: the handle is not pushed.
MutPushForgotten(h) == UNCHANGED redeliver
\* RPUSH at the tail of the redeliver list.
PushRedeliverable(h) == redeliver' = Append(redeliver, h)

\* SETNX of the group lock; a timeout of 0 sets it without expiry.
SetNXLock(h, t) ==
    /\ lock[GroupId(h)] = NoHandle
    /\ lock' = [lock EXCEPT ![GroupId(h)] = h]
    /\ lockTTL' = [lockTTL EXCEPT ![GroupId(h)] = t]

\* Mutant: DEL without comparing the lock's value.
MutHoldsLockUnchecked(g, h) == TRUE
\* Both scripts delete the group lock only if this handle holds it.
HoldsLock(g, h) == lock[g] = h
ReleaseLock(h) ==
    LET freed == {g \in Group : g = GroupId(h) /\ HoldsLock(g, h)}
    IN  /\ lock' = [g \in Group |-> IF g \in freed THEN NoHandle ELSE lock[g]]
        /\ lockTTL' = [g \in Group |-> IF g \in freed THEN 0 ELSE lockTTL[g]]

-----------------------------------------------------------------------------
(* ReceiveMessage                                                          *)

ReceiveStart(r) ==
    /\ rpc[r] = "idle"
    /\ rpc' = [rpc EXCEPT ![r] = "pop"]
    /\ \E t \in Timeouts : rvis' = [rvis EXCEPT ![r] = t]
    /\ UNCHANGED <<kafkaVars, offsetVars, recordVars, redeliver, lockVars, rcur, rbatch,
                   rout, clientVars, reaperVars, historyVars, boundVars>>

\* The response has room for another message.
HasRoom(r) == Len(rout[r]) < MaxMessages

\* Put h in the response of r, then go on at pc next; without room for more,
\* to the end of the iteration ("record" with no records left).
HandOut(r, h, next) ==
    /\ rout' = [rout EXCEPT ![r] = Append(@, h)]
    /\ handouts' = [handouts EXCEPT ![h] = @ + 1]
    /\ rpc' = [rpc EXCEPT ![r] = IF Len(rout'[r]) < MaxMessages THEN next ELSE "record"]
    /\ rcur' = [rcur EXCEPT ![r] = NoHandle]

\* PopRedeliverable (LPOP); an empty list goes on to the poll.
PopRedeliverable(r) ==
    /\ rpc[r] = "pop"
    /\ \/ /\ redeliver = <<>>
          /\ rpc' = [rpc EXCEPT ![r] = "poll"]
          /\ UNCHANGED <<redeliver, rcur>>
       \/ /\ redeliver # <<>>
          /\ redeliver' = Tail(redeliver)
          /\ rcur' = [rcur EXCEPT ![r] = Head(redeliver)]
          /\ rpc' = [rpc EXCEPT ![r] = "get"]
    /\ UNCHANGED <<kafkaVars, offsetVars, recordVars, lockVars, rvis, rbatch, rout,
                   clientVars, reaperVars, historyVars, boundVars>>

\* GetInFlight of the popped handle; a record that is gone ends the draining.
GetInFlight(r) ==
    /\ rpc[r] = "get"
    /\ \/ /\ rcur[r] \notin inflight
          /\ rpc' = [rpc EXCEPT ![r] = "poll"]
          /\ rcur' = [rcur EXCEPT ![r] = NoHandle]
       \/ /\ rcur[r] \in inflight
          /\ rpc' = [rpc EXCEPT ![r] = IF Grouped(rcur[r]) THEN "lock" ELSE "exists"]
          /\ UNCHANGED rcur
    /\ UNCHANGED <<kafkaVars, offsetVars, recordVars, redeliver, lockVars, rvis, rbatch, rout,
                   clientVars, reaperVars, historyVars, boundVars>>

\* acquireFIFOSlot for the popped handle.
AcquireRedelivered(r) ==
    /\ rpc[r] = "lock"
    /\ \/ /\ SetNXLock(rcur[r], rvis[r])
          /\ rpc' = [rpc EXCEPT ![r] = "exists"]
       \/ /\ lock[GroupId(rcur[r])] # NoHandle
          /\ rpc' = [rpc EXCEPT ![r] = "pushback"]
          /\ UNCHANGED lockVars
    /\ UNCHANGED <<kafkaVars, offsetVars, recordVars, redeliver, rvis, rcur, rbatch, rout,
                   clientVars, reaperVars, historyVars, boundVars>>

\* PushRedeliverable (RPUSH) of a popped handle whose group is taken.
PushBack(r) ==
    /\ rpc[r] = "pushback"
    /\ PushRedeliverable(rcur[r])
    /\ rpc' = [rpc EXCEPT ![r] = "poll"]
    /\ rcur' = [rcur EXCEPT ![r] = NoHandle]
    /\ UNCHANGED <<kafkaVars, offsetVars, recordVars, lockVars, rvis, rbatch, rout,
                   clientVars, reaperVars, historyVars, boundVars>>

\* ExtendVisibility, first command (EXISTS).  Its result is ignored: a message
\* that is gone by now is handed out all the same.
ExtendExists(r) ==
    /\ rpc[r] = "exists"
    /\ \/ /\ rcur[r] \in inflight
          /\ rpc' = [rpc EXCEPT ![r] = "extend"]
          /\ UNCHANGED <<rcur, rout, handouts>>
       \/ /\ rcur[r] \notin inflight
          /\ HandOut(r, rcur[r], "pop")
    /\ UNCHANGED <<kafkaVars, offsetVars, recordVars, redeliver, lockVars, rvis, rbatch,
                   clientVars, reaperVars, minted, delivered, acked, dead, dlq, overtaken, boundVars>>

\* ExtendVisibility, second command (ZADD), and the hand-out.
ExtendZAdd(r) ==
    /\ rpc[r] = "extend"
    /\ ZAddVisIndex(rcur[r], rvis[r])
    /\ HandOut(r, rcur[r], "pop")
    /\ UNCHANGED <<kafkaVars, offsetVars, inflight, ttl, count, redeliver, lockVars, rvis, rbatch,
                   clientVars, reaperVars, minted, delivered, acked, dead, dlq, overtaken, boundVars>>

\* n[p] records of every partition, from the position on.
Fetched(n) == {m \in Message : position[m[1]] <= m[2] /\ m[2] < position[m[1]] + n[m[1]]}

\* Poll: the fetched records are this call's alone, the position moves past them.
Poll(r) ==
    /\ rpc[r] = "poll"
    /\ \E n \in [Part -> 0 .. PollBatch] :
          /\ \A p \in Part : position[p] + n[p] <= LogEnd
          /\ Cardinality(Fetched(n)) <= PollBatch
          /\ position' = [p \in Part |-> position[p] + n[p]]
          /\ rbatch' = [rbatch EXCEPT ![r] = Fetched(n)]
    /\ rpc' = [rpc EXCEPT ![r] = "record"]
    /\ UNCHANGED <<committed, offsetVars, recordVars, redeliver, lockVars, rvis, rcur, rout,
                   clientVars, reaperVars, historyVars, boundVars>>

\* The next record: a batch lists the records of a partition in offset order.
NextRecord(r, m) ==
    /\ m \in rbatch[r]
    /\ \A k \in rbatch[r] : k[1] = m[1] => m[2] <= k[2]

\* Messages that AddPending has tracked, under one handle or several.
EverTracked == {Msg(h) : h \in minted}

\* The earlier messages of the partition that were never tracked when h is: a
\* poll returned them, but their call dropped them or has not got to them yet.
Overtaken(h) == {m \in Message \ EverTracked : m[1] = h.part /\ m[2] < h.off}

\* handOutFresh, first command (AddPending), and the new receipt handle.
AddPending(r) ==
    /\ rpc[r] = "record" /\ HasRoom(r)
    /\ \E h \in Handle \ minted :
          /\ NextRecord(r, Msg(h))
          /\ pending' = [pending EXCEPT ![h.part] = @ \cup {h.off}]
          /\ minted' = minted \cup {h}
          /\ overtaken' = overtaken \cup Overtaken(h)
          /\ rcur' = [rcur EXCEPT ![r] = h]
          /\ rbatch' = [rbatch EXCEPT ![r] = @ \ {Msg(h)}]
    /\ rpc' = [rpc EXCEPT ![r] = "put"]
    /\ UNCHANGED <<kafkaVars, watermark, recordVars, redeliver, lockVars, rvis, rout, clientVars,
                   reaperVars, delivered, handouts, acked, dead, dlq, boundVars>>

\* PutInFlight: HSET, EXPIRE and ZADD in one MULTI/EXEC; a message without a
\* group is handed out.
PutInFlight(r) ==
    /\ rpc[r] = "put"
    /\ inflight' = inflight \cup {rcur[r]}
    /\ ttl' = [ttl EXCEPT ![rcur[r]] = rvis[r] + Grace]
    /\ count' = [count EXCEPT ![rcur[r]] = 1]
    /\ ZAddVisIndex(rcur[r], rvis[r])
    /\ \/ /\ Grouped(rcur[r])
          /\ rpc' = [rpc EXCEPT ![r] = "lockFresh"]
          /\ UNCHANGED <<rcur, rout, handouts>>
       \/ /\ ~Grouped(rcur[r])
          /\ HandOut(r, rcur[r], "record")
    /\ UNCHANGED <<kafkaVars, offsetVars, redeliver, lockVars, rvis, rbatch, clientVars,
                   reaperVars, minted, delivered, acked, dead, dlq, overtaken, boundVars>>

\* acquireFIFOSlot for the fresh message.
AcquireFresh(r) ==
    /\ rpc[r] = "lockFresh"
    /\ \/ /\ SetNXLock(rcur[r], rvis[r])
          /\ HandOut(r, rcur[r], "record")
       \/ /\ lock[GroupId(rcur[r])] # NoHandle
          /\ rpc' = [rpc EXCEPT ![r] = "park"]
          /\ UNCHANGED <<lockVars, rcur, rout, handouts>>
    /\ UNCHANGED <<kafkaVars, offsetVars, recordVars, redeliver, rvis, rbatch, clientVars,
                   reaperVars, minted, delivered, acked, dead, dlq, overtaken, boundVars>>

\* PushRedeliverable of the fresh message whose group is taken.
Park(r) ==
    /\ rpc[r] = "park"
    /\ PushRedeliverable(rcur[r])
    /\ rpc' = [rpc EXCEPT ![r] = "record"]
    /\ rcur' = [rcur EXCEPT ![r] = NoHandle]
    /\ UNCHANGED <<kafkaVars, offsetVars, recordVars, lockVars, rvis, rbatch, rout,
                   clientVars, reaperVars, historyVars, boundVars>>

\* The loop over the records is over: none is left, or the response is full
\* and the records that are left are dropped.
BatchDone(r) == rpc[r] = "record" /\ (rbatch[r] = {} \/ ~HasRoom(r))

\* The locals of a call that has ended.
EndReceive(r) ==
    /\ rpc' = [rpc EXCEPT ![r] = "idle"]
    /\ rvis' = [rvis EXCEPT ![r] = 0]
    /\ rcur' = [rcur EXCEPT ![r] = NoHandle]
    /\ rbatch' = [rbatch EXCEPT ![r] = {}]
    /\ rout' = [rout EXCEPT ![r] = <<>>]

\* The response has a message, or the wait time is over.
ReceiveReturn(r) ==
    /\ BatchDone(r)
    /\ delivered' = delivered \cup {rout[r][i] : i \in DOMAIN rout[r]}
    /\ EndReceive(r)
    /\ UNCHANGED <<kafkaVars, offsetVars, recordVars, redeliver, lockVars, clientVars,
                   reaperVars, minted, handouts, acked, dead, dlq, overtaken, boundVars>>

\* Nothing yet, and wait time is left: sleep for the interval, then again.
ReceiveAgain(r) ==
    /\ BatchDone(r) /\ rout[r] = <<>>
    /\ rpc' = [rpc EXCEPT ![r] = "pop"]
    /\ rbatch' = [rbatch EXCEPT ![r] = {}]
    /\ UNCHANGED <<kafkaVars, offsetVars, recordVars, redeliver, lockVars, rvis, rcur, rout,
                   clientVars, reaperVars, historyVars, boundVars>>

-----------------------------------------------------------------------------
(* DeleteMessage and ChangeMessageVisibility, on a handle some caller was   *)
(* given.  A call whose first read finds no record returns and changes      *)
(* nothing: it is not a step.                                               *)

EndCall(c) ==
    /\ cpc' = [cpc EXCEPT ![c] = "idle"]
    /\ ch' = [ch EXCEPT ![c] = NoHandle]
    /\ cmin' = [cmin EXCEPT ![c] = 0]
    /\ cto' = [cto EXCEPT ![c] = 0]

\* DeleteMessage reads the record (GetInFlight).
DeleteGet(c) ==
    /\ cpc[c] = "idle"
    /\ \E h \in delivered \cap inflight : ch' = [ch EXCEPT ![c] = h]
    /\ cpc' = [cpc EXCEPT ![c] = "ack"]
    /\ UNCHANGED <<kafkaVars, offsetVars, recordVars, redeliver, lockVars, receiverVars,
                   cmin, cto, reaperVars, historyVars, boundVars>>

\* ack.lua, when the record exists.
AckScript(h) ==
    /\ ZRemVisIndex(h)
    /\ ZRemPending(h)
    /\ DelInFlight(h)
    /\ ReleaseLock(h)
    /\ acked' = acked \cup {h}

\* Ack: "acked" goes on to the watermark, "not_found" returns.
DeleteAck(c) ==
    /\ cpc[c] = "ack"
    /\ \/ /\ ch[c] \in inflight
          /\ AckScript(ch[c])
          /\ cpc' = [cpc EXCEPT ![c] = "min"]
          /\ UNCHANGED <<ch, cmin, cto>>
       \/ /\ ch[c] \notin inflight
          /\ EndCall(c)
          /\ UNCHANGED <<pending, inflight, ttl, visIndex, deadline, lockVars, acked>>
    /\ UNCHANGED <<kafkaVars, watermark, count, redeliver, receiverVars, reaperVars,
                   minted, delivered, handouts, dead, dlq, overtaken, boundVars>>

\* advanceWatermark: MinPending; nothing pending leaves the commit as it is.
DeleteMin(c) ==
    /\ cpc[c] = "min"
    /\ \/ /\ pending[ch[c].part] = {}
          /\ EndCall(c)
       \/ \E o \in pending[ch[c].part] :
             /\ \A k \in pending[ch[c].part] : o <= k
             /\ cmin' = [cmin EXCEPT ![c] = o]
             /\ cpc' = [cpc EXCEPT ![c] = "watermark"]
             /\ UNCHANGED <<ch, cto>>
    /\ UNCHANGED <<kafkaVars, offsetVars, recordVars, redeliver, lockVars, receiverVars,
                   reaperVars, historyVars, boundVars>>

\* advanceWatermark: SetWatermark(minOffset - 1).
DeleteWatermark(c) ==
    /\ cpc[c] = "watermark"
    /\ watermark' = [watermark EXCEPT ![ch[c].part] = cmin[c]]
    /\ cpc' = [cpc EXCEPT ![c] = "commit"]
    /\ UNCHANGED <<kafkaVars, pending, recordVars, redeliver, lockVars, receiverVars,
                   ch, cmin, cto, reaperVars, historyVars, boundVars>>

\* Mutant: commit past the lowest pending offset.
MutOffsetToCommit(c) == cmin[c] + 1
\* Kafka's committed offset is the next one to read: the lowest pending one.
OffsetToCommit(c) == cmin[c]

\* advanceWatermark: CommitOffset(minOffset).
DeleteCommit(c) ==
    /\ cpc[c] = "commit"
    /\ committed' = [committed EXCEPT ![ch[c].part] = OffsetToCommit(c)]
    /\ EndCall(c)
    /\ UNCHANGED <<position, offsetVars, recordVars, redeliver, lockVars, receiverVars,
                   reaperVars, historyVars, boundVars>>

\* ChangeMessageVisibility: ExtendVisibility's EXISTS.
VisExists(c) ==
    /\ cpc[c] = "idle"
    /\ \E h \in delivered \cap inflight, t \in ExtendTimeouts :
          /\ ch' = [ch EXCEPT ![c] = h]
          /\ cto' = [cto EXCEPT ![c] = t]
    /\ cpc' = [cpc EXCEPT ![c] = "extend"]
    /\ UNCHANGED <<kafkaVars, offsetVars, recordVars, redeliver, lockVars, receiverVars,
                   cmin, reaperVars, historyVars, boundVars>>

\* ChangeMessageVisibility: ExtendVisibility's ZADD, whatever happened since.
VisZAdd(c) ==
    /\ cpc[c] = "extend"
    /\ ZAddVisIndex(ch[c], cto[c])
    /\ EndCall(c)
    /\ UNCHANGED <<kafkaVars, offsetVars, inflight, ttl, count, redeliver, lockVars,
                   receiverVars, reaperVars, historyVars, boundVars>>

-----------------------------------------------------------------------------
(* The reaper                                                              *)

\* Mutant: entries without a record are skipped.
MutExpiredWithRecord == {h \in visIndex \cap inflight : deadline[h] = 0}
\* ExpiredVisIndexEntries, without the limit.
Expired == {h \in visIndex : deadline[h] = 0}

\* Sweep: ZRANGEBYSCORE takes a batch of expired handles.  The timers do not
\* tell which of them expired first, so any batch of the right size may do.
Sweep(w) ==
    /\ wpc[w] = "idle"
    /\ \E B \in SUBSET Expired :
          /\ B # {}
          /\ Cardinality(B) <= SweepBatch
          /\ Cardinality(B) < SweepBatch => B = Expired
          /\ wbatch' = [wbatch EXCEPT ![w] = B]
    /\ wpc' = [wpc EXCEPT ![w] = "reap"]
    /\ UNCHANGED <<kafkaVars, offsetVars, recordVars, redeliver, lockVars, receiverVars,
                   clientVars, wh, historyVars, boundVars>>

\* Go on with the rest of the batch, or wait for the next tick of the timer.
NextInBatch(w, B) ==
    /\ wbatch' = [wbatch EXCEPT ![w] = B]
    /\ wpc' = [wpc EXCEPT ![w] = IF B = {} THEN "idle" ELSE "reap"]

\* reap.lua for a handle another reaper or an ack has taken out already, or
\* whose record is gone.
ReapGone(h) ==
    /\ h \notin visIndex \/ h \notin inflight
    /\ ZRemVisIndex(h)
    /\ UNCHANGED <<pending, inflight, ttl, count, redeliver, lockVars, dead>>

\* Mutant: an off-by-one in the comparison with maxReceive.
MutExhaustedOffByOne(h) == count[h] > MaxReceiveCount
\* reap.lua: receiveCount has reached maxReceive.
Exhausted(h) == count[h] >= MaxReceiveCount

\* Mutant: the receive count is not stored.
MutReceiveCountKept(h) == count[h]
\* reap.lua: the receiveCount a redelivered message is given.
ReceiveCountAfterReap(h) == count[h] + 1

\* reap.lua found h in vis_index and its record.
ReapFound(h) == h \in visIndex /\ h \in inflight

\* reap.lua, receiveCount below maxReceive: count it and queue it again.
ReapRedeliver(h) ==
    /\ ReapFound(h)
    /\ ~Exhausted(h)
    /\ ZRemVisIndex(h)
    /\ ReleaseLock(h)
    /\ count' = [count EXCEPT ![h] = ReceiveCountAfterReap(h)]
    /\ PushRedeliverable(h)
    /\ UNCHANGED <<pending, inflight, ttl, dead>>

\* reap.lua, receiveCount at maxReceive: all state of the message is deleted.
ReapDLQ(h) ==
    /\ ReapFound(h)
    /\ Exhausted(h)
    /\ ZRemVisIndex(h)
    /\ ReleaseLock(h)
    /\ ZRemPending(h)
    /\ DelInFlight(h)
    /\ dead' = dead \cup {h}
    /\ UNCHANGED <<count, redeliver>>

\* One Reap of the batch.
Reap(w) ==
    /\ wpc[w] = "reap"
    /\ \E h \in wbatch[w] :
          \/ /\ ReapGone(h) \/ ReapRedeliver(h)
             /\ NextInBatch(w, wbatch[w] \ {h})
             /\ UNCHANGED wh
          \/ /\ ReapDLQ(h)
             /\ wh' = [wh EXCEPT ![w] = h]
             /\ wbatch' = [wbatch EXCEPT ![w] = @ \ {h}]
             /\ wpc' = [wpc EXCEPT ![w] = "dlq"]
    /\ UNCHANGED <<kafkaVars, watermark, receiverVars, clientVars, minted, delivered,
                   handouts, acked, dlq, overtaken, boundVars>>

\* The sweep is over, whatever is left of the batch.
EndSweep(w) ==
    /\ wpc' = [wpc EXCEPT ![w] = "idle"]
    /\ wbatch' = [wbatch EXCEPT ![w] = {}]

\* SendMessage refuses a dead-letter queue that is not published, and a message
\* without a group when that queue is FIFO.
SendRefused(meta, h) == meta = "absent" \/ (meta = "fifo" /\ ~Grouped(h))

\* routeToDLQ: send to the dead-letter queue; without one the message is
\* dropped.  A send that is refused ends the sweep, and the message is lost:
\* reap.lua deleted its state already.
RouteToDLQ(w) ==
    /\ wpc[w] = "dlq"
    /\ \/ /\ ~HasDLQ
          /\ NextInBatch(w, wbatch[w])
          /\ UNCHANGED dlq
       \/ \E meta \in DLQMetas :
             /\ HasDLQ
             /\ \/ /\ SendRefused(meta, wh[w])
                   /\ EndSweep(w)
                   /\ UNCHANGED dlq
                \/ /\ ~SendRefused(meta, wh[w])
                   /\ dlq' = [dlq EXCEPT ![wh[w]] = @ + 1]
                   /\ NextInBatch(w, wbatch[w])
    /\ wh' = [wh EXCEPT ![w] = NoHandle]
    /\ UNCHANGED <<kafkaVars, offsetVars, recordVars, redeliver, lockVars, receiverVars,
                   clientVars, minted, delivered, handouts, acked, dead, overtaken, boundVars>>

\* A Sweep that ends early: a Redis error, a failed send to the DLQ, or the
\* death of the replica.  Run starts the next sweep from scratch.
SweepFails(w) ==
    /\ wpc[w] # "idle"
    /\ faults < MaxFaults
    /\ faults' = faults + 1
    /\ EndSweep(w)
    /\ wh' = [wh EXCEPT ![w] = NoHandle]
    /\ UNCHANGED <<kafkaVars, offsetVars, recordVars, redeliver, lockVars, receiverVars,
                   clientVars, historyVars, cancels>>

-----------------------------------------------------------------------------
(* The environment: time, and what can go wrong                            *)

CountDown(n) == IF n = 0 THEN 0 ELSE n - 1

\* A unit of time passes: records and locks whose TTL runs out are dropped.
Tick ==
    /\ \/ \E h \in Handle : deadline[h] > 0 \/ ttl[h] > 0
       \/ \E g \in Group : lockTTL[g] > 0
    /\ deadline' = [h \in Handle |-> CountDown(deadline[h])]
    /\ ttl' = [h \in Handle |-> CountDown(ttl[h])]
    /\ inflight' = {h \in inflight : ttl[h] # 1}
    /\ lock' = [g \in Group |-> IF lockTTL[g] = 1 THEN NoHandle ELSE lock[g]]
    /\ lockTTL' = [g \in Group |-> CountDown(lockTTL[g])]
    /\ UNCHANGED <<kafkaVars, offsetVars, count, visIndex, redeliver, receiverVars,
                   clientVars, reaperVars, historyVars, boundVars>>

\* A replica dies with the ReceiveMessage calls R it was serving: its
\* partitions move to members that start from the committed offsets.
Crash(R) ==
    /\ faults < MaxFaults
    /\ faults' = faults + 1
    /\ position' = committed
    /\ rpc' = [r \in Receiver |-> IF r \in R THEN "idle" ELSE rpc[r]]
    /\ rvis' = [r \in Receiver |-> IF r \in R THEN 0 ELSE rvis[r]]
    /\ rcur' = [r \in Receiver |-> IF r \in R THEN NoHandle ELSE rcur[r]]
    /\ rbatch' = [r \in Receiver |-> IF r \in R THEN {} ELSE rbatch[r]]
    /\ rout' = [r \in Receiver |-> IF r \in R THEN <<>> ELSE rout[r]]
    /\ UNCHANGED <<committed, offsetVars, recordVars, redeliver, lockVars, clientVars,
                   reaperVars, historyVars, cancels>>

\* The group rebalances and p changes hands; running calls keep their batch.
Rebalance(p) ==
    /\ faults < MaxFaults
    /\ faults' = faults + 1
    /\ position' = [position EXCEPT ![p] = committed[p]]
    /\ UNCHANGED <<committed, offsetVars, recordVars, redeliver, lockVars, receiverVars,
                   clientVars, reaperVars, historyVars, cancels>>

\* A ReceiveMessage call returns an error between two of its steps: its context
\* was cancelled, or Redis or the poll failed.  The consumer keeps its position.
ReceiveFails(r) ==
    /\ rpc[r] # "idle"
    /\ cancels < MaxCancels
    /\ cancels' = cancels + 1
    /\ EndReceive(r)
    /\ UNCHANGED <<kafkaVars, offsetVars, recordVars, redeliver, lockVars, clientVars,
                   reaperVars, historyVars, faults>>

\* A Delete or ChangeVisibility call is cut short between two of its steps.
CallFails(c) ==
    /\ cpc[c] # "idle"
    /\ faults < MaxFaults
    /\ faults' = faults + 1
    /\ EndCall(c)
    /\ UNCHANGED <<kafkaVars, offsetVars, recordVars, redeliver, lockVars, receiverVars,
                   reaperVars, historyVars, cancels>>

-----------------------------------------------------------------------------
\* The steps of a ReceiveMessage call that has begun.
ReceiveStep(r) ==
    \/ PopRedeliverable(r) \/ GetInFlight(r) \/ AcquireRedelivered(r) \/ PushBack(r)
    \/ ExtendExists(r) \/ ExtendZAdd(r)
    \/ Poll(r) \/ AddPending(r) \/ PutInFlight(r) \/ AcquireFresh(r) \/ Park(r)
    \/ ReceiveReturn(r) \/ ReceiveAgain(r)

DeleteStep(c) == DeleteAck(c) \/ DeleteMin(c) \/ DeleteWatermark(c) \/ DeleteCommit(c)
SweepStep(w) == Sweep(w) \/ Reap(w) \/ RouteToDLQ(w)

\* Everything a caller of ReceiveMessage, a caller of the other two calls, and
\* a replica's reaper may do.
ReceiverNext(r) == ReceiveStart(r) \/ ReceiveStep(r) \/ ReceiveFails(r)
ClientNext(c) == DeleteGet(c) \/ DeleteStep(c) \/ VisExists(c) \/ VisZAdd(c) \/ CallFails(c)
ReaperNext(w) == SweepStep(w) \/ SweepFails(w)

Next ==
    \/ \E r \in Receiver : ReceiverNext(r)
    \/ \E c \in Client : ClientNext(c)
    \/ \E w \in Reaper : ReaperNext(w)
    \/ Tick
    \/ \E R \in SUBSET Receiver : Crash(R)
    \/ \E p \in Part : Rebalance(p)

Spec == Init /\ [][Next]_vars

\* The reaper's ticker and the clock never stop, and the requests of a sweep
\* return; nobody has to receive, delete or extend anything, nor has a call that
\* has begun to go on.
Fairness ==
    /\ WF_vars(Tick)
    /\ \A w \in Reaper : WF_vars(SweepStep(w))

FairSpec == Spec /\ Fairness

-----------------------------------------------------------------------------
(* Properties                                                              *)

ReceiverPc == {"idle", "pop", "get", "lock", "pushback", "exists", "extend", "poll", "record",
               "put", "lockFresh", "park"}
ClientPc == {"idle", "ack", "min", "watermark", "commit", "extend"}
ReaperPc == {"idle", "reap", "dlq"}

\* The steps at which a call holds a handle in a local variable.
ReceiverHolds == {"get", "lock", "pushback", "exists", "extend", "put", "lockFresh", "park"}

TypeOffsets ==
    /\ position \in [Part -> 0 .. LogEnd]
    /\ committed \in [Part -> 0 .. LogEnd]
    /\ pending \in [Part -> SUBSET Offset]
    /\ watermark \in [Part -> 0 .. LogEnd]

TypeRecords ==
    /\ inflight \subseteq Handle
    /\ ttl \in [Handle -> Nat]
    /\ count \in [Handle -> 0 .. MaxReceiveCount]
    /\ visIndex \subseteq Handle
    /\ deadline \in [Handle -> Nat]
    /\ redeliver \in Seq(Handle)
    /\ lock \in [Group -> Handle \cup {NoHandle}]
    /\ lockTTL \in [Group -> Nat]

TypeReceiver ==
    /\ rpc \in [Receiver -> ReceiverPc]
    /\ rvis \in [Receiver -> Nat]
    /\ rcur \in [Receiver -> Handle \cup {NoHandle}]
    /\ \A r \in Receiver : rpc[r] \in ReceiverHolds <=> rcur[r] # NoHandle
    /\ rbatch \in [Receiver -> SUBSET Message]
    /\ rout \in [Receiver -> Seq(Handle)]

TypeClient ==
    /\ cpc \in [Client -> ClientPc]
    /\ ch \in [Client -> Handle \cup {NoHandle}]
    /\ \A c \in Client : cpc[c] # "idle" <=> ch[c] # NoHandle
    /\ cmin \in [Client -> 0 .. LogEnd]
    /\ cto \in [Client -> Nat]

TypeReaper ==
    /\ wpc \in [Reaper -> ReaperPc]
    /\ wbatch \in [Reaper -> SUBSET Handle]
    /\ wh \in [Reaper -> Handle \cup {NoHandle}]
    /\ \A w \in Reaper : wpc[w] = "dlq" <=> wh[w] # NoHandle

TypeHistory ==
    /\ minted \subseteq Handle /\ delivered \subseteq Handle
    /\ acked \subseteq Handle /\ dead \subseteq Handle
    /\ handouts \in [Handle -> Nat] /\ dlq \in [Handle -> Nat]
    /\ overtaken \subseteq Message
    /\ faults \in 0 .. MaxFaults /\ cancels \in 0 .. MaxCancels

\* Every variable has its type; a call holds a handle exactly where its code
\* does, and receive counts stay within MaxReceiveCount.
TypeOK == TypeOffsets /\ TypeRecords /\ TypeReceiver /\ TypeClient /\ TypeReaper /\ TypeHistory

\* A receive that is under way holds h.
Held(h) == \E r \in Receiver : rcur[r] = h

\* A record that is in flight has its offset in the pending set, so that no
\* commit can pass it, until the message is acked or dead-lettered (possibly
\* through another handle of the same record).
TrackedUntilDone == \A h \in inflight : h.off \in pending[h.part] \/ Msg(h) \in Done

\* A receipt handle is put in at most MaxReceiveCount responses, however
\* receives, reapers, parked copies and visibility changes interleave.
HandoutsBounded == \A h \in Handle : handouts[h] <= MaxReceiveCount

\* A handle meets one end: it is never both acked and dead-lettered, and
\* however many reapers race for it, it is sent to the DLQ at most once, and
\* only after reap.lua took it out.
TerminalExclusive ==
    /\ acked \cap dead = {}
    /\ \A h \in Handle : dlq[h] <= 1 /\ (dlq[h] = 1 => h \in dead)

\* The at-least-once guarantee as consume.go states it: the committed offset of
\* a partition never passes a message that is neither acked nor dead-lettered.
WatermarkSafe == \A m \in Message : m[2] < committed[m[1]] => m \in Done

\* What the watermark does guarantee, whatever receives overlap, poll too much or
\* are cut short, and however deletes race: a commit passes only messages that
\* are acked or dead-lettered, except one that was not tracked yet when a later
\* offset of its partition was.  A message tracked in its turn is never passed.
CommitsPassOnlyDone ==
    \A m \in Message : m[2] < committed[m[1]] => m \in Done \/ m \in overtaken

\* In flight, and nothing brings it back: it is not in vis_index for the reaper
\* to find, nor on the redeliver list, nor held by a running receive.
Stranded ==
    {h \in inflight : ~(h \in visIndex \/ Held(h) \/ \E i \in DOMAIN redeliver : redeliver[i] = h)}

\* A message that is in flight can come back, unless a receive was cut short or
\* its replica died while it held the message; each call strands at most one.
Redeliverable == Cardinality(Stranded) <= cancels + faults * Cardinality(Receiver)

\* A group's lock is taken from its holder only by the holder's own ack or
\* reap, or by its expiry: never by the ack or reap of another handle, which
\* may have held the lock before.
LockReleasedByOwner ==
    [][\A g \in Group :
          lock[g] # NoHandle /\ lock'[g] # lock[g]
          => \/ lock[g] \in acked' \ acked
             \/ lock[g] \in visIndex \ visIndex'
             \/ lockTTL[g] = 1 /\ acked' = acked /\ visIndex' = visIndex]_vars

\* Whatever expires in vis_index is taken out of it or given a new deadline:
\* the sweep never starves an entry, and never trips over a stale one.
ExpiredIsReaped ==
    \A h \in Handle :
        h \in visIndex /\ deadline[h] = 0 ~> h \notin visIndex \/ deadline[h] > 0

=============================================================================
