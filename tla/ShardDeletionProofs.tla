------------------------ MODULE ShardDeletionProofs -------------------------
(***************************************************************************)
(* A Queue that is gone is not served: proof of NoOrphanRoutes for every   *)
(* value of the constants of ShardOperator.                                *)
(*                                                                         *)
(* The operator serves a queue only while its finalizer holds the Queue,   *)
(* but it decides so from a cached version, with the Queue deleted, and    *)
(* perhaps made anew, behind its back.  The argument needs the order of    *)
(* the versions (OrderInv), from which it follows that a cached version    *)
(* with the finalizer is not outlived by it (HeldInv), and that what a     *)
(* deletion took down stays down until the finalizer goes (CleanInv).      *)
(***************************************************************************)
EXTENDS ShardOperatorProofs

\* How far a Queue is in its life: new, held by the finalizer, being deleted
\* but still held, gone.
Life(o) ==
    IF ~o.finalizer THEN IF o.deleting THEN 3 ELSE 0
                    ELSE IF o.deleting THEN 2 ELSE 1

\* The order in which the versions of the Queues of one name are stored.
Before(o, p) == o.uid < p.uid \/ (o.uid = p.uid /\ Life(o) <= Life(p))

Deletes == {"delete", "delmeta", "delmap", "delworker", "unfinalize"}

\* What a reconcile knows of the object it read, and what is gone.
LifeInv ==
    /\ opc = "finalizer" => Life(base) = 0
    /\ opc \in FailsQueue \cup {"ready"} => Life(base) = 1
    /\ opc = "failed" => Life(base) \in {0, 1}
    /\ opc \in Deletes => Life(base) = 2
    /\ \A k \in DOMAIN versions : Gone(versions[k]) <=> Life(versions[k]) = 3

\* The versions come in order, and one to be given the finalizer before all.
OrderInv ==
    /\ \A i, j \in DOMAIN versions : i <= j => Before(versions[i], versions[j])
    /\ opc = "finalizer" => \A i \in DOMAIN versions : Before(base, versions[i])

\* A version that is held is still held, though perhaps being deleted, in the
\* API server; none follows one that is being deleted, and none is left to see
\* for a reconcile that deletes.
HeldInv ==
    /\ \A i \in DOMAIN versions : Life(versions[i]) = 1 => Life(Stored) \in {1, 2}
    /\ \A i, j \in DOMAIN versions :
          i <= j /\ Life(versions[i]) = 2 => Life(versions[j]) # 1
    /\ opc \in FailsQueue => Life(Stored) \in {1, 2}
    /\ opc \in Deletes => \A i \in DOMAIN versions : Life(versions[i]) # 1

\* What makes the message plane serve the queue.
Served == meta \/ shardmap # {} \/ worker
CleanInv ==
    /\ Life(Stored) \in {0, 3} => ~Served
    /\ opc \in {"delmap", "delworker", "unfinalize"} => ~meta
    /\ opc \in {"delworker", "unfinalize"} => shardmap = {}
    /\ opc = "unfinalize" => ~worker

-----------------------------------------------------------------------------
(* The life of an object                                                   *)

LEMMA LifeCases ==
    ASSUME NEW o
    PROVE  /\ Life(o) \in {0, 1, 2, 3}
           /\ Life(o) = 0 <=> ~o.finalizer /\ ~o.deleting
           /\ Life(o) = 1 <=> o.finalizer /\ ~o.deleting
           /\ Life(o) = 2 <=> o.finalizer /\ o.deleting
           /\ Life(o) = 3 <=> ~o.finalizer /\ o.deleting
<1>1. CASE o.finalizer /\ o.deleting
  BY <1>1 DEF Life
<1>2. CASE o.finalizer /\ ~o.deleting
  BY <1>2 DEF Life
<1>3. CASE ~o.finalizer /\ o.deleting
  BY <1>3 DEF Life
<1>4. CASE ~o.finalizer /\ ~o.deleting
  BY <1>4 DEF Life
<1> QED BY <1>1, <1>2, <1>3, <1>4

LEMMA BareLife ==
    ASSUME NEW o, NEW n, NEW spec
    PROVE  /\ Life(Tombstone(o)) = 3 /\ Gone(Tombstone(o)) /\ Tombstone(o).uid = o.uid
           /\ Life(NewObject(n, spec)) = 0 /\ ~Gone(NewObject(n, spec)) /\ NewObject(n, spec).uid = n
<1>1. /\ Tombstone(o).finalizer = FALSE /\ Tombstone(o).deleting = TRUE
      /\ Tombstone(o).phase = "Gone" /\ Tombstone(o).uid = o.uid
  BY DEF Tombstone, Bare
<1>2. /\ NewObject(n, spec).finalizer = FALSE /\ NewObject(n, spec).deleting = FALSE
      /\ NewObject(n, spec).phase = "Pending" /\ NewObject(n, spec).uid = n
  BY DEF NewObject, Bare
<1> QED BY <1>1, <1>2, LifeCases DEF Gone

LEMMA ExceptLife ==
    ASSUME NEW o \in ObjectRec
    PROVE  /\ Life(o) = 0 => Life([o EXCEPT !.finalizer = TRUE]) = 1
           /\ [o EXCEPT !.finalizer = TRUE].uid = o.uid
           /\ Gone([o EXCEPT !.finalizer = TRUE]) <=> Gone(o)
           /\ Life(o) = 1 => Life([o EXCEPT !.deleting = TRUE]) = 2
           /\ [o EXCEPT !.deleting = TRUE].uid = o.uid
           /\ Gone([o EXCEPT !.deleting = TRUE]) <=> Gone(o)
<1> DEFINE b == [o EXCEPT !.finalizer = TRUE]
           c == [o EXCEPT !.deleting = TRUE]
<1>1. /\ b.finalizer = TRUE /\ b.deleting = o.deleting /\ b.uid = o.uid /\ b.phase = o.phase
  BY DEF ObjectRec
<1>2. /\ c.finalizer = o.finalizer /\ c.deleting = TRUE /\ c.uid = o.uid /\ c.phase = o.phase
  BY DEF ObjectRec
<1> HIDE DEF b, c
<1>3. Life(o) = 0 => Life(b) = 1
  BY <1>1, LifeCases
<1>4. Life(o) = 1 => Life(c) = 2
  BY <1>2, LifeCases
<1> QED BY <1>1, <1>2, <1>3, <1>4 DEF Gone, b, c

LEMMA BeforeOrder ==
    ASSUME NEW o, NEW p, NEW r, o.uid \in Nat, p.uid \in Nat, r.uid \in Nat
    PROVE  /\ Before(o, o)
           /\ Before(o, p) /\ Before(p, r) => Before(o, r)
           /\ Before(o, p) /\ Before(p, o) => o.uid = p.uid /\ Life(o) = Life(p)
<1>1. Life(o) \in {0, 1, 2, 3} /\ Life(p) \in {0, 1, 2, 3} /\ Life(r) \in {0, 1, 2, 3}
  BY LifeCases
<1> QED BY <1>1 DEF Before

-----------------------------------------------------------------------------
(* What a step does to the life of the Queue                               *)

\* What a write makes of the stored object.
Turns(o) ==
    \/ opc = "finalizer" /\ Stored = base /\ Life(Stored) = 0 /\ Life(o) = 1 /\ o.uid = Stored.uid
    \/ /\ opc \in {"ready", "failed"}
       /\ Life(Stored) \in {0, 1} /\ Life(o) = Life(Stored) /\ o.uid = Stored.uid
    \/ opc = "unfinalize" /\ Life(Stored) = 2 /\ Life(o) = 3 /\ o.uid = Stored.uid
    \/ Life(Stored) = 1 /\ Life(o) = 2 /\ o.uid = Stored.uid
    \/ Life(Stored) = 0 /\ Life(o) = 3 /\ o.uid = Stored.uid
    \/ Life(Stored) = 3 /\ Life(o) = 0 /\ o.uid = Stored.uid + 1

LEMMA WriteTurns ==
    ASSUME RouteInv, LifeInv, NEW o \in ObjectRec, Writes(o)
    PROVE  Turns(o) /\ (Gone(o) <=> Life(o) = 3) /\ Before(Stored, o)
<1>0. /\ Stored \in ObjectRec /\ Stored.uid \in Nat /\ o.uid \in Nat
      /\ opc # "idle" => base \in ObjectRec
      /\ Gone(Stored) <=> Life(Stored) = 3
  <2>1. Len(versions) \in DOMAIN versions
    BY DEF RouteInv, ObjectInv
  <2> QED BY <2>1, EndsGood DEF RouteInv, ObjectInv, LifeInv, Stored, ObjectRec
<1>1. CASE opc = "finalizer" /\ ~Conflict /\ o = [base EXCEPT !.finalizer = TRUE]
  <2>1. Stored = base /\ Life(Stored) = 0
    BY <1>1 DEF Conflict, LifeInv
  <2>2. Life(o) = 1 /\ o.uid = Stored.uid /\ (Gone(o) <=> Gone(Stored))
    BY <1>0, <1>1, <2>1, ExceptLife
  <2> QED BY <1>0, <1>1, <2>1, <2>2 DEF Turns, Before
<1>2. CASE /\ opc \in {"ready", "failed"} /\ ~Conflict
           /\ o = [base EXCEPT !.shards = mem,
                               !.phase = IF opc = "ready" THEN "Ready" ELSE "Failed"]
  <2>1. Stored = base /\ Life(Stored) \in {0, 1}
    BY <1>2 DEF Conflict, LifeInv
  <2> DEFINE p == IF opc = "ready" THEN "Ready" ELSE "Failed"
  <2>a. o = [base EXCEPT !.shards = mem, !.phase = p] /\ p \in {"Ready", "Failed"}
    BY <1>2
  <2> HIDE DEF p
  <2>2. Life(o) = Life(Stored) /\ o.uid = Stored.uid /\ o.phase \in {"Ready", "Failed"}
    <3>1. base \in ObjectRec
      BY <1>0, <1>2
    <3>2. /\ o.finalizer = base.finalizer /\ o.deleting = base.deleting
          /\ o.uid = base.uid /\ o.phase = p
      BY <2>a, <3>1 DEF ObjectRec
    <3>3. Life(o) = Life(base)
      BY <3>2 DEF Life
    <3> QED BY <2>a, <2>1, <3>2, <3>3
  <2>3. ~Gone(o)
    BY <2>2 DEF Gone
  <2> QED BY <1>0, <1>2, <2>1, <2>2, <2>3 DEF Turns, Before
<1>3. CASE opc = "unfinalize" /\ ~Conflict /\ o = Tombstone(base)
  <2>1. Stored = base /\ Life(Stored) = 2
    BY <1>3 DEF Conflict, LifeInv, Deletes
  <2>2. Life(o) = 3 /\ o.uid = Stored.uid /\ Gone(o)
    BY <1>3, <2>1, BareLife
  <2> QED BY <1>0, <1>3, <2>1, <2>2 DEF Turns, Before
<1>4. CASE /\ ~Stored.deleting
           /\ o = IF Stored.finalizer THEN [Stored EXCEPT !.deleting = TRUE] ELSE Tombstone(Stored)
  <2>1. CASE Life(Stored) = 1
    <3>1. o = [Stored EXCEPT !.deleting = TRUE]
      BY <1>4, <2>1, LifeCases
    <3>2. Life(o) = 2 /\ o.uid = Stored.uid /\ (Gone(o) <=> Gone(Stored))
      BY <1>0, <2>1, <3>1, ExceptLife
    <3> QED BY <1>0, <2>1, <3>2 DEF Turns, Before
  <2>2. CASE Life(Stored) = 0
    <3>1. o = Tombstone(Stored)
      BY <1>4, <2>2, LifeCases
    <3>2. Life(o) = 3 /\ o.uid = Stored.uid /\ Gone(o)
      BY <3>1, BareLife
    <3> QED BY <1>0, <2>2, <3>2 DEF Turns, Before
  <2>3. Life(Stored) \in {0, 1}
    BY <1>4, LifeCases
  <2> QED BY <2>1, <2>2, <2>3
<1>5. CASE /\ Gone(Stored) /\ Stored.uid < MaxCreates
           /\ \E spec \in Specs : o = NewObject(Stored.uid + 1, spec)
  <2>1. Life(Stored) = 3
    BY <1>0, <1>5
  <2>2. Life(o) = 0 /\ o.uid = Stored.uid + 1 /\ ~Gone(o)
    BY <1>5, BareLife
  <2> QED BY <1>0, <2>1, <2>2 DEF Turns, Before
<1> QED BY <1>1, <1>2, <1>3, <1>4, <1>5 DEF Writes

\* How a reconcile goes on.
LEMMA PcMoves ==
    ASSUME [Next]_vars, opc' # "idle"
    PROVE  \/ opc' = opc
           \/ ReconcileBegin
           \/ AddFinalizer /\ opc' = "topics"
           \/ opc \in FailsQueue /\ opc' \in FailsQueue \cup {"ready", "failed"}
           \/ opc \in Deletes /\ opc' \in Deletes
<1> USE DEF FailsQueue, Deletes
<1> DEFINE Goes == \/ opc' = opc
                   \/ opc \in FailsQueue /\ opc' \in FailsQueue \cup {"ready", "failed"}
                   \/ opc \in Deletes /\ opc' \in Deletes
<1>1. AddFinalizer => opc' = "topics"
  BY DEF AddFinalizer, Return
<1>2. \/ EnsureTopic \/ SampleShard \/ SplitShard \/ CheckLag \/ DeleteDrained \/ StopSplitting
      => Goes
  BY DEF EnsureTopic, SampleShard, SplitShard, CheckLag, DeleteDrained, StopSplitting,
     NextDrain, NextShard, Goto
<1>3. \/ PublishMeta \/ PublishMap \/ ReconcileTemporalWorker \/ DeleteShardTopic \/ DeleteQueueMeta
      \/ DeleteShardMap \/ DeleteTemporalWorker
      => Goes
  BY DEF PublishMeta, PublishMap, ReconcileTemporalWorker, DeleteShardTopic, DeleteQueueMeta,
     DeleteShardMap, DeleteTemporalWorker, NextShard, Goto
<1>4. UpdateStatus \/ RemoveFinalizer \/ RequestFails \/ AnswerLost \/ OperatorCrash => Goes
  BY DEF UpdateStatus, RemoveFinalizer, RequestFails, AnswerLost, OperatorCrash, Return
<1>5. ReconcileIgnored \/ Deliver \/ Resync \/ DeleteQueue \/ CreateQueue \/ Tick
      \/ UNCHANGED vars => Goes
  BY DEF ReconcileIgnored, Deliver, Resync, DeleteQueue, CreateQueue, Tick, vars, operatorVars
<1>6. ASSUME NEW s \in Sender, FindQueue(s) \/ RouteForSend(s) \/ Produce(s) PROVE Goes
  BY <1>6 DEF FindQueue, RouteForSend, Produce, operatorVars
<1>7. ASSUME NEW t \in Id, Consume(t) \/ RecordsExpire(t) PROVE Goes
  BY <1>7 DEF Consume, RecordsExpire, operatorVars
<1>8. Goes \/ ReconcileBegin \/ AddFinalizer
  <2> HIDE DEF Goes
  <2> QED BY <1>2, <1>3, <1>4, <1>5, <1>6, <1>7 DEF Next, Reconcile, ReconcileStep
<1> QED BY <1>1, <1>8

\* Where a reconcile begins, by the life of what it read.
LEMMA BeginLife ==
    ASSUME ReconcileBegin
    PROVE  /\ opc = "idle" /\ base' = Cached /\ UNCHANGED versions
           /\ \/ opc' = "finalizer" /\ Life(Cached) = 0
              \/ opc' = "topics" /\ Life(Cached) = 1
              \/ opc' = "failed" /\ Life(Cached) \in {0, 1}
              \/ opc' \in {"delete", "delmeta"} /\ Life(Cached) = 2
<1>1. opc = "idle" /\ base' = Cached /\ UNCHANGED versions /\ opc' = FirstStep(Cached)
  BY DEF ReconcileBegin, ReconcileStart, objectVars
<1>2. CASE Cached.deleting
  <2>1. Cached.finalizer
    BY <1>2 DEF ReconcileBegin
  <2>2. Life(Cached) = 2
    BY <1>2, <2>1, LifeCases
  <2>3. FirstStep(Cached) \in {"delete", "delmeta"}
    BY <1>2 DEF FirstStep
  <2> QED BY <1>1, <2>2, <2>3
<1>3. CASE ~Cached.deleting
  <2>1. CASE Cached.finalizer
    <3>1. Life(Cached) = 1
      BY <1>3, <2>1, LifeCases
    <3>2. FirstStep(Cached) \in {"failed", "topics"}
      BY <1>3, <2>1 DEF FirstStep
    <3> QED BY <1>1, <3>1, <3>2
  <2>2. CASE ~Cached.finalizer
    <3>1. Life(Cached) = 0
      BY <1>3, <2>2, LifeCases
    <3>2. FirstStep(Cached) \in {"failed", "finalizer"}
      BY <1>3, <2>2 DEF FirstStep
    <3> QED BY <1>1, <3>1, <3>2
  <2> QED BY <2>1, <2>2
<1> QED BY <1>2, <1>3

-----------------------------------------------------------------------------
(* The invariants are kept                                                 *)

DeletionInv == RouteInv /\ LifeInv /\ OrderInv /\ HeldInv /\ CleanInv

\* The numbers and objects the steps below argue with.
LEMMA Ends ==
    ASSUME RouteInv
    PROVE  /\ ObjectInv /\ Len(versions) \in DOMAIN versions /\ 1 \in DOMAIN versions
           /\ Stored = versions[Len(versions)] /\ Cached = versions[1]
           /\ DOMAIN versions = 1 .. Len(versions) /\ Len(versions) \in Nat
           /\ \A i \in DOMAIN versions : versions[i] \in ObjectRec /\ versions[i].uid \in Nat
           /\ opc # "idle" => base \in ObjectRec /\ base.uid \in Nat
<1>1. ObjectInv /\ versions \in Seq(ObjectRec) /\ versions # <<>>
  BY DEF RouteInv, ObjectInv
<1>2. /\ Len(versions) \in Nat /\ DOMAIN versions = 1 .. Len(versions)
      /\ Len(versions) \in DOMAIN versions /\ 1 \in DOMAIN versions
      /\ \A i \in DOMAIN versions : versions[i] \in ObjectRec
  BY <1>1
<1>3. \A o \in ObjectRec : o.uid \in Nat
  BY DEF ObjectRec
<1> QED BY <1>1, <1>2, <1>3 DEF ObjectInv, Stored, Cached

\* What a step does to the versions, in terms of the lives they are in.
LEMMA LifeMoves ==
    ASSUME RouteInv, LifeInv, [Next]_vars
    PROVE  \/ Stored' = Stored /\ \E k \in Nat : SeenShift(k)
           \/ \E o \in ObjectRec :
                 /\ Stored' = o /\ Turns(o) /\ (Gone(o) <=> Life(o) = 3) /\ Before(Stored, o)
                 /\ \A k \in DOMAIN versions' :
                       \/ k \in DOMAIN versions /\ versions'[k] = versions[k]
                       \/ k = Len(versions') /\ versions'[k] = o
<1>1. CASE Seen
  BY <1>1 DEF Seen
<1>2. CASE \E o \in ObjectRec : Store(o) /\ Writes(o)
  <2>1. PICK o \in ObjectRec : Store(o) /\ Writes(o)
    BY <1>2
  <2>2. Turns(o) /\ (Gone(o) <=> Life(o) = 3) /\ Before(Stored, o)
    BY <2>1, WriteTurns
  <2>3. /\ Stored' = o
        /\ \A k \in DOMAIN versions' : \/ k \in DOMAIN versions /\ versions'[k] = versions[k]
                                       \/ k = Len(versions') /\ versions'[k] = o
    BY <2>1, StoreShape DEF RouteInv
  <2> QED BY <2>2, <2>3
<1> QED BY <1>1, <1>2, VersionMoves

LEMMA DeletionInit == Init => DeletionInv
<1> SUFFICES ASSUME Init PROVE DeletionInv
  OBVIOUS
<1>1. PICK spec \in Specs : versions = <<NewObject(1, spec)>>
  BY DEF Init
<1>2. opc = "idle" /\ meta = FALSE /\ worker = FALSE /\ shardmap = {}
  BY DEF Init
<1> DEFINE v == NewObject(1, spec)
<1>3. Life(v) = 0 /\ ~Gone(v) /\ v.uid = 1
  BY BareLife
<1>4. \A k \in DOMAIN versions : k = 1 /\ versions[k] = v
  BY <1>1
<1>5. Before(v, v)
  BY <1>3, BeforeOrder
<1> HIDE DEF v
<1>6. LifeInv
  BY <1>2, <1>3, <1>4 DEF LifeInv, FailsQueue, Deletes
<1>7. OrderInv
  BY <1>2, <1>4, <1>5 DEF OrderInv
<1>8. HeldInv
  BY <1>2, <1>3, <1>4 DEF HeldInv, FailsQueue, Deletes
<1>9. CleanInv
  BY <1>2 DEF CleanInv, Served
<1> QED BY <1>6, <1>7, <1>8, <1>9, InitRoutes DEF DeletionInv

LEMMA LifeStep ==
    ASSUME RouteInv, LifeInv, [Next]_vars
    PROVE  LifeInv'
<1>1. \A k \in DOMAIN versions' : Gone(versions'[k]) <=> Life(versions'[k]) = 3
  <2>0. \A k \in DOMAIN versions : Gone(versions[k]) <=> Life(versions[k]) = 3
    BY DEF LifeInv
  <2>1. CASE \E k \in Nat : SeenShift(k)
    BY <2>0, <2>1 DEF SeenShift
  <2>2. CASE \E o \in ObjectRec :
                 /\ (Gone(o) <=> Life(o) = 3)
                 /\ \A k \in DOMAIN versions' :
                       \/ k \in DOMAIN versions /\ versions'[k] = versions[k]
                       \/ k = Len(versions') /\ versions'[k] = o
    BY <2>0, <2>2
  <2> QED BY <2>1, <2>2, LifeMoves
<1>2. \A k \in DOMAIN versions' : Gone(versions[k])' <=> Life(versions[k])' = 3
  BY <1>1 DEF Gone, Life
<1> DEFINE At(pc, o) ==
        /\ pc = "finalizer" => Life(o) = 0
        /\ pc \in FailsQueue \cup {"ready"} => Life(o) = 1
        /\ pc = "failed" => Life(o) \in {0, 1}
        /\ pc \in Deletes => Life(o) = 2
<1> USE DEF FailsQueue, Deletes
<1>3. At(opc', base')
  <2>0. At(opc, base)
    BY DEF LifeInv
  <2>1. CASE opc' = "idle"
    BY <2>1
  <2>2. CASE ReconcileBegin
    BY <2>2, BeginLife
  <2>3. CASE AddFinalizer /\ opc' # "idle"
    <3>1. opc = "finalizer" /\ opc' = "topics" /\ base' = [base EXCEPT !.finalizer = TRUE]
      BY <2>3 DEF AddFinalizer, Return
    <3>2. base \in ObjectRec /\ Life(base) = 0
      BY <3>1, Ends DEF LifeInv
    <3>3. Life(base') = 1
      BY <3>1, <3>2, ExceptLife
    <3> QED BY <3>1, <3>3
  <2>4. CASE opc' # "idle" /\ ~ReconcileBegin /\ ~AddFinalizer
    <3>1. base' = base /\ opc # "idle"
      BY <2>4, BaseMoves
    <3>2. \/ opc' = opc
          \/ opc \in FailsQueue /\ opc' \in FailsQueue \cup {"ready", "failed"}
          \/ opc \in Deletes /\ opc' \in Deletes
      BY <2>4, PcMoves
    <3> QED BY <2>0, <3>1, <3>2
  <2> QED BY <2>1, <2>2, <2>3, <2>4
<1>4. Life(base)' = Life(base')
  BY DEF Life
<1> QED BY <1>2, <1>3, <1>4 DEF LifeInv

LEMMA OrderStep ==
    ASSUME RouteInv, LifeInv, OrderInv, [Next]_vars
    PROVE  OrderInv'
<1>0. RouteInv'
  BY RouteStep
<1>a. /\ \A i \in DOMAIN versions' : i \in Int /\ i <= Len(versions')
      /\ \A i \in DOMAIN versions : i \in Int /\ i <= Len(versions) /\ versions[i].uid \in Nat
      /\ Len(versions) \in DOMAIN versions /\ Stored = versions[Len(versions)]
      /\ 1 \in DOMAIN versions /\ Cached = versions[1]
      /\ Len(versions') \in Nat /\ Len(versions) \in Nat
      /\ \A i \in DOMAIN versions : 1 <= i
      /\ opc # "idle" => base.uid \in Nat
  <2>1. Len(versions') \in Nat /\ DOMAIN versions' = 1 .. Len(versions')
    BY <1>0 DEF RouteInv, ObjectInv
  <2> QED BY <2>1, Ends
<1>b. \A i, j \in DOMAIN versions : i <= j => Before(versions[i], versions[j])
  BY DEF OrderInv
<1>c. \A i \in DOMAIN versions : Before(versions[i], Stored)
  BY <1>a, <1>b
<1>d. \A i \in DOMAIN versions' : versions'[i].uid \in Nat
  <2>1. versions' \in Seq(ObjectRec)
    BY <1>0 DEF RouteInv, ObjectInv
  <2>2. \A i \in DOMAIN versions' : versions'[i] \in ObjectRec
    BY <2>1
  <2> QED BY <2>2 DEF ObjectRec
<1>1. ASSUME NEW i \in DOMAIN versions', NEW j \in DOMAIN versions', i <= j
      PROVE  Before(versions'[i], versions'[j])
  <2>1. CASE \E k \in Nat : SeenShift(k)
    <3>1. PICK k \in Nat : SeenShift(k)
      BY <2>1
    <3>2. /\ i + k \in DOMAIN versions /\ versions'[i] = versions[i + k]
          /\ j + k \in DOMAIN versions /\ versions'[j] = versions[j + k]
      BY <3>1 DEF SeenShift
    <3>3. i + k <= j + k
      BY <1>a, <1>1
    <3> QED BY <1>b, <3>2, <3>3
  <2>2. ASSUME NEW o \in ObjectRec, Before(Stored, o),
               \A k \in DOMAIN versions' : \/ k \in DOMAIN versions /\ versions'[k] = versions[k]
                                           \/ k = Len(versions') /\ versions'[k] = o
        PROVE  Before(versions'[i], versions'[j])
    <3>1. CASE i = j
      BY <1>d, <3>1, BeforeOrder
    <3>2. CASE i # j
      <4>1. i # Len(versions')
        BY <1>a, <1>1, <3>2
      <4>2. i \in DOMAIN versions /\ versions'[i] = versions[i]
        BY <2>2, <4>1
      <4>3. CASE j \in DOMAIN versions /\ versions'[j] = versions[j]
        BY <1>1, <1>b, <4>2, <4>3
      <4>4. CASE versions'[j] = o
        <5>1. Before(versions[i], Stored) /\ Before(Stored, o)
          BY <1>c, <2>2, <4>2
        <5>2. versions[i].uid \in Nat /\ Stored.uid \in Nat /\ o.uid \in Nat
          BY <1>a, <4>2 DEF ObjectRec
        <5>3. Before(versions[i], o)
          BY <5>1, <5>2, BeforeOrder
        <5> QED BY <4>2, <4>4, <5>3
      <4> QED BY <2>2, <4>3, <4>4
    <3> QED BY <3>1, <3>2
  <2> QED BY <2>1, <2>2, LifeMoves
<1>2. ASSUME opc' = "finalizer", NEW i \in DOMAIN versions'
      PROVE  Before(base', versions'[i])
  <2>1. CASE ReconcileBegin
    <3>1. base' = Cached /\ UNCHANGED versions
      BY <2>1, BeginLife
    <3> QED BY <1>a, <1>b, <3>1
  <2>2. CASE ~ReconcileBegin
    <3>1. opc = "finalizer"
      BY <1>2, <2>2, PcMoves DEF FailsQueue, Deletes
    <3>2. base' = base
      <4>1. AddFinalizer => opc' # "finalizer"
        BY DEF AddFinalizer, Return
      <4> QED BY <1>2, <2>2, <4>1, BaseMoves
    <3>3. \A k \in DOMAIN versions : Before(base, versions[k])
      BY <3>1 DEF OrderInv
    <3>4. CASE \E k \in Nat : SeenShift(k)
      BY <3>2, <3>3, <3>4 DEF SeenShift
    <3>5. ASSUME NEW o \in ObjectRec, Before(Stored, o),
                 \A k \in DOMAIN versions' : \/ k \in DOMAIN versions /\ versions'[k] = versions[k]
                                             \/ k = Len(versions') /\ versions'[k] = o
          PROVE  Before(base, versions'[i])
      <4>1. Before(base, Stored) /\ Stored.uid \in Nat /\ o.uid \in Nat /\ base.uid \in Nat
        BY <1>a, <3>1, <3>3 DEF ObjectRec
      <4>2. Before(base, o)
        BY <3>5, <4>1, BeforeOrder
      <4> QED BY <3>3, <3>5, <4>2
    <3> QED BY <3>2, <3>4, <3>5, LifeMoves
  <2> QED BY <2>1, <2>2
<1> QED BY <1>1, <1>2 DEF OrderInv

LEMMA HeldStep ==
    ASSUME RouteInv, LifeInv, OrderInv, HeldInv, [Next]_vars
    PROVE  HeldInv'
<1> USE DEF FailsQueue, Deletes
<1>0. /\ \A i \in DOMAIN versions : i \in Int /\ 1 <= i /\ i <= Len(versions)
      /\ \A i \in DOMAIN versions' : i \in Int /\ i <= Len(versions')
      /\ Len(versions) \in DOMAIN versions /\ Stored = versions[Len(versions)]
      /\ 1 \in DOMAIN versions /\ Cached = versions[1]
      /\ Len(versions) \in Nat /\ Len(versions') \in Nat
  <2>1. Len(versions') \in Nat /\ DOMAIN versions' = 1 .. Len(versions')
    BY RouteStep DEF RouteInv, ObjectInv
  <2> QED BY <2>1, Ends
<1>a. \A i \in DOMAIN versions : Life(versions[i]) = 1 => Life(Stored) \in {1, 2}
  BY DEF HeldInv
<1>b. \A i, j \in DOMAIN versions :
         i <= j /\ Life(versions[i]) = 2 => Life(versions[j]) # 1
  BY DEF HeldInv
<1>c. opc \in FailsQueue => Life(Stored) \in {1, 2}
  BY DEF HeldInv
<1>d. opc \in Deletes => \A i \in DOMAIN versions : Life(versions[i]) # 1
  BY DEF HeldInv
<1> DEFINE Written(o) ==
        /\ Stored' = o /\ Turns(o)
        /\ \A k \in DOMAIN versions' : \/ k \in DOMAIN versions /\ versions'[k] = versions[k]
                                       \/ k = Len(versions') /\ versions'[k] = o
<1>e. \/ Stored' = Stored /\ \E k \in Nat : SeenShift(k)
      \/ \E o \in ObjectRec : Written(o)
  BY LifeMoves
<1>1. ASSUME NEW i \in DOMAIN versions', Life(versions'[i]) = 1
      PROVE  Life(Stored') \in {1, 2}
  <2>1. CASE Stored' = Stored /\ \E k \in Nat : SeenShift(k)
    BY <1>1, <1>a, <2>1 DEF SeenShift
  <2>2. ASSUME NEW o \in ObjectRec, Written(o) PROVE Life(Stored') \in {1, 2}
    <3>1. CASE versions'[i] = o
      BY <1>1, <2>2, <3>1
    <3>2. CASE i \in DOMAIN versions /\ versions'[i] = versions[i]
      <4>1. Life(Stored) \in {1, 2} /\ opc # "unfinalize"
        BY <1>1, <1>a, <1>d, <3>2
      <4> QED BY <2>2, <4>1 DEF Turns
    <3> QED BY <2>2, <3>1, <3>2
  <2> QED BY <1>e, <2>1, <2>2
<1>2. ASSUME NEW i \in DOMAIN versions', NEW j \in DOMAIN versions', i <= j, Life(versions'[i]) = 2
      PROVE  Life(versions'[j]) # 1
  <2>1. CASE \E k \in Nat : SeenShift(k)
    <3>1. PICK k \in Nat : SeenShift(k)
      BY <2>1
    <3>2. /\ i + k \in DOMAIN versions /\ versions'[i] = versions[i + k]
          /\ j + k \in DOMAIN versions /\ versions'[j] = versions[j + k]
      BY <3>1 DEF SeenShift
    <3>3. i + k <= j + k
      BY <1>0, <1>2
    <3> QED BY <1>2, <1>b, <3>2, <3>3
  <2>2. ASSUME NEW o \in ObjectRec, Written(o) PROVE Life(versions'[j]) # 1
    <3>1. CASE i = j
      BY <1>2, <3>1
    <3>2. CASE i # j
      <4>1. i # Len(versions')
        BY <1>0, <1>2, <3>2
      <4>2. i \in DOMAIN versions /\ versions'[i] = versions[i] /\ Life(versions[i]) = 2
        BY <1>2, <2>2, <4>1
      <4>3. CASE j \in DOMAIN versions /\ versions'[j] = versions[j]
        BY <1>2, <1>b, <4>2, <4>3
      <4>4. CASE versions'[j] = o
        <5>1. Life(Stored) # 1
          BY <1>0, <1>b, <4>2
        <5>2. ASSUME opc = "finalizer", Stored = base PROVE FALSE
          <6>1. Before(versions[i], Stored) /\ Before(Stored, versions[i])
            BY <1>0, <4>2, <5>2 DEF OrderInv
          <6>2. versions[i].uid \in Nat /\ Stored.uid \in Nat
            BY <4>2, Ends
          <6>3. Life(versions[i]) = Life(Stored)
            BY <6>1, <6>2, BeforeOrder
          <6> QED BY <4>2, <5>2, <6>3 DEF LifeInv
        <5>3. Life(o) # 1
          BY <2>2, <5>1, <5>2 DEF Turns
        <5> QED BY <4>4, <5>3
      <4> QED BY <2>2, <4>3, <4>4
    <3> QED BY <3>1, <3>2
  <2> QED BY <1>e, <2>1, <2>2
<1>3. ASSUME opc' \in FailsQueue PROVE Life(Stored') \in {1, 2}
  <2>1. CASE ReconcileBegin
    <3>1. Life(Cached) = 1 /\ UNCHANGED versions
      BY <1>3, <2>1, BeginLife
    <3>2. Stored' = Stored
      BY <3>1 DEF Stored
    <3> QED BY <1>0, <1>a, <3>1, <3>2
  <2>2. CASE AddFinalizer
    <3>1. /\ opc = "finalizer" /\ base' = [base EXCEPT !.finalizer = TRUE] /\ Store(base')
      BY <1>3, <2>2 DEF AddFinalizer, Return
    <3>2. base \in ObjectRec /\ Life(base) = 0 /\ ObjectInv
      BY <3>1, Ends DEF LifeInv
    <3>3. base' \in ObjectRec
      BY <3>1, <3>2 DEF ObjectRec
    <3>4. Stored' = base'
      BY <3>1, <3>2, <3>3, StoreShape
    <3>5. Life(base') = 1
      BY <3>1, <3>2, ExceptLife
    <3> QED BY <3>4, <3>5
  <2>3. CASE ~ReconcileBegin /\ ~AddFinalizer
    <3>1. opc \in FailsQueue
      BY <1>3, <2>3, PcMoves
    <3>2. Life(Stored) \in {1, 2}
      BY <1>c, <3>1
    <3>3. ASSUME NEW o \in ObjectRec, Written(o) PROVE Life(o) \in {1, 2}
      BY <3>1, <3>2, <3>3 DEF Turns
    <3> QED BY <1>e, <3>2, <3>3
  <2> QED BY <2>1, <2>2, <2>3
<1>4. ASSUME opc' \in Deletes, NEW i \in DOMAIN versions' PROVE Life(versions'[i]) # 1
  <2>1. CASE ReconcileBegin
    <3>1. Life(Cached) = 2 /\ UNCHANGED versions
      BY <1>4, <2>1, BeginLife
    <3> QED BY <1>0, <1>b, <3>1
  <2>2. CASE ~ReconcileBegin
    <3>1. opc \in Deletes
      BY <1>4, <2>2, PcMoves
    <3>2. CASE \E k \in Nat : SeenShift(k)
      BY <1>d, <3>1, <3>2 DEF SeenShift
    <3>3. ASSUME NEW o \in ObjectRec, Written(o) PROVE Life(versions'[i]) # 1
      <4>1. Life(o) # 1
        BY <3>1, <3>3 DEF Turns
      <4> QED BY <1>d, <3>1, <3>3, <4>1
    <3> QED BY <1>e, <3>2, <3>3
  <2> QED BY <2>1, <2>2
<1> HIDE DEF Written
<1> QED BY <1>1, <1>2, <1>3, <1>4 DEF HeldInv

\* Who makes the message plane serve the queue, and who takes it down.
LEMMA ServeMoves ==
    ASSUME [Next]_vars
    PROVE  /\ meta' => meta \/ opc = "meta"
           /\ shardmap' # {} => shardmap # {} \/ opc = "map"
           /\ worker' => worker \/ opc = "temporal"
           /\ opc' = "delmap" => opc = "delmap" \/ ~meta'
           /\ opc' = "delworker" => opc = "delworker" \/ (shardmap' = {} /\ opc = "delmap")
           /\ opc' = "unfinalize" => opc = "unfinalize" \/ (~worker' /\ opc = "delworker")
<1> DEFINE M == meta' => meta \/ opc = "meta"
           W == worker' => worker \/ opc = "temporal"
           Pc == /\ opc' = "delmap" => opc = "delmap"
                 /\ opc' = "delworker" => opc = "delworker"
                 /\ opc' = "unfinalize" => opc = "unfinalize"
<1>0. ASSUME NEW failed, Return(failed) PROVE opc' = "idle"
  BY <1>0 DEF Return
<1>1. AddFinalizer \/ UpdateStatus \/ RemoveFinalizer => M /\ W /\ Pc
  <2>1. AddFinalizer \/ UpdateStatus \/ RemoveFinalizer => opc' \in {"idle", "topics"}
    BY <1>0 DEF AddFinalizer, UpdateStatus, RemoveFinalizer
  <2>2. AddFinalizer \/ UpdateStatus \/ RemoveFinalizer => UNCHANGED <<meta, worker>>
    BY DEF AddFinalizer, UpdateStatus, RemoveFinalizer, redisVars
  <2> QED BY <2>1, <2>2
<1>2. \/ EnsureTopic \/ SampleShard \/ SplitShard \/ CheckLag \/ DeleteDrained \/ StopSplitting
      => M /\ W /\ Pc
  BY DEF EnsureTopic, SampleShard, SplitShard, CheckLag, DeleteDrained, StopSplitting,
     NextDrain, NextShard, Goto, redisVars, objectVars
<1>3. PublishMeta \/ PublishMap \/ ReconcileTemporalWorker \/ DeleteShardTopic => M /\ W /\ Pc
  BY DEF PublishMeta, PublishMap, ReconcileTemporalWorker, DeleteShardTopic, NextShard, Goto,
     redisVars, objectVars
<1>4. DeleteQueueMeta => M /\ W /\ opc' = "delmap" /\ ~meta'
  BY DEF DeleteQueueMeta, Goto, objectVars
<1>5. DeleteShardMap => M /\ W /\ opc = "delmap" /\ opc' = "delworker" /\ shardmap' = {}
  BY DEF DeleteShardMap, DelShardMap, Goto, objectVars
<1>6. DeleteTemporalWorker => M /\ W /\ opc = "delworker" /\ opc' = "unfinalize" /\ ~worker'
  BY DEF DeleteTemporalWorker, Goto, redisVars
<1>7. RequestFails \/ AnswerLost \/ OperatorCrash => M /\ W /\ Pc
  <2>1. RequestFails \/ AnswerLost \/ OperatorCrash => opc' \in {"idle", "failed"}
    BY <1>0 DEF RequestFails, AnswerLost, OperatorCrash
  <2>2. RequestFails \/ AnswerLost \/ OperatorCrash => UNCHANGED <<meta, worker>>
    BY DEF RequestFails, AnswerLost, OperatorCrash, redisVars, objectVars
  <2> QED BY <2>1, <2>2
<1>8. ReconcileIgnored \/ Deliver \/ Resync \/ DeleteQueue \/ CreateQueue \/ Tick
      \/ UNCHANGED vars => M /\ W /\ Pc
  BY DEF ReconcileIgnored, ReconcileStart, Deliver, Resync, DeleteQueue, CreateQueue, Tick, vars,
     operatorVars, redisVars, objectVars
<1>9. ReconcileBegin => M /\ W /\ Pc
  <2>1. ReconcileBegin => UNCHANGED <<meta, worker>>
    BY DEF ReconcileBegin, ReconcileStart, redisVars, objectVars
  <2> QED BY <2>1, BeginLife
<1>10. ASSUME NEW s \in Sender, FindQueue(s) \/ RouteForSend(s) \/ Produce(s) PROVE M /\ W /\ Pc
  BY <1>10 DEF FindQueue, RouteForSend, Produce, operatorVars, redisVars, objectVars
<1>11. ASSUME NEW t \in Id, Consume(t) \/ RecordsExpire(t) PROVE M /\ W /\ Pc
  BY <1>11 DEF Consume, RecordsExpire, operatorVars, redisVars, objectVars
<1>12. M /\ W /\ (Pc \/ DeleteQueueMeta \/ DeleteShardMap \/ DeleteTemporalWorker)
  <2> HIDE DEF M, W, Pc
  <2> QED
    BY <1>1, <1>2, <1>3, <1>4, <1>5, <1>6, <1>7, <1>8, <1>9, <1>10, <1>11
    DEF Next, Reconcile, ReconcileStep
<1>13. shardmap' # {} => shardmap # {} \/ opc = "map"
  BY MapMoves
<1> QED BY <1>4, <1>5, <1>6, <1>12, <1>13

LEMMA CleanStep ==
    ASSUME RouteInv, LifeInv, HeldInv, CleanInv, [Next]_vars
    PROVE  CleanInv'
<1> USE DEF FailsQueue, Deletes
<1>1. ASSUME Life(Stored') \in {0, 3}, Served' PROVE FALSE
  <2>1. Served \/ opc \in FailsQueue
    BY <1>1, ServeMoves DEF Served
  <2>2. Life(Stored) \in {1, 2}
    BY <2>1, LifeCases DEF CleanInv, HeldInv
  <2>3. opc \in FailsQueue \/ opc # "unfinalize"
    BY <2>1 DEF CleanInv, Served
  <2>4. ASSUME NEW o \in ObjectRec, Stored' = o, Turns(o) PROVE Life(o) \in {1, 2}
    BY <2>2, <2>3, <2>4 DEF Turns
  <2>5. Stored' = Stored \/ \E o \in ObjectRec : Stored' = o /\ Turns(o)
    BY LifeMoves
  <2> QED BY <1>1, <2>2, <2>4, <2>5
<1>2. opc' \in {"delmap", "delworker", "unfinalize"} => ~meta'
  BY ServeMoves DEF CleanInv
<1>3. opc' \in {"delworker", "unfinalize"} => shardmap' = {}
  BY ServeMoves DEF CleanInv
<1>4. opc' = "unfinalize" => ~worker'
  BY ServeMoves DEF CleanInv
<1> QED BY <1>1, <1>2, <1>3, <1>4 DEF CleanInv

\* Once the finalizer of a deleted Queue is gone, no metadata, shard map or
\* TemporalWorker of it is left, whatever order the cache, the user, crashes
\* and failed requests make the reconciler's steps come in.
THEOREM DeletedQueuesAreNotServed == Spec => []NoOrphanRoutes
<1>1. Init => DeletionInv
  BY DeletionInit
<1>2. DeletionInv /\ [Next]_vars => DeletionInv'
  BY RouteStep, LifeStep, OrderStep, HeldStep, CleanStep DEF DeletionInv
<1>3. DeletionInv => NoOrphanRoutes
  <2> SUFFICES ASSUME DeletionInv, Gone(Stored) PROVE ~meta /\ shardmap = {} /\ ~worker
    BY DEF NoOrphanRoutes
  <2>1. Life(Stored) = 3
    BY Ends DEF DeletionInv, LifeInv
  <2> QED BY <2>1 DEF DeletionInv, CleanInv, Served
<1> QED BY <1>1, <1>2, <1>3, PTL DEF Spec
=============================================================================
