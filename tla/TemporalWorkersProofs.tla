----------------------- MODULE TemporalWorkersProofs ------------------------
(***************************************************************************)
(* Theorems about TemporalWorkers, for any number of Queues, of creations  *)
(* and of versions the operator has not seen.                              *)
(***************************************************************************)
EXTENDS TemporalWorkers, TLAPS

USE DEF objectVars, queueCtl, workerCtl

-----------------------------------------------------------------------------
(* The invariants                                                          *)

\* TypeOK, with queue as a function.
TypeQueue == queue \in [Queue -> Seq(QueueObject) \ {<<>>}]

\* A worker exists, is being reconciled or has a Deployment only where the
\* namespace is registered, and so has a Queue past its registration.
RegisteredInv ==
    \/ registered
    \/ /\ qpc # "worker" /\ wbase.at = "gone"
       /\ \A i \in DOMAIN worker : worker[i].at = "gone"
       /\ \A i \in DOMAIN dep : dep[i].at = "gone"

\* Workers come one after the other, the Deployment is never ahead of what the
\* cache shows of them, and a reconcile is between the two: it adopts for the
\* worker it has read, and never takes a Deployment back to an earlier one ...
NewestInv ==
    /\ \A i, j \in DOMAIN worker : i <= j => worker[i].n <= worker[j].n
    /\ \A i \in DOMAIN worker : \A j \in DOMAIN dep : dep[j].owner <= worker[i].n
    /\ wpc # "idle" => /\ \A i \in DOMAIN worker : wbase.n <= worker[i].n
                       /\ \A j \in DOMAIN dep : dep[j].owner <= wbase.n

\* ... and a Deployment of the stored worker that was ever seen is still there, as
\* the garbage collector leaves it alone.
Deployed == Stored(dep).at = "live" /\ Stored(dep).owner = Stored(worker).n
DeployedInv ==
    Stored(worker).at # "gone" =>
        /\ \A i \in DOMAIN dep :
              dep[i].at = "live" /\ dep[i].owner = Stored(worker).n => Deployed
        /\ wready /\ wbase.n = Stored(worker).n => Deployed

ReadyInv == NewestInv /\ DeployedInv /\ ReadyHasDeployment /\ (wpc = "idle" => ~wready)

\* Where the reconciles are, and what they have read.
Held == {"held", "ready", "failed"}
BaseInv ==
    /\ wpc = "finalizer" => wbase.at = "new"
    /\ wpc \in {"deploy", "status", "failed"} => wbase.at = "held"
    /\ wpc = "unfinalize" => wbase.at = "deleting"
    /\ qpc = "finalizer" => qbase.at = "new"
    /\ qpc \in {"register", "worker", "ready", "failed"} => qbase.at \in Held
    /\ qpc \in {"delworker", "unfinalize"} => qbase.at = "deleting"

\* The life of a Queue: new, held, deleting, gone, and new again.
Phase(o) == CASE o.at = "new" -> 0 [] o.at \in Held -> 1 [] o.at = "deleting" -> 2
              [] OTHER -> 3
Before(o, p) == o.n < p.n \/ (o.n = p.n /\ Phase(o) <= Phase(p))

\* Versions come in this order, and a reconcile that adds the finalizer has read
\* one that is not later than those the cache has yet to see.
OrderInv ==
    /\ \A q \in Queue : \A i, j \in DOMAIN queue[q] : i <= j => Before(queue[q][i], queue[q][j])
    /\ qpc = "finalizer" => \A i \in DOMAIN queue[qkey] : Before(qbase, queue[qkey][i])

\* While the cache may still show a Queue as held, or a reconcile is working on
\* it, the finalizer keeps the Queue there: only the reconcile of a deletion,
\* which the cache has seen, removes it.
FinalizerInv ==
    /\ \A q \in Queue : \A i \in DOMAIN queue[q] :
          queue[q][i].at \in Held => Stored(queue[q]).at \in Held \cup {"deleting"}
    /\ \A q \in Queue : \A i, j \in DOMAIN queue[q] :
          i <= j /\ queue[q][i].at = "deleting" => queue[q][j].at \notin Held
    /\ qpc \in {"register", "worker", "ready", "failed"} =>
          Stored(queue[qkey]).at \in Held \cup {"deleting"}
    /\ qpc \in {"delworker", "unfinalize"} =>
          \A i \in DOMAIN queue[qkey] : queue[qkey][i].at \notin Held

\* No worker without a Queue that has the finalizer, nor once the reconcile of a
\* deletion has deleted it.
NoFinalizer == \A q \in Queue : Stored(queue[q]).at \in {"new", "gone"}
OrphanInv == NoFinalizer \/ qpc = "unfinalize" => Stored(worker).at \notin {"new", "held"}

-----------------------------------------------------------------------------
(* Versions of an object                                                   *)

LEMMA StoredIn ==
  ASSUME NEW S, NEW vs \in Seq(S), vs # <<>>
  PROVE  /\ Stored(vs) \in S /\ Cached(vs) \in S /\ Len(vs) \in DOMAIN vs /\ 1 \in DOMAIN vs
         /\ DOMAIN vs = 1 .. Len(vs) /\ \A i \in DOMAIN vs : vs[i] \in S /\ i <= Len(vs)
BY DEF Stored, Cached

LEMMA StoreAdds ==
  ASSUME NEW S, NEW vs \in Seq(S), vs # <<>>, NEW o \in S
  PROVE  /\ Store(vs, o) \in Seq(S) /\ Store(vs, o) # <<>> /\ Stored(Store(vs, o)) = o
         /\ \A i \in DOMAIN Store(vs, o) :
               \/ i \in DOMAIN vs /\ Store(vs, o)[i] = vs[i]
               \/ i = Len(Store(vs, o)) /\ Store(vs, o)[i] = o
<1>1. CASE o = Stored(vs)
  BY <1>1 DEF Store
<1>2. CASE o # Stored(vs)
  <2>1. Store(vs, o) = Append(vs, o)
    BY <1>2 DEF Store
  <2> QED
    BY <2>1 DEF Stored
<1> QED
  BY <1>1, <1>2

\* The cache catches up: what is stored stays, and what is left to see comes in
\* the same order.
Seen(ws, vs) ==
    /\ Stored(ws) = Stored(vs)
    /\ \E k \in Nat : \A i \in DOMAIN ws : i + k \in DOMAIN vs /\ ws[i] = vs[i + k]

LEMMA SameSeen == ASSUME NEW S, NEW vs \in Seq(S) PROVE Seen(vs, vs)
<1>1. \A i \in DOMAIN vs : i + 0 \in DOMAIN vs /\ vs[i] = vs[i + 0]
  OBVIOUS
<1> QED
  BY <1>1 DEF Seen

LEMMA LongNotEmpty == ASSUME NEW vs, Len(vs) # 0 PROVE vs # <<>>
OBVIOUS

LEMMA TailSeen ==
  ASSUME NEW S, NEW vs \in Seq(S), Len(vs) > 1
  PROVE  Tail(vs) \in Seq(S) /\ Tail(vs) # <<>> /\ Seen(Tail(vs), vs)
<1>1. Tail(vs) \in Seq(S) /\ Len(Tail(vs)) = Len(vs) - 1
  OBVIOUS
<1>2. \A i \in DOMAIN Tail(vs) : i + 1 \in DOMAIN vs /\ Tail(vs)[i] = vs[i + 1]
  BY <1>1
<1>3. Stored(Tail(vs)) = Stored(vs)
  <2>1. Len(vs) - 1 \in DOMAIN Tail(vs) /\ (Len(vs) - 1) + 1 = Len(vs)
    BY <1>1
  <2>2. Tail(vs)[Len(vs) - 1] = vs[Len(vs)]
    BY <1>2, <2>1
  <2> QED
    BY <1>1, <2>2 DEF Stored
<1>4. Seen(Tail(vs), vs)
  <2> 1 \in Nat
    OBVIOUS
  <2> QED
    BY <1>2, <1>3, Zenon DEF Seen
<1>5. Tail(vs) # <<>>
  <2>1. Len(Tail(vs)) # 0
    BY <1>1
  <2> QED
    BY <2>1, LongNotEmpty
<1> QED
  BY <1>1, <1>4, <1>5

LEMMA RestartSeen ==
  ASSUME NEW S, NEW vs \in Seq(S), vs # <<>>, NEW ws, ws = <<Stored(vs)>>
  PROVE  ws \in Seq(S) /\ ws # <<>> /\ Seen(ws, vs)
<1>1. ws \in Seq(S) /\ DOMAIN ws = {1} /\ ws[1] = vs[Len(vs)] /\ Len(ws) = 1
  BY StoredIn DEF Stored
<1>2. Len(vs) - 1 \in Nat
  OBVIOUS
<1>3. \A i \in DOMAIN ws : i + (Len(vs) - 1) \in DOMAIN vs /\ ws[i] = vs[i + (Len(vs) - 1)]
  BY <1>1
<1>4. Stored(ws) = Stored(vs)
  BY <1>1 DEF Stored
<1> QED
  BY <1>1, <1>2, <1>3, <1>4 DEF Seen

-----------------------------------------------------------------------------
(* Type correctness                                                        *)

TypeWorker == worker \in Seq(WorkerObject) \ {<<>>}
TypeDep == dep \in Seq(Deployment) \ {<<>>}
Flags == registered \in BOOLEAN /\ wready \in BOOLEAN /\ wwork \in BOOLEAN
TypeQueueCtl ==
    /\ qwork \subseteq Queue /\ qkey \in Queue \cup {NoKey} /\ qbase \in QueueObject
    /\ qpc \in {"idle", "finalizer", "register", "worker", "ready", "failed", "delworker",
                "unfinalize"}
    /\ qpc # "idle" <=> qkey \in Queue
TypeWorkerCtl ==
    /\ wpc \in {"idle", "finalizer", "deploy", "status", "failed", "unfinalize"}
    /\ wbase \in WorkerObject
    /\ wpc # "idle" <=> wbase.at # "gone"
TypeCount == image \in 1 .. MaxImage /\ faults \in 0 .. MaxFaults

TypeInv ==
    /\ TypeQueue /\ TypeWorker /\ TypeDep /\ Flags /\ TypeQueueCtl /\ TypeWorkerCtl /\ TypeCount

LEMMA TypeParts == TypeInv => TypeOK
<1> SUFFICES ASSUME TypeInv PROVE TypeOK
  OBVIOUS
<1>1. \A q \in Queue : queue[q] \in Seq(QueueObject) /\ queue[q] # <<>>
  BY DEF TypeInv, TypeQueue
<1>2. worker \in Seq(WorkerObject) /\ worker # <<>> /\ dep \in Seq(Deployment) /\ dep # <<>>
  BY DEF TypeInv, TypeWorker, TypeDep
<1> QED
  BY <1>1, <1>2, Zenon DEF TypeInv, TypeOK, Flags, TypeQueueCtl, TypeWorkerCtl, TypeCount

\* What is stored and what is cached has its type.
LEMMA ObjectTypes ==
  ASSUME TypeInv
  PROVE  /\ \A q \in Queue : /\ queue[q] \in Seq(QueueObject) /\ queue[q] # <<>>
                             /\ Stored(queue[q]) \in QueueObject
                             /\ Cached(queue[q]) \in QueueObject
         /\ worker \in Seq(WorkerObject) /\ worker # <<>>
         /\ Stored(worker) \in WorkerObject /\ Cached(worker) \in WorkerObject
         /\ dep \in Seq(Deployment) /\ dep # <<>>
         /\ Stored(dep) \in Deployment /\ Cached(dep) \in Deployment
<1>1. \A q \in Queue : queue[q] \in Seq(QueueObject) /\ queue[q] # <<>>
  BY DEF TypeInv, TypeQueue
<1>2. worker \in Seq(WorkerObject) /\ worker # <<>> /\ dep \in Seq(Deployment) /\ dep # <<>>
  BY DEF TypeInv, TypeWorker, TypeDep
<1> QED
  BY <1>1, <1>2, StoredIn

LEMMA NothingTypes ==
  /\ NoQueue \in QueueObject
  /\ NoWorker \in WorkerObject /\ NoWorker.at = "gone" /\ NoWorker.n = 0
  /\ NoDep \in Deployment /\ NoDep.at = "gone" /\ NoDep.owner = 0
<1>1. NoQueue \in QueueObject
  BY BoundAssumption DEF QueueObject, NoQueue
<1>2. NoWorker \in WorkerObject
  BY BoundAssumption DEF NoWorker, WorkerObject
<1>3. NoDep \in Deployment
  BY BoundAssumption DEF NoDep, Deployment
<1> QED
  BY <1>1, <1>2, <1>3 DEF NoWorker, NoDep

LEMMA TypeInit == Init => TypeInv
<1> SUFFICES ASSUME Init PROVE TypeInv
  OBVIOUS
<1> USE BoundAssumption, QueueAssumption
<1>1. [n |-> 1, at |-> "new"] \in QueueObject
  BY DEF QueueObject, Live
<1>4. TypeQueue
  BY <1>1 DEF Init, TypeQueue
<1>5. TypeWorker /\ TypeDep
  BY NothingTypes DEF Init, TypeWorker, TypeDep
<1>6. Flags
  BY Zenon DEF Init, Flags
<1>7. TypeQueueCtl /\ TypeWorkerCtl /\ TypeCount
  BY NothingTypes DEF Init, TypeQueueCtl, TypeWorkerCtl, TypeCount
<1> QED
  BY <1>4, <1>5, <1>6, <1>7 DEF TypeInv

\* The Queue's versions: a write adds one, a watch event or a restart takes off.
QueueWrite(q, o) == o \in QueueObject /\ queue' = [queue EXCEPT ![q] = Store(@, o)]
QueueSeen(q) == queue'[q] \in Seq(QueueObject) /\ queue'[q] # <<>> /\ Seen(queue'[q], queue[q])

\* Who writes a Queue, and with what.
LEMMA QueueWrites ==
  ASSUME TypeInv, [Next]_vars
  PROVE  \/ queue' \in [Queue -> Seq(QueueObject) \ {<<>>}] /\ \A q \in Queue : QueueSeen(q)
         \/ AddFinalizer /\ ~Conflict /\ QueueWrite(qkey, [qbase EXCEPT !.at = "held"])
         \/ UpdateQueueStatus /\ ~Conflict /\ QueueWrite(qkey, [qbase EXCEPT !.at = qpc])
         \/ RemoveFinalizer /\ ~Conflict /\ QueueWrite(qkey, [qbase EXCEPT !.at = "gone"])
         \/ \E q \in Queue :
               CreateQueue(q) /\ QueueWrite(q, [n |-> Stored(queue[q]).n + 1, at |-> "new"])
         \/ \E q \in Queue : DeleteQueue(q) /\ QueueWrite(q, AfterDelete(Stored(queue[q])))
<1> USE ObjectTypes, BoundAssumption
<1> DEFINE AllSeen == /\ queue' \in [Queue -> Seq(QueueObject) \ {<<>>}]
                      /\ \A q \in Queue : QueueSeen(q)
<1>1. CASE UNCHANGED queue
  BY <1>1, SameSeen DEF QueueSeen, TypeInv, TypeQueue
<1>2. ASSUME NEW q \in Queue, DeliverQueue(q) PROVE AllSeen
  <2>1. Tail(queue[q]) \in Seq(QueueObject) \ {<<>>} /\ Seen(Tail(queue[q]), queue[q])
    BY <1>2, TailSeen DEF DeliverQueue
  <2>2. queue' = [queue EXCEPT ![q] = Tail(queue[q])] /\ queue \in [Queue -> Seq(QueueObject) \ {<<>>}]
    BY <1>2 DEF DeliverQueue, TypeInv, TypeQueue
  <2>3. queue' \in [Queue -> Seq(QueueObject) \ {<<>>}]
    BY <2>1, <2>2
  <2>4. \A r \in Queue : Seen(queue'[r], queue[r])
    BY <2>1, <2>2, SameSeen
  <2> QED
    BY <2>3, <2>4 DEF QueueSeen
<1>3. CASE OperatorRestart
  <2>1. \A q \in Queue : queue'[q] = <<Stored(queue[q])>>
    BY <1>3 DEF OperatorRestart
  <2>2. \A q \in Queue : queue'[q] \in Seq(QueueObject) \ {<<>>} /\ Seen(queue'[q], queue[q])
    BY <2>1, RestartSeen
  <2>3. queue' \in [Queue -> Seq(QueueObject) \ {<<>>}]
    BY <1>3, <2>2 DEF OperatorRestart
  <2> QED
    BY <2>2, <2>3 DEF QueueSeen
<1>4. qpc # "idle" => qkey \in Queue /\ \A a \in Live \cup {"gone"} : [qbase EXCEPT !.at = a] \in QueueObject
  BY DEF TypeInv, TypeQueueCtl, QueueObject
<1>5. CASE AddFinalizer /\ ~Conflict
  BY <1>4, <1>5 DEF AddFinalizer, StoreQueue, WriteQueue, QueueWrite, Live
<1>6. CASE UpdateQueueStatus /\ ~Conflict
  BY <1>4, <1>6 DEF UpdateQueueStatus, StoreQueue, WriteQueue, QueueWrite, Live
<1>7. CASE RemoveFinalizer /\ ~Conflict
  BY <1>4, <1>7 DEF RemoveFinalizer, StoreQueue, WriteQueue, QueueWrite
<1>8. ASSUME NEW q \in Queue, CreateQueue(q)
      PROVE  QueueWrite(q, [n |-> Stored(queue[q]).n + 1, at |-> "new"])
  BY <1>8 DEF CreateQueue, WriteQueue, QueueWrite, QueueObject, Live
<1>9. ASSUME NEW q \in Queue, DeleteQueue(q) PROVE QueueWrite(q, AfterDelete(Stored(queue[q])))
  BY <1>9 DEF DeleteQueue, WriteQueue, QueueWrite, QueueObject, AfterDelete
<1>10. \/ UNCHANGED queue \/ (\E q \in Queue : DeliverQueue(q)) \/ OperatorRestart
       \/ AddFinalizer /\ ~Conflict
       \/ UpdateQueueStatus /\ ~Conflict
       \/ RemoveFinalizer /\ ~Conflict
       \/ \E q \in Queue : CreateQueue(q) \/ DeleteQueue(q)
  BY DEF Next, QueueStep, ReconcileQueue, AddFinalizer, RegisterNamespace, ReconcileTemporalWorker,
     UpdateQueueStatus, DeleteWorker, RemoveFinalizer, WorkerStep, ReconcileWorker,
     AddWorkerFinalizer, ReconcileDeployment, UpdateWorkerStatus, RemoveWorkerFinalizer,
     Deliver, DeliverWorker, DeliverDeployment, CollectDeployment, PodsReady, QueueRequestFails,
     WorkerRequestFails, vars
<1> HIDE DEF AllSeen
<1> QED
  BY <1>1, <1>2, <1>3, <1>5, <1>6, <1>7, <1>8, <1>9, <1>10 DEF AllSeen

\* Who writes the worker, and with what.
WorkerWrite(o) == o \in WorkerObject /\ worker' = Store(worker, o)
WorkerSeen == worker' \in Seq(WorkerObject) \ {<<>>} /\ Seen(worker', worker)

LEMMA WorkerWrites ==
  ASSUME TypeInv, [Next]_vars
  PROVE  \/ WorkerSeen
         \/ /\ ReconcileTemporalWorker /\ CreateWorker
            /\ WorkerWrite([n |-> Stored(worker).n + 1, at |-> "new", image |-> image, status |-> "unset"])
         \/ /\ ReconcileTemporalWorker /\ Stored(worker) = Cached(worker) /\ Cached(worker).at # "gone"
            /\ WorkerWrite([Stored(worker) EXCEPT !.image = image])
         \/ DeleteWorker /\ WorkerWrite(AfterDelete(Stored(worker)))
         \/ AddWorkerFinalizer /\ ~WConflict /\ WorkerWrite([wbase EXCEPT !.at = "held"])
         \/ UpdateWorkerStatus /\ ~WConflict /\ WorkerWrite([wbase EXCEPT !.status = WorkerPhase])
         \/ RemoveWorkerFinalizer /\ ~WConflict /\ WorkerWrite([wbase EXCEPT !.at = "gone"])
<1> USE ObjectTypes, BoundAssumption
<1>1. CASE UNCHANGED worker
  BY <1>1, SameSeen DEF WorkerSeen
<1>2. CASE DeliverWorker
  BY <1>2, TailSeen DEF DeliverWorker, WorkerSeen
<1>3. CASE OperatorRestart
  BY <1>3, RestartSeen DEF OperatorRestart, WorkerSeen
<1>4. /\ image \in 0 .. MaxImage /\ wbase \in WorkerObject
      /\ \A a \in {"held", "gone"} : [wbase EXCEPT !.at = a] \in WorkerObject
      /\ \A p \in {"Failed", "Ready", "Pending"} : [wbase EXCEPT !.status = p] \in WorkerObject
  <2>1. image \in 0 .. MaxImage /\ wbase \in WorkerObject
    BY DEF TypeInv, TypeCount, TypeWorkerCtl
  <2>2. \A a \in {"held", "gone"} : [wbase EXCEPT !.at = a] \in WorkerObject
    BY <2>1 DEF WorkerObject
  <2>3. \A p \in {"Failed", "Ready", "Pending"} : [wbase EXCEPT !.status = p] \in WorkerObject
    BY <2>1 DEF WorkerObject
  <2> QED
    BY <2>1, <2>2, <2>3
<1>5. CASE ReconcileTemporalWorker /\ CreateWorker
  <2>1. Stored(worker).n + 1 \in 0 .. MaxWorkers
    <3>1. Stored(worker).n \in 0 .. MaxWorkers
      BY DEF WorkerObject
    <3>2. Stored(worker).n < MaxWorkers
      BY <1>5 DEF CreateWorker
    <3> QED
      BY <3>1, <3>2
  <2>2. [n |-> Stored(worker).n + 1, at |-> "new", image |-> image, status |-> "unset"] \in WorkerObject
    BY <1>4, <2>1 DEF WorkerObject
  <2> QED
    BY <1>5, <2>2 DEF CreateWorker, WriteWorker, WorkerWrite
<1>6. CASE ReconcileTemporalWorker /\ UpdateWorker
  <2>1. CASE Cached(worker).image = image
    BY <1>1, <1>6, <2>1 DEF UpdateWorker
  <2>2. CASE Cached(worker).image # image
    <3>1. [Stored(worker) EXCEPT !.image = image] \in WorkerObject
      BY <1>4 DEF WorkerObject
    <3> QED
      BY <1>6, <2>2, <3>1 DEF UpdateWorker, WriteWorker, WorkerWrite
  <2> QED
    BY <2>1, <2>2
<1>7. CASE DeleteWorker
  <2>1. AfterDelete(Stored(worker)) \in WorkerObject
    BY DEF AfterDelete, WorkerObject
  <2> QED
    BY <1>7, <2>1 DEF DeleteWorker, DeletedWorker, WriteWorker, WorkerWrite
<1>8. CASE AddWorkerFinalizer /\ ~WConflict
  BY <1>4, <1>8 DEF AddWorkerFinalizer, WriteWorker, WorkerWrite
<1>9. CASE UpdateWorkerStatus /\ ~WConflict
  <2>1. WorkerPhase \in {"Failed", "Ready", "Pending"}
    BY DEF WorkerPhase
  <2> QED
    BY <1>4, <1>9, <2>1 DEF UpdateWorkerStatus, WriteWorker, WorkerWrite
<1>10. CASE RemoveWorkerFinalizer /\ ~WConflict
  BY <1>4, <1>10 DEF RemoveWorkerFinalizer, WriteWorker, WorkerWrite
<1>11. \/ UNCHANGED worker \/ DeliverWorker \/ OperatorRestart
       \/ ReconcileTemporalWorker /\ (CreateWorker \/ UpdateWorker)
       \/ DeleteWorker
       \/ AddWorkerFinalizer /\ ~WConflict
       \/ UpdateWorkerStatus /\ ~WConflict
       \/ RemoveWorkerFinalizer /\ ~WConflict
  BY DEF Next, QueueStep, ReconcileQueue, AddFinalizer, RegisterNamespace, ReconcileTemporalWorker,
     UpdateQueueStatus, RemoveFinalizer, WorkerStep, ReconcileWorker,
     AddWorkerFinalizer, ReconcileDeployment, UpdateWorkerStatus, RemoveWorkerFinalizer,
     Deliver, DeliverQueue, DeliverDeployment, CollectDeployment, PodsReady, CreateQueue,
     DeleteQueue, QueueRequestFails, WorkerRequestFails, vars
<1> QED
  BY <1>1, <1>2, <1>3, <1>5, <1>6, <1>7, <1>8, <1>9, <1>10, <1>11

\* Who writes the Deployment, and with what.
DepWrite(o) == o \in Deployment /\ dep' = Store(dep, o)
DepSeen == dep' \in Seq(Deployment) \ {<<>>} /\ Seen(dep', dep)

LEMMA DepWrites ==
  ASSUME TypeInv, [Next]_vars
  PROVE  \/ DepSeen
         \/ /\ ReconcileDeployment /\ CreateDeployment
            /\ DepWrite([owner |-> wbase.n, at |-> "live", image |-> wbase.image, ready |-> FALSE])
         \/ ReconcileDeployment /\ UpdateDeployment /\ DepWrite(Adopted(Stored(dep)))
         \/ CollectDeployment /\ DepWrite([Stored(dep) EXCEPT !.at = "gone"])
         \/ PodsReady /\ DepWrite([Stored(dep) EXCEPT !.ready = TRUE])
<1> USE ObjectTypes, BoundAssumption
<1>1. CASE UNCHANGED dep
  BY <1>1, SameSeen DEF DepSeen
<1>2. CASE DeliverDeployment
  BY <1>2, TailSeen DEF DeliverDeployment, DepSeen
<1>3. CASE OperatorRestart
  BY <1>3, RestartSeen DEF OperatorRestart, DepSeen
<1>4. wbase.n \in 0 .. MaxWorkers /\ wbase.image \in 0 .. MaxImage
  BY DEF TypeInv, TypeWorkerCtl, WorkerObject
<1>5. CASE ReconcileDeployment /\ CreateDeployment
  <2>1. [owner |-> wbase.n, at |-> "live", image |-> wbase.image, ready |-> FALSE] \in Deployment
    BY <1>4, Zenon DEF Deployment
  <2> QED
    BY <1>5, <2>1 DEF CreateDeployment, WriteDeployment, DepWrite
<1>6. CASE ReconcileDeployment /\ UpdateDeployment
  <2>1. Adopted(Stored(dep)) \in Deployment
    BY <1>4 DEF Adopted, Deployment
  <2> QED
    BY <1>6, <2>1 DEF UpdateDeployment, WriteDeployment, DepWrite
<1>7. CASE CollectDeployment
  <2>1. [Stored(dep) EXCEPT !.at = "gone"] \in Deployment
    BY DEF Deployment
  <2> QED
    BY <1>7, <2>1 DEF CollectDeployment, WriteDeployment, DepWrite
<1>8. CASE PodsReady
  <2>1. [Stored(dep) EXCEPT !.ready = TRUE] \in Deployment
    BY DEF Deployment
  <2> QED
    BY <1>8, <2>1 DEF PodsReady, WriteDeployment, DepWrite
<1>9. \/ UNCHANGED dep \/ DeliverDeployment \/ OperatorRestart
      \/ ReconcileDeployment /\ (CreateDeployment \/ UpdateDeployment)
      \/ CollectDeployment \/ PodsReady
  BY DEF Next, QueueStep, ReconcileQueue, AddFinalizer, RegisterNamespace, ReconcileTemporalWorker,
     UpdateQueueStatus, DeleteWorker, RemoveFinalizer, WorkerStep, ReconcileWorker,
     AddWorkerFinalizer, ReconcileDeployment, UpdateWorkerStatus, RemoveWorkerFinalizer,
     Deliver, DeliverQueue, DeliverWorker, CreateQueue, DeleteQueue, QueueRequestFails,
     WorkerRequestFails, vars
<1> QED
  BY <1>1, <1>2, <1>3, <1>5, <1>6, <1>7, <1>8, <1>9

\* After a write the new object is stored, and the other versions are those that
\* were there.
LEMMA QueueWritten ==
  ASSUME TypeInv, NEW q \in Queue, NEW o, QueueWrite(q, o)
  PROVE  /\ queue' \in [Queue -> Seq(QueueObject) \ {<<>>}]
         /\ \A r \in Queue : r # q => queue'[r] = queue[r]
         /\ Stored(queue'[q]) = o
         /\ \A i \in DOMAIN queue'[q] :
               \/ i \in DOMAIN queue[q] /\ queue'[q][i] = queue[q][i]
               \/ i = Len(queue'[q]) /\ queue'[q][i] = o
<1>1. queue[q] \in Seq(QueueObject) /\ queue[q] # <<>> /\ o \in QueueObject
  BY ObjectTypes DEF QueueWrite
<1> DEFINE vs == queue[q]
<1>2. /\ Store(vs, o) \in Seq(QueueObject) /\ Store(vs, o) # <<>> /\ Stored(Store(vs, o)) = o
      /\ \A i \in DOMAIN Store(vs, o) :
            \/ i \in DOMAIN vs /\ Store(vs, o)[i] = vs[i]
            \/ i = Len(Store(vs, o)) /\ Store(vs, o)[i] = o
  <2> vs \in Seq(QueueObject) /\ vs # <<>>
    BY <1>1
  <2> HIDE DEF vs
  <2> QED
    BY <1>1, StoreAdds
<1>3. queue \in [Queue -> Seq(QueueObject) \ {<<>>}] /\ queue' = [queue EXCEPT ![q] = Store(queue[q], o)]
  BY DEF QueueWrite, TypeInv, TypeQueue
<1>4. queue' \in [Queue -> Seq(QueueObject) \ {<<>>}] /\ queue'[q] = Store(queue[q], o)
  BY <1>2, <1>3
<1>5. \A r \in Queue : r # q => queue'[r] = queue[r]
  BY <1>3
<1> QED
  BY <1>2, <1>4, <1>5

LEMMA WorkerWritten ==
  ASSUME TypeInv, NEW o, WorkerWrite(o)
  PROVE  /\ worker' \in Seq(WorkerObject) \ {<<>>} /\ Stored(worker') = o
         /\ \A i \in DOMAIN worker' : \/ i \in DOMAIN worker /\ worker'[i] = worker[i]
                                      \/ worker'[i] = o
BY ObjectTypes, StoreAdds DEF WorkerWrite

LEMMA DepWritten ==
  ASSUME TypeInv, NEW o, DepWrite(o)
  PROVE  /\ dep' \in Seq(Deployment) \ {<<>>} /\ Stored(dep') = o
         /\ \A i \in DOMAIN dep' : (i \in DOMAIN dep /\ dep'[i] = dep[i]) \/ dep'[i] = o
BY ObjectTypes, StoreAdds DEF DepWrite

LEMMA ObjectsStep == ASSUME TypeInv, [Next]_vars PROVE TypeQueue' /\ TypeWorker' /\ TypeDep'
<1>1. TypeQueue'
  <2>1. ASSUME NEW q \in Queue, NEW o, QueueWrite(q, o) PROVE TypeQueue'
    BY <2>1, QueueWritten DEF TypeQueue
  <2>2. AddFinalizer \/ UpdateQueueStatus \/ RemoveFinalizer => qkey \in Queue
    BY DEF AddFinalizer, UpdateQueueStatus, RemoveFinalizer, TypeInv, TypeQueueCtl
  <2> QED
    BY <2>1, <2>2, QueueWrites DEF TypeQueue
<1>2. TypeWorker'
  BY WorkerWrites, WorkerWritten DEF TypeWorker, WorkerSeen
<1>3. TypeDep'
  BY DepWrites, DepWritten DEF TypeDep, DepSeen
<1> QED
  BY <1>1, <1>2, <1>3

LEMMA FlagsStep == ASSUME TypeInv, [Next]_vars PROVE Flags'
<1>1. Stored(dep).ready \in BOOLEAN
  BY ObjectTypes DEF Deployment
<1>2. registered' \in BOOLEAN
  BY Zenon DEF TypeInv, Flags, Next, QueueStep, ReconcileQueue, AddFinalizer, RegisterNamespace,
     Registered, ReconcileTemporalWorker, UpdateQueueStatus, DeleteWorker, RemoveFinalizer,
     WorkerStep, ReconcileWorker, AddWorkerFinalizer, ReconcileDeployment, UpdateWorkerStatus,
     RemoveWorkerFinalizer, Deliver, DeliverQueue, DeliverWorker, DeliverDeployment,
     CollectDeployment, PodsReady, CreateQueue, DeleteQueue, QueueRequestFails,
     WorkerRequestFails, OperatorRestart, vars
<1>3. wready' \in BOOLEAN /\ wwork' \in BOOLEAN
  <2> USE DEF TypeInv, Flags
  <2>1. ASSUME NEW failed, WReturn(failed) PROVE wready' \in BOOLEAN /\ wwork' \in BOOLEAN
    BY <2>1, Zenon DEF WReturn, WRequeue
  <2>2. CASE ReconcileDeployment
    BY <1>1, <2>2, Zenon DEF ReconcileDeployment, CreateDeployment, UpdateDeployment, WGoto
  <2>3. CASE AddWorkerFinalizer
    BY <2>1, <2>3, Zenon DEF AddWorkerFinalizer, WGoto
  <2>4. CASE UpdateWorkerStatus \/ RemoveWorkerFinalizer
    BY <2>1, <2>4, Zenon DEF UpdateWorkerStatus, RemoveWorkerFinalizer
  <2>5. CASE WorkerRequestFails
    BY <2>1, <2>5, Zenon DEF WorkerRequestFails, WGoto
  <2>6. CASE ReconcileWorker \/ OperatorRestart
    BY <2>6, Zenon DEF ReconcileWorker, OperatorRestart
  <2>7. CASE DeliverWorker \/ DeliverDeployment
    BY <2>7, Zenon DEF DeliverWorker, DeliverDeployment
  <2>8. CASE UNCHANGED workerCtl
    BY <2>8, Zenon
  <2> QED
    BY <2>2, <2>3, <2>4, <2>5, <2>6, <2>7, <2>8, Zenon
       DEF Next, QueueStep, ReconcileQueue, AddFinalizer, RegisterNamespace,
       ReconcileTemporalWorker, UpdateQueueStatus, DeleteWorker, RemoveFinalizer, WorkerStep,
       Deliver, DeliverQueue, CollectDeployment, PodsReady, CreateQueue, DeleteQueue,
       QueueRequestFails, vars
<1> QED
  BY <1>2, <1>3, Zenon DEF Flags

LEMMA QueueCtlStep == ASSUME TypeInv, [Next]_vars PROVE TypeQueueCtl'
<1> USE QueueAssumption DEF TypeInv, TypeQueueCtl
<1>0. NoQueue \in QueueObject
  BY NothingTypes
<1>1. ASSUME qpc # "idle", Return(TRUE) \/ Return(FALSE) PROVE TypeQueueCtl'
  BY <1>0, <1>1 DEF Return
<1>2. ASSUME NEW q \in Queue, ReconcileQueue(q) PROVE TypeQueueCtl'
  <2>1. Cached(queue[q]) \in QueueObject
    BY ObjectTypes
  <2> QED
    BY <1>2, <2>1 DEF ReconcileQueue
<1>3. CASE AddFinalizer
  <2>1. [qbase EXCEPT !.at = "held"] \in QueueObject
    BY DEF QueueObject, Live
  <2> QED
    BY <1>1, <1>3, <2>1 DEF AddFinalizer, Goto
<1>4. CASE RegisterNamespace \/ ReconcileTemporalWorker \/ DeleteWorker
  BY <1>4 DEF RegisterNamespace, ReconcileTemporalWorker, DeleteWorker, Goto
<1>5. CASE UpdateQueueStatus \/ RemoveFinalizer
  <2>1. Return(Conflict \/ qpc = "failed") \/ Return(Conflict)
    BY <1>5 DEF UpdateQueueStatus, RemoveFinalizer
  <2>2. qpc # "idle"
    BY <1>5 DEF UpdateQueueStatus, RemoveFinalizer
  <2> QED
    BY <1>0, <2>1, <2>2 DEF Return
<1>6. CASE QueueRequestFails
  BY <1>1, <1>6 DEF QueueRequestFails, Goto
<1>7. ASSUME NEW q \in Queue, DeliverQueue(q) PROVE TypeQueueCtl'
  BY <1>7 DEF DeliverQueue
<1>8. CASE OperatorRestart
  BY <1>0, <1>8 DEF OperatorRestart
<1>9. CASE UNCHANGED queueCtl
  BY <1>9
<1> QED
  BY <1>2, <1>3, <1>4, <1>5, <1>6, <1>7, <1>8, <1>9
     DEF Next, QueueStep, WorkerStep, ReconcileWorker, AddWorkerFinalizer, ReconcileDeployment,
     UpdateWorkerStatus, RemoveWorkerFinalizer, Deliver, DeliverWorker, DeliverDeployment,
     CollectDeployment, PodsReady, CreateQueue, DeleteQueue, WorkerRequestFails, vars

LEMMA WorkerCtlStep == ASSUME TypeInv, [Next]_vars PROVE TypeWorkerCtl'
<1> USE DEF TypeInv, TypeWorkerCtl
<1>0. NoWorker \in WorkerObject /\ NoWorker.at = "gone"
  BY NothingTypes
<1>1. ASSUME wpc' = "idle", wbase' = NoWorker PROVE TypeWorkerCtl'
  BY <1>0, <1>1
<1>2. CASE ReconcileWorker
  <2>1. Cached(worker) \in WorkerObject
    BY ObjectTypes
  <2> QED
    BY <1>2, <2>1 DEF ReconcileWorker, NotFound
<1>3. CASE AddWorkerFinalizer
  <2>1. [wbase EXCEPT !.at = "held"] \in WorkerObject /\ [wbase EXCEPT !.at = "held"].at = "held"
    BY DEF WorkerObject
  <2> QED
    BY <1>1, <1>3, <2>1 DEF AddWorkerFinalizer, WReturn, WGoto
<1>4. CASE ReconcileDeployment
  BY <1>4 DEF ReconcileDeployment, WGoto
<1>5. CASE UpdateWorkerStatus \/ RemoveWorkerFinalizer
  BY <1>1, <1>5 DEF UpdateWorkerStatus, RemoveWorkerFinalizer, WReturn
<1>6. CASE WorkerRequestFails
  BY <1>1, <1>6 DEF WorkerRequestFails, WReturn, WGoto
<1>7. CASE OperatorRestart
  BY <1>1, <1>7 DEF OperatorRestart
<1>8. CASE UNCHANGED <<wpc, wbase>>
  BY <1>8
<1> QED
  BY <1>2, <1>3, <1>4, <1>5, <1>6, <1>7, <1>8
     DEF Next, QueueStep, ReconcileQueue, AddFinalizer, RegisterNamespace, ReconcileTemporalWorker,
     UpdateQueueStatus, DeleteWorker, RemoveFinalizer, WorkerStep, Deliver, DeliverQueue,
     DeliverWorker, DeliverDeployment, CollectDeployment, PodsReady, CreateQueue, DeleteQueue,
     QueueRequestFails, vars

LEMMA CountStep == ASSUME TypeInv, [Next]_vars PROVE TypeCount'
<1> USE BoundAssumption DEF TypeInv, TypeCount, Fault
<1>1. CASE OperatorRestart
  BY <1>1 DEF OperatorRestart
<1>2. CASE QueueRequestFails \/ WorkerRequestFails
  <2>1. faults < MaxFaults /\ faults' = faults + 1 /\ image' = image
    BY <1>2 DEF QueueRequestFails, WorkerRequestFails
  <2> QED
    BY <2>1
<1>3. CASE UNCHANGED <<image, faults>>
  BY <1>3
<1> QED
  BY <1>1, <1>2, <1>3
     DEF Next, QueueStep, ReconcileQueue, AddFinalizer, RegisterNamespace, ReconcileTemporalWorker,
     UpdateQueueStatus, DeleteWorker, RemoveFinalizer, WorkerStep, ReconcileWorker,
     AddWorkerFinalizer, ReconcileDeployment, UpdateWorkerStatus, RemoveWorkerFinalizer, Deliver,
     DeliverQueue, DeliverWorker, DeliverDeployment, CollectDeployment, PodsReady, CreateQueue,
     DeleteQueue, vars

LEMMA TypeStep == ASSUME TypeInv, [Next]_vars PROVE TypeInv'
BY ObjectsStep, FlagsStep, QueueCtlStep, WorkerCtlStep, CountStep DEF TypeInv

\* The objects and the locals of both controllers keep their types: each
\* reconcile that is under way has its object.
THEOREM WorkerTypes == Spec => []TypeOK
BY TypeParts, TypeInit, TypeStep, PTL DEF Spec

-----------------------------------------------------------------------------
(* The namespace                                                           *)

LEMMA RegisteredInit == Init => RegisteredInv
BY NothingTypes DEF Init, RegisteredInv

LEMMA StaysRegistered == ASSUME [Next]_vars, registered PROVE registered'
BY Zenon DEF Next, QueueStep, ReconcileQueue, AddFinalizer, RegisterNamespace, Registered,
   ReconcileTemporalWorker, UpdateQueueStatus, DeleteWorker, RemoveFinalizer, WorkerStep,
   ReconcileWorker, AddWorkerFinalizer, ReconcileDeployment, UpdateWorkerStatus,
   RemoveWorkerFinalizer, Deliver, DeliverQueue, DeliverWorker, DeliverDeployment,
   CollectDeployment, PodsReady, CreateQueue, DeleteQueue, QueueRequestFails, WorkerRequestFails,
   OperatorRestart, vars

\* What the cache catches up with was there before.
LEMMA SeenOld ==
  ASSUME NEW ws, NEW vs, Seen(ws, vs), NEW i \in DOMAIN ws
  PROVE  \E j \in DOMAIN vs : ws[i] = vs[j]
BY DEF Seen

LEMMA RegisteredStep == ASSUME TypeInv, RegisteredInv, [Next]_vars PROVE RegisteredInv'
<1>1. CASE registered
  BY <1>1, StaysRegistered DEF RegisteredInv
<1>2. CASE ~registered /\ RegisterNamespace
  BY <1>2 DEF RegisterNamespace, Registered, RegisteredInv
<1>3. CASE ~registered /\ ~RegisterNamespace
  <2>1. /\ qpc # "worker" /\ wbase.at = "gone" /\ wpc = "idle"
        /\ \A i \in DOMAIN worker : worker[i].at = "gone"
        /\ \A i \in DOMAIN dep : dep[i].at = "gone"
    BY <1>3 DEF RegisteredInv, TypeInv, TypeWorkerCtl
  <2>2. /\ Stored(worker).at = "gone" /\ Cached(worker).at = "gone"
        /\ Stored(dep).at = "gone" /\ Cached(dep).at = "gone"
    BY <2>1, ObjectTypes, StoredIn DEF Stored, Cached
  <2>3. \A i \in DOMAIN worker' : worker'[i].at = "gone"
    <3>1. CASE WorkerSeen
      BY <2>1, <3>1, SeenOld DEF WorkerSeen
    <3>2. CASE DeleteWorker /\ WorkerWrite(AfterDelete(Stored(worker)))
      BY <2>1, <2>2, <3>2, WorkerWritten DEF AfterDelete
    <3> QED
      BY <2>1, <3>1, <3>2, WorkerWrites DEF ReconcileTemporalWorker, AddWorkerFinalizer,
         UpdateWorkerStatus, RemoveWorkerFinalizer
  <2>4. \A i \in DOMAIN dep' : dep'[i].at = "gone"
    <3>1. CASE DepSeen
      BY <2>1, <3>1, SeenOld DEF DepSeen
    <3> QED
      BY <2>1, <2>2, <3>1, DepWrites DEF ReconcileDeployment, CollectDeployment, PodsReady
  <2>5. wbase'.at = "gone"
    BY <2>1, <2>2, NothingTypes DEF Next, QueueStep, ReconcileQueue, AddFinalizer,
       RegisterNamespace, ReconcileTemporalWorker, UpdateQueueStatus, DeleteWorker,
       RemoveFinalizer, WorkerStep, ReconcileWorker, AddWorkerFinalizer, ReconcileDeployment,
       UpdateWorkerStatus, RemoveWorkerFinalizer, Deliver, DeliverQueue, DeliverWorker,
       DeliverDeployment, CollectDeployment, PodsReady, CreateQueue, DeleteQueue,
       QueueRequestFails, WorkerRequestFails, OperatorRestart, NotFound, vars
  <2>6. qpc' # "worker"
    BY <1>3, <2>1 DEF Next, QueueStep, ReconcileQueue, AddFinalizer, Goto, Return,
       ReconcileTemporalWorker, UpdateQueueStatus, DeleteWorker, RemoveFinalizer, WorkerStep,
       ReconcileWorker, AddWorkerFinalizer, ReconcileDeployment, UpdateWorkerStatus,
       RemoveWorkerFinalizer, Deliver, DeliverQueue, DeliverWorker, DeliverDeployment,
       CollectDeployment, PodsReady, CreateQueue, DeleteQueue, QueueRequestFails,
       WorkerRequestFails, OperatorRestart, vars
  <2> QED
    BY <2>3, <2>4, <2>5, <2>6 DEF RegisteredInv
<1> QED
  BY <1>1, <1>2, <1>3

\* reconcileTemporalWorker registers the namespace first, so no worker pod polls
\* a namespace that does not exist, whichever step fails or is repeated.
THEOREM WorkersHaveTheirNamespace == Spec => []NamespaceExists
<1>1. TypeInv /\ RegisteredInv => NamespaceExists
  <2> SUFFICES ASSUME TypeInv, RegisteredInv, ~registered PROVE Stored(dep).at # "live"
    BY DEF NamespaceExists
  <2>1. Len(dep) \in DOMAIN dep
    BY ObjectTypes, StoredIn
  <2> QED
    BY <2>1 DEF RegisteredInv, Stored
<1> QED
  BY <1>1, TypeInit, TypeStep, RegisteredInit, RegisteredStep, PTL DEF Spec

-----------------------------------------------------------------------------
(* The Deployment of a worker that is Ready                                *)

\* What is stored of the worker after a step: the same worker, or, where none
\* was, the next one.  Its status is only written by the update of the status.
LEMMA WorkerProgress ==
  ASSUME TypeInv, [Next]_vars
  PROVE  \/ /\ Stored(worker').n = Stored(worker).n
            /\ Stored(worker').at # "gone" => Stored(worker).at # "gone"
            /\ \/ Stored(worker').status = Stored(worker).status
               \/ /\ UpdateWorkerStatus /\ Stored(worker) = wbase
                  /\ Stored(worker').status = WorkerPhase
         \/ /\ ReconcileTemporalWorker /\ CreateWorker
            /\ Stored(worker').n = Stored(worker).n + 1 /\ Stored(worker').status = "unset"
<1>1. CASE WorkerSeen
  BY <1>1 DEF WorkerSeen, Seen
<1>2. Stored(worker) \in WorkerObject /\ wbase \in WorkerObject
  BY ObjectTypes DEF TypeInv, TypeWorkerCtl
<1>3. wpc # "idle" => wbase.at # "gone"
  BY DEF TypeInv, TypeWorkerCtl
<1>4. ASSUME NEW o, WorkerWrite(o) PROVE Stored(worker') = o
  BY <1>4, WorkerWritten
<1>5. CASE ReconcileTemporalWorker /\ CreateWorker /\
           WorkerWrite([n |-> Stored(worker).n + 1, at |-> "new", image |-> image, status |-> "unset"])
  BY <1>4, <1>5
<1>6. CASE /\ ReconcileTemporalWorker /\ Stored(worker) = Cached(worker) /\ Cached(worker).at # "gone"
           /\ WorkerWrite([Stored(worker) EXCEPT !.image = image])
  BY <1>2, <1>4, <1>6 DEF WorkerObject
<1>7. CASE DeleteWorker /\ WorkerWrite(AfterDelete(Stored(worker)))
  <2>1. Stored(worker') = AfterDelete(Stored(worker))
    BY <1>4, <1>7
  <2> QED
    BY <1>2, <2>1 DEF AfterDelete, WorkerObject
<1>8. CASE AddWorkerFinalizer /\ ~WConflict /\ WorkerWrite([wbase EXCEPT !.at = "held"])
  <2>1. Stored(worker') = [wbase EXCEPT !.at = "held"] /\ Stored(worker) = wbase /\ wpc # "idle"
    BY <1>4, <1>8 DEF WConflict, AddWorkerFinalizer
  <2> QED
    BY <1>2, <1>3, <2>1 DEF WorkerObject
<1>9. CASE /\ UpdateWorkerStatus /\ ~WConflict
           /\ WorkerWrite([wbase EXCEPT !.status = WorkerPhase])
  <2>1. Stored(worker') = [wbase EXCEPT !.status = WorkerPhase] /\ Stored(worker) = wbase
    BY <1>4, <1>9 DEF WConflict
  <2> QED
    BY <1>2, <1>9, <2>1 DEF WorkerObject
<1>10. CASE RemoveWorkerFinalizer /\ ~WConflict /\ WorkerWrite([wbase EXCEPT !.at = "gone"])
  <2>1. Stored(worker') = [wbase EXCEPT !.at = "gone"] /\ Stored(worker) = wbase
    BY <1>4, <1>10 DEF WConflict
  <2> QED
    BY <1>2, <2>1 DEF WorkerObject
<1> QED
  BY <1>1, <1>5, <1>6, <1>7, <1>8, <1>9, <1>10, WorkerWrites

LEMMA ReadyInit == Init => ReadyInv
<1> SUFFICES ASSUME Init PROVE ReadyInv
  OBVIOUS
<1>1. /\ Stored(worker) = NoWorker /\ wbase = NoWorker /\ \A i \in DOMAIN worker : worker[i] = NoWorker
      /\ \A i \in DOMAIN dep : dep[i] = NoDep
  <2>1. worker = <<NoWorker>> /\ dep = <<NoDep>> /\ wbase = NoWorker
    BY DEF Init
  <2>2. Len(worker) = 1 /\ DOMAIN worker = {1} /\ worker[1] = NoWorker
    BY <2>1
  <2>3. DOMAIN dep = {1} /\ dep[1] = NoDep
    BY <2>1
  <2> QED
    BY <2>1, <2>2, <2>3 DEF Stored
<1>2. ~wready
  BY DEF Init
<1> QED
  BY <1>1, <1>2, NothingTypes DEF ReadyInv, NewestInv, DeployedInv, ReadyHasDeployment

LEMMA NumberTypes ==
  /\ \A o \in WorkerObject : o.n \in Nat
  /\ \A o \in Deployment : o.owner \in Nat
<1>1. 0 .. MaxWorkers \subseteq Nat
  OBVIOUS
<1>2. \A o \in WorkerObject : o.n \in 0 .. MaxWorkers
  BY DEF WorkerObject
<1>3. \A o \in Deployment : o.owner \in 0 .. MaxWorkers
  BY DEF Deployment
<1> QED
  BY <1>1, <1>2, <1>3

LEMMA NumbersStored ==
  ASSUME TypeInv
  PROVE  /\ Stored(worker).n \in Nat /\ wbase.n \in Nat
         /\ \A i \in DOMAIN worker : worker[i].n \in Nat
         /\ \A i \in DOMAIN dep : dep[i].owner \in Nat
<1>1. /\ Stored(worker) \in WorkerObject /\ wbase \in WorkerObject
      /\ \A i \in DOMAIN worker : worker[i] \in WorkerObject
      /\ \A i \in DOMAIN dep : dep[i] \in Deployment
  BY ObjectTypes, StoredIn DEF TypeInv, TypeWorkerCtl
<1> QED
  BY <1>1, NumberTypes

\* A worker is never written with a smaller number than the one that is stored.
LEMMA NextNumber ==
  ASSUME TypeInv, [Next]_vars
  PROVE  Stored(worker).n <= Stored(worker').n /\ Stored(worker').n \in Nat
<1>1. Stored(worker').n = Stored(worker).n \/ Stored(worker').n = Stored(worker).n + 1
  BY WorkerProgress
<1> QED
  BY <1>1, NumbersStored

\* What the versions of the worker after a step are.
LEMMA WorkerVersions ==
  ASSUME TypeInv, [Next]_vars
  PROVE  \A i \in DOMAIN worker' :
            (\E k \in DOMAIN worker : worker'[i] = worker[k]) \/ worker'[i] = Stored(worker')
<1>1. CASE WorkerSeen
  BY <1>1, SeenOld DEF WorkerSeen
<1>2. ASSUME NEW o, WorkerWrite(o)
      PROVE  \A i \in DOMAIN worker' :
                (\E k \in DOMAIN worker : worker'[i] = worker[k]) \/ worker'[i] = Stored(worker')
  BY <1>2, WorkerWritten
<1> QED
  BY <1>1, <1>2, WorkerWrites

\* The Deployment's owner after a step is an old one, or the worker reconciled.
LEMMA OwnerVersions ==
  ASSUME TypeInv, [Next]_vars
  PROVE  \A j \in DOMAIN dep' :
            \/ \E k \in DOMAIN dep : dep'[j].owner = dep[k].owner
            \/ ReconcileDeployment /\ dep'[j].owner = wbase.n
<1>1. CASE DepSeen
  BY <1>1, SeenOld DEF DepSeen
<1>2. Stored(dep) \in Deployment /\ Len(dep) \in DOMAIN dep /\ Stored(dep) = dep[Len(dep)]
  BY ObjectTypes, StoredIn DEF Stored
<1>3. ASSUME NEW o, DepWrite(o),
             o.owner = Stored(dep).owner \/ (ReconcileDeployment /\ o.owner = wbase.n)
      PROVE  \A j \in DOMAIN dep' :
                \/ \E k \in DOMAIN dep : dep'[j].owner = dep[k].owner
                \/ ReconcileDeployment /\ dep'[j].owner = wbase.n
  BY <1>2, <1>3, DepWritten
<1>4. /\ Adopted(Stored(dep)).owner = wbase.n
      /\ [Stored(dep) EXCEPT !.at = "gone"].owner = Stored(dep).owner
      /\ [Stored(dep) EXCEPT !.ready = TRUE].owner = Stored(dep).owner
  BY <1>2 DEF Adopted, Deployment
<1>5. [owner |-> wbase.n, at |-> "live", image |-> wbase.image, ready |-> FALSE].owner = wbase.n
  OBVIOUS
<1> QED
  BY <1>1, <1>3, <1>4, <1>5, DepWrites

\* A reconcile goes on with the worker it has read, or reads the one cached.
LEMMA BaseRead ==
  ASSUME TypeInv, [Next]_vars, wpc' # "idle"
  PROVE  \/ wpc # "idle" /\ wbase'.n = wbase.n
         \/ wpc = "idle" /\ wbase' = Cached(worker) /\ UNCHANGED <<worker, dep>>
<1>1. CASE ReconcileWorker
  BY <1>1 DEF ReconcileWorker
<1>2. CASE AddWorkerFinalizer
  <2>1. [wbase EXCEPT !.at = "held"].n = wbase.n
    BY DEF TypeInv, TypeWorkerCtl, WorkerObject
  <2> QED
    BY <1>2, <2>1 DEF AddWorkerFinalizer, WReturn
<1>3. CASE ReconcileDeployment \/ WorkerRequestFails
  BY <1>3 DEF ReconcileDeployment, WorkerRequestFails, WReturn
<1>4. CASE UpdateWorkerStatus \/ RemoveWorkerFinalizer \/ OperatorRestart
  BY <1>4 DEF UpdateWorkerStatus, RemoveWorkerFinalizer, OperatorRestart, WReturn
<1>5. CASE UNCHANGED <<wpc, wbase>>
  BY <1>5
<1> QED
  BY <1>1, <1>2, <1>3, <1>4, <1>5
     DEF Next, QueueStep, ReconcileQueue, AddFinalizer, RegisterNamespace, ReconcileTemporalWorker,
     UpdateQueueStatus, DeleteWorker, RemoveFinalizer, WorkerStep, Deliver, DeliverQueue,
     DeliverWorker, DeliverDeployment, CollectDeployment, PodsReady, CreateQueue, DeleteQueue,
     QueueRequestFails, vars

LEMMA WorkersInOrder ==
  ASSUME TypeInv, NewestInv, [Next]_vars, NEW i \in DOMAIN worker', NEW j \in DOMAIN worker', i <= j
  PROVE  worker'[i].n <= worker'[j].n
<1>1. CASE WorkerSeen
  <2>1. PICK k \in Nat : \A m \in DOMAIN worker' : m + k \in DOMAIN worker /\ worker'[m] = worker[m + k]
    BY <1>1 DEF WorkerSeen, Seen
  <2>2. i \in Nat /\ j \in Nat /\ i + k <= j + k
    BY <1>1 DEF WorkerSeen
  <2> QED
    BY <2>1, <2>2 DEF NewestInv
<1>2. ASSUME NEW o, WorkerWrite(o) PROVE worker'[i].n <= worker'[j].n
  <2> DEFINE ws == Store(worker, o)
  <2>1. /\ worker' = ws /\ ws \in Seq(WorkerObject) /\ ws # <<>> /\ Stored(ws) = o
        /\ \A m \in DOMAIN ws : \/ m \in DOMAIN worker /\ ws[m] = worker[m]
                                \/ m = Len(ws) /\ ws[m] = o
    BY <1>2, ObjectTypes, StoreAdds DEF WorkerWrite
  <2> HIDE DEF ws
  <2>2. i <= Len(ws) /\ j <= Len(ws) /\ i \in Nat /\ j \in Nat /\ ws[Len(ws)] = o
    BY <2>1, StoredIn DEF Stored
  <2>3. \A m \in DOMAIN worker : worker[m].n <= Stored(worker).n
    BY ObjectTypes, StoredIn DEF NewestInv, Stored
  <2>4. Stored(worker).n <= o.n /\ o.n \in Nat
    BY <2>1, NextNumber
  <2>5. CASE i = Len(ws)
    BY <2>1, <2>2, <2>4, <2>5
  <2>6. CASE i # Len(ws)
    <3>1. i \in DOMAIN worker /\ ws[i] = worker[i]
      BY <2>1, <2>6
    <3>2. CASE j \in DOMAIN worker /\ ws[j] = worker[j]
      BY <2>1, <3>1, <3>2 DEF NewestInv
    <3>3. CASE ws[j] = o
      BY <2>1, <2>3, <2>4, <3>1, <3>3, NumbersStored
    <3> QED
      BY <2>1, <3>2, <3>3
  <2> QED
    BY <2>5, <2>6
<1> QED
  BY <1>1, <1>2, WorkerWrites

LEMMA NewestStep == ASSUME TypeInv, NewestInv, [Next]_vars PROVE NewestInv'
<1>1. /\ 1 \in DOMAIN worker /\ Cached(worker) = worker[1] /\ \A i \in DOMAIN worker : 1 <= i
      /\ Len(worker) \in DOMAIN worker /\ Stored(worker) = worker[Len(worker)]
  BY ObjectTypes, StoredIn DEF Stored, Cached
\* A worker's version is new only where it is at least the stored one.
<1>2. \A i \in DOMAIN worker' : \E k \in DOMAIN worker : worker[k].n <= worker'[i].n
  BY <1>1, WorkerVersions, NextNumber, NumbersStored
<1>3. ReconcileDeployment => wpc # "idle" /\ UNCHANGED <<worker, wbase>>
  BY DEF ReconcileDeployment
<1>4. /\ wbase.n \in Nat /\ wbase'.n \in Nat
      /\ \A i \in DOMAIN worker : worker[i].n \in Nat
      /\ \A i \in DOMAIN worker' : worker'[i].n \in Nat
      /\ \A j \in DOMAIN dep : dep[j].owner \in Nat
      /\ \A j \in DOMAIN dep' : dep'[j].owner \in Nat
  <2>1. /\ wbase' \in WorkerObject /\ \A j \in DOMAIN dep' : dep'[j] \in Deployment
        /\ \A i \in DOMAIN worker' : worker'[i] \in WorkerObject
    BY TypeStep DEF TypeInv, TypeWorkerCtl, TypeDep, TypeWorker
  <2> QED
    BY <2>1, NumberTypes, NumbersStored
<1>5. ASSUME NEW i \in DOMAIN worker', NEW j \in DOMAIN dep' PROVE dep'[j].owner <= worker'[i].n
  <2>1. CASE \E k \in DOMAIN dep : dep'[j].owner = dep[k].owner
    BY <1>2, <1>4, <2>1 DEF NewestInv
  <2>2. CASE ReconcileDeployment /\ dep'[j].owner = wbase.n
    BY <1>2, <1>3, <1>4, <2>2 DEF NewestInv
  <2> QED
    BY <2>1, <2>2, OwnerVersions
<1>6. ASSUME wpc' # "idle", NEW i \in DOMAIN worker' PROVE wbase'.n <= worker'[i].n
  <2>1. CASE wpc # "idle" /\ wbase'.n = wbase.n
    BY <1>2, <1>4, <2>1 DEF NewestInv
  <2>2. CASE wbase' = Cached(worker) /\ UNCHANGED worker
    BY <1>1, <2>2 DEF NewestInv
  <2> QED
    BY <1>6, <2>1, <2>2, BaseRead
<1>7. ASSUME wpc' # "idle", NEW j \in DOMAIN dep' PROVE dep'[j].owner <= wbase'.n
  <2>1. CASE wpc # "idle" /\ wbase'.n = wbase.n
    BY <1>4, <2>1, OwnerVersions DEF NewestInv
  <2>2. CASE wbase' = Cached(worker) /\ UNCHANGED <<worker, dep>>
    BY <1>1, <2>2 DEF NewestInv
  <2> QED
    BY <1>7, <2>1, <2>2, BaseRead
<1>8. \A i, j \in DOMAIN worker' : i <= j => worker'[i].n <= worker'[j].n
  BY WorkersInOrder
<1> QED
  BY <1>5, <1>6, <1>7, <1>8 DEF NewestInv

\* The Deployment was found ready in this reconcile, or is in this step.
LEMMA FoundReady ==
  ASSUME TypeInv, wpc = "idle" => ~wready, [Next]_vars, wready'
  PROVE  \/ wready /\ wbase'.n = wbase.n
         \/ ReconcileDeployment /\ UpdateDeployment
<1>1. CASE ReconcileDeployment
  BY <1>1 DEF ReconcileDeployment, CreateDeployment
<1>2. CASE ReconcileWorker
  BY <1>2 DEF ReconcileWorker
<1>3. CASE AddWorkerFinalizer
  <2>1. [wbase EXCEPT !.at = "held"].n = wbase.n
    BY DEF TypeInv, TypeWorkerCtl, WorkerObject
  <2> QED
    BY <1>3, <2>1 DEF AddWorkerFinalizer, WReturn
<1>4. CASE UpdateWorkerStatus \/ RemoveWorkerFinalizer \/ WorkerRequestFails \/ OperatorRestart
  BY <1>4 DEF UpdateWorkerStatus, RemoveWorkerFinalizer, WorkerRequestFails, OperatorRestart, WReturn
<1>5. CASE UNCHANGED <<wbase, wready>>
  BY <1>5
<1> QED
  BY <1>1, <1>2, <1>3, <1>4, <1>5
     DEF Next, QueueStep, ReconcileQueue, AddFinalizer, RegisterNamespace, ReconcileTemporalWorker,
     UpdateQueueStatus, DeleteWorker, RemoveFinalizer, WorkerStep, Deliver, DeliverQueue,
     DeliverWorker, DeliverDeployment, CollectDeployment, PodsReady, CreateQueue, DeleteQueue,
     QueueRequestFails, vars

LEMMA IdleNotReady == ASSUME TypeInv, wpc = "idle" => ~wready, [Next]_vars PROVE (wpc = "idle" => ~wready)'
<1>1. ASSUME wpc' = "idle" PROVE ~wready'
  <2>1. CASE UNCHANGED <<wpc, wready>>
    BY <1>1, <2>1
  <2>2. CASE WorkerStep \/ WorkerRequestFails \/ OperatorRestart
    BY <1>1, <2>2 DEF WorkerStep, ReconcileWorker, AddWorkerFinalizer, ReconcileDeployment,
       UpdateWorkerStatus, RemoveWorkerFinalizer, WorkerRequestFails, OperatorRestart, WReturn,
       WGoto
  <2> QED
    BY <2>1, <2>2
       DEF Next, QueueStep, ReconcileQueue, AddFinalizer, RegisterNamespace,
       ReconcileTemporalWorker, UpdateQueueStatus, DeleteWorker, RemoveFinalizer, Deliver,
       DeliverQueue, DeliverWorker, DeliverDeployment, CollectDeployment, PodsReady, CreateQueue,
       DeleteQueue, QueueRequestFails, vars
<1> QED
  BY <1>1

\* The Deployment of the worker that is stored does not go, is not replaced and
\* is not adopted for another one.
LEMMA DeployedStays ==
  ASSUME TypeInv, ReadyInv, [Next]_vars, Deployed, Stored(worker').n = Stored(worker).n,
         Stored(worker).at # "gone"
  PROVE  Deployed'
<1>1. Stored(dep) \in Deployment
  BY ObjectTypes
<1>2. CASE DepSeen
  BY <1>2 DEF DepSeen, Seen, Deployed
<1>3. CASE ReconcileDeployment /\ DepWrite(Adopted(Stored(dep)))
  <2>1. Stored(dep') = Adopted(Stored(dep)) /\ wpc # "idle"
    BY <1>3, DepWritten DEF ReconcileDeployment
  <2>2. /\ Len(dep) \in DOMAIN dep /\ Stored(dep) = dep[Len(dep)]
        /\ Len(worker) \in DOMAIN worker /\ Stored(worker) = worker[Len(worker)]
    BY ObjectTypes, StoredIn DEF Stored
  <2>3. Stored(dep).owner <= wbase.n /\ wbase.n <= Stored(worker).n
    BY <2>1, <2>2 DEF ReadyInv, NewestInv
  <2>4. wbase.n = Stored(worker).n
    BY <2>2, <2>3, NumbersStored DEF Deployed
  <2>5. Adopted(Stored(dep)).at = Stored(dep).at /\ Adopted(Stored(dep)).owner = wbase.n
    BY <1>1 DEF Adopted, Deployment
  <2> QED
    BY <2>1, <2>4, <2>5 DEF Deployed
<1>4. CASE PodsReady /\ DepWrite([Stored(dep) EXCEPT !.ready = TRUE])
  <2>1. Stored(dep') = [Stored(dep) EXCEPT !.ready = TRUE]
    BY <1>4, DepWritten
  <2> QED
    BY <1>1, <2>1 DEF Deployed, Deployment
<1> QED
  BY <1>2, <1>3, <1>4, DepWrites DEF Deployed, CreateDeployment, CollectDeployment

\* A version of the Deployment that is live and of the stored worker is an old
\* one, or the one that is stored now.
LEMMA LiveVersions ==
  ASSUME TypeInv, [Next]_vars, NEW i \in DOMAIN dep', dep'[i].at = "live"
  PROVE  \/ \E j \in DOMAIN dep : dep[j].at = "live" /\ dep[j].owner = dep'[i].owner
         \/ dep'[i] = Stored(dep') /\ UNCHANGED worker
<1>1. CASE DepSeen
  BY <1>1, SeenOld DEF DepSeen
<1>2. ASSUME NEW o, DepWrite(o), UNCHANGED worker
      PROVE  \/ \E j \in DOMAIN dep : dep[j].at = "live" /\ dep[j].owner = dep'[i].owner
             \/ dep'[i] = Stored(dep') /\ UNCHANGED worker
  BY <1>2, DepWritten
<1> QED
  BY <1>1, <1>2, DepWrites DEF ReconcileDeployment, CollectDeployment, PodsReady

LEMMA DeployedStep == ASSUME TypeInv, ReadyInv, [Next]_vars PROVE DeployedInv'
<1> USE DEF ReadyInv
<1> SUFFICES ASSUME Stored(worker').at # "gone"
             PROVE  /\ \A i \in DOMAIN dep' :
                          dep'[i].at = "live" /\ dep'[i].owner = Stored(worker').n => Deployed'
                    /\ wready' /\ wbase'.n = Stored(worker').n => Deployed'
  BY DEF DeployedInv
<1>1. CASE Stored(worker').n = Stored(worker).n /\ Stored(worker).at # "gone"
  <2>1. ASSUME NEW i \in DOMAIN dep', dep'[i].at = "live", dep'[i].owner = Stored(worker').n
        PROVE  Deployed'
    <3>1. CASE \E j \in DOMAIN dep : dep[j].at = "live" /\ dep[j].owner = dep'[i].owner
      BY <1>1, <2>1, <3>1, DeployedStays DEF DeployedInv
    <3>2. CASE dep'[i] = Stored(dep')
      BY <2>1, <3>2 DEF Deployed
    <3> QED
      BY <2>1, <3>1, <3>2, LiveVersions
  <2>2. ASSUME wready', wbase'.n = Stored(worker').n PROVE Deployed'
    <3>1. CASE wready /\ wbase'.n = wbase.n
      BY <1>1, <2>2, <3>1, DeployedStays DEF DeployedInv
    <3>2. CASE ReconcileDeployment /\ UpdateDeployment
      <4>1. wbase' = wbase /\ Stored(dep) \in Deployment /\ wbase \in WorkerObject
        BY <3>2, ObjectTypes DEF ReconcileDeployment, TypeInv, TypeWorkerCtl
      <4>2. Adopted(Stored(dep)) \in Deployment
        BY <4>1 DEF Adopted, Deployment, WorkerObject
      <4>3. Stored(dep') = Adopted(Stored(dep))
        BY <3>2, <4>2, DepWritten DEF UpdateDeployment, WriteDeployment, DepWrite
      <4>4. Stored(dep).at = "live"
        BY <3>2, <4>1 DEF UpdateDeployment, Deployment
      <4>5. Adopted(Stored(dep)).at = Stored(dep).at /\ Adopted(Stored(dep)).owner = wbase.n
        BY <4>1 DEF Adopted, Deployment
      <4> QED
        BY <2>2, <4>1, <4>3, <4>4, <4>5 DEF Deployed
    <3> QED
      BY <2>2, <3>1, <3>2, FoundReady
  <2> QED
    BY <2>1, <2>2
<1>2. CASE /\ ReconcileTemporalWorker /\ CreateWorker
           /\ Stored(worker').n = Stored(worker).n + 1 /\ Stored(worker').status = "unset"
  <2>1. UNCHANGED <<dep, wpc, wbase, wready>>
    BY <1>2 DEF ReconcileTemporalWorker
  <2>2. Len(worker) \in DOMAIN worker /\ Stored(worker) = worker[Len(worker)]
    BY ObjectTypes, StoredIn DEF Stored
  <2>3. \A i \in DOMAIN dep : dep[i].owner # Stored(worker').n
    BY <1>2, <2>2, NumbersStored DEF NewestInv
  <2>4. wpc # "idle" => wbase.n # Stored(worker').n
    BY <1>2, <2>2, NumbersStored DEF NewestInv
  <2> QED
    BY <2>1, <2>3, <2>4
<1> QED
  BY <1>1, <1>2, WorkerProgress

LEMMA ReadyStep == ASSUME TypeInv, ReadyInv, [Next]_vars PROVE ReadyInv'
<1>1. ReadyHasDeployment'
  <2> SUFFICES ASSUME Stored(worker').at # "gone", Stored(worker').status = "Ready" PROVE Deployed'
    BY DEF ReadyHasDeployment, Deployed
  <2>1. Stored(worker').n = Stored(worker).n /\ Stored(worker).at # "gone"
    BY WorkerProgress
  <2>2. Deployed
    <3>1. CASE Stored(worker').status = Stored(worker).status
      BY <2>1, <3>1 DEF ReadyInv, ReadyHasDeployment, Deployed
    <3>2. CASE /\ UpdateWorkerStatus /\ Stored(worker) = wbase
               /\ Stored(worker').status = WorkerPhase
      BY <2>1, <3>2 DEF WorkerPhase, ReadyInv, DeployedInv
    <3> QED
      BY <3>1, <3>2, WorkerProgress
  <2> QED
    BY <2>1, <2>2, DeployedStays
<1> QED
  BY <1>1, NewestStep, DeployedStep, IdleNotReady DEF ReadyInv

\* The TemporalWorker controller never shows a worker as Ready whose Deployment is
\* not there, is another worker's, or is about to be collected: a worker that was
\* deleted and created again has adopted the Deployment of its predecessor by
\* then, and no reconcile with a stale worker takes it back.
THEOREM ReadyWorkersRun == Spec => []ReadyHasDeployment
<1>1. ReadyInv => ReadyHasDeployment
  BY DEF ReadyInv
<1> QED
  BY <1>1, TypeInit, TypeStep, ReadyInit, ReadyStep, PTL DEF Spec

-----------------------------------------------------------------------------
(* The finalizers                                                          *)

LEMMA BaseInit == Init => BaseInv
BY DEF Init, BaseInv

LEMMA QueueBaseStep ==
  ASSUME TypeInv, BaseInv, [Next]_vars
  PROVE  /\ qpc' = "finalizer" => qbase'.at = "new"
         /\ qpc' \in {"register", "worker", "ready", "failed"} => qbase'.at \in Held
         /\ qpc' \in {"delworker", "unfinalize"} => qbase'.at = "deleting"
<1> USE DEF BaseInv, Held
<1>1. ASSUME NEW q \in Queue, ReconcileQueue(q)
      PROVE  /\ qpc' = "finalizer" => qbase'.at = "new"
             /\ qpc' \in {"register", "worker", "ready", "failed"} => qbase'.at \in Held
             /\ qpc' \in {"delworker", "unfinalize"} => qbase'.at = "deleting"
  <2>1. Cached(queue[q]) \in QueueObject
    BY ObjectTypes
  <2> QED
    BY <1>1, <2>1 DEF ReconcileQueue, QueueObject, Live
<1>2. CASE AddFinalizer
  <2>1. [qbase EXCEPT !.at = "held"].at = "held"
    BY DEF TypeInv, TypeQueueCtl, QueueObject
  <2> QED
    BY <1>2, <2>1 DEF AddFinalizer, Goto, Return
<1>3. CASE RegisterNamespace \/ ReconcileTemporalWorker \/ DeleteWorker \/ QueueRequestFails
  BY <1>3 DEF RegisterNamespace, ReconcileTemporalWorker, DeleteWorker, QueueRequestFails, Goto,
     Return
<1>4. CASE UpdateQueueStatus \/ RemoveFinalizer \/ OperatorRestart
  BY <1>4 DEF UpdateQueueStatus, RemoveFinalizer, OperatorRestart, Return
<1>5. CASE UNCHANGED <<qpc, qbase>>
  BY <1>5
<1> QED
  BY <1>1, <1>2, <1>3, <1>4, <1>5
     DEF Next, QueueStep, WorkerStep, ReconcileWorker, AddWorkerFinalizer, ReconcileDeployment,
     UpdateWorkerStatus, RemoveWorkerFinalizer, Deliver, DeliverQueue, DeliverWorker,
     DeliverDeployment, CollectDeployment, PodsReady, CreateQueue, DeleteQueue,
     WorkerRequestFails, vars

LEMMA WorkerBaseStep ==
  ASSUME TypeInv, BaseInv, [Next]_vars
  PROVE  /\ wpc' = "finalizer" => wbase'.at = "new"
         /\ wpc' \in {"deploy", "status", "failed"} => wbase'.at = "held"
         /\ wpc' = "unfinalize" => wbase'.at = "deleting"
<1> USE DEF BaseInv
<1>1. CASE ReconcileWorker
  <2>1. Cached(worker) \in WorkerObject
    BY ObjectTypes
  <2> QED
    BY <1>1, <2>1 DEF ReconcileWorker, NotFound, WorkerObject
<1>2. CASE AddWorkerFinalizer
  <2>1. [wbase EXCEPT !.at = "held"].at = "held"
    BY DEF TypeInv, TypeWorkerCtl, WorkerObject
  <2> QED
    BY <1>2, <2>1 DEF AddWorkerFinalizer, WGoto, WReturn
<1>3. CASE ReconcileDeployment \/ WorkerRequestFails
  BY <1>3 DEF ReconcileDeployment, WorkerRequestFails, WGoto, WReturn
<1>4. CASE UpdateWorkerStatus \/ RemoveWorkerFinalizer \/ OperatorRestart
  BY <1>4 DEF UpdateWorkerStatus, RemoveWorkerFinalizer, OperatorRestart, WReturn
<1>5. CASE UNCHANGED <<wpc, wbase>>
  BY <1>5
<1> QED
  BY <1>1, <1>2, <1>3, <1>4, <1>5
     DEF Next, QueueStep, ReconcileQueue, AddFinalizer, RegisterNamespace, ReconcileTemporalWorker,
     UpdateQueueStatus, DeleteWorker, RemoveFinalizer, WorkerStep, Deliver, DeliverQueue,
     DeliverWorker, DeliverDeployment, CollectDeployment, PodsReady, CreateQueue, DeleteQueue,
     QueueRequestFails, vars

LEMMA BaseStep == ASSUME TypeInv, BaseInv, [Next]_vars PROVE BaseInv'
BY QueueBaseStep, WorkerBaseStep DEF BaseInv, Held

\* The order of the versions.
LEMMA QueueObjectFacts ==
  ASSUME NEW o \in QueueObject
  PROVE  /\ o.n \in Nat /\ o.at \in {"new", "held", "ready", "failed", "deleting", "gone"}
         /\ Phase(o) \in 0 .. 3
BY BoundAssumption DEF QueueObject, Live, Phase, Held

LEMMA BeforeIsOrder ==
  ASSUME NEW o \in QueueObject, NEW p \in QueueObject, NEW r \in QueueObject
  PROVE  Before(o, o) /\ (Before(o, p) /\ Before(p, r) => Before(o, r))
<1>1. /\ o.n \in Nat /\ p.n \in Nat /\ r.n \in Nat
      /\ Phase(o) \in 0 .. 3 /\ Phase(p) \in 0 .. 3 /\ Phase(r) \in 0 .. 3
  BY QueueObjectFacts
<1> QED
  BY <1>1 DEF Before

\* What a write may make of a Queue: give or keep it the finalizer, take it off
\* in the reconcile of a deletion, delete one that has it, or create or delete
\* one that has none.
Change(q, o) ==
    \/ /\ o.at \in Held /\ q = qkey /\ Stored(queue[q]) = qbase
       /\ qpc = "finalizer" \/ Stored(queue[q]).at \in Held
    \/ o.at = "gone" /\ q = qkey /\ qpc = "unfinalize"
    \/ o.at = "deleting" /\ Stored(queue[q]).at \in Held
    \/ o.at \in {"new", "gone"} /\ Stored(queue[q]).at \in {"new", "gone"}

Written(q, o) ==
    /\ o \in QueueObject /\ Stored(queue'[q]) = o
    /\ queue'[q] \in Seq(QueueObject) /\ queue'[q] # <<>>
    /\ \A i \in DOMAIN queue'[q] : \/ i \in DOMAIN queue[q] /\ queue'[q][i] = queue[q][i]
                                   \/ i = Len(queue'[q]) /\ queue'[q][i] = o
    /\ Before(Stored(queue[q]), o) /\ Change(q, o)

LEMMA QueueMoves ==
  ASSUME TypeInv, BaseInv, [Next]_vars, NEW q \in Queue
  PROVE  QueueSeen(q) \/ \E o : Written(q, o)
<1>1. queue[q] \in Seq(QueueObject) /\ Stored(queue[q]) \in QueueObject
  BY ObjectTypes
<1>2. ASSUME queue'[q] = queue[q] PROVE QueueSeen(q)
  BY <1>1, <1>2, SameSeen, ObjectTypes DEF QueueSeen
<1>3. ASSUME NEW r \in Queue, NEW o, QueueWrite(r, o), Before(Stored(queue[r]), o), Change(r, o)
      PROVE  QueueSeen(q) \/ Written(q, o)
  <2>1. o \in QueueObject
    BY <1>3 DEF QueueWrite
  <2> QED
    BY <1>2, <1>3, <2>1, QueueWritten DEF Written
<1>4. qpc # "idle" => qkey \in Queue /\ qbase \in QueueObject
  BY DEF TypeInv, TypeQueueCtl
<1>5. CASE AddFinalizer /\ ~Conflict /\ QueueWrite(qkey, [qbase EXCEPT !.at = "held"])
  <2> DEFINE o == [qbase EXCEPT !.at = "held"]
  <2>1. /\ qpc = "finalizer" /\ Stored(queue[qkey]) = qbase /\ qbase.at = "new"
        /\ qkey \in Queue /\ qbase \in QueueObject
    BY <1>4, <1>5 DEF AddFinalizer, Conflict, BaseInv
  <2>2. o.at = "held" /\ o.n = qbase.n
    BY <2>1 DEF QueueObject
  <2>3. Before(qbase, o) /\ Change(qkey, o)
    <3> HIDE DEF o
    <3> QED
      BY <2>1, <2>2 DEF Before, Phase, Held, Change
  <2> QED
    BY <1>3, <1>5, <2>1, <2>3
<1>6. CASE UpdateQueueStatus /\ ~Conflict /\ QueueWrite(qkey, [qbase EXCEPT !.at = qpc])
  <2> DEFINE o == [qbase EXCEPT !.at = qpc]
  <2>1. /\ qpc \in {"ready", "failed"} /\ Stored(queue[qkey]) = qbase /\ qbase.at \in Held
        /\ qkey \in Queue /\ qbase \in QueueObject
    BY <1>4, <1>6 DEF UpdateQueueStatus, Conflict, BaseInv
  <2>2. o.at = qpc /\ o.n = qbase.n
    BY <2>1 DEF QueueObject
  <2>3. Before(qbase, o) /\ Change(qkey, o)
    <3> HIDE DEF o
    <3> QED
      BY <2>1, <2>2 DEF Before, Phase, Held, Change
  <2> QED
    BY <1>3, <1>6, <2>1, <2>3
<1>7. CASE RemoveFinalizer /\ ~Conflict /\ QueueWrite(qkey, [qbase EXCEPT !.at = "gone"])
  <2> DEFINE o == [qbase EXCEPT !.at = "gone"]
  <2>1. /\ qpc = "unfinalize" /\ Stored(queue[qkey]) = qbase /\ qbase.at = "deleting"
        /\ qkey \in Queue /\ qbase \in QueueObject
    BY <1>4, <1>7 DEF RemoveFinalizer, Conflict, BaseInv
  <2>2. o.at = "gone" /\ o.n = qbase.n
    BY <2>1 DEF QueueObject
  <2>3. Before(qbase, o) /\ Change(qkey, o)
    <3> HIDE DEF o
    <3> QED
      BY <2>1, <2>2 DEF Before, Phase, Held, Change
  <2> QED
    BY <1>3, <1>7, <2>1, <2>3
<1>8. ASSUME NEW r \in Queue, CreateQueue(r),
             QueueWrite(r, [n |-> Stored(queue[r]).n + 1, at |-> "new"])
      PROVE  QueueSeen(q) \/ \E o : Written(q, o)
  <2> DEFINE o == [n |-> Stored(queue[r]).n + 1, at |-> "new"]
  <2>1. Stored(queue[r]).at = "gone" /\ Stored(queue[r]).n \in Nat
    BY <1>8, ObjectTypes, QueueObjectFacts DEF CreateQueue
  <2>2. o.at = "new" /\ Stored(queue[r]).n < o.n
    BY <2>1
  <2>3. Before(Stored(queue[r]), o) /\ Change(r, o)
    <3> HIDE DEF o
    <3> QED
      BY <2>1, <2>2 DEF Before, Change
  <2> QED
    BY <1>3, <1>8, <2>3
<1>9. ASSUME NEW r \in Queue, DeleteQueue(r), QueueWrite(r, AfterDelete(Stored(queue[r])))
      PROVE  QueueSeen(q) \/ \E o : Written(q, o)
  <2> DEFINE s == Stored(queue[r])
             o == AfterDelete(s)
  <2>1. s \in QueueObject /\ s.at \in Live
    BY <1>9, ObjectTypes DEF DeleteQueue
  <2>2. o.n = s.n /\ (s.at = "new" => o.at = "gone") /\ (s.at # "new" => o.at = "deleting" /\ s.at \in Held)
    <3> HIDE DEF s
    <3> QED
      BY <2>1 DEF AfterDelete, QueueObject, Live, Held
  <2>3. Before(s, o)
    <3> HIDE DEF s, o
    <3> QED
      BY <2>1, <2>2 DEF Before, Phase, Held, Live
  <2>4. Change(r, o)
    <3> HIDE DEF o
    <3> QED
      BY <2>1, <2>2 DEF Change
  <2> QED
    BY <1>3, <1>9, <2>3, <2>4
<1> QED
  BY <1>5, <1>6, <1>7, <1>8, <1>9, QueueWrites

\* Where the reconcile of a Queue goes: it starts with what is cached, adds the
\* finalizer, ends, or goes on with the Queue it has read.
Holding == {"register", "worker", "ready", "failed"}
LEMMA QueueControl ==
  ASSUME TypeInv, [Next]_vars
  PROVE  \/ \E q \in Queue :
               /\ qkey' = q /\ qbase' = Cached(queue[q]) /\ UNCHANGED queue
               /\ qpc' = "finalizer" => Cached(queue[q]).at = "new"
               /\ qpc' \in Holding => Cached(queue[q]).at \in Held
               /\ qpc' \in {"delworker", "unfinalize"} => Cached(queue[q]).at = "deleting"
               /\ qpc' # "unfinalize"
         \/ /\ qpc' = "register" /\ qkey' = qkey /\ qkey \in Queue
            /\ QueueWrite(qkey, [qbase EXCEPT !.at = "held"])
         \/ qpc' = "idle"
         \/ /\ qkey' = qkey /\ qbase' = qbase
            /\ \/ qpc' = qpc
               \/ qpc \in Holding /\ qpc' \in Holding
               \/ DeleteWorker /\ qpc = "delworker" /\ qpc' = "unfinalize"
<1> USE DEF Holding
<1>1. ASSUME NEW q \in Queue, ReconcileQueue(q)
      PROVE  \/ /\ qkey' = q /\ qbase' = Cached(queue[q]) /\ UNCHANGED queue
                /\ qpc' = "finalizer" => Cached(queue[q]).at = "new"
                /\ qpc' \in Holding => Cached(queue[q]).at \in Held
                /\ qpc' \in {"delworker", "unfinalize"} => Cached(queue[q]).at = "deleting"
                /\ qpc' # "unfinalize"
             \/ qpc' = "idle"
  <2>1. Cached(queue[q]) \in QueueObject
    BY ObjectTypes
  <2> QED
    BY <1>1, <2>1 DEF ReconcileQueue, QueueObject, Live, Held
<1>2. CASE AddFinalizer
  <2>1. qkey \in Queue /\ [qbase EXCEPT !.at = "held"] \in QueueObject
    BY <1>2 DEF TypeInv, TypeQueueCtl, QueueObject, AddFinalizer, Live
  <2> QED
    BY <1>2, <2>1 DEF AddFinalizer, Goto, Return, StoreQueue, WriteQueue, QueueWrite
<1>3. CASE RegisterNamespace \/ ReconcileTemporalWorker \/ DeleteWorker \/ QueueRequestFails
  BY <1>3 DEF RegisterNamespace, ReconcileTemporalWorker, DeleteWorker, QueueRequestFails, Goto,
     Return
<1>4. CASE UpdateQueueStatus \/ RemoveFinalizer \/ OperatorRestart
  BY <1>4 DEF UpdateQueueStatus, RemoveFinalizer, OperatorRestart, Return
<1>5. CASE UNCHANGED <<qpc, qkey, qbase>>
  BY <1>5
<1> QED
  BY <1>1, <1>2, <1>3, <1>4, <1>5
     DEF Next, QueueStep, WorkerStep, ReconcileWorker, AddWorkerFinalizer, ReconcileDeployment,
     UpdateWorkerStatus, RemoveWorkerFinalizer, Deliver, DeliverQueue, DeliverWorker,
     DeliverDeployment, CollectDeployment, PodsReady, CreateQueue, DeleteQueue,
     WorkerRequestFails, vars

\* Versions of a Queue, as they are used below.
LEMMA Versions ==
  ASSUME TypeInv, NEW q \in Queue
  PROVE  /\ \A i \in DOMAIN queue[q] : queue[q][i] \in QueueObject /\ i \in Nat /\ i <= Len(queue[q])
         /\ Len(queue[q]) \in DOMAIN queue[q] /\ 1 \in DOMAIN queue[q]
         /\ \A i \in DOMAIN queue[q] : 1 <= i
         /\ Stored(queue[q]) = queue[q][Len(queue[q])] /\ Cached(queue[q]) = queue[q][1]
         /\ Stored(queue[q]) \in QueueObject
BY ObjectTypes, StoredIn DEF Stored, Cached

LEMMA OrderInit == Init => OrderInv
<1> SUFFICES ASSUME Init PROVE OrderInv
  OBVIOUS
<1>1. TypeInv
  BY TypeInit
<1>2. \A q \in Queue : DOMAIN queue[q] = {1} /\ queue[q][1] \in QueueObject
  <2>1. \A q \in Queue : queue[q] = <<[n |-> 1, at |-> "new"]>>
    BY DEF Init
  <2>2. ASSUME NEW o PROVE DOMAIN <<o>> = {1}
    OBVIOUS
  <2>3. \A q \in Queue : DOMAIN queue[q] = {1}
    BY <2>1, <2>2
  <2> QED
    BY <1>1, <2>3, Versions
<1> QED
  BY <1>2, BeforeIsOrder DEF Init, OrderInv

LEMMA VersionsInOrder ==
  ASSUME TypeInv, BaseInv, OrderInv, [Next]_vars, NEW q \in Queue,
         NEW i \in DOMAIN queue'[q], NEW j \in DOMAIN queue'[q], i <= j
  PROVE  Before(queue'[q][i], queue'[q][j])
<1>1. CASE QueueSeen(q)
  <2>1. PICK k \in Nat : \A m \in DOMAIN queue'[q] : m + k \in DOMAIN queue[q] /\ queue'[q][m] = queue[q][m + k]
    BY <1>1 DEF QueueSeen, Seen
  <2>2. i \in Nat /\ j \in Nat /\ i + k <= j + k
    BY <1>1 DEF QueueSeen
  <2> QED
    BY <2>1, <2>2 DEF OrderInv
<1>2. ASSUME NEW o, Written(q, o) PROVE Before(queue'[q][i], queue'[q][j])
  <2>1. i <= Len(queue'[q]) /\ j <= Len(queue'[q]) /\ i \in Nat /\ j \in Nat
    BY <1>2, StoredIn DEF Written
  <2>2. CASE i = j
    BY <1>2, <2>2, BeforeIsOrder DEF Written
  <2>3. CASE i # j
    <3>1. i # Len(queue'[q])
      BY <2>1, <2>3
    <3>2. i \in DOMAIN queue[q] /\ queue'[q][i] = queue[q][i]
      BY <1>2, <3>1 DEF Written
    <3>3. CASE j \in DOMAIN queue[q] /\ queue'[q][j] = queue[q][j]
      BY <3>2, <3>3 DEF OrderInv
    <3>4. CASE queue'[q][j] = o
      <4>1. Before(queue[q][i], Stored(queue[q]))
        BY <3>2, Versions DEF OrderInv
      <4>2. Before(Stored(queue[q]), o) /\ o \in QueueObject
        BY <1>2 DEF Written
      <4> QED
        BY <3>2, <3>4, <4>1, <4>2, Versions, BeforeIsOrder
    <3> QED
      BY <1>2, <3>3, <3>4 DEF Written
  <2> QED
    BY <2>2, <2>3
<1> QED
  BY <1>1, <1>2, QueueMoves

LEMMA OrderStep == ASSUME TypeInv, BaseInv, OrderInv, [Next]_vars PROVE OrderInv'
<1>1. \A q \in Queue : \A i, j \in DOMAIN queue'[q] : i <= j => Before(queue'[q][i], queue'[q][j])
  BY VersionsInOrder
<1>2. ASSUME qpc' = "finalizer", NEW i \in DOMAIN queue'[qkey']
      PROVE  Before(qbase', queue'[qkey'][i])
  <2>1. CASE \E q \in Queue : qkey' = q /\ qbase' = Cached(queue[q]) /\ UNCHANGED queue
    BY <2>1, <1>2, Versions DEF OrderInv
  <2>2. CASE qkey' = qkey /\ qbase' = qbase /\ qpc' = qpc
    <3>1. qkey \in Queue /\ qbase \in QueueObject
      BY <1>2, <2>2 DEF TypeInv, TypeQueueCtl
    <3>2. CASE QueueSeen(qkey)
      BY <1>2, <2>2, <3>2 DEF QueueSeen, Seen, OrderInv
    <3>3. ASSUME NEW o, Written(qkey, o) PROVE Before(qbase, queue'[qkey][i])
      <4>1. CASE queue'[qkey][i] = o
        <5>1. Before(qbase, Stored(queue[qkey]))
          BY <1>2, <2>2, <3>1, Versions DEF OrderInv
        <5>2. Before(Stored(queue[qkey]), o) /\ o \in QueueObject
          BY <3>3 DEF Written
        <5> QED
          BY <3>1, <4>1, <5>1, <5>2, Versions, BeforeIsOrder
      <4>2. CASE i \in DOMAIN queue[qkey] /\ queue'[qkey][i] = queue[qkey][i]
        BY <1>2, <2>2, <4>2 DEF OrderInv
      <4> QED
        BY <1>2, <2>2, <3>3, <4>1, <4>2 DEF Written
    <3> QED
      BY <2>2, <3>1, <3>2, <3>3, QueueMoves
  <2> QED
    BY <1>2, <2>1, <2>2, QueueControl DEF Holding
<1> QED
  BY <1>1, <1>2 DEF OrderInv

LEMMA FinalizerInit == Init => FinalizerInv
<1> SUFFICES ASSUME Init PROVE FinalizerInv
  OBVIOUS
<1>1. TypeInv
  BY TypeInit
<1>2. \A q \in Queue : \A i \in DOMAIN queue[q] : queue[q][i].at = "new"
  <2>1. \A q \in Queue : queue[q] = <<[n |-> 1, at |-> "new"]>>
    BY DEF Init
  <2> QED
    BY <2>1
<1>3. qpc = "idle"
  BY DEF Init
<1> QED
  BY <1>2, <1>3 DEF FinalizerInv, Held

\* A Queue that gets the finalizer, or keeps it, was never being deleted.
LEMMA HeldWasNotDeleted ==
  ASSUME TypeInv, BaseInv, OrderInv, FinalizerInv, NEW q \in Queue, NEW o, Change(q, o),
         o.at \in Held, NEW i \in DOMAIN queue[q]
  PROVE  queue[q][i].at # "deleting"
<1>1. q = qkey /\ Stored(queue[q]) = qbase
  BY DEF Change, Held
<1>2. queue[q][i] \in QueueObject /\ qbase \in QueueObject
  BY <1>1, Versions
<1>3. CASE qpc = "finalizer"
  <2>1. Before(qbase, queue[q][i])
    BY <1>1, <1>3 DEF OrderInv
  <2>2. Before(queue[q][i], qbase)
    BY <1>1, Versions DEF OrderInv
  <2>3. qbase.at = "new" /\ Phase(qbase) = 0
    <3>1. qbase.at = "new"
      BY <1>3 DEF BaseInv
    <3> QED
      BY <3>1 DEF Phase, Held
  <2>4. Phase(queue[q][i]) <= 0
    BY <1>2, <2>1, <2>2, <2>3, QueueObjectFacts DEF Before
  <2>5. queue[q][i].at = "deleting" => Phase(queue[q][i]) = 2
    BY DEF Phase, Held
  <2> QED
    BY <2>4, <2>5
<1>4. CASE Stored(queue[q]).at \in Held
  <2>1. Len(queue[q]) \in DOMAIN queue[q] /\ i <= Len(queue[q]) /\ queue[q][Len(queue[q])].at \in Held
    BY <1>4, Versions
  <2> QED
    BY <2>1 DEF FinalizerInv
<1> QED
  BY <1>3, <1>4 DEF Change, Held

LEMMA HeldIsKept ==
  ASSUME TypeInv, BaseInv, FinalizerInv, [Next]_vars, NEW q \in Queue,
         NEW i \in DOMAIN queue'[q], queue'[q][i].at \in Held
  PROVE  Stored(queue'[q]).at \in Held \cup {"deleting"}
<1>1. CASE QueueSeen(q)
  <2>1. Stored(queue'[q]) = Stored(queue[q]) /\ \E j \in DOMAIN queue[q] : queue'[q][i] = queue[q][j]
    BY <1>1, SeenOld DEF QueueSeen, Seen
  <2> QED
    BY <2>1 DEF FinalizerInv
<1>2. ASSUME NEW o, Written(q, o) PROVE o.at \in Held \cup {"deleting"}
  <2>1. CASE i \in DOMAIN queue[q] /\ queue'[q][i] = queue[q][i]
    <3>1. Stored(queue[q]).at \in Held \cup {"deleting"}
      BY <2>1 DEF FinalizerInv
    <3>2. ~(q = qkey /\ qpc = "unfinalize")
      BY <2>1 DEF FinalizerInv
    <3> QED
      BY <1>2, <3>1, <3>2 DEF Written, Change, Held
  <2>2. CASE queue'[q][i] = o
    BY <2>2
  <2> QED
    BY <1>2, <2>1, <2>2 DEF Written
<1> QED
  BY <1>1, <1>2, QueueMoves DEF Written

LEMMA DeletingIsKept ==
  ASSUME TypeInv, BaseInv, OrderInv, FinalizerInv, [Next]_vars, NEW q \in Queue,
         NEW i \in DOMAIN queue'[q], NEW j \in DOMAIN queue'[q], i <= j,
         queue'[q][i].at = "deleting"
  PROVE  queue'[q][j].at \notin Held
<1>1. CASE QueueSeen(q)
  <2>1. PICK k \in Nat : \A m \in DOMAIN queue'[q] : m + k \in DOMAIN queue[q] /\ queue'[q][m] = queue[q][m + k]
    BY <1>1 DEF QueueSeen, Seen
  <2>2. i + k <= j + k
    BY <1>1 DEF QueueSeen
  <2> QED
    BY <2>1, <2>2 DEF FinalizerInv
<1>2. ASSUME NEW o, Written(q, o) PROVE queue'[q][j].at \notin Held
  <2>1. i <= Len(queue'[q]) /\ j <= Len(queue'[q]) /\ i \in Nat /\ j \in Nat
    BY <1>2, StoredIn DEF Written
  <2>2. CASE i = j
    BY <2>2 DEF Held
  <2>3. CASE i # j
    <3>1. i # Len(queue'[q])
      BY <2>1, <2>3
    <3>2. i \in DOMAIN queue[q] /\ queue'[q][i] = queue[q][i]
      BY <1>2, <3>1 DEF Written
    <3>3. CASE j \in DOMAIN queue[q] /\ queue'[q][j] = queue[q][j]
      BY <3>2, <3>3 DEF FinalizerInv
    <3>4. CASE queue'[q][j] = o
      <4>1. Change(q, o)
        BY <1>2 DEF Written
      <4> QED
        BY <3>2, <3>4, <4>1, HeldWasNotDeleted
    <3> QED
      BY <1>2, <3>3, <3>4 DEF Written
  <2> QED
    BY <2>2, <2>3
<1> QED
  BY <1>1, <1>2, QueueMoves

\* What has the finalizer keeps it, but for the reconcile of its deletion.
LEMMA FinalizerStays ==
  ASSUME TypeInv, BaseInv, [Next]_vars, NEW q \in Queue,
         Stored(queue[q]).at \in Held \cup {"deleting"}, ~(q = qkey /\ qpc = "unfinalize")
  PROVE  Stored(queue'[q]).at \in Held \cup {"deleting"}
<1>1. CASE QueueSeen(q)
  BY <1>1 DEF QueueSeen, Seen
<1>2. ASSUME NEW o, Written(q, o) PROVE Stored(queue'[q]).at \in Held \cup {"deleting"}
  BY <1>2 DEF Written, Change, Held
<1> QED
  BY <1>1, <1>2, QueueMoves

LEMMA ReconcileHolds ==
  ASSUME TypeInv, BaseInv, FinalizerInv, [Next]_vars, qpc' \in Holding
  PROVE  Stored(queue'[qkey']).at \in Held \cup {"deleting"}
<1>1. ASSUME NEW q \in Queue, qkey' = q, UNCHANGED queue, Cached(queue[q]).at \in Held
      PROVE  Stored(queue'[qkey']).at \in Held \cup {"deleting"}
  BY <1>1, Versions DEF FinalizerInv
<1>2. ASSUME qkey' = qkey, qkey \in Queue, QueueWrite(qkey, [qbase EXCEPT !.at = "held"])
      PROVE  Stored(queue'[qkey']).at \in Held \cup {"deleting"}
  <2>1. [qbase EXCEPT !.at = "held"].at = "held"
    BY DEF TypeInv, TypeQueueCtl, QueueObject
  <2> QED
    BY <1>2, <2>1, QueueWritten DEF Held
<1>3. CASE qkey' = qkey /\ qpc \in Holding
  <2>1. qkey \in Queue /\ qpc # "unfinalize"
    BY <1>3 DEF TypeInv, TypeQueueCtl, Holding
  <2> QED
    BY <1>3, <2>1, FinalizerStays DEF FinalizerInv, Holding
<1> QED
  BY <1>1, <1>2, <1>3, QueueControl DEF Holding

LEMMA ReconcileDeletes ==
  ASSUME TypeInv, BaseInv, FinalizerInv, [Next]_vars, qpc' \in {"delworker", "unfinalize"},
         NEW i \in DOMAIN queue'[qkey']
  PROVE  queue'[qkey'][i].at \notin Held
<1>1. ASSUME NEW q \in Queue, qkey' = q, UNCHANGED queue, Cached(queue[q]).at = "deleting"
      PROVE  queue'[qkey'][i].at \notin Held
  BY <1>1, Versions DEF FinalizerInv
<1>2. CASE qkey' = qkey /\ qpc \in {"delworker", "unfinalize"}
  <2>1. qkey \in Queue /\ qpc # "finalizer"
    BY <1>2 DEF TypeInv, TypeQueueCtl
  <2>2. \A j \in DOMAIN queue[qkey] : queue[qkey][j].at \notin Held
    BY <1>2 DEF FinalizerInv
  <2>3. CASE QueueSeen(qkey)
    BY <1>2, <2>2, <2>3, SeenOld DEF QueueSeen
  <2>4. ASSUME NEW o, Written(qkey, o) PROVE queue'[qkey][i].at \notin Held
    <3>1. o.at \notin Held
      <4>1. Stored(queue[qkey]).at \notin Held
        BY <2>1, <2>2, Versions
      <4> QED
        BY <2>1, <2>4, <4>1 DEF Written, Change, Held
    <3> QED
      BY <1>2, <2>2, <2>4, <3>1 DEF Written
  <2> QED
    BY <1>2, <2>1, <2>3, <2>4, QueueMoves
<1> QED
  BY <1>1, <1>2, QueueControl DEF Holding

LEMMA FinalizerStep == ASSUME TypeInv, BaseInv, OrderInv, FinalizerInv, [Next]_vars PROVE FinalizerInv'
BY HeldIsKept, DeletingIsKept, ReconcileHolds, ReconcileDeletes DEF FinalizerInv, Holding, Held

-----------------------------------------------------------------------------
(* The worker of Queues that are gone                                      *)

LEMMA OrphanInit == Init => OrphanInv
<1> SUFFICES ASSUME Init PROVE OrphanInv
  OBVIOUS
<1>1. Stored(worker) = NoWorker
  BY DEF Init, Stored
<1> QED
  BY <1>1, NothingTypes DEF OrphanInv

\* A worker that is there was there before, or is created in this step; after
\* the reconcile of a deletion deleted it there is none.
LEMMA WantedWorker ==
  ASSUME TypeInv, BaseInv, [Next]_vars, Stored(worker').at \in {"new", "held"}
  PROVE  /\ Stored(worker).at \in {"new", "held"} \/ ReconcileTemporalWorker
         /\ ~DeleteWorker
<1>1. Stored(worker) \in WorkerObject /\ wbase \in WorkerObject
  BY ObjectTypes DEF TypeInv, TypeWorkerCtl
<1>2. ASSUME NEW o, WorkerWrite(o) PROVE Stored(worker') = o
  BY <1>2, WorkerWritten
<1>3. ~DeleteWorker
  <2> SUFFICES ASSUME DeleteWorker PROVE FALSE
    OBVIOUS
  <2>1. AfterDelete(Stored(worker)) \in WorkerObject /\ AfterDelete(Stored(worker)).at \notin {"new", "held"}
    BY <1>1 DEF AfterDelete, WorkerObject
  <2>2. WorkerWrite(AfterDelete(Stored(worker)))
    BY <2>1 DEF DeleteWorker, DeletedWorker, WriteWorker, WorkerWrite
  <2> QED
    BY <1>2, <2>1, <2>2
<1>4. CASE WorkerSeen
  BY <1>3, <1>4 DEF WorkerSeen, Seen
<1>5. CASE AddWorkerFinalizer /\ ~WConflict
  BY <1>3, <1>5 DEF AddWorkerFinalizer, WConflict, BaseInv
<1>6. CASE UpdateWorkerStatus /\ ~WConflict
  BY <1>3, <1>6 DEF UpdateWorkerStatus, WConflict, BaseInv
<1>7. CASE RemoveWorkerFinalizer /\ ~WConflict /\ WorkerWrite([wbase EXCEPT !.at = "gone"])
  <2>1. [wbase EXCEPT !.at = "gone"].at = "gone"
    BY <1>1 DEF WorkerObject
  <2> QED
    BY <1>2, <1>7, <2>1
<1> QED
  BY <1>3, <1>4, <1>5, <1>6, <1>7, WorkerWrites

LEMMA OrphanStep == ASSUME TypeInv, BaseInv, FinalizerInv, OrphanInv, [Next]_vars PROVE OrphanInv'
<1> SUFFICES ASSUME Stored(worker').at \in {"new", "held"}
             PROVE  ~NoFinalizer' /\ qpc' # "unfinalize"
  BY DEF OrphanInv
<1>1. CASE ReconcileTemporalWorker
  <2>1. qpc = "worker" /\ qkey \in Queue /\ queue' = queue /\ qpc' \in {"ready", "failed"}
    BY <1>1 DEF ReconcileTemporalWorker, Goto, TypeInv, TypeQueueCtl
  <2>2. Stored(queue'[qkey]).at \notin {"new", "gone"}
    BY <2>1 DEF FinalizerInv, Held
  <2> QED
    BY <2>1, <2>2 DEF NoFinalizer
<1>2. CASE Stored(worker).at \in {"new", "held"}
  <2>1. qpc # "unfinalize" /\ ~DeleteWorker
    BY <1>2, WantedWorker DEF OrphanInv
  <2>2. PICK q \in Queue : Stored(queue[q]).at \notin {"new", "gone"}
    BY <1>2 DEF OrphanInv, NoFinalizer
  <2>3. Stored(queue[q]).at \in Held \cup {"deleting"}
    BY <2>2, ObjectTypes, QueueObjectFacts DEF Held
  <2>4. Stored(queue'[q]).at \notin {"new", "gone"}
    BY <2>1, <2>3, FinalizerStays DEF Held
  <2>5. qpc' # "unfinalize"
    BY <2>1, QueueControl DEF Holding
  <2> QED
    BY <2>4, <2>5 DEF NoFinalizer
<1> QED
  BY <1>1, <1>2, WantedWorker

\* The Queue controller's reconcile of a deletion leaves no worker behind that
\* somebody still wants: it deletes the worker before it removes the finalizer,
\* and no reconcile that has read an older version of a Queue creates another
\* once the last finalizer is off.
THEOREM NoWorkerIsOrphaned == Spec => []NoOrphanWorker
<1>1. OrphanInv => NoOrphanWorker
  BY DEF OrphanInv, NoFinalizer, NoOrphanWorker, AllGone
<1>2. TypeInv /\ BaseInv /\ OrderInv /\ FinalizerInv /\ OrphanInv /\ [Next]_vars
      => (TypeInv /\ BaseInv /\ OrderInv /\ FinalizerInv /\ OrphanInv)'
  BY TypeStep, BaseStep, OrderStep, FinalizerStep, OrphanStep
<1> QED
  BY <1>1, <1>2, TypeInit, BaseInit, OrderInit, FinalizerInit, OrphanInit, PTL DEF Spec
=============================================================================
