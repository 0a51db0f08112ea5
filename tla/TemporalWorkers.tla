-------------------------- MODULE TemporalWorkers ---------------------------
(***************************************************************************)
(* The TemporalWorker of one Temporal namespace: the Queues whose label    *)
(* names the namespace create, update and delete it (reconcileTemporal-    *)
(* Worker and reconcileDelete in internal/operator/queue_controller.go),   *)
(* and its own controller turns it into a Deployment (temporal_worker_     *)
(* controller.go).                                                         *)
(*                                                                         *)
(* Objects are sequences of versions as in ShardOperator: the last one is  *)
(* stored, the first one is in the operator's cache.  What ShardOperator   *)
(* models of a reconcile (topics, splits, drains, publication) is left out *)
(* here; that it may fail is not.  Each controller runs one reconcile at a *)
(* time, and a step is one request.                                        *)
(***************************************************************************)
EXTENDS Naturals, Sequences

CONSTANTS
    Queue,       \* the Queues labelled with this Temporal namespace
    MaxCreates,  \* how often each Queue is created (bound)
    MaxWorkers,  \* how often the worker is created (bound)
    MaxImage,    \* images the operator is started with (bound)
    MaxUnseen,   \* versions of an object the operator has not seen (bound)
    MaxFaults    \* restarts and failed requests (bound)

ASSUME BoundAssumption ==
    /\ MaxCreates \in Nat \ {0} /\ MaxWorkers \in Nat /\ MaxImage \in Nat \ {0}
    /\ MaxUnseen \in Nat \ {0} /\ MaxFaults \in Nat

NoKey == "none"
\* No Queue is called like the mark that stands for none.
ASSUME QueueAssumption == NoKey \notin Queue

VARIABLES
    queue,       \* API server: the versions of each Queue
    worker,      \* API server: the versions of the TemporalWorker
    dep,         \* API server: the versions of the Deployment
    registered,  \* Temporal: the namespace exists
    image,       \* KMSVC_TEMPORAL_WORKER_IMAGE
    qwork, qpc, qkey, qbase,   \* Queue controller: work queue and locals
    wwork, wpc, wbase, wready, \* TemporalWorker controller: the same
    faults

objectVars == <<queue, worker, dep, registered>>
queueCtl == <<qwork, qpc, qkey, qbase>>
workerCtl == <<wwork, wpc, wbase, wready>>
vars == <<objectVars, image, queueCtl, workerCtl, faults>>

\* How far an object is: created, held by its finalizer, being deleted, gone.
\* Of a Queue that is held the phase of its status is kept as well.
Live == {"new", "held", "ready", "failed"}
NoQueue == [n |-> 0, at |-> "gone"]
NoWorker == [n |-> 0, at |-> "gone", image |-> 0, status |-> "unset"]
NoDep == [owner |-> 0, at |-> "gone", image |-> 0, ready |-> FALSE]

Stored(versions) == versions[Len(versions)]
Cached(versions) == versions[1]

\* A new stored version; an update that changes nothing is not an event.  At
\* the bound on unseen versions a writer waits for the watch.
Store(versions, o) == IF o = Stored(versions) THEN versions ELSE Append(versions, o)
Bounded(versions) == Len(versions) <= 1 + MaxUnseen

WriteQueue(q, o) == queue' = [queue EXCEPT ![q] = Store(@, o)] /\ Bounded(queue'[q])
WriteWorker(o) == worker' = Store(worker, o) /\ Bounded(worker')
WriteDeployment(o) == dep' = Store(dep, o) /\ Bounded(dep')

Init ==
    /\ queue = [q \in Queue |-> <<[n |-> 1, at |-> "new"]>>]
    /\ worker = <<NoWorker>>
    /\ dep = <<NoDep>>
    /\ registered = FALSE
    /\ image = 1
    /\ qwork = Queue /\ qpc = "idle" /\ qkey = NoKey /\ qbase = NoQueue
    /\ wwork = FALSE /\ wpc = "idle" /\ wbase = NoWorker /\ wready = FALSE
    /\ faults = 0

-----------------------------------------------------------------------------
(* The Queue controller                                                    *)

Goto(pc) == qpc' = pc /\ UNCHANGED <<qwork, qkey>>

\* Reconcile returns; after an error the Queue is queued again.
Return(failed) ==
    /\ qpc' = "idle" /\ qkey' = NoKey /\ qbase' = NoQueue
    /\ qwork' = IF failed THEN qwork \cup {qkey} ELSE qwork

StoreQueue(at) == WriteQueue(qkey, [qbase EXCEPT !.at = at])
Conflict == Stored(queue[qkey]) # qbase

\* Reconcile reads a Queue of its work queue from the cache.
ReconcileQueue(q) ==
    /\ qpc = "idle" /\ q \in qwork
    /\ qwork' = qwork \ {q}
    /\ LET o == Cached(queue[q])
       IN  IF o.at = "gone" THEN UNCHANGED <<qpc, qkey, qbase>>
           ELSE /\ qkey' = q /\ qbase' = o
                /\ qpc' = CASE o.at = "deleting" -> "delworker"
                            [] o.at = "new" -> "finalizer"
                            [] OTHER -> "register"
    /\ UNCHANGED <<objectVars, image, workerCtl, faults>>

AddFinalizer ==
    /\ qpc = "finalizer"
    /\ \/ /\ ~Conflict
          /\ StoreQueue("held")
          /\ qbase' = [qbase EXCEPT !.at = "held"]
          /\ Goto("register")
       \/ /\ Conflict
          /\ Return(TRUE)
          /\ UNCHANGED queue
    /\ UNCHANGED <<worker, dep, registered, image, workerCtl, faults>>

\* Mutant: the namespace is taken as it is.
MutRegistered == registered
\* RegisterNamespace; a namespace that exists is fine.
Registered == TRUE
RegisterNamespace ==
    /\ qpc = "register"
    /\ registered' = Registered
    /\ Goto("worker")
    /\ UNCHANGED <<queue, worker, dep, image, qbase, workerCtl, faults>>

\* CreateOrUpdate of the worker: what is cached decides which of the two, and
\* a worker that is cached with the right spec is left alone.
CreateWorker ==
    /\ Cached(worker).at = "gone" /\ Stored(worker).at = "gone"
    /\ Stored(worker).n < MaxWorkers
    /\ WriteWorker([n |-> Stored(worker).n + 1, at |-> "new", image |-> image, status |-> "unset"])

UpdateWorker ==
    /\ Cached(worker).at # "gone"
    /\ Cached(worker).image # image => Stored(worker) = Cached(worker)
    /\ IF Cached(worker).image = image THEN UNCHANGED worker
       ELSE WriteWorker([Stored(worker) EXCEPT !.image = image])

\* The object is there and not cached, or is not what is cached.
WorkerRefused ==
    IF Cached(worker).at = "gone" THEN Stored(worker).at # "gone"
    ELSE Cached(worker).image # image /\ Stored(worker) # Cached(worker)

ReconcileTemporalWorker ==
    /\ qpc = "worker"
    /\ \/ (CreateWorker \/ UpdateWorker) /\ Goto("ready")
       \/ WorkerRefused /\ Goto("failed") /\ UNCHANGED worker
    /\ UNCHANGED <<queue, dep, registered, image, qbase, workerCtl, faults>>

\* The status update at the end of Reconcile, or setFailed's.
UpdateQueueStatus ==
    /\ qpc \in {"ready", "failed"}
    /\ IF Conflict THEN UNCHANGED queue ELSE StoreQueue(qpc)
    /\ Return(Conflict \/ qpc = "failed")
    /\ UNCHANGED <<worker, dep, registered, image, workerCtl, faults>>

\* What the API server makes of an object that is deleted.
AfterDelete(o) ==
    IF o.at = "gone" THEN o
    ELSE IF o.at = "new" THEN [o EXCEPT !.at = "gone"] ELSE [o EXCEPT !.at = "deleting"]

\* Mutant: a worker that is not in the cache is taken as gone.
MutDeletedWorker ==
    IF Cached(worker).at = "gone" THEN Stored(worker) ELSE AfterDelete(Stored(worker))
\* reconcileDelete: Delete of the worker, which may be gone already.
DeletedWorker == AfterDelete(Stored(worker))
DeleteWorker ==
    /\ qpc = "delworker"
    /\ WriteWorker(DeletedWorker)
    /\ Goto("unfinalize")
    /\ UNCHANGED <<queue, dep, registered, image, qbase, workerCtl, faults>>

RemoveFinalizer ==
    /\ qpc = "unfinalize"
    /\ IF Conflict THEN UNCHANGED queue ELSE StoreQueue("gone")
    /\ Return(Conflict)
    /\ UNCHANGED <<worker, dep, registered, image, workerCtl, faults>>

QueueStep ==
    \/ \E q \in Queue : ReconcileQueue(q)
    \/ AddFinalizer \/ RegisterNamespace \/ ReconcileTemporalWorker \/ UpdateQueueStatus
    \/ DeleteWorker \/ RemoveFinalizer

-----------------------------------------------------------------------------
(* The TemporalWorker controller                                           *)

WGoto(pc) == wpc' = pc /\ UNCHANGED wwork

\* Mutant: an error is logged and forgotten.
MutWRequeue(failed) == wwork
\* An error queues the worker again.
WRequeue(failed) == wwork \/ failed

WReturn(failed) ==
    /\ wpc' = "idle" /\ wbase' = NoWorker /\ wready' = FALSE
    /\ wwork' = WRequeue(failed)

WConflict == Stored(worker) # wbase

\* Mutant: the error of the Get is not looked at.
MutNotFound(o) == FALSE
\* IsNotFound: there is nothing to reconcile.
NotFound(o) == o.at = "gone"

\* Reconcile reads the worker from the cache.
ReconcileWorker ==
    /\ wpc = "idle" /\ wwork
    /\ wwork' = FALSE
    /\ LET o == Cached(worker)
       IN  IF NotFound(o) THEN UNCHANGED <<wpc, wbase>>
           ELSE /\ wbase' = o
                /\ wpc' = CASE o.at = "deleting" -> "unfinalize"
                            [] o.at = "new" -> "finalizer"
                            [] OTHER -> "deploy"
    /\ UNCHANGED <<objectVars, image, queueCtl, wready, faults>>

AddWorkerFinalizer ==
    /\ wpc = "finalizer"
    /\ \/ /\ ~WConflict
          /\ wbase' = [wbase EXCEPT !.at = "held"]
          /\ WriteWorker([wbase EXCEPT !.at = "held"])
          /\ WGoto("deploy")
          /\ UNCHANGED wready
       \/ /\ WConflict
          /\ WReturn(TRUE)
          /\ UNCHANGED worker
    /\ UNCHANGED <<queue, dep, registered, image, queueCtl, faults>>

\* CreateOrUpdate of the Deployment: not cached, so it is created ...
CreateDeployment ==
    /\ Cached(dep).at = "gone" /\ Stored(dep).at = "gone"
    /\ WriteDeployment([owner |-> wbase.n, at |-> "live", image |-> wbase.image, ready |-> FALSE])
    /\ wready' = FALSE

\* Mutant: the owner is left as it is.
MutAdopted(d) == [d EXCEPT !.image = wbase.image]
\* What the mutate function makes of a Deployment that is there: the image is
\* this worker's, and so is the owner.  SetControllerReference compares kind and
\* name only, so the Deployment of an earlier worker is adopted.
Adopted(d) == [d EXCEPT !.owner = wbase.n, !.image = wbase.image]

\* ... or cached, so it is updated: the containers lack what the API server fills
\* in, so the object differs and an Update is sent every time, ...
UpdateDeployment ==
    /\ Cached(dep).at # "gone" /\ Stored(dep) = Cached(dep)
    /\ WriteDeployment(Adopted(Stored(dep)))
    /\ wready' = Stored(dep).ready

\* ... or refused, when the cache is behind.
DeploymentRefused ==
    IF Cached(dep).at = "gone" THEN Stored(dep).at # "gone" ELSE Stored(dep) # Cached(dep)

ReconcileDeployment ==
    /\ wpc = "deploy"
    /\ \/ (CreateDeployment \/ UpdateDeployment) /\ WGoto("status")
       \/ DeploymentRefused /\ WGoto("failed") /\ UNCHANGED <<dep, wready>>
    /\ UNCHANGED <<queue, worker, registered, image, queueCtl, wbase, faults>>

\* Status().Update with the phase the Deployment gives the worker.
WorkerPhase == IF wpc = "failed" THEN "Failed" ELSE IF wready THEN "Ready" ELSE "Pending"
UpdateWorkerStatus ==
    /\ wpc \in {"status", "failed"}
    /\ IF WConflict THEN UNCHANGED worker ELSE WriteWorker([wbase EXCEPT !.status = WorkerPhase])
    /\ WReturn(WConflict \/ wpc = "failed")
    /\ UNCHANGED <<queue, dep, registered, image, queueCtl, faults>>

\* reconcileDelete: the Deployment is left to the garbage collector.
RemoveWorkerFinalizer ==
    /\ wpc = "unfinalize"
    /\ IF WConflict THEN UNCHANGED worker ELSE WriteWorker([wbase EXCEPT !.at = "gone"])
    /\ WReturn(WConflict)
    /\ UNCHANGED <<queue, dep, registered, image, queueCtl, faults>>

WorkerStep ==
    \/ ReconcileWorker \/ AddWorkerFinalizer \/ ReconcileDeployment \/ UpdateWorkerStatus
    \/ RemoveWorkerFinalizer

-----------------------------------------------------------------------------
(* Watches, the garbage collector, pods, users, faults                     *)

\* A watch event of the object queues the key it belongs to.
DeliverQueue(q) ==
    /\ Len(queue[q]) > 1
    /\ queue' = [queue EXCEPT ![q] = Tail(@)]
    /\ qwork' = qwork \cup {q}
    /\ UNCHANGED <<worker, dep, registered, image, qpc, qkey, qbase, workerCtl, faults>>

DeliverWorker ==
    /\ Len(worker) > 1
    /\ worker' = Tail(worker)
    /\ wwork' = TRUE
    /\ UNCHANGED <<queue, dep, registered, image, queueCtl, wpc, wbase, wready, faults>>

DeliverDeployment ==
    /\ Len(dep) > 1
    /\ dep' = Tail(dep)
    /\ wwork' = TRUE
    /\ UNCHANGED <<queue, worker, registered, image, queueCtl, wpc, wbase, wready, faults>>

\* The garbage collector removes a Deployment whose owner is gone.
CollectDeployment ==
    /\ Stored(dep).at = "live"
    /\ Stored(worker).n # Stored(dep).owner \/ Stored(worker).at = "gone"
    /\ WriteDeployment([Stored(dep) EXCEPT !.at = "gone"])
    /\ UNCHANGED <<queue, worker, registered, image, queueCtl, workerCtl, faults>>

\* All replicas of the Deployment run.
PodsReady ==
    /\ Stored(dep).at = "live" /\ ~Stored(dep).ready
    /\ WriteDeployment([Stored(dep) EXCEPT !.ready = TRUE])
    /\ UNCHANGED <<queue, worker, registered, image, queueCtl, workerCtl, faults>>

CreateQueue(q) ==
    /\ Stored(queue[q]).at = "gone" /\ Stored(queue[q]).n < MaxCreates
    /\ WriteQueue(q, [n |-> Stored(queue[q]).n + 1, at |-> "new"])
    /\ UNCHANGED <<worker, dep, registered, image, queueCtl, workerCtl, faults>>

DeleteQueue(q) ==
    /\ Stored(queue[q]).at \in Live
    /\ WriteQueue(q, AfterDelete(Stored(queue[q])))
    /\ UNCHANGED <<worker, dep, registered, image, queueCtl, workerCtl, faults>>

Fault == faults < MaxFaults /\ faults' = faults + 1

\* A request of the Queue controller fails: setFailed, or the error as it is.
QueueRequestFails ==
    /\ Fault
    /\ \/ /\ qpc \in {"register", "worker"}
          /\ Goto("failed")
          /\ UNCHANGED qbase
       \/ /\ qpc \in {"finalizer", "ready", "failed", "delworker", "unfinalize"}
          /\ Return(TRUE)
    /\ UNCHANGED <<objectVars, image, workerCtl>>

WorkerRequestFails ==
    /\ Fault
    /\ \/ wpc = "deploy" /\ WGoto("failed") /\ UNCHANGED <<wbase, wready>>
       \/ wpc \in {"finalizer", "status", "failed", "unfinalize"} /\ WReturn(TRUE)
    /\ UNCHANGED <<objectVars, image, queueCtl>>

\* The operator starts again, perhaps with another image: it lists everything
\* and reconciles all of it.
OperatorRestart ==
    /\ Fault
    /\ image' \in image .. MaxImage
    /\ queue' = [q \in Queue |-> <<Stored(queue[q])>>]
    /\ worker' = <<Stored(worker)>>
    /\ dep' = <<Stored(dep)>>
    /\ qwork' = Queue /\ qpc' = "idle" /\ qkey' = NoKey /\ qbase' = NoQueue
    /\ wwork' = TRUE /\ wpc' = "idle" /\ wbase' = NoWorker /\ wready' = FALSE
    /\ UNCHANGED registered

Deliver == (\E q \in Queue : DeliverQueue(q)) \/ DeliverWorker \/ DeliverDeployment

Next ==
    \/ QueueStep \/ WorkerStep \/ Deliver
    \/ CollectDeployment \/ PodsReady
    \/ \E q \in Queue : CreateQueue(q) \/ DeleteQueue(q)
    \/ QueueRequestFails \/ WorkerRequestFails \/ OperatorRestart

Spec == Init /\ [][Next]_vars

\* The controllers serve their work queues, watch events arrive and the garbage
\* collector runs; that the pods of a Deployment become ready is assumed.  Nobody
\* has to create or delete a Queue.
FairSpec ==
    /\ Spec
    /\ WF_vars(QueueStep) /\ WF_vars(WorkerStep)
    /\ \A q \in Queue : WF_vars(DeliverQueue(q))
    /\ WF_vars(DeliverWorker) /\ WF_vars(DeliverDeployment)
    /\ WF_vars(CollectDeployment) /\ WF_vars(PodsReady)

-----------------------------------------------------------------------------
(* Properties                                                              *)

QueueObject == [n : 0 .. MaxCreates, at : Live \cup {"deleting", "gone"}]
WorkerObject == [n : 0 .. MaxWorkers, at : {"new", "held", "deleting", "gone"},
                 image : 0 .. MaxImage, status : {"unset", "Pending", "Ready", "Failed"}]
Deployment == [owner : 0 .. MaxWorkers, at : {"live", "gone"}, image : 0 .. MaxImage,
               ready : BOOLEAN]

\* Every variable has its type; a reconcile that is under way has its object.
TypeOK ==
    /\ \A q \in Queue : queue[q] \in Seq(QueueObject) /\ queue[q] # <<>>
    /\ worker \in Seq(WorkerObject) /\ worker # <<>>
    /\ dep \in Seq(Deployment) /\ dep # <<>>
    /\ registered \in BOOLEAN /\ image \in 1 .. MaxImage
    /\ qwork \subseteq Queue /\ qkey \in Queue \cup {NoKey} /\ qbase \in QueueObject
    /\ qpc \in {"idle", "finalizer", "register", "worker", "ready", "failed", "delworker",
                "unfinalize"}
    /\ qpc # "idle" <=> qkey \in Queue
    /\ wpc \in {"idle", "finalizer", "deploy", "status", "failed", "unfinalize"}
    /\ wbase \in WorkerObject /\ wready \in BOOLEAN /\ wwork \in BOOLEAN
    /\ wpc # "idle" <=> wbase.at # "gone"
    /\ faults \in 0 .. MaxFaults

\* No worker pod polls a namespace that was never registered.
NamespaceExists == Stored(dep).at = "live" => registered

\* A worker whose status is Ready has a Deployment that runs and that it owns: one
\* an earlier worker of the same name left behind was adopted before the garbage
\* collector took it, or the status is not Ready.
ReadyHasDeployment ==
    Stored(worker).at # "gone" /\ Stored(worker).status = "Ready" =>
        Stored(dep).at = "live" /\ Stored(dep).owner = Stored(worker).n

AllGone == \A q \in Queue : Stored(queue[q]).at = "gone"

\* The last Queue takes the worker with it, whatever was cached, interrupted or
\* created again in between.
NoOrphanWorker == AllGone => Stored(worker).at \notin {"new", "held"}

\* ... and in the end nothing runs any more.
CleanedUp == AllGone ~> (Stored(worker).at = "gone" /\ Stored(dep).at = "gone") \/ ~AllGone

\* A worker gets a Deployment it owns and that runs its image, and is Ready, or is
\* deleted before: conflicts of the Updates sent from a stale cache, a Deployment
\* of an earlier worker that is adopted or collected, an error or a new image only
\* delay it, as long as pods start.
WorkerIsDeployed ==
    LET Wanted == Stored(worker).at \in {"new", "held"}
        Runs == /\ Stored(dep).at = "live" /\ Stored(dep).owner = Stored(worker).n
                /\ Stored(dep).image = Stored(worker).image /\ Stored(worker).status = "Ready"
    IN  Wanted ~> Runs \/ ~Wanted

-----------------------------------------------------------------------------
(* What comments in the code say, and the code does not always do.         *)

\* One worker per namespace handles all task queues in it: when the Queue
\* controller has nothing left to do and a Queue is Ready, its worker is there.
Settled == qwork = {} /\ qpc = "idle" /\ \A q \in Queue : Len(queue[q]) = 1
ReadyHasWorker ==
    Settled /\ (\E q \in Queue : Stored(queue[q]).at = "ready") =>
        Stored(worker).at \in {"new", "held"}
=============================================================================
