----------------------- MODULE MessagePlaneRefinement -----------------------
(***************************************************************************)
(* The message plane seen as an AtLeastOnceQueue: what callers were given, *)
(* what they deleted and what was dead-lettered are the histories of the   *)
(* handles, and the group has forgotten what lies below its committed      *)
(* offset.                                                                 *)
(***************************************************************************)
EXTENDS MessagePlane

Queue == INSTANCE AtLeastOnceQueue WITH
    Message         <- Message,
    Handle          <- Handle,
    MessageOf       <- [h \in Handle |-> Msg(h)],
    MaxReceiveCount <- MaxReceiveCount,
    times           <- handouts,
    received        <- delivered,
    deleted         <- acked,
    deadLettered    <- dead,
    sent            <- {h \in Handle : dlq[h] > 0},
    overtaken       <- overtaken,
    forgotten       <- {m \in Message : m[2] < committed[m[1]]}

\* Every request of the message plane is one step of the queue that is promised,
\* or none: a handle is handed out within its limit and meets one end, only what
\* was received is deleted, only what was taken out is sent, once, and a commit
\* forgets only what is finished with or was overtaken.
ImplementsQueue == Queue!Spec
=============================================================================
