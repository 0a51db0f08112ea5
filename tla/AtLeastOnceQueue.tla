-------------------------- MODULE AtLeastOnceQueue --------------------------
(***************************************************************************)
(* What the message plane promises a user of a queue, and no more.  A      *)
(* receipt handle is put in at most MaxReceiveCount responses and meets    *)
(* one end: somebody who received it deletes it, or it is taken out for    *)
(* the dead-letter queue, where it is sent at most once.  Kafka's group    *)
(* forgets a message only when it is finished with, or when tracking it    *)
(* came after a later one had been tracked.                                *)
(***************************************************************************)
EXTENDS Naturals

CONSTANTS
    Message,
    Handle,           \* receipt handles
    MessageOf,        \* the message of every handle
    MaxReceiveCount

VARIABLES
    times,         \* how often each handle was put in a response
    received,      \* handles that some caller of ReceiveMessage has
    deleted,       \* handles that were deleted
    deadLettered,  \* handles taken out for the dead-letter queue
    sent,          \* handles sent to the dead-letter queue
    overtaken,     \* messages that a later one was tracked before
    forgotten      \* messages that are not delivered to a new consumer any more

vars == <<times, received, deleted, deadLettered, sent, overtaken, forgotten>>

Init ==
    /\ times = [h \in Handle |-> 0]
    /\ received = {} /\ deleted = {} /\ deadLettered = {} /\ sent = {}
    /\ overtaken = {} /\ forgotten = {}

Finished == {MessageOf[h] : h \in deleted \cup deadLettered}

\* ReceiveMessage puts h in the response it is making, ...
HandOut(h) ==
    /\ times[h] < MaxReceiveCount
    /\ times' = [times EXCEPT ![h] = @ + 1]
    /\ UNCHANGED <<received, deleted, deadLettered, sent, overtaken, forgotten>>

\* ... and returns the response.
Receive ==
    /\ \E some \in SUBSET {h \in Handle : times[h] > 0} : received' = received \cup some
    /\ UNCHANGED <<times, deleted, deadLettered, sent, overtaken, forgotten>>

\* DeleteMessage, by a caller that has the handle.
Delete(h) ==
    /\ h \in received \ (deleted \cup deadLettered)
    /\ deleted' = deleted \cup {h}
    /\ UNCHANGED <<times, received, deadLettered, sent, overtaken, forgotten>>

\* The reaper takes out a message that was in flight too often, ...
DeadLetter(h) ==
    /\ h \notin deleted \cup deadLettered
    /\ deadLettered' = deadLettered \cup {h}
    /\ UNCHANGED <<times, received, deleted, sent, overtaken, forgotten>>

\* ... and sends it to the dead-letter queue.
SendToDLQ(h) ==
    /\ h \in deadLettered \ sent
    /\ sent' = sent \cup {h}
    /\ UNCHANGED <<times, received, deleted, deadLettered, overtaken, forgotten>>

\* A message is tracked before the earlier ones in some, none of them finished.
Overtake ==
    /\ \E some \in SUBSET (Message \ Finished) : overtaken' = overtaken \cup some
    /\ UNCHANGED <<times, received, deleted, deadLettered, sent, forgotten>>

\* An offset is committed; a late commit of a lower one is harmless.
Commit ==
    /\ forgotten' \in SUBSET (Finished \cup overtaken)
    /\ UNCHANGED <<times, received, deleted, deadLettered, sent, overtaken>>

Next ==
    \/ \E h \in Handle : HandOut(h) \/ Delete(h) \/ DeadLetter(h) \/ SendToDLQ(h)
    \/ Receive \/ Overtake \/ Commit

Spec == Init /\ [][Next]_vars
=============================================================================
