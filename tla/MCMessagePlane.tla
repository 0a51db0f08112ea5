--------------------------- MODULE MCMessagePlane ---------------------------
(***************************************************************************)
(* Small instances of MessagePlane for TLC.                                *)
(***************************************************************************)
EXTENDS MessagePlaneRefinement, TLC

\* A queue that is not FIFO, and one where every message has the same group.
NoGroups == [m \in Message |-> NoGroup]
OneGroup == [m \in Message |-> CHOOSE g \in Group : TRUE]

NoGroupIds == {}

\* Calls, reapers and uuids are interchangeable.
Symmetry == Permutations(Receiver) \cup Permutations(Client) \cup Permutations(Reaper)
            \cup Permutations(Uuid)
=============================================================================
