------------------------- MODULE MCShardOperator --------------------------
EXTENDS ShardOperator

\* A queue with a dead-letter target, and the two targets that are refused.
Plain == [isDLQ |-> FALSE, target |-> "other"]
SelfTarget == [isDLQ |-> FALSE, target |-> "self"]
Chained == [isDLQ |-> TRUE, target |-> "other"]

OneSpec == {Plain}
AllSpecs == {Plain, SelfTarget, Chained}
=============================================================================
