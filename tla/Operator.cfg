SPECIFICATION FairSpec
CONSTANTS
    FullHashRangeEnd = 7
    SignBit = 4
    MaxShards = 3
    Cooldown = 1
    Retention = 1
    Specs <- AllSpecs
    Sender = {}
    MaxLag = 1
    MaxTime = 2
    MaxCreates = 2
    MaxFaults = 1
INVARIANTS TypeOK RouteTotal OwnTopics ActiveWithinMax
PROPERTIES MapCatchesUp DeleteCompletes PublishedGetTopics StatusForward
