\* One re-send and one replay of a dead letter; no retries.
CONSTANTS
    Rems = {r1}
    Kinds = {"static"}
    Workers = {w1}
    MaxDeliver = 1
    MaxAttempts = 1
    MaxRedispatches = 1
    MaxReplays = 1
    MaxDuplicates = 0
SPECIFICATION FairSpec
INVARIANTS
    JobNotStranded
    RedispatchBounded
PROPERTIES
    EventuallyEnds
