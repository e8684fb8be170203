\* Two bound listeners and one that only a later file names; three writes
\* race the watcher, and the channel holds one message.
SPECIFICATION FairSpec
CONSTANTS
    l1 = l1
    l2 = l2
    l3 = l3
    None = None
    Listeners = {l1, l2}
    Unbound = {l3}
    Capacity = 1
    MaxWrites = 3
INVARIANTS AtRest OneGeneration
PROPERTY Converges
CHECK_DEADLOCK FALSE
