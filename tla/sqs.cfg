SPECIFICATION Spec
CONSTANTS
    q1 = q1
    tomb = tomb
    m1 = m1
    m2 = m2
    noHandle = noHandle
    Clients = {c1, c2}
    Queues <- MCOneQueue
    Tombstone = tomb
    Fifo = {}
    Attrs = {"DelaySeconds"}
    Settable = {"DelaySeconds", "FifoQueue"}
    Ids <- MCMessages
    Handles <- MCHandles
    NoHandle = noHandle
    Mixes <- MCMixes
    MaxTime = 1
    None = none
INVARIANTS
    QueuesAreSound
PROPERTIES
    QuietRequestsOrphanNothing
    MessagesStay
    QuietReceiveHidesWhatItHands
SYMMETRY MCSymmetry
