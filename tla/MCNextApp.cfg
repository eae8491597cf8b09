\* Two threads of one message, one proposal.
SPECIFICATION Spec
CONSTANTS
    t1 = t1
    t2 = t2
    Thread = {t1, t2}
    Home = t1
    Row = {m1}
    Proposal = {p1}
    Threads = Threads
    Queue = Queue
    MaxClicks = 3
    None = None
PROPERTIES
    SentTextIsKept
    LoadingEnds
CHECK_DEADLOCK FALSE
