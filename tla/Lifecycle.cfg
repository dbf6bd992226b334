SPECIFICATION FairSpec
CONSTANTS
    c1 = c1  r1 = r1  r2 = r2  w1 = w1  l1 = l1  s1 = s1
    Calls = {c1}
    Requests = {r1, r2}
    Workers = {w1}
    Loops = {l1}
    Streams = {s1}
INVARIANTS TypeOK NobodyOutlivesTheParts CallsFindTheQueueRunning StopIsNotLost
PROPERTIES CallsAreAnswered SignalEnds ShutdownEnds
CHECK_DEADLOCK FALSE
