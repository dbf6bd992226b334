SPECIFICATION Spec
CONSTANTS
    q1 = q1  q2 = q2  t1 = t1  t2 = t2
    Peers = {q1, q2}
    Reliable = {q1}
    Tasks = {t1}
    Chunks = 2
    MaxProviders = 2
    Faults = {"connect", "reset"}
    None = None
INVARIANTS LibraryFileHasItsCtid
