SPECIFICATION FairSpec
CONSTANTS
    i1 = i1  i2 = i2  o1 = o1  o2 = o2  o3 = o3  p1 = p1  p2 = p2
    Plugins = {i1, i2}
    Starts = {o1, o2}
    Stops = {o3}
    Procs = {p1, p2}
    None = None
    Torn = Torn
INVARIANTS TypeOK IdentityIsStable NoOrphans
PROPERTIES StoppedProcessesEnd CallsReturn OneDaemonIsLeft
CHECK_DEADLOCK FALSE
