SPECIFICATION FairSpec
CONSTANTS
    b1 = b1
    Boots = {b1}
    Addrs = {a1, a2}
    NodeAt <- OneNode
    Lan = {q1}
    Users = {c1}
    New = New
    Loop = Loop
INVARIANTS TypeOK BlockedIsCutOff
PROPERTIES Rejoins LoopEnds
