SPECIFICATION Spec
CONSTANTS
    w1 = w1  w2 = w2  A = A  B = B
    Procs = {w1, w2}
    Audio = {A, B}
    Blocks = 2
    None = None
INVARIANTS SameAudioSameCtid
