---------------------------- MODULE FfmpegDecode ----------------------------
(***************************************************************************)
(* Decoding through ffmpeg (audio/decoder.go), as ctr.computeCTID does for *)
(* FLAC, AAC, OGG and M4A files and for whatever the other decoders refuse *)
(* (ComputeCTID of TrackPipeline).  The goroutines of one daemon share the *)
(* name of the temporary file.  The CTID is a hash of the PCM read back,   *)
(* so the PCM stands for it; an empty one is hashed like any other.        *)
(***************************************************************************)
EXTENDS Naturals, Sequences, FiniteSets

CONSTANTS
    Procs,    \* goroutines that decode: CTR workers and API handlers
    Audio,    \* audio files; the PCM of each is Blocks blocks of its own
    Blocks,
    None      \* no file, no audio; a hole in a file

Inodes == 1..(Cardinality(Procs) + 1)

VARIABLES
    tmp,      \* the file that the temporary name leads to, or None
    data,     \* what each file holds
    pc,       \* where a goroutine, or the ffmpeg it has started, is
    audio,    \* what it decodes
    fd,       \* the file its ffmpeg writes
    written,  \* the blocks that ffmpeg has written
    decoded   \* history: every successful decode and its PCM

vars == <<tmp, data, pc, audio, fd, written, decoded>>

Goto(p, l) == pc' = [pc EXCEPT ![p] = l]

Begin(p) ==
    /\ pc[p] = "idle"
    /\ \E a \in Audio : audio' = [audio EXCEPT ![p] = a]
    /\ Goto(p, "open")
    /\ UNCHANGED <<tmp, data, fd, written, decoded>>

\* ffmpeg -y creates its output or truncates what is there; a file that was
\* removed lives on for those who have it open.
OpenOutput(p) ==
    /\ pc[p] = "open"
    /\ \E f \in Inodes :
          /\ IF tmp # None THEN f = tmp ELSE \A q \in Procs : fd[q] # f
          /\ tmp' = f
          /\ data' = [data EXCEPT ![f] = <<>>]
          /\ fd' = [fd EXCEPT ![p] = f]
    /\ written' = [written EXCEPT ![p] = 0]
    /\ Goto(p, "convert")
    /\ UNCHANGED <<audio, decoded>>

\* file with block b at position n, past its end after a hole.
Put(file, n, b) == [m \in 1..(IF n > Len(file) THEN n ELSE Len(file)) |->
                       IF m = n THEN b ELSE IF m <= Len(file) THEN file[m] ELSE None]

WriteBlock(p) ==
    /\ pc[p] = "convert" /\ written[p] < Blocks
    /\ written' = [written EXCEPT ![p] = @ + 1]
    /\ data' = [data EXCEPT ![fd[p]] = Put(@, written'[p], audio[p])]
    /\ UNCHANGED <<tmp, pc, audio, fd, decoded>>

\* ffmpeg ends, or fails, or is killed with the context.
EndConversion(p) ==
    /\ \/ pc[p] = "convert" /\ written[p] = Blocks /\ Goto(p, "read")
       \/ pc[p] \in {"open", "convert"} /\ Goto(p, "remove")
    /\ fd' = [fd EXCEPT ![p] = None]
    /\ UNCHANGED <<tmp, data, audio, written, decoded>>

\* os.ReadFile fails when another goroutine has removed the file.
ReadFile(p) ==
    /\ pc[p] = "read"
    /\ decoded' = IF tmp = None THEN decoded
                  ELSE decoded \cup {[audio |-> audio[p], pcm |-> data[tmp]]}
    /\ Goto(p, "remove")
    /\ UNCHANGED <<tmp, data, audio, fd, written>>

\* The deferred os.Remove.
Remove(p) ==
    /\ pc[p] = "remove"
    /\ tmp' = None
    /\ Goto(p, "idle")
    /\ audio' = [audio EXCEPT ![p] = None]
    /\ UNCHANGED <<data, fd, written, decoded>>

Init ==
    /\ tmp = None
    /\ data    = [f \in Inodes |-> <<>>]
    /\ pc      = [p \in Procs |-> "idle"]
    /\ audio   = [p \in Procs |-> None]
    /\ fd      = [p \in Procs |-> None]
    /\ written = [p \in Procs |-> 0]
    /\ decoded = {}

Decode(p) == \/ Begin(p) \/ OpenOutput(p) \/ WriteBlock(p) \/ EndConversion(p)
             \/ ReadFile(p) \/ Remove(p)

Next == \E p \in Procs : Decode(p)

Spec == Init /\ [][Next]_vars

\* "Один и тот же аудиоматериал должен давать один и тот же CTID": the same
\* audio gives the same CTID (docs/architecture/architecture.md:51).
SameAudioSameCtid ==
    \A d, e \in decoded : d.audio = e.audio => d.pcm = e.pcm

=============================================================================
