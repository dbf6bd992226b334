------------------------ MODULE FfmpegDecodeProofs ------------------------
(***************************************************************************)
(* Proofs about FfmpegDecode: the name of the temporary file is all that   *)
(* decodes share.  As long as no two of them overlap, the same audio gives *)
(* the same CTID, whatever fails and however often it is decoded, which is *)
(* what ComputeCTID of TrackPipeline takes for granted.                    *)
(***************************************************************************)
EXTENDS FfmpegDecode, TLAPS

\* No two goroutines decode through ffmpeg at the same time.
OneAtATime == \A p, q \in Procs : pc[p] # "idle" /\ pc[q] # "idle" => p = q

\* The first n blocks of audio file a, in order.
Pcm(a, n) == [m \in 1..n |-> a]

\* What ffmpeg writes, and what is read back, is the goroutine's own audio.
OwnOutput == \A p \in Procs :
    /\ pc[p] = "convert" =>
          /\ fd[p] \in Inodes /\ tmp = fd[p]
          /\ written[p] \in Nat /\ data[fd[p]] = Pcm(audio[p], written[p])
    /\ pc[p] = "read" => tmp \in Inodes /\ data[tmp] = Pcm(audio[p], Blocks)

\* What was decoded is the whole of the audio.
DecodedWhole == \A d \in decoded : d.pcm = Pcm(d.audio, Blocks)

TypeOK ==
    /\ DOMAIN data = Inodes
    /\ pc \in [Procs -> {"idle", "open", "convert", "read", "remove"}]
    /\ DOMAIN audio = Procs /\ DOMAIN fd = Procs /\ DOMAIN written = Procs

\* The inductive invariant, as long as decodes do not overlap.
IInv == TypeOK /\ OwnOutput /\ DecodedWhole

-----------------------------------------------------------------------------

\* The next block goes to the end of what has been written.
LEMMA PutNext ==
    ASSUME NEW a, NEW n \in Nat
    PROVE  Put(Pcm(a, n), n + 1, a) = Pcm(a, n + 1)
<1>1. Len(Pcm(a, n)) = n
  BY DEF Pcm
<1>2. Put(Pcm(a, n), n + 1, a) =
          [m \in 1..(n + 1) |-> IF m = n + 1 THEN a
                                ELSE IF m <= n THEN Pcm(a, n)[m] ELSE None]
  BY <1>1 DEF Put
<1>3. \A m \in 1..(n + 1) : m # n + 1 => m <= n /\ Pcm(a, n)[m] = a
  BY DEF Pcm
<1> QED
  BY <1>2, <1>3 DEF Pcm

\* A step of the only goroutine that decodes.
LEMMA DecodeIInv ==
    ASSUME IInv, OneAtATime, OneAtATime', NEW p \in Procs, Decode(p)
    PROVE  IInv'
<1> USE DEF IInv, Goto
<1>1. TypeOK'
  BY DEF TypeOK, Decode, Begin, OpenOutput, WriteBlock, EndConversion, ReadFile, Remove
<1>2. \A q \in Procs : q # p => pc'[q] \notin {"convert", "read"}
  BY DEF TypeOK, OneAtATime, Decode, Begin, OpenOutput, WriteBlock, EndConversion, ReadFile, Remove
<1>3. CASE Begin(p)
  BY <1>1, <1>2, <1>3 DEF Begin, TypeOK, OwnOutput, DecodedWhole
<1>4. CASE OpenOutput(p)
  <2>1. PICK f \in Inodes : /\ tmp' = f /\ data' = [data EXCEPT ![f] = <<>>]
                            /\ fd' = [fd EXCEPT ![p] = f]
    BY <1>4 DEF OpenOutput
  <2>2. written'[p] = 0 /\ pc'[p] = "convert" /\ UNCHANGED <<audio, decoded>>
    BY <1>4 DEF OpenOutput, TypeOK
  <2>3. data'[f] = Pcm(audio[p], 0)
    BY <2>1 DEF TypeOK, Pcm
  <2> QED
    BY <1>1, <1>2, <2>1, <2>2, <2>3 DEF TypeOK, OwnOutput, DecodedWhole
<1>5. CASE WriteBlock(p)
  <2>1. /\ pc[p] = "convert" /\ UNCHANGED <<tmp, pc, audio, fd, decoded>>
        /\ written' = [written EXCEPT ![p] = @ + 1]
        /\ data' = [data EXCEPT ![fd[p]] = Put(@, written'[p], audio[p])]
    BY <1>5 DEF WriteBlock
  <2>2. fd[p] \in Inodes /\ written[p] \in Nat /\ data[fd[p]] = Pcm(audio[p], written[p])
    BY <2>1 DEF OwnOutput
  <2>3. written'[p] = written[p] + 1 /\ data'[fd[p]] = Put(data[fd[p]], written[p] + 1, audio[p])
    BY <2>1, <2>2 DEF TypeOK
  <2>4. data'[fd[p]] = Pcm(audio[p], written'[p])
    BY <2>2, <2>3, PutNext
  <2> QED
    BY <1>1, <1>2, <2>1, <2>2, <2>3, <2>4 DEF OwnOutput, DecodedWhole
<1>6. CASE EndConversion(p)
  BY <1>1, <1>2, <1>6 DEF EndConversion, TypeOK, OwnOutput, DecodedWhole
<1>7. CASE ReadFile(p)
  <2>1. data[tmp] = Pcm(audio[p], Blocks) /\ pc'[p] = "remove"
    BY <1>7 DEF ReadFile, TypeOK, OwnOutput
  <2>2. \A d \in decoded' : d \in decoded \/ d = [audio |-> audio[p], pcm |-> data[tmp]]
    BY <1>7 DEF ReadFile
  <2>3. DecodedWhole'
    BY <2>1, <2>2 DEF DecodedWhole
  <2> QED
    BY <1>1, <1>2, <2>1, <2>3 DEF OwnOutput
<1>8. CASE Remove(p)
  BY <1>1, <1>2, <1>8 DEF Remove, TypeOK, OwnOutput, DecodedWhole
<1> QED
  BY <1>3, <1>4, <1>5, <1>6, <1>7, <1>8 DEF Decode

\* The same audio gives the same CTID as long as no two decodes overlap: the
\* shared temporary name is the whole reason why it need not.
THEOREM DecodesApartAgree == Spec /\ []OneAtATime => []SameAudioSameCtid
<1>1. Init => IInv
  BY DEF Init, IInv, TypeOK, OwnOutput, DecodedWhole
<1>2. IInv /\ OneAtATime /\ OneAtATime' /\ [Next]_vars => IInv'
  <2> SUFFICES ASSUME IInv, OneAtATime, OneAtATime', [Next]_vars PROVE IInv'
    OBVIOUS
  <2>1. CASE UNCHANGED vars
    BY <2>1 DEF vars, IInv, TypeOK, OwnOutput, DecodedWhole
  <2> QED
    BY <2>1, DecodeIInv DEF Next
<1>3. IInv => SameAudioSameCtid
  BY DEF IInv, DecodedWhole, SameAudioSameCtid
<1> QED
  BY <1>1, <1>2, <1>3, PTL DEF Spec
=============================================================================
