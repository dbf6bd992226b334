------------------------ MODULE TrackPipelineProofs ------------------------
(***************************************************************************)
(* Theorems about TrackPipeline for every number of tracks, workers,       *)
(* handlers, crashes and faults: what the peer advertises it can serve,    *)
(* its token index is backed by its store, and it implements the catalogue.*)
(***************************************************************************)
EXTENDS TrackPipeline, TLAPS

-----------------------------------------------------------------------------
(* The inductive invariant: what each goroutine knows of the track it      *)
(* holds.  The records and the index are sound because a process announces *)
(* or indexes only a track that is Current, and a Current track stays so.  *)

\* t is a copy of a saved track that may be older than the saved one.
Backed(t) == t \in Track /\ Saved(t.id) /\ store[t.id].meta = t.meta

\* t is the saved track, with its CTID.
Current(t) == t \in Track /\ t.ctid # None /\ Saved(t.id) /\ store[t.id] = t

TokenLabels     == {"notifyTokens", "announceTokens", "provideTokens"}
ConfirmedLabels == {"provide", "announce", "announceTokens", "provideTrack", "provideTokens"}
CurrentLabels   == ConfirmedLabels \cup {"notify", "notifyTokens"}

Held(p) ==
    /\ pc[p] = "addSave" => /\ trk[p] \in Track /\ trk[p].ctid = None
                            /\ ~Saved(trk[p].id) /\ files[trk[p].id] # None
    /\ pc[p] \in {"enqueue", "decode", "save"} => Backed(trk[p])
    /\ pc[p] = "save" => trk[p].ctid = files[trk[p].id]
    /\ pc[p] \in CurrentLabels => Current(trk[p])
    /\ pc[p] \in ConfirmedLabels => trk[p].meta.recognized
    /\ pc[p] \in TokenLabels => /\ todo[p] \subseteq trk[p].meta.tokens
                                /\ todo[p] # {} => trk[p].meta.recognized

StoreOK == \A i \in Ids : Saved(i) =>
    /\ store[i].id = i
    /\ files[i] # None
    /\ store[i].ctid \in {None, files[i]}

HeldOK  == \A p \in Procs : Held(p)
NewOK   == \A p, q \in Procs :
    pc[p] = "addSave" /\ pc[q] = "addSave" /\ p # q => trk[p].id # trk[q].id
CallOK  == \A c \in Callers :
    /\ pc[c] = "copy" => call[c].path # None
    /\ pc[c] \in {"addSave", "enqueue", "get"} => call[c].id \in Ids
QueueOK == \A n \in 1..Len(queue) : Backed(queue[n])
VisitOK == \A a \in Announcers : \A t \in visit[a] : Current(t) /\ t.meta.recognized

IInv == /\ TypeOK /\ StoreOK /\ HeldOK /\ NewOK /\ CallOK /\ QueueOK /\ VisitOK
        /\ RecordsAreServable /\ IndexIsBacked
-----------------------------------------------------------------------------
(* Nothing saved is ever lost: the frame of every action but Exit.         *)

\* Saved tracks keep their metadata and, once they have one, their CTID; files
\* are never touched again.
Grows ==
    /\ \A i \in Ids : Saved(i) =>
          /\ store'[i] # None
          /\ store'[i].meta = store[i].meta
          /\ store[i].ctid # None => store'[i] = store[i]
    /\ \A i \in Ids : files[i] # None => files'[i] = files[i]

\* A step of p leaves the other goroutines, and the tracks they are about to
\* save for the first time, alone.
Frame(p) == \A q \in Procs \ {p} :
    /\ pc'[q] = pc[q] /\ trk'[q] = trk[q] /\ todo'[q] = todo[q]
    /\ pc[q] = "addSave" => store'[trk[q].id] = None

\* A copy of a saved track stays one.
LEMMA GrowsBacked ==
    ASSUME TypeOK, Grows, NEW t, Backed(t)
    PROVE  Backed(t)'
BY DEF TypeOK, Grows, Backed, Saved, Track

\* A copy that is up to date stays so.
LEMMA GrowsCurrent ==
    ASSUME TypeOK, Grows, NEW t, Current(t)
    PROVE  Current(t)'
BY DEF TypeOK, Grows, Current, Saved, Track

\* Two goroutines never hold what a step of a third has not touched wrongly.
LEMMA FrameHeld ==
    ASSUME IInv, Grows, NEW p \in Procs, Frame(p),
           Held(p)',
           pc'[p] = "addSave" => \A q \in Procs \ {p} :
               pc[q] = "addSave" => trk[q].id # trk'[p].id
    PROVE  HeldOK' /\ NewOK'
<1>1. ASSUME NEW q \in Procs, q # p PROVE Held(q)'
  <2>1. /\ pc'[q] = pc[q] /\ trk'[q] = trk[q] /\ todo'[q] = todo[q]
        /\ pc[q] = "addSave" => store'[trk[q].id] = None
    BY <1>1 DEF Frame
  <2>2. Held(q)
    BY <1>1 DEF IInv, HeldOK
  <2>3. TypeOK
    BY DEF IInv
  <2>4. pc[q] = "addSave" => /\ trk[q] \in Track /\ trk[q].ctid = None
                            /\ store'[trk[q].id] = None /\ files'[trk[q].id] # None
    BY <2>1, <2>2 DEF Held, Grows, Track
  <2>5. pc[q] \in {"enqueue", "decode", "save"} => Backed(trk[q])'
    BY <2>1, <2>2, <2>3, GrowsBacked DEF Held, Backed
  <2>6. pc[q] = "save" => trk[q].ctid = files'[trk[q].id]
    <3>1. SUFFICES ASSUME pc[q] = "save" PROVE trk[q].ctid = files'[trk[q].id]
      OBVIOUS
    <3>2. Backed(trk[q]) /\ trk[q].ctid = files[trk[q].id]
      BY <3>1, <2>2 DEF Held
    <3>3. files[trk[q].id] # None
      BY <3>2 DEF IInv, StoreOK, Backed, Track
    <3> QED
      BY <3>2, <3>3 DEF Grows, Backed, Track
  <2>7. pc[q] \in CurrentLabels => Current(trk[q])'
    BY <2>1, <2>2, <2>3, GrowsCurrent DEF Held, Current
  <2> QED
    BY <2>1, <2>2, <2>4, <2>5, <2>6, <2>7 DEF Held, Saved, Current, Backed
<1>2. HeldOK'
  BY <1>1 DEF HeldOK, Procs
<1>3. NewOK'
  BY DEF NewOK, Frame, IInv, Procs
<1> QED
  BY <1>2, <1>3
\* A new provider record is of a track that some goroutine has in its hand,
\* saved and confirmed: the records stay servable.
LEMMA RecordsGrow ==
    ASSUME IInv, Grows,
           \A c \in ctidRecords' \ ctidRecords : \E t \in Track :
               Current(t) /\ t.meta.recognized /\ t.ctid = c,
           \A k \in tokenRecords' \ tokenRecords : \E t \in Track :
               Current(t) /\ t.meta.recognized /\ k \in t.meta.tokens
    PROVE  RecordsAreServable'
<1>1. ASSUME NEW i \in Ids, Published(i)
      PROVE  store'[i] = store[i] /\ Published(i)' /\ files'[i] = store[i].ctid
  BY <1>1 DEF Grows, Published, Publishable, Saved, IInv, StoreOK
<1>2. ASSUME NEW c \in ctidRecords'
      PROVE  \E i \in Ids : Published(i)' /\ store'[i].ctid = c /\ files'[i] = c
  <2>1. \E i \in Ids : Published(i) /\ store[i].ctid = c
    BY <1>2 DEF IInv, RecordsAreServable, Current, Published, Publishable, Saved, Track
  <2> QED
    BY <1>1, <2>1
<1>3. ASSUME NEW k \in tokenRecords'
      PROVE  \E i \in Ids : Published(i)' /\ k \in store'[i].meta.tokens
  <2>1. \E i \in Ids : Published(i) /\ k \in store[i].meta.tokens
    BY <1>3 DEF IInv, RecordsAreServable, Current, Published, Publishable, Saved, Track
  <2> QED
    BY <1>1, <2>1
<1> QED
  BY <1>2, <1>3 DEF RecordsAreServable

\* The same for the token index.
LEMMA IndexGrow ==
    ASSUME IInv, Grows,
           \A k \in Token : \A c \in index'[k] \ index[k] : \E t \in Track :
               Current(t) /\ t.meta.recognized /\ t.ctid = c /\ k \in t.meta.tokens
    PROVE  IndexIsBacked'
<1>1. ASSUME NEW i \in Ids, Published(i)
      PROVE  store'[i] = store[i] /\ Published(i)'
  BY <1>1 DEF Grows, Published, Publishable, Saved
<1>2. ASSUME NEW k \in Token, NEW c \in index'[k]
      PROVE  \E i \in Ids : Published(i)' /\ store'[i].ctid = c /\ k \in store'[i].meta.tokens
  <2>1. \E i \in Ids : Published(i) /\ store[i].ctid = c /\ k \in store[i].meta.tokens
    BY <1>2 DEF IInv, IndexIsBacked, Current, Published, Publishable, Saved, Track
  <2> QED
    BY <1>1, <2>1
<1> QED
  BY <1>2 DEF IndexIsBacked

\* The queue and the snapshots keep their copies backed by the store.
LEMMA QueueFrame ==
    ASSUME IInv, Grows,
           \A n \in 1..Len(queue') : \/ \E m \in 1..Len(queue) : queue'[n] = queue[m]
                                    \/ Backed(queue'[n])
    PROVE  QueueOK'
BY GrowsBacked DEF IInv, QueueOK

LEMMA VisitFrame ==
    ASSUME IInv, Grows,
           \A a \in Announcers : \A t \in visit'[a] :
               t \in visit[a] \/ (Current(t) /\ t.meta.recognized)
    PROVE  VisitOK'
BY GrowsCurrent DEF IInv, VisitOK

\* An action that touches neither the store nor the files.
LEMMA DurableFrame ==
    ASSUME IInv, UNCHANGED durable
    PROVE  Grows /\ StoreOK'
BY DEF durable, Grows, StoreOK, IInv, Saved

-----------------------------------------------------------------------------
(* The initial state, and one lemma per action.                            *)

LEMMA InitIInv == Init => IInv
<1> SUFFICES ASSUME Init PROVE IInv
  OBVIOUS
<1>1. TypeOK
  BY NoneAssumption, MetaAssumption, BoundsAssumption
     DEF Init, TypeOK, Labels, CallType, NoCall, CallOf
<1>2. StoreOK /\ HeldOK /\ NewOK /\ CallOK /\ QueueOK /\ VisitOK
  BY DEF Init, StoreOK, HeldOK, Held, NewOK, CallOK, QueueOK, VisitOK, Saved, Procs,
         CurrentLabels, ConfirmedLabels, TokenLabels
<1>3. RecordsAreServable /\ IndexIsBacked
  BY DEF Init, RecordsAreServable, IndexIsBacked
<1> QED
  BY <1>1, <1>2, <1>3 DEF IInv
\* What the untouched variables keep.
LEMMA UnchangedFrame ==
    ASSUME IInv, Grows
    PROVE  /\ UNCHANGED network => RecordsAreServable'
           /\ UNCHANGED index => IndexIsBacked'
           /\ UNCHANGED queue => QueueOK'
           /\ UNCHANGED visit => VisitOK'
BY RecordsGrow, IndexGrow, QueueFrame, VisitFrame DEF network

LocalTypes == /\ pc \in [Procs -> Labels]
              /\ trk \in [Procs -> Track \cup {None}]
              /\ call \in [Callers -> CallType]

\* The end of a request, and its failure, have the right types.
LEMMA FinishTypes ==
    ASSUME TypeOK, NEW c \in Callers, NEW ok \in BOOLEAN, Finish(c, ok)
    PROVE  LocalTypes'
BY MetaAssumption DEF TypeOK, LocalTypes, Finish, Goto, Hold, Labels, CallType, NoCall, CallOf, Procs

LEMMA FailCallTypes ==
    ASSUME TypeOK, NEW c \in Callers, FailCall(c)
    PROVE  LocalTypes'
BY FinishTypes DEF TypeOK, LocalTypes, FailCall, Goto, Hold, Labels, Procs


\* ShareTrack reads the track from the store.
LEMMA GetTrackIInv ==
    ASSUME IInv, NEW c \in Callers, GetTrack(c)
    PROVE  IInv'
<1> USE DEF GetTrack, Goto, Hold, FailCall, Finish, durable, network, life
<1>1. /\ c \in Procs /\ TypeOK /\ Held(c)
      /\ call[c].id \in Ids
  BY DEF Procs, IInv, HeldOK, CallOK, Held, CurrentLabels, ConfirmedLabels, TokenLabels
<1>2. TypeOK'
  <2>1. store[call[c].id] \in Track \cup {None}
    BY <1>1 DEF TypeOK
  <2>2. LocalTypes'
    BY <1>1, <2>1, FailCallTypes DEF TypeOK, LocalTypes, Labels, Procs
  <2> QED
    BY <1>1, <2>2 DEF TypeOK, LocalTypes
<1>3. Grows /\ StoreOK'
  BY DurableFrame
<1>4. Frame(c)
  BY <1>1 DEF Frame, TypeOK, Labels, CallType, NoCall, CallOf, Track, Procs, IInv, HeldOK, Held, NewOK, Backed, Saved, durable
<1>5. Held(c)'
  BY <1>1 DEF TypeOK, Labels, CallType, NoCall, CallOf, Track, Procs, Backed, Current, Saved, durable, Held, CurrentLabels, ConfirmedLabels, TokenLabels, IInv, StoreOK
<1>6. HeldOK' /\ NewOK'
  BY <1>1, <1>3, <1>4, <1>5, FrameHeld DEF TypeOK, Labels, CallType, NoCall, CallOf, Track, Procs
<1>7. CallOK'
  BY <1>1 DEF TypeOK, Labels, CallType, NoCall, CallOf, Track, Procs, IInv, CallOK
<1>8. QueueOK' /\ VisitOK'
  BY <1>3, UnchangedFrame
<1>9. RecordsAreServable' /\ IndexIsBacked'
  BY <1>3, UnchangedFrame
<1> QED
  BY <1>2, <1>3, <1>6, <1>7, <1>8, <1>9 DEF IInv


\* A worker takes the head of the queue.
LEMMA WorkerTakeIInv ==
    ASSUME IInv, NEW w \in Workers, WorkerTake(w)
    PROVE  IInv'
<1> USE DEF WorkerTake, Goto, Hold, network, durable, life
<1>1. /\ w \in Procs /\ TypeOK /\ Held(w)
      /\ Head(queue) \in Track /\ Backed(Head(queue))
      /\ Tail(queue) \in Seq(Track) /\ Len(Tail(queue)) = Len(queue) - 1 /\ Len(queue) \in Nat
  BY DEF Procs, IInv, HeldOK, CallOK, Held, CurrentLabels, ConfirmedLabels, TokenLabels, QueueOK, TypeOK, Backed
<1>2. TypeOK'
  BY <1>1, BoundsAssumption DEF TypeOK, Labels, CallType, NoCall, CallOf, Track, Procs, Backed, Current
<1>3. Grows /\ StoreOK'
  BY DurableFrame
<1>4. Frame(w)
  BY <1>1 DEF Frame, TypeOK, Labels, CallType, NoCall, CallOf, Track, Procs, IInv, HeldOK, Held, NewOK, Backed, Saved, durable
<1>5. Held(w)'
  BY <1>1 DEF TypeOK, Labels, CallType, NoCall, CallOf, Track, Procs, Backed, Current, Saved, durable, Held, CurrentLabels, ConfirmedLabels, TokenLabels, IInv, StoreOK
<1>6. HeldOK' /\ NewOK'
  BY <1>1, <1>3, <1>4, <1>5, FrameHeld DEF TypeOK, Labels, CallType, NoCall, CallOf, Track, Procs
<1>7. CallOK'
  BY <1>1 DEF TypeOK, Labels, CallType, NoCall, CallOf, Track, Procs, IInv, CallOK
<1>8. QueueOK' /\ VisitOK'
  <2>1. \A n \in 1..Len(queue') : n + 1 \in 1..Len(queue) /\ queue'[n] = queue[n + 1]
    BY <1>1 DEF TypeOK
  <2> QED
    BY <1>3, <2>1, UnchangedFrame, QueueFrame
<1>9. RecordsAreServable' /\ IndexIsBacked'
  BY <1>3, UnchangedFrame
<1> QED
  BY <1>2, <1>3, <1>6, <1>7, <1>8, <1>9 DEF IInv


\* AddTrack copies the file under a fresh ID, or fails.
LEMMA CopyTrackFileIInv ==
    ASSUME IInv, NEW c \in Callers, CopyTrackFile(c)
    PROVE  IInv'
<1> USE DEF CopyTrackFile, network, life
<1>1. c \in Procs /\ TypeOK /\ pc[c] = "copy" /\ call[c].path # None
  BY DEF Procs, IInv, CallOK
<1>2. ASSUME NEW i \in Ids, ~Saved(i), files[i] = None,
             files' = [files EXCEPT ![i] = call[c].path],
             Hold(c, [id |-> i, meta |-> call[c].meta, ctid |-> None]),
             call' = [call EXCEPT ![c] = CallOf(@.op, i, None, Blank)],
             Goto(c, "addSave")
      PROVE  IInv'
  <2> USE <1>2 DEF Goto, Hold
  <2>0. call[c] \in CallType
    BY <1>1 DEF TypeOK
  <2>1. /\ call[c].path \in Ctid
        /\ call'[c] \in CallType /\ call'[c].id = i
        /\ [id |-> i, meta |-> call[c].meta, ctid |-> None] \in Track
    <3>1. /\ call[c].path \in Ctid /\ call[c].meta \in Meta
          /\ call[c].op \in {"none", "add", "share"}
      BY <1>1, <2>0 DEF CallType
    <3>2. call'[c] = CallOf(call[c].op, i, None, Blank)
      BY <1>1 DEF TypeOK
    <3>3. call'[c].id = i
      BY <3>2 DEF CallOf
    <3>4. \A o \in {"none", "add", "share"} : CallOf(o, i, None, Blank) \in CallType
      BY MetaAssumption DEF CallType, CallOf
    <3>5. [id |-> i, meta |-> call[c].meta, ctid |-> None] \in Track
      BY <3>1 DEF Track
    <3> QED
      BY <3>1, <3>2, <3>3, <3>4, <3>5
  <2>2. TypeOK'
    <3>1. LocalTypes'
      BY <1>1, <2>1 DEF TypeOK, LocalTypes, Labels, Procs
    <3> QED
      BY <1>1, <2>1, <3>1 DEF TypeOK, LocalTypes
  <2>3. Grows /\ StoreOK'
    BY <1>1 DEF Grows, StoreOK, IInv, TypeOK, Saved
  <2>4. Frame(c)
    BY <1>1 DEF Frame, IInv, HeldOK, Held, Saved, TypeOK
  <2>5. Held(c)'
    BY <1>1, <2>1 DEF Held, TypeOK, Saved, CurrentLabels, ConfirmedLabels, TokenLabels
  <2>6. \A q \in Procs \ {c} : pc[q] = "addSave" => trk[q].id # trk'[c].id
    BY <1>1 DEF IInv, HeldOK, Held, TypeOK
  <2>7. HeldOK' /\ NewOK'
    BY <1>1, <2>3, <2>4, <2>5, <2>6, FrameHeld
  <2>8. CallOK'
    BY <1>1, <2>1 DEF IInv, CallOK, TypeOK, Procs
  <2> QED
    BY <2>2, <2>3, <2>7, <2>8, UnchangedFrame DEF IInv, network
<1>3. ASSUME Finish(c, FALSE), UNCHANGED files
      PROVE  IInv'
  <2> USE <1>3 DEF Finish, Goto, Hold
  <2>1. TypeOK'
    <3>1. LocalTypes'
      BY <1>1, FinishTypes
    <3> QED
      BY <1>1, <3>1 DEF TypeOK, LocalTypes
  <2>2. Grows /\ StoreOK'
    BY DurableFrame DEF durable
  <2>3. Frame(c)
    BY <1>1 DEF Frame, IInv, HeldOK, Held, Saved, TypeOK
  <2>4. Held(c)' /\ pc'[c] = "idle"
    BY <1>1 DEF Held, TypeOK, CurrentLabels, ConfirmedLabels, TokenLabels
  <2>5. HeldOK' /\ NewOK'
    BY <1>1, <2>2, <2>3, <2>4, FrameHeld
  <2>6. CallOK'
    BY <1>1 DEF IInv, CallOK, TypeOK, Procs
  <2> QED
    BY <2>1, <2>2, <2>5, <2>6, UnchangedFrame DEF IInv, network
<1> QED
  BY <1>2, <1>3


\* AddTrack saves the new track.
LEMMA SaveNewTrackIInv ==
    ASSUME IInv, NEW c \in Callers, SaveNewTrack(c)
    PROVE  IInv'
<1> USE DEF SaveNewTrack, Goto, Hold, Finish, network, life
<1>1. /\ c \in Procs /\ TypeOK /\ Held(c)
      /\ trk[c] \in Track /\ ~Saved(trk[c].id) /\ files[trk[c].id] # None /\ trk[c].ctid = None
      /\ call[c].id \in Ids
  BY DEF Procs, IInv, HeldOK, CallOK, Held, CurrentLabels, ConfirmedLabels, TokenLabels
<1>2. TypeOK'
  <2>1. LocalTypes'
    BY <1>1, FinishTypes DEF TypeOK, LocalTypes, Labels, Procs, Backed, Current
  <2> QED
    BY <1>1, <2>1 DEF TypeOK, LocalTypes, Backed, Current
<1>3. Grows /\ StoreOK'
  BY <1>1, NoneAssumption DEF Grows, StoreOK, IInv, TypeOK, Saved, Track, Backed, Current
<1>4. Frame(c)
  BY <1>1 DEF Frame, TypeOK, Labels, CallType, NoCall, CallOf, Track, Procs, IInv, HeldOK, Held, NewOK, Backed, Saved, durable
<1>5. Held(c)'
  BY <1>1, NoneAssumption DEF TypeOK, Labels, CallType, NoCall, CallOf, Track, Procs, Backed, Current, Saved, durable, Held, CurrentLabels, ConfirmedLabels, TokenLabels, IInv, StoreOK
<1>6. HeldOK' /\ NewOK'
  BY <1>1, <1>3, <1>4, <1>5, FrameHeld DEF TypeOK, Labels, CallType, NoCall, CallOf, Track, Procs
<1>7. CallOK'
  BY <1>1 DEF TypeOK, Labels, CallType, NoCall, CallOf, Track, Procs, IInv, CallOK
<1>8. QueueOK' /\ VisitOK'
  BY <1>3, UnchangedFrame
<1>9. RecordsAreServable' /\ IndexIsBacked'
  BY <1>3, UnchangedFrame
<1> QED
  BY <1>2, <1>3, <1>6, <1>7, <1>8, <1>9 DEF IInv


\* AddTrack queues the track.
LEMMA QueueTrackIInv ==
    ASSUME IInv, NEW c \in Callers, QueueTrack(c)
    PROVE  IInv'
<1> USE DEF QueueTrack, Goto, Hold, Finish, durable, network, life
<1>1. /\ c \in Procs /\ TypeOK /\ Held(c)
      /\ Backed(trk[c]) /\ call[c].id \in Ids /\ queue \in Seq(Track) /\ Len(queue) \in Nat
  BY DEF Procs, IInv, HeldOK, CallOK, Held, CurrentLabels, ConfirmedLabels, TokenLabels, TypeOK
<1>2. TypeOK'
  <2>1. LocalTypes'
    BY <1>1, FinishTypes DEF TypeOK, LocalTypes, Labels, Procs, Backed, Current
  <2> QED
    BY <1>1, <2>1, BoundsAssumption DEF TypeOK, LocalTypes, Backed, Current
<1>3. Grows /\ StoreOK'
  BY DurableFrame
<1>4. Frame(c)
  BY <1>1 DEF Frame, TypeOK, Labels, CallType, NoCall, CallOf, Track, Procs, IInv, HeldOK, Held, NewOK, Backed, Saved, durable
<1>5. Held(c)'
  BY <1>1 DEF TypeOK, Labels, CallType, NoCall, CallOf, Track, Procs, Backed, Current, Saved, durable, Held, CurrentLabels, ConfirmedLabels, TokenLabels, IInv, StoreOK
<1>6. HeldOK' /\ NewOK'
  BY <1>1, <1>3, <1>4, <1>5, FrameHeld DEF TypeOK, Labels, CallType, NoCall, CallOf, Track, Procs
<1>7. CallOK'
  BY <1>1 DEF TypeOK, Labels, CallType, NoCall, CallOf, Track, Procs, IInv, CallOK
<1>8. QueueOK' /\ VisitOK'
  <2>1. \A n \in 1..Len(queue') :
          (n \in 1..Len(queue) /\ queue'[n] = queue[n]) \/ queue'[n] = trk[c]
    BY <1>1 DEF Backed
  <2> QED
    BY <1>1, <1>3, <2>1, UnchangedFrame, QueueFrame
<1>9. RecordsAreServable' /\ IndexIsBacked'
  BY <1>3, UnchangedFrame
<1> QED
  BY <1>2, <1>3, <1>6, <1>7, <1>8, <1>9 DEF IInv


\* ShareTrack goes on with the processed track.
LEMMA RereadTrackIInv ==
    ASSUME IInv, NEW c \in Callers, RereadTrack(c)
    PROVE  IInv'
<1> USE DEF RereadTrack, Goto, Hold, FailCall, Finish, durable, network, life
<1>1. /\ c \in Procs /\ TypeOK /\ Held(c)
      /\ Current(trk[c])
  BY DEF Procs, IInv, HeldOK, CallOK, Held, CurrentLabels, ConfirmedLabels, TokenLabels
<1>2. TypeOK'
  <2>1. LocalTypes'
    BY <1>1, FailCallTypes DEF TypeOK, LocalTypes, Labels, Procs, Backed, Current
  <2> QED
    BY <1>1, <2>1 DEF TypeOK, LocalTypes, Backed, Current
<1>3. Grows /\ StoreOK'
  BY DurableFrame
<1>4. Frame(c)
  BY <1>1 DEF Frame, TypeOK, Labels, CallType, NoCall, CallOf, Track, Procs, IInv, HeldOK, Held, NewOK, Backed, Saved, durable
<1>5. Held(c)'
  BY <1>1 DEF TypeOK, Labels, CallType, NoCall, CallOf, Track, Procs, Backed, Current, Saved, durable, Held, CurrentLabels, ConfirmedLabels, TokenLabels, IInv, StoreOK
<1>6. HeldOK' /\ NewOK'
  BY <1>1, <1>3, <1>4, <1>5, FrameHeld DEF TypeOK, Labels, CallType, NoCall, CallOf, Track, Procs
<1>7. CallOK'
  BY <1>1 DEF TypeOK, Labels, CallType, NoCall, CallOf, Track, Procs, IInv, CallOK
<1>8. QueueOK' /\ VisitOK'
  BY <1>3, UnchangedFrame
<1>9. RecordsAreServable' /\ IndexIsBacked'
  BY <1>3, UnchangedFrame
<1> QED
  BY <1>2, <1>3, <1>6, <1>7, <1>8, <1>9 DEF IInv


\* ShareTrack announces the CTID.
LEMMA AnnounceSharedIInv ==
    ASSUME IInv, NEW c \in Callers, AnnounceShared(c)
    PROVE  IInv'
<1> USE DEF AnnounceShared, Announce, Goto, Hold, FailCall, Finish, durable, life
<1>1. /\ c \in Procs /\ TypeOK /\ Held(c)
      /\ Current(trk[c]) /\ trk[c].meta.recognized
  BY DEF Procs, IInv, HeldOK, CallOK, Held, CurrentLabels, ConfirmedLabels, TokenLabels
<1>2. TypeOK'
  <2>1. LocalTypes'
    BY <1>1, FailCallTypes DEF TypeOK, LocalTypes, Labels, Procs, Backed, Current
  <2> QED
    BY <1>1, <2>1, MetaAssumption DEF TypeOK, LocalTypes, Backed, Current, Track, MetaType, Procs
<1>3. Grows /\ StoreOK'
  BY DurableFrame
<1>4. Frame(c)
  BY <1>1 DEF Frame, TypeOK, Labels, CallType, NoCall, CallOf, Track, Procs, IInv, HeldOK, Held, NewOK, Backed, Saved, durable
<1>5. Held(c)'
  BY <1>1 DEF TypeOK, Labels, CallType, NoCall, CallOf, Track, Procs, Backed, Current, Saved, durable, Held, CurrentLabels, ConfirmedLabels, TokenLabels, IInv, StoreOK
<1>6. HeldOK' /\ NewOK'
  BY <1>1, <1>3, <1>4, <1>5, FrameHeld DEF TypeOK, Labels, CallType, NoCall, CallOf, Track, Procs
<1>7. CallOK'
  BY <1>1 DEF TypeOK, Labels, CallType, NoCall, CallOf, Track, Procs, IInv, CallOK
<1>8. QueueOK' /\ VisitOK'
  BY <1>3, UnchangedFrame
<1>9. RecordsAreServable' /\ IndexIsBacked'
  <2>1. ctidRecords' \subseteq ctidRecords \cup {trk[c].ctid}
    OBVIOUS
  <2> QED
    BY <1>1, <1>3, <2>1, RecordsGrow, UnchangedFrame DEF Current
<1> QED
  BY <1>2, <1>3, <1>6, <1>7, <1>8, <1>9 DEF IInv


\* ShareTrack indexes the track.
LEMMA IndexSharedIInv ==
    ASSUME IInv, NEW c \in Callers, IndexShared(c)
    PROVE  IInv'
<1> USE DEF IndexShared, UpdateLocalIndex, Publishable, Goto, Hold, Finish, durable, network, life
<1>1. /\ c \in Procs /\ TypeOK /\ Held(c)
      /\ Current(trk[c]) /\ trk[c].meta.recognized
  BY DEF Procs, IInv, HeldOK, CallOK, Held, CurrentLabels, ConfirmedLabels, TokenLabels
<1>2. TypeOK'
  <2>1. LocalTypes'
    BY <1>1, FinishTypes DEF TypeOK, LocalTypes, Labels, Procs, Backed, Current
  <2> QED
    BY <1>1, <2>1, MetaAssumption DEF TypeOK, LocalTypes, Backed, Current, Track, MetaType, Procs
<1>3. Grows /\ StoreOK'
  BY DurableFrame
<1>4. Frame(c)
  BY <1>1 DEF Frame, TypeOK, Labels, CallType, NoCall, CallOf, Track, Procs, IInv, HeldOK, Held, NewOK, Backed, Saved, durable
<1>5. Held(c)'
  BY <1>1 DEF TypeOK, Labels, CallType, NoCall, CallOf, Track, Procs, Backed, Current, Saved, durable, Held, CurrentLabels, ConfirmedLabels, TokenLabels, IInv, StoreOK
<1>6. HeldOK' /\ NewOK'
  BY <1>1, <1>3, <1>4, <1>5, FrameHeld DEF TypeOK, Labels, CallType, NoCall, CallOf, Track, Procs
<1>7. CallOK'
  BY <1>1 DEF TypeOK, Labels, CallType, NoCall, CallOf, Track, Procs, IInv, CallOK
<1>8. QueueOK' /\ VisitOK'
  BY <1>3, UnchangedFrame
<1>9. RecordsAreServable' /\ IndexIsBacked'
  BY <1>1, <1>3, IndexGrow, UnchangedFrame DEF Current, TypeOK
<1> QED
  BY <1>2, <1>3, <1>6, <1>7, <1>8, <1>9 DEF IInv


\* ProcessTrack computes the CTID.
LEMMA ComputeCTIDIInv ==
    ASSUME IInv, NEW p \in Workers \cup Callers, ComputeCTID(p)
    PROVE  IInv'
<1> USE DEF ComputeCTID, FailProcessing, Goto, Hold, FailCall, Finish, durable, network, life
<1>1. /\ p \in Procs /\ TypeOK /\ Held(p)
      /\ Backed(trk[p]) /\ files[trk[p].id] \in Ctid
  BY DEF Procs, IInv, HeldOK, CallOK, Held, CurrentLabels, ConfirmedLabels, TokenLabels, IInv, StoreOK, Backed, Track, TypeOK
<1>2. TypeOK'
  <2>1. [trk[p] EXCEPT !.ctid = files[trk[p].id]] \in Track
    BY <1>1 DEF Backed, Track
  <2>2. CASE FailProcessing(p)
    <3>1. LocalTypes'
      BY <1>1, <2>2, FailCallTypes DEF TypeOK, LocalTypes, Labels, Procs
    <3> QED
      BY <1>1, <3>1 DEF TypeOK, LocalTypes
  <2>3. CASE /\ trk' = [trk EXCEPT ![p] = [trk[p] EXCEPT !.ctid = files[trk[p].id]]]
             /\ pc' = [pc EXCEPT ![p] = "save"] /\ UNCHANGED call
    BY <1>1, <2>1, <2>3 DEF TypeOK, Labels, Procs
  <2> QED
    BY <2>2, <2>3
<1>3. Grows /\ StoreOK'
  BY DurableFrame
<1>4. Frame(p)
  BY <1>1 DEF Frame, TypeOK, Labels, CallType, NoCall, CallOf, Track, Procs, IInv, HeldOK, Held, NewOK, Backed, Saved, durable
<1>5. Held(p)'
  BY <1>1 DEF TypeOK, Labels, CallType, NoCall, CallOf, Track, Procs, Backed, Current, Saved, durable, Held, CurrentLabels, ConfirmedLabels, TokenLabels, IInv, StoreOK
<1>6. HeldOK' /\ NewOK'
  BY <1>1, <1>3, <1>4, <1>5, FrameHeld DEF TypeOK, Labels, CallType, NoCall, CallOf, Track, Procs
<1>7. CallOK'
  BY <1>1 DEF TypeOK, Labels, CallType, NoCall, CallOf, Track, Procs, IInv, CallOK
<1>8. QueueOK' /\ VisitOK'
  BY <1>3, UnchangedFrame
<1>9. RecordsAreServable' /\ IndexIsBacked'
  BY <1>3, UnchangedFrame
<1> QED
  BY <1>2, <1>3, <1>6, <1>7, <1>8, <1>9 DEF IInv


\* ProcessTrack saves the track.
LEMMA SaveProcessedIInv ==
    ASSUME IInv, NEW p \in Workers \cup Callers, SaveProcessed(p)
    PROVE  IInv'
<1> USE DEF SaveProcessed, FailProcessing, Goto, Hold, FailCall, Finish, network, life
<1>1. /\ p \in Procs /\ TypeOK /\ Held(p)
      /\ Backed(trk[p]) /\ trk[p].ctid = files[trk[p].id] /\ trk[p].ctid # None
  BY DEF Procs, IInv, HeldOK, CallOK, Held, CurrentLabels, ConfirmedLabels, TokenLabels, IInv, StoreOK, Backed, Track, TypeOK
<1>2. TypeOK'
  <2>1. LocalTypes'
    BY <1>1, FailCallTypes DEF TypeOK, LocalTypes, Labels, Procs, Backed, Current
  <2> QED
    BY <1>1, <2>1 DEF TypeOK, LocalTypes, Backed, Current
<1>3. Grows /\ StoreOK'
  <2>1. trk[p] \in Track /\ trk[p] # None /\ trk[p].id \in Ids
    BY <1>1, NoneAssumption DEF Backed, Track
  <2>2. /\ store[trk[p].id].ctid # None => store[trk[p].id] = trk[p]
        /\ store[trk[p].id].meta = trk[p].meta
    BY <1>1, <2>1 DEF Backed, StoreOK, IInv, Saved, TypeOK, Track
  <2>3. UNCHANGED files /\ (store' = store \/ store' = [store EXCEPT ![trk[p].id] = trk[p]])
    OBVIOUS
  <2>4. Grows
    BY <1>1, <2>1, <2>2, <2>3 DEF Grows, TypeOK, Saved
  <2>5. StoreOK'
    BY <1>1, <2>1, <2>3 DEF StoreOK, IInv, TypeOK, Saved, Backed
  <2> QED
    BY <2>4, <2>5
<1>4. Frame(p)
  BY <1>1 DEF Frame, TypeOK, Labels, CallType, NoCall, CallOf, Track, Procs, IInv, HeldOK, Held, NewOK, Backed, Saved, durable
<1>5. Held(p)'
  BY <1>1, NoneAssumption DEF TypeOK, Labels, CallType, NoCall, CallOf, Track, Procs, Backed, Current, Saved, durable, Held, CurrentLabels, ConfirmedLabels, TokenLabels, IInv, StoreOK
<1>6. HeldOK' /\ NewOK'
  BY <1>1, <1>3, <1>4, <1>5, FrameHeld DEF TypeOK, Labels, CallType, NoCall, CallOf, Track, Procs
<1>7. CallOK'
  BY <1>1 DEF TypeOK, Labels, CallType, NoCall, CallOf, Track, Procs, IInv, CallOK
<1>8. QueueOK' /\ VisitOK'
  BY <1>3, UnchangedFrame
<1>9. RecordsAreServable' /\ IndexIsBacked'
  BY <1>3, UnchangedFrame
<1> QED
  BY <1>2, <1>3, <1>6, <1>7, <1>8, <1>9 DEF IInv


\* ProcessTrack announces the CTID.
LEMMA ProvideProcessedIInv ==
    ASSUME IInv, NEW p \in Workers \cup Callers, ProvideProcessed(p)
    PROVE  IInv'
<1> USE DEF ProvideProcessed, Announce, Goto, durable, life
<1>1. /\ p \in Procs /\ TypeOK /\ Held(p)
      /\ Current(trk[p]) /\ trk[p].meta.recognized
  BY DEF Procs, IInv, HeldOK, CallOK, Held, CurrentLabels, ConfirmedLabels, TokenLabels
<1>2. TypeOK'
  <2>1. LocalTypes'
    BY <1>1 DEF TypeOK, LocalTypes, Labels, Procs, Backed, Current
  <2> QED
    BY <1>1, <2>1 DEF TypeOK, LocalTypes, Backed, Current, Track
<1>3. Grows /\ StoreOK'
  BY DurableFrame
<1>4. Frame(p)
  BY <1>1 DEF Frame, TypeOK, Labels, CallType, NoCall, CallOf, Track, Procs, IInv, HeldOK, Held, NewOK, Backed, Saved, durable
<1>5. Held(p)'
  BY <1>1 DEF TypeOK, Labels, CallType, NoCall, CallOf, Track, Procs, Backed, Current, Saved, durable, Held, CurrentLabels, ConfirmedLabels, TokenLabels, IInv, StoreOK
<1>6. HeldOK' /\ NewOK'
  BY <1>1, <1>3, <1>4, <1>5, FrameHeld DEF TypeOK, Labels, CallType, NoCall, CallOf, Track, Procs
<1>7. CallOK'
  BY <1>1 DEF TypeOK, Labels, CallType, NoCall, CallOf, Track, Procs, IInv, CallOK
<1>8. QueueOK' /\ VisitOK'
  BY <1>3, UnchangedFrame
<1>9. RecordsAreServable' /\ IndexIsBacked'
  <2>1. ctidRecords' \subseteq ctidRecords \cup {trk[p].ctid}
    OBVIOUS
  <2> QED
    BY <1>1, <1>3, <2>1, RecordsGrow, UnchangedFrame DEF Current
<1> QED
  BY <1>2, <1>3, <1>6, <1>7, <1>8, <1>9 DEF IInv


\* onTrackProcessed indexes the track.
LEMMA OnTrackProcessedIInv ==
    ASSUME IInv, NEW p \in Workers \cup Callers, OnTrackProcessed(p)
    PROVE  IInv'
<1> USE DEF OnTrackProcessed, UpdateLocalIndex, Publishable, Goto, durable, network, life
<1>1. /\ p \in Procs /\ TypeOK /\ Held(p)
      /\ Current(trk[p])
  BY DEF Procs, IInv, HeldOK, CallOK, Held, CurrentLabels, ConfirmedLabels, TokenLabels
<1>2. TypeOK'
  <2>1. LocalTypes'
    BY <1>1 DEF TypeOK, LocalTypes, Labels, Procs, Backed, Current
  <2> QED
    BY <1>1, <2>1, MetaAssumption DEF TypeOK, LocalTypes, Backed, Current, Track, MetaType, Procs
<1>3. Grows /\ StoreOK'
  BY DurableFrame
<1>4. Frame(p)
  BY <1>1 DEF Frame, TypeOK, Labels, CallType, NoCall, CallOf, Track, Procs, IInv, HeldOK, Held, NewOK, Backed, Saved, durable
<1>5. Held(p)'
  BY <1>1 DEF TypeOK, Labels, CallType, NoCall, CallOf, Track, Procs, Backed, Current, Saved, durable, Held, CurrentLabels, ConfirmedLabels, TokenLabels, IInv, StoreOK
<1>6. HeldOK' /\ NewOK'
  BY <1>1, <1>3, <1>4, <1>5, FrameHeld DEF TypeOK, Labels, CallType, NoCall, CallOf, Track, Procs
<1>7. CallOK'
  BY <1>1 DEF TypeOK, Labels, CallType, NoCall, CallOf, Track, Procs, IInv, CallOK
<1>8. QueueOK' /\ VisitOK'
  BY <1>3, UnchangedFrame
<1>9. RecordsAreServable' /\ IndexIsBacked'
  BY <1>1, <1>3, IndexGrow, UnchangedFrame DEF Current, TypeOK
<1> QED
  BY <1>2, <1>3, <1>6, <1>7, <1>8, <1>9 DEF IInv


\* A token is announced.
LEMMA ProvideTokenIInv ==
    ASSUME IInv, NEW p \in Procs, ProvideToken(p)
    PROVE  IInv'
<1> USE DEF ProvideToken, Announce, durable, life
<1>1. /\ p \in Procs /\ TypeOK /\ Held(p)
      /\ Current(trk[p]) /\ todo[p] \subseteq trk[p].meta.tokens /\ (todo[p] # {} => trk[p].meta.recognized)
  BY DEF Procs, IInv, HeldOK, CallOK, Held, CurrentLabels, ConfirmedLabels, TokenLabels
<1>2. TypeOK'
  <2>1. LocalTypes'
    BY <1>1 DEF TypeOK, LocalTypes, Labels, Procs, Backed, Current
  <2> QED
    BY <1>1, <2>1 DEF TypeOK, LocalTypes, Backed, Current
<1>3. Grows /\ StoreOK'
  BY DurableFrame
<1>4. Frame(p)
  BY <1>1 DEF Frame, TypeOK, Labels, CallType, NoCall, CallOf, Track, Procs, IInv, HeldOK, Held, NewOK, Backed, Saved, durable
<1>5. Held(p)'
  BY <1>1 DEF TypeOK, Labels, CallType, NoCall, CallOf, Track, Procs, Backed, Current, Saved, durable, Held, CurrentLabels, ConfirmedLabels, TokenLabels, IInv, StoreOK
<1>6. HeldOK' /\ NewOK'
  BY <1>1, <1>3, <1>4, <1>5, FrameHeld DEF TypeOK, Labels, CallType, NoCall, CallOf, Track, Procs
<1>7. CallOK'
  BY <1>1 DEF TypeOK, Labels, CallType, NoCall, CallOf, Track, Procs, IInv, CallOK
<1>8. QueueOK' /\ VisitOK'
  BY <1>3, UnchangedFrame
<1>9. RecordsAreServable' /\ IndexIsBacked'
  <2>1. \A k \in tokenRecords' \ tokenRecords : k \in todo[p]
    OBVIOUS
  <2> QED
    BY <1>1, <1>3, <2>1, RecordsGrow, UnchangedFrame DEF Current
<1> QED
  BY <1>2, <1>3, <1>6, <1>7, <1>8, <1>9 DEF IInv


\* A worker returns to its queue.
LEMMA WorkerDoneIInv ==
    ASSUME IInv, NEW w \in Workers, WorkerDone(w)
    PROVE  IInv'
<1> USE DEF WorkerDone, Goto, Hold, durable, network, life
<1>1. /\ w \in Procs /\ TypeOK /\ Held(w)
      /\ TRUE
  BY DEF Procs, IInv, HeldOK, CallOK, Held, CurrentLabels, ConfirmedLabels, TokenLabels
<1>2. TypeOK'
  <2>1. LocalTypes'
    BY <1>1 DEF TypeOK, LocalTypes, Labels, Procs, Backed, Current
  <2> QED
    BY <1>1, <2>1 DEF TypeOK, LocalTypes, Backed, Current
<1>3. Grows /\ StoreOK'
  BY DurableFrame
<1>4. Frame(w)
  BY <1>1 DEF Frame, TypeOK, Labels, CallType, NoCall, CallOf, Track, Procs, IInv, HeldOK, Held, NewOK, Backed, Saved, durable
<1>5. Held(w)'
  BY <1>1 DEF TypeOK, Labels, CallType, NoCall, CallOf, Track, Procs, Backed, Current, Saved, durable, Held, CurrentLabels, ConfirmedLabels, TokenLabels, IInv, StoreOK
<1>6. HeldOK' /\ NewOK'
  BY <1>1, <1>3, <1>4, <1>5, FrameHeld DEF TypeOK, Labels, CallType, NoCall, CallOf, Track, Procs
<1>7. CallOK'
  BY <1>1 DEF TypeOK, Labels, CallType, NoCall, CallOf, Track, Procs, IInv, CallOK
<1>8. QueueOK' /\ VisitOK'
  BY <1>3, UnchangedFrame
<1>9. RecordsAreServable' /\ IndexIsBacked'
  BY <1>3, UnchangedFrame
<1> QED
  BY <1>2, <1>3, <1>6, <1>7, <1>8, <1>9 DEF IInv


\* A worker leaves after Stop.
LEMMA WorkerExitIInv ==
    ASSUME IInv, NEW w \in Workers, WorkerExit(w)
    PROVE  IInv'
<1> USE DEF WorkerExit, Goto, Hold, durable, network, life
<1>1. /\ w \in Procs /\ TypeOK /\ Held(w)
      /\ TRUE
  BY DEF Procs, IInv, HeldOK, CallOK, Held, CurrentLabels, ConfirmedLabels, TokenLabels
<1>2. TypeOK'
  <2>1. LocalTypes'
    BY <1>1 DEF TypeOK, LocalTypes, Labels, Procs, Backed, Current
  <2> QED
    BY <1>1, <2>1 DEF TypeOK, LocalTypes, Backed, Current
<1>3. Grows /\ StoreOK'
  BY DurableFrame
<1>4. Frame(w)
  BY <1>1 DEF Frame, TypeOK, Labels, CallType, NoCall, CallOf, Track, Procs, IInv, HeldOK, Held, NewOK, Backed, Saved, durable
<1>5. Held(w)'
  BY <1>1 DEF TypeOK, Labels, CallType, NoCall, CallOf, Track, Procs, Backed, Current, Saved, durable, Held, CurrentLabels, ConfirmedLabels, TokenLabels, IInv, StoreOK
<1>6. HeldOK' /\ NewOK'
  BY <1>1, <1>3, <1>4, <1>5, FrameHeld DEF TypeOK, Labels, CallType, NoCall, CallOf, Track, Procs
<1>7. CallOK'
  BY <1>1 DEF TypeOK, Labels, CallType, NoCall, CallOf, Track, Procs, IInv, CallOK
<1>8. QueueOK' /\ VisitOK'
  BY <1>3, UnchangedFrame
<1>9. RecordsAreServable' /\ IndexIsBacked'
  BY <1>3, UnchangedFrame
<1> QED
  BY <1>2, <1>3, <1>6, <1>7, <1>8, <1>9 DEF IInv


\* An announcer reads all tracks.
LEMMA SnapshotIInv ==
    ASSUME IInv, NEW a \in Announcers, Snapshot(a)
    PROVE  IInv'
<1> USE DEF Snapshot, Goto, durable, network, life
<1>1. /\ a \in Procs /\ TypeOK /\ Held(a)
      /\ \A i \in Ids : Published(i) => Current(store[i]) /\ store[i].meta.recognized
  BY DEF Procs, IInv, HeldOK, CallOK, Held, CurrentLabels, ConfirmedLabels, TokenLabels, StoreOK, Current, Published, Publishable, Saved, TypeOK
<1>2. TypeOK'
  <2>1. LocalTypes'
    BY <1>1 DEF TypeOK, LocalTypes, Labels, Procs, Backed, Current
  <2> QED
    BY <1>1, <2>1 DEF TypeOK, LocalTypes, Backed, Current
<1>3. Grows /\ StoreOK'
  BY DurableFrame
<1>4. Frame(a)
  BY <1>1 DEF Frame, TypeOK, Labels, CallType, NoCall, CallOf, Track, Procs, IInv, HeldOK, Held, NewOK, Backed, Saved, durable
<1>5. Held(a)'
  BY <1>1 DEF TypeOK, Labels, CallType, NoCall, CallOf, Track, Procs, Backed, Current, Saved, durable, Held, CurrentLabels, ConfirmedLabels, TokenLabels, IInv, StoreOK
<1>6. HeldOK' /\ NewOK'
  BY <1>1, <1>3, <1>4, <1>5, FrameHeld DEF TypeOK, Labels, CallType, NoCall, CallOf, Track, Procs
<1>7. CallOK'
  BY <1>1 DEF TypeOK, Labels, CallType, NoCall, CallOf, Track, Procs, IInv, CallOK
<1>8. QueueOK' /\ VisitOK'
  BY <1>1, <1>3, UnchangedFrame, VisitFrame DEF TypeOK
<1>9. RecordsAreServable' /\ IndexIsBacked'
  BY <1>3, UnchangedFrame
<1> QED
  BY <1>2, <1>3, <1>6, <1>7, <1>8, <1>9 DEF IInv


\* An announcer turns to a track and indexes it.
LEMMA VisitTrackIInv ==
    ASSUME IInv, NEW a \in Announcers, VisitTrack(a)
    PROVE  IInv'
<1> USE DEF VisitTrack, UpdateLocalIndex, Publishable, Goto, Hold, durable, network, life
<1>1. /\ a \in Procs /\ TypeOK /\ Held(a)
      /\ \A t \in visit[a] : Current(t) /\ t.meta.recognized
  BY DEF Procs, IInv, HeldOK, CallOK, Held, CurrentLabels, ConfirmedLabels, TokenLabels, VisitOK
<1>2. TypeOK'
  <2>1. LocalTypes'
    BY <1>1 DEF TypeOK, LocalTypes, Labels, Procs, Backed, Current
  <2> QED
    BY <1>1, <2>1, MetaAssumption DEF TypeOK, LocalTypes, Backed, Current, Track
<1>3. Grows /\ StoreOK'
  BY DurableFrame
<1>4. Frame(a)
  BY <1>1 DEF Frame, TypeOK, Labels, CallType, NoCall, CallOf, Track, Procs, IInv, HeldOK, Held, NewOK, Backed, Saved, durable
<1>5. Held(a)'
  BY <1>1 DEF TypeOK, Labels, CallType, NoCall, CallOf, Track, Procs, Backed, Current, Saved, durable, Held, CurrentLabels, ConfirmedLabels, TokenLabels, IInv, StoreOK
<1>6. HeldOK' /\ NewOK'
  BY <1>1, <1>3, <1>4, <1>5, FrameHeld DEF TypeOK, Labels, CallType, NoCall, CallOf, Track, Procs
<1>7. CallOK'
  BY <1>1 DEF TypeOK, Labels, CallType, NoCall, CallOf, Track, Procs, IInv, CallOK
<1>8. QueueOK' /\ VisitOK'
  BY <1>1, <1>3, UnchangedFrame, VisitFrame DEF TypeOK
<1>9. RecordsAreServable' /\ IndexIsBacked'
  BY <1>1, <1>3, IndexGrow, UnchangedFrame DEF Current, TypeOK
<1> QED
  BY <1>2, <1>3, <1>6, <1>7, <1>8, <1>9 DEF IInv


\* An announcer announces the CTID.
LEMMA ProvideTrackIInv ==
    ASSUME IInv, NEW a \in Announcers, NEW ok \in BOOLEAN, ProvideTrack(a, ok)
    PROVE  IInv'
<1> USE DEF ProvideTrack, Announce, Goto, durable, life
<1>1. /\ a \in Procs /\ TypeOK /\ Held(a)
      /\ Current(trk[a]) /\ trk[a].meta.recognized
  BY DEF Procs, IInv, HeldOK, CallOK, Held, CurrentLabels, ConfirmedLabels, TokenLabels
<1>2. TypeOK'
  <2>1. LocalTypes'
    BY <1>1 DEF TypeOK, LocalTypes, Labels, Procs, Backed, Current
  <2> QED
    BY <1>1, <2>1, MetaAssumption DEF TypeOK, LocalTypes, Backed, Current, Track, MetaType, Procs
<1>3. Grows /\ StoreOK'
  BY DurableFrame
<1>4. Frame(a)
  BY <1>1 DEF Frame, TypeOK, Labels, CallType, NoCall, CallOf, Track, Procs, IInv, HeldOK, Held, NewOK, Backed, Saved, durable
<1>5. Held(a)'
  BY <1>1 DEF TypeOK, Labels, CallType, NoCall, CallOf, Track, Procs, Backed, Current, Saved, durable, Held, CurrentLabels, ConfirmedLabels, TokenLabels, IInv, StoreOK
<1>6. HeldOK' /\ NewOK'
  BY <1>1, <1>3, <1>4, <1>5, FrameHeld DEF TypeOK, Labels, CallType, NoCall, CallOf, Track, Procs
<1>7. CallOK'
  BY <1>1 DEF TypeOK, Labels, CallType, NoCall, CallOf, Track, Procs, IInv, CallOK
<1>8. QueueOK' /\ VisitOK'
  BY <1>3, UnchangedFrame
<1>9. RecordsAreServable' /\ IndexIsBacked'
  <2>1. ctidRecords' \subseteq ctidRecords \cup {trk[a].ctid}
    OBVIOUS
  <2> QED
    BY <1>1, <1>3, <2>1, RecordsGrow, UnchangedFrame DEF Current
<1> QED
  BY <1>2, <1>3, <1>6, <1>7, <1>8, <1>9 DEF IInv


\* A round of announcements ends.
LEMMA EndRoundIInv ==
    ASSUME IInv, NEW a \in Announcers, EndRound(a)
    PROVE  IInv'
<1> USE DEF EndRound, Goto, Hold, durable, network, life
<1>1. /\ a \in Procs /\ TypeOK /\ Held(a)
      /\ TRUE
  BY DEF Procs, IInv, HeldOK, CallOK, Held, CurrentLabels, ConfirmedLabels, TokenLabels
<1>2. TypeOK'
  <2>1. LocalTypes'
    BY <1>1 DEF TypeOK, LocalTypes, Labels, Procs, Backed, Current
  <2> QED
    BY <1>1, <2>1 DEF TypeOK, LocalTypes, Backed, Current
<1>3. Grows /\ StoreOK'
  BY DurableFrame
<1>4. Frame(a)
  BY <1>1 DEF Frame, TypeOK, Labels, CallType, NoCall, CallOf, Track, Procs, IInv, HeldOK, Held, NewOK, Backed, Saved, durable
<1>5. Held(a)'
  BY <1>1 DEF TypeOK, Labels, CallType, NoCall, CallOf, Track, Procs, Backed, Current, Saved, durable, Held, CurrentLabels, ConfirmedLabels, TokenLabels, IInv, StoreOK
<1>6. HeldOK' /\ NewOK'
  BY <1>1, <1>3, <1>4, <1>5, FrameHeld DEF TypeOK, Labels, CallType, NoCall, CallOf, Track, Procs
<1>7. CallOK'
  BY <1>1 DEF TypeOK, Labels, CallType, NoCall, CallOf, Track, Procs, IInv, CallOK
<1>8. QueueOK' /\ VisitOK'
  BY <1>3, UnchangedFrame
<1>9. RecordsAreServable' /\ IndexIsBacked'
  BY <1>3, UnchangedFrame
<1> QED
  BY <1>2, <1>3, <1>6, <1>7, <1>8, <1>9 DEF IInv


\* The announce loop ends.
LEMMA LoopExitIInv ==
    ASSUME IInv, NEW a \in Announcers, LoopExit(a)
    PROVE  IInv'
<1> USE DEF LoopExit, Goto, Hold, durable, network, life
<1>1. /\ a \in Procs /\ TypeOK /\ Held(a)
      /\ TRUE
  BY DEF Procs, IInv, HeldOK, CallOK, Held, CurrentLabels, ConfirmedLabels, TokenLabels
<1>2. TypeOK'
  <2>1. LocalTypes'
    BY <1>1 DEF TypeOK, LocalTypes, Labels, Procs, Backed, Current
  <2> QED
    BY <1>1, <2>1 DEF TypeOK, LocalTypes, Backed, Current
<1>3. Grows /\ StoreOK'
  BY DurableFrame
<1>4. Frame(a)
  BY <1>1 DEF Frame, TypeOK, Labels, CallType, NoCall, CallOf, Track, Procs, IInv, HeldOK, Held, NewOK, Backed, Saved, durable
<1>5. Held(a)'
  BY <1>1 DEF TypeOK, Labels, CallType, NoCall, CallOf, Track, Procs, Backed, Current, Saved, durable, Held, CurrentLabels, ConfirmedLabels, TokenLabels, IInv, StoreOK
<1>6. HeldOK' /\ NewOK'
  BY <1>1, <1>3, <1>4, <1>5, FrameHeld DEF TypeOK, Labels, CallType, NoCall, CallOf, Track, Procs
<1>7. CallOK'
  BY <1>1 DEF TypeOK, Labels, CallType, NoCall, CallOf, Track, Procs, IInv, CallOK
<1>8. QueueOK' /\ VisitOK'
  BY <1>3, UnchangedFrame
<1>9. RecordsAreServable' /\ IndexIsBacked'
  BY <1>3, UnchangedFrame
<1> QED
  BY <1>2, <1>3, <1>6, <1>7, <1>8, <1>9 DEF IInv


\* A request arrives.
LEMMA RequestIInv ==
    ASSUME IInv, NEW c \in Callers, NEW req \in CallType, NEW l \in {"copy", "get"},
           l = "copy" => req.path # None,
           l = "get" => req.id \in Ids,
           Request(c, req, l)
    PROVE  IInv'
<1> USE DEF Request, Goto, durable, network, life
<1>1. c \in Procs /\ TypeOK /\ pc[c] = "idle"
  BY DEF Procs, IInv
<1>2. TypeOK'
  BY <1>1 DEF TypeOK, Labels, Procs
<1>3. Grows /\ StoreOK'
  BY DurableFrame
<1>4. Frame(c)
  BY <1>1 DEF Frame, IInv, HeldOK, Held, Saved, TypeOK
<1>5. Held(c)' /\ pc'[c] # "addSave"
  BY <1>1 DEF Held, TypeOK, CurrentLabels, ConfirmedLabels, TokenLabels
<1>6. HeldOK' /\ NewOK'
  BY <1>1, <1>3, <1>4, <1>5, FrameHeld
<1>7. CallOK'
  BY <1>1 DEF IInv, CallOK, TypeOK, Procs
<1> QED
  BY <1>2, <1>3, <1>6, <1>7, UnchangedFrame DEF IInv

LEMMA RequestsIInv ==
    ASSUME IInv, NEW c \in Callers, Requests(c)
    PROVE  IInv'
<1>1. ASSUME NEW f \in Ctid, NEW m \in Meta,
             Request(c, CallOf("add", None, f, m), "copy")
      PROVE  IInv'
  <2>1. CallOf("add", None, f, m) \in CallType
    BY DEF CallType, CallOf
  <2>2. CallOf("add", None, f, m).path # None
    BY NoneAssumption DEF CallOf
  <2> QED
    BY <1>1, <2>1, <2>2, RequestIInv
<1>2. ASSUME NEW i \in Ids, Request(c, CallOf("share", i, None, Blank), "get")
      PROVE  IInv'
  <2>1. CallOf("share", i, None, Blank) \in CallType
    BY MetaAssumption DEF CallType, CallOf
  <2>2. CallOf("share", i, None, Blank).id = i
    BY DEF CallOf
  <2> QED
    BY <1>2, <2>1, <2>2, RequestIInv
<1>3. ASSUME NEW i \in Ids, NEW f \in Ctid, NEW m \in Meta,
             Request(c, CallOf("share", i, f, m), "get")
      PROVE  IInv'
  <2>1. CallOf("share", i, f, m) \in CallType
    BY DEF CallType, CallOf
  <2>2. CallOf("share", i, f, m).id = i
    BY DEF CallOf
  <2> QED
    BY <1>3, <2>1, <2>2, RequestIInv
<1>4. CASE RequestAdd(c)
  BY <1>1, <1>4 DEF RequestAdd
<1>5. CASE RequestShare(c)
  BY <1>2, <1>3, <1>5, MetaAssumption DEF RequestShare
<1> QED
  BY <1>4, <1>5 DEF Requests

\* Stop, the start of the daemon and the ageing of records leave every
\* goroutine's track alone.
LEMMA StopIInv ==
    ASSUME IInv, Stop
    PROVE  IInv'
<1> USE DEF Stop, local, durable, network
<1>1. TypeOK'
  BY BoundsAssumption DEF IInv, TypeOK
<1>2. Grows /\ StoreOK'
  BY DurableFrame
<1>3. HeldOK' /\ NewOK' /\ CallOK'
  BY DEF IInv, HeldOK, Held, NewOK, CallOK, Backed, Current, Saved
<1> QED
  BY <1>1, <1>2, <1>3, UnchangedFrame DEF IInv

LEMMA StartIInv ==
    ASSUME IInv, Start
    PROVE  IInv'
<1> USE DEF Start, durable, network
<1>1. TypeOK'
  BY DEF IInv, TypeOK, Labels
<1>2. Grows /\ StoreOK'
  BY DurableFrame
<1>3. \A p \in Procs : pc'[p] = "idle"
  OBVIOUS
<1>4. HeldOK' /\ NewOK' /\ CallOK'
  BY <1>3 DEF HeldOK, Held, NewOK, CallOK, CurrentLabels, ConfirmedLabels, TokenLabels, Procs
<1> QED
  BY <1>1, <1>2, <1>4, UnchangedFrame DEF IInv

LEMMA ExpireIInv ==
    ASSUME IInv, Expire
    PROVE  IInv'
<1> USE DEF Expire, local, life, durable
<1>1. /\ ctidRecords' \subseteq ctidRecords /\ tokenRecords' \subseteq tokenRecords
      /\ UNCHANGED <<durable, index, queue, local, life>>
  OBVIOUS
<1>2. TypeOK'
  BY <1>1 DEF IInv, TypeOK
<1>3. Grows /\ StoreOK'
  BY <1>1, DurableFrame
<1>4. HeldOK' /\ NewOK' /\ CallOK'
  BY <1>1 DEF IInv, HeldOK, Held, NewOK, CallOK, Backed, Current, Saved
<1>5. RecordsAreServable'
  BY <1>1, <1>3, RecordsGrow
<1> QED
  BY <1>1, <1>2, <1>3, <1>4, <1>5, UnchangedFrame DEF IInv

\* The end of the process: only the disk and the network's records survive it,
\* and the records were servable.
LEMMA ExitIInv ==
    ASSUME IInv, Exit
    PROVE  IInv'
<1> USE DEF Exit, durable, network
<1>1. TypeOK'
  <2>1. NoCall \in CallType
    BY MetaAssumption DEF NoCall, CallOf, CallType
  <2>2. LocalTypes'
    BY <2>1 DEF LocalTypes, Labels
  <2> QED
    BY <2>2, BoundsAssumption DEF IInv, TypeOK, LocalTypes
<1>2. Grows /\ StoreOK'
  BY DurableFrame
<1>3. \A p \in Procs : pc'[p] = "off"
  OBVIOUS
<1>4. HeldOK' /\ NewOK' /\ CallOK' /\ QueueOK' /\ VisitOK' /\ IndexIsBacked'
  BY <1>3 DEF HeldOK, Held, NewOK, CallOK, CurrentLabels, ConfirmedLabels, TokenLabels, Procs,
              QueueOK, VisitOK, IndexIsBacked
<1> QED
  BY <1>1, <1>2, <1>4, UnchangedFrame DEF IInv

-----------------------------------------------------------------------------
(* The theorems.                                                           *)

LEMMA ProcessTrackIInv ==
    ASSUME IInv, NEW p \in Workers \cup Callers, ProcessTrack(p)
    PROVE  IInv'
BY ComputeCTIDIInv, SaveProcessedIInv, ProvideProcessedIInv, OnTrackProcessedIInv,
   ProvideTokenIInv DEF ProcessTrack, Procs

LEMMA StutterIInv ==
    ASSUME IInv, UNCHANGED vars
    PROVE  IInv'
<1> USE DEF vars, durable, network
<1>1. TypeOK'
  BY DEF IInv, TypeOK
<1>2. Grows /\ StoreOK'
  BY DurableFrame
<1>3. HeldOK' /\ NewOK' /\ CallOK'
  BY DEF IInv, HeldOK, Held, NewOK, CallOK, Backed, Current, Saved
<1> QED
  BY <1>1, <1>2, <1>3, UnchangedFrame DEF IInv

LEMMA NextIInv == IInv /\ [Next]_vars => IInv'
<1> SUFFICES ASSUME IInv, [Next]_vars PROVE IInv'
  OBVIOUS
<1>1. ASSUME NEW w \in Workers, Worker(w) PROVE IInv'
  BY <1>1, WorkerTakeIInv, ProcessTrackIInv, WorkerDoneIInv, WorkerExitIInv DEF Worker
<1>2. ASSUME NEW c \in Callers, Requests(c) PROVE IInv'
  BY <1>2, RequestsIInv
<1>3. ASSUME NEW c \in Callers, Handler(c) PROVE IInv'
  BY <1>3, CopyTrackFileIInv, SaveNewTrackIInv, QueueTrackIInv, GetTrackIInv, ProcessTrackIInv,
     RereadTrackIInv, AnnounceSharedIInv, IndexSharedIInv DEF Handler
<1>4. ASSUME NEW a \in Announcers, Announcer(a) PROVE IInv'
  BY <1>4, SnapshotIInv, VisitTrackIInv, EndRoundIInv, ProvideTokenIInv, LoopExitIInv,
     ProvideTrackIInv DEF Announcer, Procs
<1> QED
  BY <1>1, <1>2, <1>3, <1>4, StopIInv, ExitIInv, StartIInv, ExpireIInv, StutterIInv DEF Next

THEOREM Invariance == Spec => []IInv
<1>1. Init => IInv
  BY InitIInv
<1>2. IInv /\ [Next]_vars => IInv'
  BY NextIInv
<1> QED
  BY <1>1, <1>2, PTL DEF Spec

\* Every variable always has its type, and the CTR queue stays within its
\* capacity.
THEOREM TypeCorrect == Spec => []TypeOK
<1>1. IInv => TypeOK
  BY DEF IInv
<1> QED
  BY <1>1, Invariance, PTL

\* Whatever crashes and fails, and however many handlers, workers and announcers
\* work on the same tracks: what the network was told, the disk can serve.
THEOREM AdvertisedIsServable == Spec => []RecordsAreServable
<1>1. IInv => RecordsAreServable
  BY DEF IInv
<1> QED
  BY <1>1, Invariance, PTL

\* The token index never lists what the store does not have.
THEOREM IndexBacked == Spec => []IndexIsBacked
<1>1. IInv => IndexIsBacked
  BY DEF IInv
<1> QED
  BY <1>1, Invariance, PTL

\* An advertised token is answered, from the index or from the store, unless the
\* store finds no published track by it.
THEOREM AdvertisedAnswered == Spec => []AdvertisedTokenIsAnswered
<1>1. IInv => AdvertisedTokenIsAnswered
  <2> SUFFICES ASSUME IInv, NEW k \in tokenRecords,
                      NEW i \in Ids, Published(i), k \in store[i].meta.matches
               PROVE  IndexReply(k) # {}
    BY DEF AdvertisedTokenIsAnswered, IInv, RecordsAreServable
  <2> QED
    BY DEF IndexReply
<1> QED
  BY <1>1, Invariance, PTL

\* Every answer of the index protocol is one that the catalogue promises: only
\* published tracks, and one if the store finds one by the token.
THEOREM AnswersPromised == Spec => []AnswersAsPromised
<1>1. IInv => AnswersAsPromised
  <2> SUFFICES ASSUME IInv, NEW k \in Token
               PROVE  IndexReply(k) \in Catalog!Answers(k)
    BY DEF AnswersAsPromised
  <2>1. ASSUME NEW i \in Ids, Published(i)
        PROVE  store[i].ctid \in {e.ctid : e \in Entries}
    <3>1. EntryOf(store[i]) \in Entries /\ EntryOf(store[i]).ctid = store[i].ctid
      BY <2>1 DEF Entries, EntryOf
    <3> QED
      BY <3>1
  <2>2. IndexReply(k) \subseteq {e.ctid : e \in Entries}
    BY <2>1 DEF IndexReply, IInv, IndexIsBacked
  <2>3. ASSUME NEW e \in Entries, k \in e.matches
        PROVE  IndexReply(k) # {}
    <3>1. PICK i \in Ids : Published(i) /\ k \in store[i].meta.matches
      BY <2>3 DEF Entries, EntryOf
    <3> QED
      BY <3>1 DEF IndexReply
  <2> QED
    BY <2>2, <2>3 DEF Catalog!Answers
<1> QED
  BY <1>1, Invariance, PTL

-----------------------------------------------------------------------------
(* What a handler shares is what it was asked to share.                    *)

SharingLabels == {"decode", "save", "provide", "notify", "notifyTokens",
                  "announce", "announceTokens"}

\* From GetTrack on, a handler holds the track its call names: the one it was
\* called with, or the one it has imported instead.
Shares(c)  == pc[c] \in SharingLabels => trk[c].id = call[c].id
SharingInv == IInv /\ \A c \in Callers : Shares(c)

\* No goroutine changes where another one is, what it holds, or its call.
LEMMA OthersAreLeftAlone ==
    ASSUME TypeOK, NEW q \in Procs, NEW p \in Procs \ {q},
           \/ p \in Workers /\ Worker(p)
           \/ p \in Callers /\ (Requests(p) \/ Handler(p))
           \/ p \in Announcers /\ Announcer(p)
    PROVE  /\ pc'[q] = pc[q] /\ trk'[q] = trk[q]
           /\ q \in Callers => call'[q] = call[q]
<1> USE DEF TypeOK, Goto, Hold
<1>1. CASE ProcessTrack(p)
  BY <1>1 DEF ProcessTrack, ComputeCTID, SaveProcessed, ProvideProcessed, OnTrackProcessed,
     ProvideToken, FailProcessing, FailCall, Finish, Procs
<1>2. CASE p \in Workers /\ (WorkerTake(p) \/ WorkerDone(p) \/ WorkerExit(p))
  BY <1>2 DEF WorkerTake, WorkerDone, WorkerExit
<1>3. CASE Requests(p)
  BY <1>3 DEF Requests, RequestAdd, RequestShare, Request
<1>4. CASE CopyTrackFile(p) \/ SaveNewTrack(p) \/ QueueTrack(p)
  BY <1>4 DEF CopyTrackFile, SaveNewTrack, QueueTrack, Finish
<1>5. CASE GetTrack(p) \/ RereadTrack(p) \/ AnnounceShared(p) \/ IndexShared(p)
  BY <1>5 DEF GetTrack, RereadTrack, AnnounceShared, IndexShared, Finish, FailCall
<1>6. CASE Snapshot(p) \/ VisitTrack(p) \/ EndRound(p) \/ LoopExit(p)
  BY <1>6 DEF Snapshot, VisitTrack, EndRound, LoopExit
<1>7. CASE ProvideToken(p) \/ \E ok \in BOOLEAN : ProvideTrack(p, ok)
  BY <1>7 DEF ProvideToken, ProvideTrack
<1> QED
  BY <1>1, <1>2, <1>3, <1>4, <1>5, <1>6, <1>7 DEF Worker, Handler, Announcer

\* A handler's own step.
LEMMA HandlerKeepsShares ==
    ASSUME SharingInv, NEW c \in Callers, Requests(c) \/ Handler(c)
    PROVE  Shares(c)'
<1> USE DEF Goto, Hold, SharingLabels
<1>0. c \in Procs /\ TypeOK /\ StoreOK /\ Held(c) /\ Shares(c)
  BY DEF Procs, SharingInv, IInv, HeldOK
<1>1. CASE Requests(c)
  BY <1>0, <1>1 DEF Requests, RequestAdd, RequestShare, Request, Shares, TypeOK
<1>2. CASE CopyTrackFile(c) \/ SaveNewTrack(c) \/ QueueTrack(c) \/ IndexShared(c)
  BY <1>0, <1>2 DEF CopyTrackFile, SaveNewTrack, QueueTrack, IndexShared, Finish, Shares, TypeOK
<1>3. CASE GetTrack(c)
  <2>1. call[c].id \in Ids
    BY <1>3 DEF SharingInv, IInv, CallOK, GetTrack
  <2>2. store[call[c].id] # None => store[call[c].id].id = call[c].id
    BY <1>0, <2>1 DEF StoreOK, Saved
  <2> QED
    BY <1>0, <1>3, <2>2 DEF GetTrack, FailCall, Finish, Shares, TypeOK
<1>4. CASE ProcessTrack(c)
  <2>1. c \notin Workers
    BY ProcsAssumption
  <2>2. pc[c] = "decode" => trk[c] \in Track
    BY <1>0 DEF Held, Backed
  <2> QED
    BY <1>0, <1>4, <2>1, <2>2
       DEF ProcessTrack, ComputeCTID, SaveProcessed, ProvideProcessed, OnTrackProcessed,
           ProvideToken, FailProcessing, FailCall, Finish, Shares, TypeOK, Track
<1>5. CASE RereadTrack(c)
  <2>1. Current(trk[c])
    BY <1>0, <1>5 DEF RereadTrack, Held, CurrentLabels
  <2>2. trk[c].id = call[c].id /\ store[trk[c].id].id = trk[c].id
    BY <1>0, <1>5, <2>1 DEF RereadTrack, Shares, Current, StoreOK, Track
  <2> QED
    BY <1>0, <1>5, <2>2 DEF RereadTrack, FailCall, Finish, Shares, TypeOK
<1>6. CASE AnnounceShared(c)
  BY <1>0, <1>6 DEF AnnounceShared, FailCall, Finish, Shares, TypeOK
<1> QED
  BY <1>1, <1>2, <1>3, <1>4, <1>5, <1>6 DEF Handler

\* The daemon's life and the network.
LEMMA LifeKeepsShares ==
    ASSUME SharingInv, Stop \/ Exit \/ Start \/ Expire \/ UNCHANGED vars, NEW c \in Callers
    PROVE  Shares(c)'
<1>1. c \in Procs
  BY DEF Procs
<1>2. CASE Exit \/ Start
  BY <1>1, <1>2 DEF Exit, Start, Shares, SharingLabels
<1>3. CASE Stop \/ Expire \/ UNCHANGED vars
  BY <1>3 DEF Stop, Expire, local, vars, SharingInv, Shares
<1> QED
  BY <1>2, <1>3

LEMMA SharingInvariance == Spec => []SharingInv
<1>1. Init => SharingInv
  BY InitIInv DEF SharingInv, Init, Shares, SharingLabels, Procs
<1>2. SharingInv /\ [Next]_vars => SharingInv'
  <2> SUFFICES ASSUME SharingInv, [Next]_vars, NEW c \in Callers PROVE Shares(c)'
    BY NextIInv DEF SharingInv
  <2>1. TypeOK /\ Shares(c) /\ c \in Procs
    BY DEF SharingInv, IInv, Procs
  <2>2. ASSUME NEW p \in Procs,
               \/ p \in Workers /\ Worker(p)
               \/ p \in Callers /\ (Requests(p) \/ Handler(p))
               \/ p \in Announcers /\ Announcer(p)
        PROVE  Shares(c)'
    <3>1. CASE p # c
      BY <2>1, <2>2, <3>1, OthersAreLeftAlone DEF Shares
    <3>2. CASE p = c
      BY <2>2, <3>2, HandlerKeepsShares, ProcsAssumption
    <3> QED
      BY <3>1, <3>2
  <2> QED
    BY <2>2, LifeKeepsShares DEF Next, Procs
<1> QED
  BY <1>1, <1>2, PTL DEF Spec

\* How a request to share can end with success.
LEMMA SuccessIsIndexShared ==
    ASSUME IInv, [Next]_vars, NEW c \in Callers,
           call[c].op = "share", call'[c].op = "none", call'[c].ok
    PROVE  IndexShared(c)
<1>0. c \in Procs /\ TypeOK /\ c \notin Workers \cup Announcers
  BY ProcsAssumption DEF IInv, Procs
<1>1. call'[c] # call[c]
  OBVIOUS
<1>2. ASSUME Finish(c, FALSE) PROVE FALSE
  BY <1>0, <1>2 DEF Finish, NoCall, CallOf, TypeOK
<1>3. ASSUME FailCall(c) PROVE FALSE
  BY <1>1, <1>2, <1>3 DEF FailCall
<1>4. CASE Requests(c)
  BY <1>0, <1>4 DEF Requests, RequestAdd, RequestShare, Request, CallOf, TypeOK
<1>5. CASE CopyTrackFile(c)
  <2>1. PICK i \in Ids : call' = [call EXCEPT ![c] = CallOf(@.op, i, None, Blank)]
    BY <1>2, <1>5 DEF CopyTrackFile
  <2>2. call'[c] = CallOf(call[c].op, i, None, Blank)
    BY <1>0, <2>1 DEF TypeOK
  <2> QED
    BY <2>2 DEF CallOf
<1>6. CASE SaveNewTrack(c) \/ QueueTrack(c)
  BY <1>1, <1>2, <1>6 DEF SaveNewTrack, QueueTrack
<1>7. CASE GetTrack(c) \/ RereadTrack(c) \/ AnnounceShared(c)
  BY <1>1, <1>3, <1>7 DEF GetTrack, RereadTrack, AnnounceShared
<1>8. CASE ProcessTrack(c)
  BY <1>0, <1>1, <1>3, <1>8
     DEF ProcessTrack, ComputeCTID, SaveProcessed, ProvideProcessed, OnTrackProcessed,
         ProvideToken, FailProcessing
<1>9. CASE Handler(c)
  BY <1>5, <1>6, <1>7, <1>8, <1>9 DEF Handler
<1>10. CASE Stop \/ Exit \/ Start \/ Expire \/ UNCHANGED vars
  BY <1>1, <1>10 DEF Stop, Exit, Start, Expire, local, vars, NoCall, CallOf
<1>11. ASSUME NEW p \in Procs \ {c},
             \/ p \in Workers /\ Worker(p)
             \/ p \in Callers /\ (Requests(p) \/ Handler(p))
             \/ p \in Announcers /\ Announcer(p)
      PROVE  FALSE
  BY <1>0, <1>1, <1>11, OthersAreLeftAlone
<1> QED
  BY <1>0, <1>4, <1>9, <1>10, <1>11 DEF Next, Procs

\* A share that reports success has made the track findable, whatever was
\* imported, retried or processed by a worker at the same time.
THEOREM SharedIsFindable == Spec => ShareOkMeansFindable
<1>1. ASSUME SharingInv, [Next]_vars, NEW c \in Callers, NEW i \in Ids,
             call[c].op = "share", call[c].id = i, call'[c].op = "none", call'[c].ok
      PROVE  (Published(i) /\ Indexed(i))'
  <2>1. IInv /\ TypeOK /\ IndexShared(c) /\ Held(c) /\ Shares(c)
    BY <1>1, SuccessIsIndexShared DEF SharingInv, IInv, HeldOK, Procs
  <2>2. Current(trk[c]) /\ trk[c].meta.recognized /\ trk[c].id = i
    BY <1>1, <2>1 DEF IndexShared, Held, CurrentLabels, ConfirmedLabels, Shares, SharingLabels
  <2>3. store[i] = trk[c] /\ store' = store /\ Publishable(trk[c])
    BY <2>1, <2>2 DEF IndexShared, durable, Current, Publishable
  <2>4. Published(i)'
    BY <2>2, <2>3 DEF Published, Publishable, Saved, Current
  <2>5. trk[c].meta.tokens \subseteq Token
    BY <2>2, MetaAssumption DEF Current, Track, MetaType
  <2>6. Indexed(i)'
    BY <2>1, <2>3, <2>5 DEF IndexShared, UpdateLocalIndex, Indexed
  <2> QED
    BY <2>4, <2>6
<1>2. SharingInv /\ [Next]_vars =>
         [\A c \in Callers, i \in Ids :
             /\ call[c].op = "share" /\ call[c].id = i
             /\ call'[c].op = "none" /\ call'[c].ok
             => (Published(i) /\ Indexed(i))']_vars
  BY <1>1
<1> QED
  BY <1>2, SharingInvariance, PTL DEF Spec, ShareOkMeansFindable


-----------------------------------------------------------------------------
(* What is queued is processed, or fails, but is never lost.               *)

\* What any step but the end of the process does to the queue: a worker takes
\* its head, a handler adds to its end, all others leave it alone.
LEMMA QueueSteps ==
    ASSUME [Next]_vars, phase' # "down"
    PROVE  \/ UNCHANGED queue
           \/ \E w \in Workers : WorkerTake(w)
           \/ \E c \in Callers : queue' = Append(queue, trk[c])
<1> USE DEF durable, network, local, life, vars
<1>1. ASSUME NEW p \in Procs, ProcessTrack(p) PROVE UNCHANGED queue
  BY <1>1 DEF ProcessTrack, ComputeCTID, SaveProcessed, ProvideProcessed, OnTrackProcessed,
     ProvideToken
<1>2. ASSUME NEW w \in Workers, Worker(w) PROVE UNCHANGED queue \/ WorkerTake(w)
  BY <1>1, <1>2 DEF Worker, WorkerDone, WorkerExit, Procs
<1>3. ASSUME NEW c \in Callers, Requests(c) PROVE UNCHANGED queue
  BY <1>3 DEF Requests, RequestAdd, RequestShare, Request
<1>4. ASSUME NEW c \in Callers, Handler(c)
      PROVE  UNCHANGED queue \/ queue' = Append(queue, trk[c])
  <2>1. CASE QueueTrack(c)
    BY <2>1 DEF QueueTrack
  <2>2. CASE ProcessTrack(c)
    BY <1>1, <2>2 DEF Procs
  <2> QED
    BY <1>4, <2>1, <2>2 DEF Handler, CopyTrackFile, SaveNewTrack, GetTrack, RereadTrack,
       AnnounceShared, IndexShared
<1>5. ASSUME NEW a \in Announcers, Announcer(a) PROVE UNCHANGED queue
  BY <1>5 DEF Announcer, Snapshot, VisitTrack, EndRound, ProvideToken, LoopExit, ProvideTrack
<1>6. CASE Stop \/ Start \/ Expire \/ UNCHANGED vars
  BY <1>6 DEF Stop, Start, Expire
<1>7. ~Exit
  BY DEF Exit
<1> QED
  BY <1>2, <1>3, <1>4, <1>5, <1>6, <1>7 DEF Next

\* A track on the queue is still there after the step, or has been taken.
LEMMA QueuedStaysUnderway ==
    ASSUME IInv, [Next]_vars, phase' # "down",
           NEW i \in Ids, NEW n \in 1..Len(queue), queue[n].id = i
    PROVE  Underway(i)'
<1>1. queue \in Seq(Track) /\ Len(queue) \in Nat /\ TypeOK
  BY DEF IInv, TypeOK
<1>2. CASE UNCHANGED queue
  BY <1>2 DEF Underway
<1>3. ASSUME NEW w \in Workers, WorkerTake(w)
      PROVE  Underway(i)'
  <2>1. w \in Procs /\ queue # <<>> /\ queue' = Tail(queue)
    BY <1>3 DEF WorkerTake, Procs
  <2>2. CASE n = 1
    <3>1. trk'[w] = queue[1] /\ pc'[w] = "decode"
      BY <1>1, <1>3, <2>1 DEF WorkerTake, Hold, Goto, TypeOK
    <3> QED
      BY <2>2, <3>1 DEF Underway
  <2>3. CASE n # 1
    <3>1. n - 1 \in 1..Len(queue') /\ queue'[n - 1] = queue[n]
      BY <1>1, <2>1, <2>3
    <3> QED
      BY <3>1 DEF Underway
  <2> QED
    BY <2>2, <2>3
<1>4. ASSUME NEW c \in Callers, queue' = Append(queue, trk[c])
      PROVE  Underway(i)'
  <2>1. n \in 1..Len(queue') /\ queue'[n] = queue[n]
    BY <1>1, <1>4
  <2> QED
    BY <2>1 DEF Underway
<1> QED
  BY <1>2, <1>3, <1>4, QueueSteps

\* A worker that has taken a track goes on to save it, or fails.
LEMMA WorkerFinishes ==
    ASSUME IInv, NEW w \in Workers, Worker(w), pc[w] \in {"decode", "save"},
           NEW i \in Ids, trk[w].id = i
    PROVE  \/ pc'[w] = "save" /\ trk'[w].id = i
           \/ Processed(i)'
           \/ GivesUp(w, i)
<1> USE DEF Goto, Hold, TypeOK, Processed, GivesUp
<1>1. w \in Procs /\ TypeOK /\ StoreOK /\ Held(w)
  BY DEF IInv, HeldOK, Procs
<1>2. ComputeCTID(w) \/ SaveProcessed(w)
  BY DEF Worker, WorkerTake, WorkerDone, WorkerExit, ProcessTrack, ProvideProcessed,
     OnTrackProcessed, ProvideToken
<1>3. Backed(trk[w])
  BY <1>1 DEF Held
<1>4. CASE ComputeCTID(w)
  BY <1>1, <1>3, <1>4 DEF ComputeCTID, FailProcessing, Backed, Track
<1>5. CASE SaveProcessed(w)
  <2>1. /\ trk[w].id \in Ids /\ trk[w].ctid = files[trk[w].id]
        /\ files[trk[w].id] # None /\ trk[w] # None
    BY <1>1, <1>3, <1>5, NoneAssumption DEF SaveProcessed, Held, Backed, StoreOK, Track
  <2> QED
    BY <1>1, <1>5, <2>1 DEF SaveProcessed, FailProcessing, Saved
<1> QED
  BY <1>2, <1>4, <1>5

\* What AddTrack has put on the queue is processed, unless its own decoding or
\* saving fails or the process ends.
THEOREM QueuedNotLost == Spec => QueuedIsNotLost
<1>1. ASSUME IInv, [Next]_vars, NEW i \in Ids, Underway(i), phase # "down", phase' # "down"
      PROVE  (Underway(i) \/ Processed(i))' \/ \E w \in Workers : GivesUp(w, i)
  <2>1. CASE \E n \in 1..Len(queue) : queue[n].id = i
    BY <1>1, <2>1, QueuedStaysUnderway
  <2>2. ASSUME NEW w \in Workers, pc[w] \in {"decode", "save"}, trk[w].id = i
        PROVE  (Underway(i) \/ Processed(i))' \/ GivesUp(w, i)
    <3>1. CASE Worker(w)
      BY <1>1, <2>2, <3>1, WorkerFinishes DEF Underway
    <3>2. CASE ~Worker(w)
      <4>1. pc'[w] = pc[w] /\ trk'[w] = trk[w]
        <5>1. w \in Procs /\ TypeOK
          BY <1>1 DEF IInv, Procs
        <5>2. CASE Stop \/ Expire \/ UNCHANGED vars
          BY <5>2 DEF Stop, Expire, local, vars
        <5>3. ~Exit /\ ~Start
          BY <1>1 DEF Exit, Start
        <5> QED
          BY <1>1, <3>2, <5>1, <5>2, <5>3, OthersAreLeftAlone, ProcsAssumption DEF Next, Procs
      <4> QED
        BY <2>2, <4>1 DEF Underway
    <3> QED
      BY <3>1, <3>2
  <2> QED
    BY <1>1, <2>1, <2>2 DEF Underway
<1>2. IInv /\ [Next]_vars =>
         [\A i \in Ids : Underway(i) /\ phase # "down" /\ phase' # "down" =>
             (Underway(i) \/ Processed(i))' \/ \E w \in Workers : GivesUp(w, i)]_vars
  BY <1>1
<1> QED
  BY <1>2, Invariance, PTL DEF Spec, QueuedIsNotLost

-----------------------------------------------------------------------------
(* The peer implements the catalogue: every step of the pipeline is a step *)
(* of Catalogue or leaves its variables alone.                             *)

\* A current, confirmed track is in the catalogue.
LEMMA CurrentIsEntry ==
    ASSUME TypeOK, NEW t, Current(t), t.meta.recognized
    PROVE  EntryOf(t) \in Entries
BY DEF Current, Entries, Published, Publishable, Track

LEMMA SameRecords ==
    ASSUME UNCHANGED <<store, ctidRecords, tokenRecords>>
    PROVE  UNCHANGED Catalog!cvars
BY DEF Catalog!cvars, Entries, EntryOf, Published, Publishable, Saved

\* Announcing the CTID of a current, confirmed track.
LEMMA AnnounceRefines ==
    ASSUME TypeOK, NEW p \in Procs, NEW ok \in BOOLEAN,
           Current(trk[p]), trk[p].meta.recognized,
           Announce(p, trk[p].ctid, ok, ctidRecords, ctidRecords'),
           UNCHANGED <<store, tokenRecords>>
    PROVE  [Catalog!CatalogueNext]_(Catalog!cvars)
<1>1. Entries' = Entries
  BY DEF Entries, EntryOf, Published, Publishable, Saved
<1>2. EntryOf(trk[p]) \in Entries /\ EntryOf(trk[p]).ctid = trk[p].ctid
  BY CurrentIsEntry DEF EntryOf
<1>3. CASE ctidRecords' = ctidRecords
  BY <1>3, SameRecords
<1>4. CASE ctidRecords' = ctidRecords \cup {trk[p].ctid}
  BY <1>1, <1>2, <1>4 DEF Catalog!CatalogueNext, Catalog!AdvertiseCtid
<1> QED
  BY <1>3, <1>4 DEF Announce

LEMMA AnnounceTokenRefines ==
    ASSUME IInv, NEW p \in Procs, ProvideToken(p)
    PROVE  [Catalog!CatalogueNext]_(Catalog!cvars)
<1>1. PICK k \in todo[p], ok \in BOOLEAN : Announce(p, k, ok, tokenRecords, tokenRecords')
  BY DEF ProvideToken
<1>2. UNCHANGED <<store, ctidRecords>>
  BY DEF ProvideToken, durable
<1>3. TypeOK /\ Held(p) /\ pc[p] \in TokenLabels
  BY DEF IInv, HeldOK, ProvideToken, TokenLabels
<1>4. Current(trk[p]) /\ trk[p].meta.recognized /\ k \in trk[p].meta.tokens
  BY <1>1, <1>3 DEF Held, CurrentLabels, ConfirmedLabels, TokenLabels
<1>5. EntryOf(trk[p]) \in Entries /\ k \in EntryOf(trk[p]).tokens
  BY <1>3, <1>4, CurrentIsEntry DEF EntryOf
<1>6. Entries' = Entries
  BY <1>2 DEF Entries, EntryOf, Published, Publishable, Saved
<1>7. CASE tokenRecords' = tokenRecords
  BY <1>2, <1>7, SameRecords
<1>8. CASE tokenRecords' = tokenRecords \cup {k}
  BY <1>2, <1>5, <1>6, <1>8 DEF Catalog!CatalogueNext, Catalog!AdvertiseToken
<1> QED
  BY <1>1, <1>7, <1>8 DEF Announce

\* What saving a track under an ID not yet published does to the catalogue.
LEMMA SaveEntries ==
    ASSUME TypeOK, StoreOK, NEW i \in Ids, NEW t \in Track, ~Published(i),
           store' = [store EXCEPT ![i] = t]
    PROVE  /\ Publishable(t) => Entries' = Entries \cup {EntryOf(t)}
           /\ ~Publishable(t) => Entries' = Entries
<1>1. store'[i] = t /\ \A j \in Ids : j # i => store'[j] = store[j]
  BY DEF TypeOK
<1>2. \A j \in Ids : j # i => (Published(j)' <=> Published(j))
  BY <1>1 DEF Published, Publishable, Saved
<1>3. Published(i)' <=> Publishable(t)
  BY <1>1, NoneAssumption DEF Published, Publishable, Saved
<1>4. \A e : e \in Entries' <=> \E j \in Ids : Published(j)' /\ e = EntryOf(store'[j])
  BY DEF Entries, EntryOf
<1>5. \A e : e \in Entries <=> \E j \in Ids : Published(j) /\ e = EntryOf(store[j])
  BY DEF Entries, EntryOf
<1>6. \A e : e \in Entries' <=> e \in Entries \/ (Publishable(t) /\ e = EntryOf(t))
  BY <1>1, <1>2, <1>3, <1>4, <1>5
<1> QED
  BY <1>6

\* Saving a new track changes nothing in the catalogue, for it has no CTID.
LEMMA SaveNewRefines ==
    ASSUME IInv, NEW c \in Callers, SaveNewTrack(c)
    PROVE  [Catalog!CatalogueNext]_(Catalog!cvars)
<1>1. /\ c \in Procs /\ TypeOK /\ StoreOK /\ trk[c] \in Track
      /\ ~Saved(trk[c].id) /\ trk[c].ctid = None
  BY DEF SaveNewTrack, IInv, HeldOK, Held, Procs
<1>2. UNCHANGED <<ctidRecords, tokenRecords>>
  BY DEF SaveNewTrack, network
<1>3. CASE store' = store
  BY <1>2, <1>3, SameRecords
<1>4. CASE store' = [store EXCEPT ![trk[c].id] = trk[c]]
  <2>1. PICK t \in Track : t = trk[c]
    BY <1>1
  <2>2. t.id \in Ids /\ ~Published(t.id) /\ ~Publishable(t)
    BY <1>1, <2>1 DEF Published, Publishable, Track
  <2>3. Entries' = Entries
    BY <1>1, <1>4, <2>1, <2>2, SaveEntries
  <2> QED
    BY <1>2, <2>3 DEF Catalog!cvars
<1> QED
  BY <1>3, <1>4 DEF SaveNewTrack

\* Saving a processed track enters it into the catalogue, once.
LEMMA SaveProcessedRefines ==
    ASSUME IInv, NEW p \in Workers \cup Callers, SaveProcessed(p)
    PROVE  [Catalog!CatalogueNext]_(Catalog!cvars)
<1>1. /\ p \in Procs /\ TypeOK /\ StoreOK /\ trk[p] \in Track
      /\ Backed(trk[p]) /\ trk[p].ctid = files[trk[p].id]
  BY DEF SaveProcessed, IInv, HeldOK, Held, Procs, Backed
<1>2. PICK t \in Track : t = trk[p]
  BY <1>1
<1> DEFINE i == t.id
<1>3. /\ i \in Ids /\ Saved(i) /\ t.ctid \in Ctid /\ t.ctid # None
      /\ store[i].ctid # None => store[i] = t
  BY <1>1, <1>2, NoneAssumption DEF Backed, StoreOK, Track, TypeOK, Saved
<1>4. UNCHANGED <<ctidRecords, tokenRecords>>
  BY DEF SaveProcessed, network
<1>5. CASE store' = store
  BY <1>4, <1>5, SameRecords
<1>6. CASE store' = [store EXCEPT ![i] = t] /\ store' # store
  <2>1. ~Published(i)
    BY <1>1, <1>3, <1>6 DEF TypeOK, Published, Publishable
  <2>2. CASE ~Publishable(t)
    <3>1. Entries' = Entries
      BY <1>1, <1>3, <1>6, <2>1, <2>2, SaveEntries
    <3> QED
      BY <1>4, <3>1 DEF Catalog!cvars
  <2>3. CASE Publishable(t)
    <3>1. Entries' = Entries \cup {EntryOf(t)}
      BY <1>1, <1>3, <1>6, <2>1, <2>3, SaveEntries
    <3>2. EntryOf(t) \in Catalog!Entry
      BY <1>3, MetaAssumption DEF EntryOf, Catalog!Entry, Track, MetaType
    <3>3. \A d \in Entries : d.id # EntryOf(t).id
      <4>1. SUFFICES ASSUME NEW j \in Ids, Published(j)
                     PROVE  EntryOf(store[j]).id # EntryOf(t).id
        BY DEF Entries
      <4>2. store[j].id = j /\ j # i
        BY <1>1, <2>1, <4>1 DEF StoreOK, Published
      <4> QED
        BY <4>2 DEF EntryOf
    <3> QED
      BY <1>4, <3>1, <3>2, <3>3 DEF Catalog!CatalogueNext, Catalog!AddEntry
  <2> QED
    BY <2>2, <2>3
<1> QED
  BY <1>2, <1>5, <1>6 DEF SaveProcessed

LEMMA ProcessTrackRefines ==
    ASSUME IInv, NEW p \in Workers \cup Callers, ProcessTrack(p)
    PROVE  [Catalog!CatalogueNext]_(Catalog!cvars)
<1>1. p \in Procs /\ TypeOK /\ Held(p)
  BY DEF IInv, HeldOK, Procs
<1>2. CASE ProvideProcessed(p)
  <2>1. Current(trk[p]) /\ trk[p].meta.recognized
    BY <1>1, <1>2 DEF ProvideProcessed, Held, CurrentLabels, ConfirmedLabels
  <2> QED
    BY <1>1, <1>2, <2>1, AnnounceRefines DEF ProvideProcessed, durable
<1>3. CASE ComputeCTID(p) \/ OnTrackProcessed(p)
  BY <1>3, SameRecords DEF ComputeCTID, OnTrackProcessed, durable, network
<1> QED
  BY <1>1, <1>2, <1>3, SaveProcessedRefines, AnnounceTokenRefines DEF ProcessTrack

LEMMA HandlerRefines ==
    ASSUME IInv, NEW c \in Callers, Requests(c) \/ Handler(c)
    PROVE  [Catalog!CatalogueNext]_(Catalog!cvars)
<1>1. c \in Procs /\ TypeOK /\ Held(c)
  BY DEF IInv, HeldOK, Procs
<1>2. CASE AnnounceShared(c)
  <2>1. Current(trk[c]) /\ trk[c].meta.recognized
    BY <1>1, <1>2 DEF AnnounceShared, Held, CurrentLabels, ConfirmedLabels
  <2> QED
    BY <1>1, <1>2, <2>1, AnnounceRefines DEF AnnounceShared, durable
<1>3. CASE Requests(c)
  BY <1>3, SameRecords DEF Requests, RequestAdd, RequestShare, Request, durable, network
<1>4. CASE \/ CopyTrackFile(c) \/ QueueTrack(c) \/ GetTrack(c) \/ RereadTrack(c)
           \/ IndexShared(c)
  BY <1>4, SameRecords DEF CopyTrackFile, QueueTrack, GetTrack, RereadTrack, IndexShared,
                           durable, network
<1> QED
  BY <1>2, <1>3, <1>4, SaveNewRefines, ProcessTrackRefines DEF Handler

LEMMA AnnouncerRefines ==
    ASSUME IInv, NEW a \in Announcers, Announcer(a)
    PROVE  [Catalog!CatalogueNext]_(Catalog!cvars)
<1>1. a \in Procs /\ TypeOK /\ Held(a)
  BY DEF IInv, HeldOK, Procs
<1>2. ASSUME NEW ok \in BOOLEAN, ProvideTrack(a, ok)
      PROVE  [Catalog!CatalogueNext]_(Catalog!cvars)
  <2>1. Current(trk[a]) /\ trk[a].meta.recognized
    BY <1>1, <1>2 DEF ProvideTrack, Held, CurrentLabels, ConfirmedLabels
  <2> QED
    BY <1>1, <1>2, <2>1, AnnounceRefines DEF ProvideTrack, durable
<1>3. CASE Snapshot(a) \/ VisitTrack(a) \/ EndRound(a) \/ LoopExit(a)
  BY <1>3, SameRecords DEF Snapshot, VisitTrack, EndRound, LoopExit, durable, network
<1> QED
  BY <1>1, <1>2, <1>3, AnnounceTokenRefines DEF Announcer

LEMMA StepRefines == IInv /\ [Next]_vars => [Catalog!CatalogueNext]_(Catalog!cvars)
<1> SUFFICES ASSUME IInv, [Next]_vars PROVE [Catalog!CatalogueNext]_(Catalog!cvars)
  OBVIOUS
<1>1. ASSUME NEW w \in Workers, Worker(w) PROVE [Catalog!CatalogueNext]_(Catalog!cvars)
  <2>1. CASE WorkerTake(w) \/ WorkerDone(w) \/ WorkerExit(w)
    BY <2>1, SameRecords DEF WorkerTake, WorkerDone, WorkerExit, durable, network
  <2> QED
    BY <1>1, <2>1, ProcessTrackRefines DEF Worker
<1>2. CASE Stop \/ Exit \/ Start \/ UNCHANGED vars
  BY <1>2, SameRecords DEF Stop, Exit, Start, vars, durable, network
<1>3. CASE Expire
  <2>1. Entries' = Entries
    BY <1>3 DEF Expire, durable, Entries, EntryOf, Published, Publishable, Saved
  <2> QED
    BY <1>3, <2>1 DEF Expire, Catalog!CatalogueNext, Catalog!Forget
<1> QED
  BY <1>1, <1>2, <1>3, HandlerRefines, AnnouncerRefines DEF Next

\* The pipeline implements the catalogue for every value of the constants: no
\* interleaving, fault or crash takes an entry back, changes one, or lets the
\* network hear of a track before it is saved and confirmed.
THEOREM Refinement == Spec => ImplementsCatalogue
<1>1. Init => Catalog!CatalogueInit
  BY DEF Init, Catalog!CatalogueInit, Entries, Published, Saved
<1>2. IInv /\ [Next]_vars => [Catalog!CatalogueNext]_(Catalog!cvars)
  BY StepRefines
<1> QED
  BY <1>1, <1>2, Invariance, PTL DEF Spec, ImplementsCatalogue, Catalog!CatalogueSpec

=============================================================================
