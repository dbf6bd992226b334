-------------------------- MODULE LifecycleProofs --------------------------
(***************************************************************************)
(* Proofs about Lifecycle, for any number of calls, requests, workers,     *)
(* loops and streams: who may be using the daemon's parts at startup and   *)
(* while they are closed.                                                  *)
(***************************************************************************)
EXTENDS Lifecycle, TLAPS

\* The parts that are open at each statement of main().
OpenParts == Running =>
    open = CASE main \in {"store", "return"}    -> {}
             [] main \in {"host", "closeStore"} -> {"store"}
             [] main \in {"dht", "closeHost"}   -> {"store", "host"}
             [] OTHER                           -> Parts

\* Who has not come yet.
NotYet ==
    /\ main \in {"store", "host", "dht"} => \A s \in Streams : stream[s] = "none"
    /\ main \in {"store", "host", "dht", "daemon"} =>
          /\ \A w \in Workers : worker[w] = "off"
          /\ \A l \in Loops : loop[l] = "off"
          /\ announcer = "off"
    /\ main \in Startup \ {"notify", "control", "listen"} => \A c \in Calls : call[c] = "none"
    /\ main \in Startup \ {"listen"} => \A r \in Requests : request[r] = "none"

\* Statements of the shutdown from which on something is over.
AfterGrpc    == {"stopDaemon", "waitWorkers", "exited"} \cup Closing
AfterControl == {"stopGrpc"} \cup AfterGrpc

\* Who has left, and what had to be so for main() to go on.
NoMore ==
    /\ main \in AfterGrpc => \A c \in Calls : ~Pending(c)
    /\ main \in AfterControl => deadline \/ \A r \in Requests : request[r] # "running"
    /\ main \in Closing => deadline \/ \A w \in Workers : worker[w] = "gone"
    /\ cancelled => main \in {"waitWorkers", "exited"} \cup Closing

\* stopChan never gets a second message.
OneMessage == ~once => stopChan = 0

\* The inductive invariant.
IInv == TypeOK /\ OpenParts /\ NotYet /\ NoMore /\ OneMessage

-----------------------------------------------------------------------------

\* Nothing runs in the beginning.
LEMMA InitIInv == Init => IInv
<1> SUFFICES ASSUME Init PROVE IInv
  OBVIOUS
<1>1. TypeOK
  <2>1. {signalled, sigChan, once, deadline, cancelled} \subseteq BOOLEAN
    BY DEF Init
  <2> QED
    BY <2>1 DEF Init, TypeOK, Startup
<1>2. OpenParts
  BY DEF Init, OpenParts
<1>3. NotYet /\ NoMore /\ OneMessage
  BY DEF Init, NotYet, NoMore, OneMessage, AfterGrpc, AfterControl, Closing
<1> QED
  BY <1>1, <1>2, <1>3 DEF IInv

\* Starting, up to the point where everybody may come.
LEMMA StartupIInv ==
    ASSUME IInv,
           \/ OpenPart \/ StartDaemon \/ StartGrpc \/ NotifySignals
           \/ StartControl \/ ListenForSignals \/ FailToStart
    PROVE  IInv'
<1> USE DEF IInv, stopVars, userVars, Parts, Startup, Stopping, Closing, Ended
<1>1. TypeOK'
  <2>1. CASE OpenPart
    BY <2>1 DEF TypeOK, OpenPart, AfterOpening
  <2>2. CASE StartDaemon
    BY <2>2 DEF TypeOK, StartDaemon
  <2>3. CASE ListenForSignals
    BY <2>3 DEF TypeOK, ListenForSignals
  <2>4. CASE StartGrpc \/ NotifySignals \/ StartControl \/ FailToStart
    BY <2>4 DEF TypeOK, StartGrpc, NotifySignals, StartControl, FailToStart
  <2> QED
    BY <2>1, <2>2, <2>3, <2>4
<1>2. OpenParts'
  BY DEF TypeOK, OpenParts, Running, OpenPart, AfterOpening, StartDaemon, StartGrpc,
         NotifySignals, StartControl, ListenForSignals, FailToStart
<1>3. NotYet'
  BY DEF TypeOK, NotYet, OpenPart, AfterOpening, StartDaemon, StartGrpc, NotifySignals,
         StartControl, ListenForSignals, FailToStart
<1>4. /\ main' \in Startup \cup {"serving", "failed"}
      /\ main \in Startup
      /\ UNCHANGED <<cancelled, once, stopChan>>
  BY DEF TypeOK, OpenPart, AfterOpening, StartDaemon, StartGrpc, NotifySignals, StartControl,
         ListenForSignals, FailToStart
<1>5. NoMore' /\ OneMessage'
  BY <1>4 DEF NoMore, OneMessage, AfterGrpc, AfterControl
<1> QED
  BY <1>1, <1>2, <1>3, <1>5

\* A signal is fatal, or leaves main() where it is.
LEMMA SignalIInv ==
    ASSUME IInv, Signal
    PROVE  IInv'
<1> USE DEF IInv, Startup, Stopping, Closing, Ended
<1>1. /\ UNCHANGED <<open, cancelled, once, stopChan, deadline, call, request,
                     worker, loop, announcer, stream>>
      /\ main' = main \/ (main \in Startup /\ main' = "killed")
  BY DEF Signal, userVars
<1>2. TypeOK'
  BY DEF TypeOK, Signal, userVars
<1>3. OpenParts' /\ OneMessage'
  BY <1>1 DEF OpenParts, Running, OneMessage
<1>4. NotYet' /\ NoMore'
  BY <1>1 DEF NotYet, NoMore, AfterGrpc, AfterControl, Pending
<1> QED
  BY <1>2, <1>3, <1>4

\* The message for main() is left once.
LEMMA ShutdownType ==
    ASSUME TypeOK, OneMessage, Shutdown
    PROVE  stopChan' \in 0..1 /\ once' = TRUE
BY DEF TypeOK, OneMessage, Shutdown

\* Asking for a shutdown, and its deadline, leave main() where it is.
LEMMA AskIInv ==
    ASSUME IInv,
           \/ ReadSignal \/ Expire
           \/ \E r \in Requests : AcceptShutdown(r) \/ CallShutdown(r)
    PROVE  IInv'
<1> DEFINE Asks == /\ UNCHANGED <<main, open, cancelled, call, worker, loop, announcer, stream>>
                   /\ deadline => deadline'
                   /\ \A r \in Requests : request'[r] = "running" => request[r] = "running"
                   /\ main \in Startup \ {"listen"} => UNCHANGED request
<1>1. TypeOK' /\ OneMessage' /\ Asks
  <2>1. CASE ReadSignal
    <3>1. TypeOK'
      BY <2>1, ShutdownType DEF IInv, TypeOK, ReadSignal, userVars
    <3> QED
      BY <2>1, <3>1, ShutdownType DEF IInv, ReadSignal, OneMessage, userVars
  <2>2. CASE Expire
    <3>1. TypeOK'
      BY <2>2 DEF IInv, TypeOK, Expire, userVars
    <3> QED
      BY <2>2, <3>1 DEF IInv, Expire, OneMessage, userVars
  <2>3. ASSUME NEW r \in Requests, AcceptShutdown(r)
        PROVE  TypeOK' /\ OneMessage' /\ Asks
    <3>1. TypeOK'
      BY <2>3 DEF IInv, TypeOK, AcceptShutdown, stopVars
    <3> QED
      BY <2>3, <3>1 DEF IInv, TypeOK, AcceptShutdown, stopVars, OneMessage, Startup
  <2>4. ASSUME NEW r \in Requests, CallShutdown(r)
        PROVE  TypeOK' /\ OneMessage' /\ Asks
    <3>1. TypeOK'
      BY <2>4, ShutdownType DEF IInv, TypeOK, CallShutdown
    <3>2. main \notin Startup \ {"listen"}
      BY <2>4 DEF IInv, NotYet, CallShutdown
    <3>3. Asks
      BY <2>4, <3>2 DEF IInv, TypeOK, CallShutdown
    <3> QED
      BY <2>4, <3>1, <3>3, ShutdownType DEF IInv, CallShutdown, OneMessage
  <2> QED
    BY <2>1, <2>2, <2>3, <2>4
<1>2. OpenParts'
  BY <1>1 DEF IInv, OpenParts, Running
<1>3. NotYet'
  BY <1>1 DEF IInv, NotYet, Startup
<1>4. NoMore'
  BY <1>1 DEF IInv, NoMore, Pending
<1> QED
  BY <1>1, <1>2, <1>3, <1>4 DEF IInv

\* Each statement of the shutdown waits for what is over after it.
LEMMA StoppingIInv ==
    ASSUME IInv,
           \/ BeginShutdown \/ StopControl \/ StopGrpc \/ StopDaemon
           \/ WaitWorkers \/ ClosePart \/ Exit
    PROVE  IInv'
<1> USE DEF IInv, stopVars, userVars, Parts, Startup, Stopping, Closing, Ended
<1>1. TypeOK'
  <2>1. main' \in Stopping \cup Ended /\ open' \subseteq Parts
    <3>1. CASE ClosePart
      <4>1. main \in {"closeDht", "closeHost", "closeStore"}
        BY <3>1 DEF ClosePart
      <4>2. main' \in {"closeHost", "closeStore", "return"}
        BY <3>1, <4>1 DEF ClosePart, AfterClosing
      <4>3. open' \subseteq open
        BY <3>1 DEF ClosePart
      <4> QED
        BY <4>2, <4>3 DEF TypeOK
    <3>2. CASE ~ClosePart
      BY <3>2 DEF TypeOK, BeginShutdown, StopControl, StopGrpc, StopDaemon, WaitWorkers, Exit
    <3> QED
      BY <3>1, <3>2
  <2>2. cancelled' \in BOOLEAN /\ stopChan' \in 0..1
    <3>1. cancelled' = cancelled \/ cancelled' = TRUE
      BY DEF BeginShutdown, StopControl, StopGrpc, StopDaemon, WaitWorkers, ClosePart, Exit
    <3>2. stopChan' = stopChan \/ stopChan' = 0
      BY DEF BeginShutdown, StopControl, StopGrpc, StopDaemon, WaitWorkers, ClosePart, Exit
    <3>3. cancelled \in BOOLEAN /\ stopChan \in 0..1
      BY DEF TypeOK
    <3>4. cancelled' \in BOOLEAN
      BY <3>1, <3>3
    <3> QED
      BY <3>2, <3>3, <3>4
  <2>3. UNCHANGED <<signalled, sigChan, sigReader, once, deadline, userVars>>
    BY DEF BeginShutdown, StopControl, StopGrpc, StopDaemon, WaitWorkers, ClosePart, Exit
  <2> QED
    BY <2>1, <2>2, <2>3 DEF TypeOK
<1>2. OpenParts'
  BY DEF TypeOK, OpenParts, Running, BeginShutdown, StopControl, StopGrpc, StopDaemon,
         WaitWorkers, ClosePart, AfterClosing, PartClosed, Exit
<1>3. main' \notin Startup /\ UNCHANGED <<call, request, worker, deadline>>
  BY DEF BeginShutdown, StopControl, StopGrpc, StopDaemon, WaitWorkers, ClosePart, AfterClosing, Exit
<1>4. NotYet'
  BY <1>3 DEF NotYet
<1>5. OneMessage'
  BY DEF OneMessage, BeginShutdown, StopControl, StopGrpc, StopDaemon, WaitWorkers, ClosePart, Exit
<1>6. NoMore'
  <2>1. CASE BeginShutdown \/ StopControl \/ StopGrpc \/ StopDaemon
    BY <1>3, <2>1 DEF NoMore, AfterGrpc, AfterControl, Pending, BeginShutdown, StopControl,
                      StopGrpc, StopDaemon
  <2>2. CASE WaitWorkers \/ ClosePart \/ Exit
    BY <1>3, <2>2 DEF NoMore, AfterGrpc, AfterControl, Pending, WaitWorkers, ClosePart,
                      AfterClosing, Exit
  <2> QED
    BY <2>1, <2>2
<1> QED
  BY <1>1, <1>2, <1>4, <1>5, <1>6

\* The users come when they may, and do not come back.
LEMMA UsersIInv ==
    ASSUME IInv,
           \/ \E c \in Calls : Accept(c) \/ Hang(c) \/ Answer(c)
           \/ \E r \in Requests : AcceptRequest(r) \/ FinishRequest(r)
           \/ \E w \in Workers : WorkerStep(w)
           \/ \E l \in Loops : LoopStep(l)
           \/ \E s \in Streams : OpenStream(s) \/ EndStream(s)
           \/ AnnouncerStep
    PROVE  IInv'
<1> USE DEF IInv
<1>0. /\ UNCHANGED <<main, open, cancelled, stopVars>>
      /\ OpenParts' /\ OneMessage'
  BY DEF Accept, Hang, Answer, AcceptRequest, FinishRequest, WorkerStep, LoopStep,
         OpenStream, EndStream, AnnouncerStep, stopVars, OpenParts, OneMessage, Running
<1>1. ASSUME NEW c \in Calls, Accept(c) \/ Hang(c) \/ Answer(c)
      PROVE  TypeOK' /\ NotYet' /\ NoMore'
  <2>1. TypeOK'
    BY <1>1 DEF TypeOK, Accept, Hang, Answer, stopVars, Pending
  <2>2. NotYet'
    BY <1>1 DEF NotYet, TypeOK, Accept, Hang, Answer, Pending, Startup
  <2>3. NoMore'
    BY <1>1 DEF NoMore, TypeOK, Accept, Hang, Answer, stopVars, Pending, AfterGrpc, AfterControl, Closing
  <2> QED
    BY <2>1, <2>2, <2>3
<1>2. ASSUME NEW r \in Requests, AcceptRequest(r) \/ FinishRequest(r)
      PROVE  TypeOK' /\ NotYet' /\ NoMore'
  <2>1. TypeOK'
    BY <1>2 DEF TypeOK, AcceptRequest, FinishRequest, stopVars
  <2>2. NotYet'
    BY <1>2 DEF NotYet, TypeOK, AcceptRequest, FinishRequest, Startup
  <2>3. NoMore'
    BY <1>2 DEF NoMore, TypeOK, AcceptRequest, FinishRequest, stopVars, Pending,
                AfterGrpc, AfterControl, Closing
  <2> QED
    BY <2>1, <2>2, <2>3
<1>3. ASSUME NEW w \in Workers, WorkerStep(w)
      PROVE  TypeOK' /\ NotYet' /\ NoMore'
  <2>1. TypeOK'
    BY <1>3 DEF TypeOK, WorkerStep, stopVars
  <2>2. NotYet'
    BY <1>3 DEF NotYet, TypeOK, WorkerStep
  <2>3. NoMore'
    BY <1>3 DEF NoMore, TypeOK, WorkerStep, stopVars, Pending
  <2> QED
    BY <2>1, <2>2, <2>3
<1>4. ASSUME NEW l \in Loops, LoopStep(l)
      PROVE  TypeOK' /\ NotYet' /\ NoMore'
  <2>1. TypeOK'
    BY <1>4 DEF TypeOK, LoopStep, stopVars
  <2>2. NotYet' /\ NoMore'
    BY <1>4 DEF NotYet, NoMore, TypeOK, LoopStep, stopVars, Pending
  <2> QED
    BY <2>1, <2>2
<1>5. ASSUME NEW s \in Streams, OpenStream(s) \/ EndStream(s)
      PROVE  TypeOK' /\ NotYet' /\ NoMore'
  <2>1. TypeOK'
    BY <1>5 DEF TypeOK, OpenStream, EndStream, stopVars
  <2>2. NotYet'
    BY <1>5 DEF NotYet, OpenParts, Running, TypeOK, OpenStream, EndStream, Ended
  <2>3. NoMore'
    BY <1>5 DEF NoMore, OpenStream, EndStream, stopVars, Pending
  <2> QED
    BY <2>1, <2>2, <2>3
<1>6. ASSUME AnnouncerStep
      PROVE  TypeOK' /\ NotYet' /\ NoMore'
  <2>1. TypeOK'
    BY <1>6 DEF TypeOK, AnnouncerStep, stopVars
  <2>2. NotYet' /\ NoMore'
    BY <1>6 DEF NotYet, NoMore, AnnouncerStep, stopVars, Pending
  <2> QED
    BY <2>1, <2>2
<1> QED
  BY <1>0, <1>1, <1>2, <1>3, <1>4, <1>5, <1>6

-----------------------------------------------------------------------------
(* The theorems. *)

\* Every step preserves the invariant.
LEMMA NextIInv == IInv /\ [Next]_vars => IInv'
<1> SUFFICES ASSUME IInv, [Next]_vars PROVE IInv'
  OBVIOUS
<1>1. CASE Main \/ FailToStart
  BY <1>1, StartupIInv, StoppingIInv DEF Main
<1>2. CASE Signal \/ ReadSignal \/ Expire
  BY <1>2, SignalIInv, AskIInv
<1>3. CASE Users
  BY <1>3, AskIInv, UsersIInv DEF Users
<1>4. CASE UNCHANGED vars
  BY <1>4 DEF vars, stopVars, userVars, IInv, TypeOK, OpenParts, NotYet, NoMore, OneMessage,
              Running, Pending
<1> QED
  BY <1>1, <1>2, <1>3, <1>4 DEF Next

\* The invariant holds in every reachable state.
THEOREM Invariance == Spec => []IInv
BY InitIInv, NextIInv, PTL DEF Spec

\* Every variable keeps its type; in particular stopChan never overflows, so
\* that nobody who asks for a shutdown blocks (main.go 175-181).
THEOREM TypeCorrect == Spec => []TypeOK
<1>1. IInv => TypeOK
  BY DEF IInv
<1> QED
  BY <1>1, Invariance, PTL

\* Nobody but announcements and stream handlers, and after ten seconds requests
\* and workers, is at work when a part is not open (main.go 91-218).
THEOREM PartsOutlived == Spec => []NobodyOutlivesTheParts
<1>1. IInv => NobodyOutlivesTheParts
  <2> SUFFICES ASSUME IInv, Running, open # Parts PROVE NobodyOutlivesTheParts
    BY DEF NobodyOutlivesTheParts
  <2>1. main \in {"store", "host", "dht", "closeHost", "closeStore", "return"}
    BY DEF IInv, OpenParts
  <2>2. CASE main \in {"store", "host", "dht"}
    BY <2>2 DEF IInv, NotYet, NobodyOutlivesTheParts, Startup, Pending
  <2>3. CASE main \in {"closeHost", "closeStore", "return"}
    BY <2>3 DEF IInv, NoMore, NobodyOutlivesTheParts, Startup, Closing, AfterGrpc, AfterControl
  <2> QED
    BY <2>1, <2>2, <2>3
<1> QED
  BY <1>1, Invariance, PTL

\* A gRPC call that is being handled finds the queue running (main.go 207-215).
THEOREM QueueRunning == Spec => []CallsFindTheQueueRunning
<1>1. IInv => CallsFindTheQueueRunning
  BY DEF IInv, NoMore, CallsFindTheQueueRunning, AfterGrpc
<1> QED
  BY <1>1, Invariance, PTL

-----------------------------------------------------------------------------
(* A request to stop is not lost.                                          *)

\* The reader of signals has asked for a shutdown before it ends.
ReaderAsked == sigReader = "gone" => once

\* What passes a request on: the reader, a control request, the one message.
LEMMA AskKeepsStop ==
    ASSUME IInv, ReaderAsked, StopIsNotLost,
           \/ Signal \/ ReadSignal
           \/ \E r \in Requests : CallShutdown(r)
    PROVE  ReaderAsked' /\ StopIsNotLost'
<1> USE DEF IInv, TypeOK, ReaderAsked, StopIsNotLost, Running, Ended
<1>1. CASE Signal
  <2>1. /\ UNCHANGED <<sigReader, once, stopChan>> /\ main \notin Ended
        /\ main' = "killed" \/ (main' = main /\ sigChan' = TRUE)
    BY <1>1 DEF Signal
  <2> QED
    BY <2>1
<1>2. ASSUME Shutdown, Running, UNCHANGED main
      PROVE  once' /\ (stopChan' = 1 \/ main' \in Stopping)
  <2>1. CASE once
    BY <1>2, <2>1 DEF Shutdown
  <2>2. CASE ~once
    BY <1>2, <2>2 DEF Shutdown, OneMessage
  <2> QED
    BY <2>1, <2>2
<1>3. CASE ReadSignal
  BY <1>2, <1>3 DEF ReadSignal
<1>4. ASSUME NEW r \in Requests, CallShutdown(r)
      PROVE  ReaderAsked' /\ StopIsNotLost'
  BY <1>2, <1>4 DEF CallShutdown
<1> QED
  BY <1>1, <1>3, <1>4

\* Only main() takes the message, and it then begins to stop.
LEMMA MainKeepsStop ==
    ASSUME IInv, ReaderAsked, StopIsNotLost, Main \/ FailToStart
    PROVE  ReaderAsked' /\ StopIsNotLost'
<1> USE DEF IInv, TypeOK, ReaderAsked, StopIsNotLost, Running, Ended, Stopping, Closing,
            Startup, Parts, stopVars
<1>1. CASE BeginShutdown
  BY <1>1 DEF BeginShutdown, OneMessage
<1>2. CASE ListenForSignals
  BY <1>2 DEF ListenForSignals
<1>3. ASSUME UNCHANGED stopVars, main \in Startup, main' \in Startup \cup Ended
      PROVE  ReaderAsked' /\ StopIsNotLost'
  BY <1>3
<1>4. CASE OpenPart \/ StartDaemon \/ StartGrpc \/ NotifySignals \/ StartControl \/ FailToStart
  BY <1>3, <1>4 DEF OpenPart, AfterOpening, StartDaemon, StartGrpc, NotifySignals, StartControl,
     FailToStart
<1>5. ASSUME UNCHANGED stopVars, main \in Stopping, main' \in Stopping \cup Ended
      PROVE  ReaderAsked' /\ StopIsNotLost'
  BY <1>5
<1>6. CASE StopControl \/ StopGrpc \/ StopDaemon \/ WaitWorkers \/ Exit
  BY <1>5, <1>6 DEF StopControl, StopGrpc, StopDaemon, WaitWorkers, Exit
<1>7. CASE ClosePart
  BY <1>5, <1>7 DEF ClosePart, AfterClosing
<1> QED
  BY <1>1, <1>2, <1>4, <1>6, <1>7 DEF Main

\* Whenever it comes and whoever sends it, a request to stop reaches main():
\* sigChan's buffer, shutdownOnce and stopChan's buffer lose none.
THEOREM StopNotLost == Spec => []StopIsNotLost
<1>1. Init => ReaderAsked /\ StopIsNotLost
  BY DEF Init, ReaderAsked, StopIsNotLost
<1>2. IInv /\ ReaderAsked /\ StopIsNotLost /\ [Next]_vars => ReaderAsked' /\ StopIsNotLost'
  <2> SUFFICES ASSUME IInv, ReaderAsked, StopIsNotLost, [Next]_vars
               PROVE  ReaderAsked' /\ StopIsNotLost'
    OBVIOUS
  <2>1. CASE Main \/ FailToStart
    BY <2>1, MainKeepsStop
  <2>2. CASE Signal \/ ReadSignal \/ \E r \in Requests : CallShutdown(r)
    BY <2>2, AskKeepsStop
  <2>3. ASSUME UNCHANGED <<main, signalled, sigChan, sigReader, once, stopChan>>
        PROVE  ReaderAsked' /\ StopIsNotLost'
    BY <2>3 DEF ReaderAsked, StopIsNotLost, Running
  <2>4. CASE Expire \/ UNCHANGED vars
    BY <2>3, <2>4 DEF Expire, vars, stopVars
  <2>5. CASE Users /\ ~\E r \in Requests : CallShutdown(r)
    BY <2>3, <2>5 DEF Users, Accept, Hang, Answer, AcceptRequest, FinishRequest, AcceptShutdown,
       WorkerStep, LoopStep, OpenStream, EndStream, AnnouncerStep, stopVars
  <2> QED
    BY <2>1, <2>2, <2>4, <2>5 DEF Next
<1> QED
  BY <1>1, <1>2, Invariance, PTL DEF Spec
=============================================================================
