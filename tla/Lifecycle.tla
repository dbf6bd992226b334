----------------------------- MODULE Lifecycle -----------------------------
(***************************************************************************)
(* The daemon process from main() to its exit: the parts opened one after  *)
(* the other, the signal and POST /shutdown that both end it, the two API  *)
(* servers, Daemon.Stop and the deferred closes, against every goroutine   *)
(* that may still be at work (cmd/daemon/main.go, api/proto/server.go,     *)
(* api/control/server.go, daemon.go, ctr.go).                              *)
(*                                                                         *)
(* main names the statement main() has come to.  What a goroutine does     *)
(* with the parts is not modelled, only that it may be using them.         *)
(***************************************************************************)
EXTENDS Naturals

CONSTANTS
    Calls,      \* gRPC calls
    Requests,   \* control API requests
    Workers,    \* CTR workers
    Loops,      \* announceLoop and metricsLoop
    Streams     \* streams other peers open: index queries, downloads

VARIABLES
    main,       \* the statement main() is at
    open,       \* parts opened and not closed yet
    signalled,  \* an operator has sent a signal
    sigChan,    \* is there a signal in sigChan?
    sigReader,  \* the goroutine that waits for it
    once,       \* has shutdownOnce run?
    stopChan,   \* messages in stopChan, which has room for one
    deadline,   \* has shutdownCtx expired?
    cancelled,  \* Daemon.ctx and ctr.Service.ctx
    call,       \* gRPC calls
    request,    \* control requests
    worker,     \* CTR workers
    loop,       \* periodic loops
    announcer,  \* the initial announcement
    stream      \* stream handlers

stopVars == <<signalled, sigChan, sigReader, once, stopChan, deadline>>
userVars == <<call, request, worker, loop, announcer, stream>>
vars     == <<main, open, cancelled, stopVars, userVars>>

Parts    == {"store", "host", "dht"}
Startup  == {"store", "host", "dht", "daemon", "grpc", "notify", "control", "listen"}
Closing  == {"closeDht", "closeHost", "closeStore", "return"}
Stopping == {"stopControl", "stopGrpc", "stopDaemon", "waitWorkers"} \cup Closing
Ended    == {"exited", "failed", "killed"}
Running  == main \notin Ended

\* Calls that are being handled; a hung one waits for a peer that sends nothing.
Pending(c) == call[c] \in {"running", "hung"}

TypeOK ==
    /\ main \in Startup \cup {"serving"} \cup Stopping \cup Ended
    /\ open \subseteq Parts
    /\ sigReader \in {"off", "waiting", "gone"}
    /\ {signalled, sigChan, once, deadline, cancelled} \subseteq BOOLEAN
    /\ stopChan \in 0..1
    /\ call \in [Calls -> {"none", "running", "hung", "answered"}]
    /\ request \in [Requests -> {"none", "running", "stopping", "done"}]
    /\ worker \in [Workers -> {"off", "idle", "busy", "gone"}]
    /\ loop \in [Loops -> {"off", "idle", "busy", "gone"}]
    /\ announcer \in {"off", "sleeping", "busy", "gone"}
    /\ stream \in [Streams -> {"none", "busy", "done"}]

Init ==
    /\ main = "store"
    /\ open = {}
    /\ sigReader = "off"
    /\ signalled = FALSE /\ sigChan = FALSE /\ once = FALSE
    /\ stopChan = 0 /\ deadline = FALSE /\ cancelled = FALSE
    /\ call = [c \in Calls |-> "none"]
    /\ request = [r \in Requests |-> "none"]
    /\ worker = [w \in Workers |-> "off"]
    /\ loop = [l \in Loops |-> "off"]
    /\ announcer = "off"
    /\ stream = [s \in Streams |-> "none"]

-----------------------------------------------------------------------------
(* Startup. *)

AfterOpening == [store |-> "host", host |-> "dht", dht |-> "daemon"]

\* storage.New, host.New, dht.New.
OpenPart ==
    /\ main \in Parts
    /\ open' = open \cup {main}
    /\ main' = AfterOpening[main]
    /\ UNCHANGED <<cancelled, stopVars, userVars>>

\* One of them, or the gRPC listener, fails: os.Exit, without the deferred closes.
FailToStart ==
    /\ main \in Parts \cup {"grpc"}
    /\ main' = "failed"
    /\ UNCHANGED <<open, cancelled, stopVars, userVars>>

\* Daemon.Start: the workers, the two loops and the initial announcement.
StartDaemon ==
    /\ main = "daemon"
    /\ main' = "grpc"
    /\ worker' = [w \in Workers |-> "idle"]
    /\ loop' = [l \in Loops |-> "idle"]
    /\ announcer' = "sleeping"
    /\ UNCHANGED <<open, cancelled, stopVars, call, request, stream>>

\* The gRPC server listens from here on, before signals are handled.
StartGrpc ==
    /\ main = "grpc"
    /\ main' = "notify"
    /\ UNCHANGED <<open, cancelled, stopVars, userVars>>

NotifySignals ==
    /\ main = "notify"
    /\ main' = "control"
    /\ UNCHANGED <<open, cancelled, stopVars, userVars>>

StartControl ==
    /\ main = "control"
    /\ main' = "listen"
    /\ UNCHANGED <<open, cancelled, stopVars, userVars>>

\* The goroutine on sigChan starts after the control API does.
ListenForSignals ==
    /\ main = "listen"
    /\ main' = "serving"
    /\ sigReader' = "waiting"
    /\ UNCHANGED <<open, cancelled, signalled, sigChan, once, stopChan, deadline, userVars>>

-----------------------------------------------------------------------------
(* The two ways to ask for a shutdown. *)

\* Mutant: sigChan has no buffer, so a signal is lost unless its reader waits.
SignalUnbuffered ==
    /\ Running
    /\ signalled' = TRUE
    /\ \/ /\ main \in Startup \ {"control", "listen"}
          /\ main' = "killed"
          /\ UNCHANGED sigChan
       \/ /\ main \notin Startup \ {"control", "listen"}
          /\ sigChan' = (sigReader = "waiting")
          /\ UNCHANGED main
    /\ UNCHANGED <<open, cancelled, sigReader, once, stopChan, deadline, userVars>>

\* SIGINT or SIGTERM: fatal before signal.Notify, then kept in the buffer of
\* sigChan, or dropped when that is full.
Signal ==
    /\ Running
    /\ signalled' = TRUE
    /\ \/ /\ main \in Startup \ {"control", "listen"}
          /\ main' = "killed"
          /\ UNCHANGED sigChan
       \/ /\ main \notin Startup \ {"control", "listen"}
          /\ sigChan' = TRUE
          /\ UNCHANGED main
    /\ UNCHANGED <<open, cancelled, sigReader, once, stopChan, deadline, userVars>>

\* Mutant: without shutdownOnce every caller sends.
ShutdownEachTime ==
    /\ once' = TRUE
    /\ stopChan' = stopChan + 1

\* The closure shutdown: the first caller leaves a message for main.
Shutdown ==
    /\ once' = TRUE
    /\ stopChan' = IF once THEN stopChan ELSE stopChan + 1

\* The goroutine reads one signal only.
ReadSignal ==
    /\ Running
    /\ sigReader = "waiting" /\ sigChan
    /\ sigReader' = "gone"
    /\ sigChan' = FALSE
    /\ Shutdown
    /\ UNCHANGED <<main, open, cancelled, signalled, deadline, userVars>>

\* handleShutdown answers at once and calls shutdown in a goroutine.
AcceptShutdown(r) ==
    /\ main \in {"listen", "serving"}
    /\ request[r] = "none"
    /\ request' = [request EXCEPT ![r] = "stopping"]
    /\ UNCHANGED <<main, open, cancelled, stopVars, call, worker, loop, announcer, stream>>

CallShutdown(r) ==
    /\ Running
    /\ request[r] = "stopping"
    /\ request' = [request EXCEPT ![r] = "done"]
    /\ Shutdown
    /\ UNCHANGED <<main, open, cancelled, signalled, sigChan, sigReader, deadline,
                   call, worker, loop, announcer, stream>>
-----------------------------------------------------------------------------
(* Shutdown. *)

\* Mutant: the daemon's context ends with the request, before the servers stop.
BeginShutdownCancelled ==
    /\ main = "serving" /\ stopChan = 1
    /\ stopChan' = 0
    /\ main' = "stopControl"
    /\ cancelled' = TRUE
    /\ UNCHANGED <<open, signalled, sigChan, sigReader, once, deadline, userVars>>

BeginShutdown ==
    /\ main = "serving" /\ stopChan = 1
    /\ stopChan' = 0
    /\ main' = "stopControl"
    /\ UNCHANGED <<open, cancelled, signalled, sigChan, sigReader, once, deadline, userVars>>

\* The ten seconds of shutdownCtx are over.
Expire ==
    /\ main \in Stopping
    /\ deadline' = TRUE
    /\ UNCHANGED <<main, open, cancelled, signalled, sigChan, sigReader, once, stopChan, userVars>>

\* Mutant: the control server is shut down without the context.
StopControlUnbounded ==
    /\ main = "stopControl"
    /\ \A r \in Requests : request[r] # "running"
    /\ main' = "stopGrpc"
    /\ UNCHANGED <<open, cancelled, stopVars, userVars>>

\* http.Server.Shutdown waits for requests, or for the context.
StopControl ==
    /\ main = "stopControl"
    /\ deadline \/ \A r \in Requests : request[r] # "running"
    /\ main' = "stopGrpc"
    /\ UNCHANGED <<open, cancelled, stopVars, userVars>>

\* Mutant: Stop in place of GracefulStop.
StopGrpcNow ==
    /\ main = "stopGrpc"
    /\ main' = "stopDaemon"
    /\ UNCHANGED <<open, cancelled, stopVars, userVars>>

\* GracefulStop waits for the calls, however long they take.
StopGrpc ==
    /\ main = "stopGrpc"
    /\ \A c \in Calls : ~Pending(c)
    /\ main' = "stopDaemon"
    /\ UNCHANGED <<open, cancelled, stopVars, userVars>>

\* Daemon.Stop, and Stop of the CTR service up to its wait.
StopDaemon ==
    /\ main = "stopDaemon"
    /\ cancelled' = TRUE
    /\ main' = "waitWorkers"
    /\ UNCHANGED <<open, stopVars, userVars>>

\* Mutant: Stop only cancels, it does not wait.
DoNotWaitForWorkers ==
    /\ main = "waitWorkers"
    /\ main' = "closeDht"
    /\ UNCHANGED <<open, cancelled, stopVars, userVars>>

WaitWorkers ==
    /\ main = "waitWorkers"
    /\ deadline \/ \A w \in Workers : worker[w] = "gone"
    /\ main' = "closeDht"
    /\ UNCHANGED <<open, cancelled, stopVars, userVars>>

\* The deferred closes, last opened first.
AfterClosing == [closeDht |-> "closeHost", closeHost |-> "closeStore", closeStore |-> "return"]
PartClosed   == [closeDht |-> "dht", closeHost |-> "host", closeStore |-> "store"]

ClosePart ==
    /\ main \in Closing \ {"return"}
    /\ open' = open \ {PartClosed[main]}
    /\ main' = AfterClosing[main]
    /\ UNCHANGED <<cancelled, stopVars, userVars>>

\* main() returns, and whatever still runs is gone.
Exit ==
    /\ main = "return"
    /\ main' = "exited"
    /\ UNCHANGED <<open, cancelled, stopVars, userVars>>

-----------------------------------------------------------------------------
(* The goroutines that use the parts. *)

Accept(c) ==
    /\ main \in {"notify", "control", "listen", "serving", "stopControl"}
    /\ call[c] = "none"
    /\ call' = [call EXCEPT ![c] = "running"]
    /\ UNCHANGED <<main, open, cancelled, stopVars, request, worker, loop, announcer, stream>>

\* Fetch reads from a peer that stays connected and silent: no deadline is
\* set on the stream, and closing the host, which would reset it, comes last.
Hang(c) ==
    /\ Running
    /\ call[c] = "running"
    /\ call' = [call EXCEPT ![c] = "hung"]
    /\ UNCHANGED <<main, open, cancelled, stopVars, request, worker, loop, announcer, stream>>

\* The call returns; a hung one, when its peer goes on or resets the stream.
Answer(c) ==
    /\ Running
    /\ Pending(c)
    /\ call' = [call EXCEPT ![c] = "answered"]
    /\ UNCHANGED <<main, open, cancelled, stopVars, request, worker, loop, announcer, stream>>

AcceptRequest(r) ==
    /\ main \in {"listen", "serving"}
    /\ request[r] = "none"
    /\ request' = [request EXCEPT ![r] = "running"]
    /\ UNCHANGED <<main, open, cancelled, stopVars, call, worker, loop, announcer, stream>>

FinishRequest(r) ==
    /\ Running
    /\ request[r] = "running"
    /\ request' = [request EXCEPT ![r] = "done"]
    /\ UNCHANGED <<main, open, cancelled, stopVars, call, worker, loop, announcer, stream>>

\* A worker may still take a track when both cases of its select are ready.
WorkerStep(w) ==
    /\ Running
    /\ \/ worker[w] = "idle" /\ worker' = [worker EXCEPT ![w] = "busy"]
       \/ worker[w] = "busy" /\ worker' = [worker EXCEPT ![w] = "idle"]
       \/ worker[w] = "idle" /\ cancelled /\ worker' = [worker EXCEPT ![w] = "gone"]
    /\ UNCHANGED <<main, open, cancelled, stopVars, call, request, loop, announcer, stream>>

\* So may a loop with a tick that is already there.
LoopStep(l) ==
    /\ Running
    /\ \/ loop[l] = "idle" /\ loop' = [loop EXCEPT ![l] = "busy"]
       \/ loop[l] = "busy" /\ loop' = [loop EXCEPT ![l] = "idle"]
       \/ loop[l] = "idle" /\ cancelled /\ loop' = [loop EXCEPT ![l] = "gone"]
    /\ UNCHANGED <<main, open, cancelled, stopVars, call, request, worker, announcer, stream>>

\* The initial announcement: five seconds of sleep, one pass, under no context
\* of the daemon's.
AnnouncerStep ==
    /\ Running
    /\ \/ announcer = "sleeping" /\ announcer' = "busy"
       \/ announcer = "busy" /\ announcer' = "gone"
    /\ UNCHANGED <<main, open, cancelled, stopVars, call, request, worker, loop, stream>>

\* Peers open streams from the time the handlers are set until the host closes.
OpenStream(s) ==
    /\ "host" \in open
    /\ main \notin Ended \cup {"dht"}
    /\ stream[s] = "none"
    /\ stream' = [stream EXCEPT ![s] = "busy"]
    /\ UNCHANGED <<main, open, cancelled, stopVars, call, request, worker, loop, announcer>>

EndStream(s) ==
    /\ Running
    /\ stream[s] = "busy"
    /\ stream' = [stream EXCEPT ![s] = "done"]
    /\ UNCHANGED <<main, open, cancelled, stopVars, call, request, worker, loop, announcer>>

Main ==
    \/ OpenPart \/ StartDaemon \/ StartGrpc \/ NotifySignals \/ StartControl
    \/ ListenForSignals \/ BeginShutdown \/ StopControl \/ StopGrpc \/ StopDaemon
    \/ WaitWorkers \/ ClosePart \/ Exit

Users ==
    \/ \E c \in Calls    : Accept(c) \/ Hang(c) \/ Answer(c)
    \/ \E r \in Requests : AcceptRequest(r) \/ FinishRequest(r) \/ AcceptShutdown(r) \/ CallShutdown(r)
    \/ \E w \in Workers  : WorkerStep(w)
    \/ \E l \in Loops    : LoopStep(l)
    \/ \E s \in Streams  : OpenStream(s) \/ EndStream(s)
    \/ AnnouncerStep

Next == Main \/ FailToStart \/ Signal \/ ReadSignal \/ Expire \/ Users

Spec == Init /\ [][Next]_vars

\* main() and the two goroutines that ask it to stop are scheduled, time
\* passes, and a gRPC call ends unless it is hung.  Nothing is assumed of
\* control requests, tracks being processed, announcements and streams.
Fairness ==
    /\ WF_vars(Main) /\ WF_vars(ReadSignal) /\ WF_vars(Expire)
    /\ \A r \in Requests : WF_vars(CallShutdown(r))
    /\ \A c \in Calls : WF_vars(call[c] = "running" /\ Answer(c))

FairSpec == Spec /\ Fairness

-----------------------------------------------------------------------------
(* Properties. *)

\* Who may be at work when a part is not open: announcements and stream
\* handlers, which nothing waits for, and, when the ten seconds were over
\* first, control requests and workers.  Never a gRPC call, and nobody at all
\* during startup (main.go 91-218, daemon.go 95-98, server.go 72-77).
NobodyOutlivesTheParts ==
    Running /\ open # Parts =>
        /\ \A c \in Calls : ~Pending(c)
        /\ main \in Startup \/ ~deadline =>
              /\ \A r \in Requests : request[r] # "running"
              /\ \A w \in Workers : worker[w] # "busy"
        /\ main \in Startup =>
              /\ \A l \in Loops : loop[l] # "busy"
              /\ \A s \in Streams : stream[s] # "busy"
              /\ announcer # "busy"

\* While a gRPC call is being handled the workers still take tracks, so a track
\* that the call adds is not dropped for a queue that has stopped (the order of
\* main.go 207-215; ctr.go 95-97).
CallsFindTheQueueRunning == (\E c \in Calls : Pending(c)) => ~cancelled

\* No request to stop is ever lost between the goroutines that pass it on: a
\* signal that did not kill the process waits for its reader, also one sent
\* before the reader has started, or a shutdown has been asked for; and what was
\* asked for waits for main() or is under way (main.go 173-197).
StopIsNotLost == Running =>
    /\ signalled => once \/ (sigChan /\ sigReader # "gone")
    /\ once => stopChan = 1 \/ main \in Stopping

\* The call's peer sends nothing any more.
HangsForGood(c) == [](call[c] = "hung")

\* An accepted gRPC call gets its answer, shutdown or not, unless its peer
\* keeps it hanging for good, or a signal kills the process before signal.Notify.
CallsAreAnswered ==
    \A c \in Calls :
        call[c] = "running" ~> (call[c] = "answered" \/ main = "killed" \/ HangsForGood(c))

\* Whenever it comes, a signal ends the process, unless a call hangs for good, not
\* just for a while: sigChan keeps the one that comes before its reader (main.go
\* 173, 193-197), and GracefulStop goes on when the call does.
SignalEnds ==
    signalled ~> (~Running \/ \E c \in Calls : HangsForGood(c))

\* So does POST /shutdown, whatever workers, requests and announcements do.
ShutdownEnds ==
    \A r \in Requests :
        request[r] = "stopping" ~> (~Running \/ \E c \in Calls : HangsForGood(c))
=============================================================================
