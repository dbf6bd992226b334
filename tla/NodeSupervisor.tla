-------------------------- MODULE NodeSupervisor --------------------------
(***************************************************************************)
(* The Android plugin that starts and stops daemon processes               *)
(* (CotuneNodePlugin.kt), and what the processes do on the data directory  *)
(* they share until they run: take the store's lock (storage.New) and load *)
(* or create the key that is the peer's identity (host.New, host/key.go).  *)
(*                                                                         *)
(* Every engine of the app has a plugin object of its own.  Calls run in   *)
(* coroutines of the plugin they came to.  A key is named after the process*)
(* that generated it.                                                      *)
(***************************************************************************)
EXTENDS Naturals, FiniteSets

CONSTANTS
    Plugins,   \* plugin objects
    Starts,    \* calls of startNode
    Stops,     \* calls of stopNode, by the app or by a plugin that is detached
    Procs,     \* daemon processes that can be started
    None,      \* no process, no identity, no key file
    Torn       \* a key file that is empty or half written

ASSUME NamesAssumption == None \notin Procs /\ Torn \notin Procs /\ None # Torn
ASSUME CallsAssumption == Starts \cap Stops = {}

Calls == Starts \cup Stops

VARIABLES
    nodeProcess,  \* the process a plugin refers to
    detached,     \* has the plugin's scope been cancelled?
    pc,           \* where a call is
    at,           \* the plugin it came to
    mine,         \* the process it stops or has started
    calm,         \* history: the plugin's calls have not overlapped, nor was it detached
    proc,         \* what a process has come to
    told,         \* the signal it was sent last
    id,           \* the identity it runs under
    keyFile,      \* private.key
    misread       \* history: the key file that a process found and could not read

pluginVars == <<nodeProcess, detached, pc, at, mine, calm>>
procVars   == <<proc, told, id, keyFile, misread>>
vars       == <<pluginVars, procVars>>

\* From storage.New to the end a process holds the lock of the Badger directory.
Owns(p)   == proc[p] \in {"keying", "generating", "writing", "up"}
Alive(p)  == proc[p] \notin {"none", "dead"}
Active(o) == pc[o] \in {"taking", "waiting", "spawning", "probing"}

TypeOK ==
    /\ nodeProcess \in [Plugins -> Procs \cup {None}]
    /\ detached \in [Plugins -> BOOLEAN]
    /\ pc \in [Calls -> {"idle", "taking", "waiting", "spawning", "probing",
                         "started", "stopped", "failed"}]
    /\ at \in [Calls -> Plugins]
    /\ mine \in [Calls -> Procs \cup {None}]
    /\ calm \in [Plugins -> BOOLEAN]
    /\ proc \in [Procs -> {"none", "opening", "keying", "generating", "writing", "up", "dead"}]
    /\ told \in [Procs -> {"no", "term", "kill"}]
    /\ id \in [Procs -> Procs \cup {None}]
    /\ keyFile \in Procs \cup {None, Torn}
    /\ misread \in [Procs -> Procs \cup {None, Torn}]

Init ==
    /\ nodeProcess = [i \in Plugins |-> None]
    /\ detached = [i \in Plugins |-> FALSE]
    /\ pc = [o \in Calls |-> "idle"]
    /\ at \in [Calls -> Plugins]
    /\ mine = [o \in Calls |-> None]
    /\ calm = [i \in Plugins |-> TRUE]
    /\ proc = [p \in Procs |-> "none"]
    /\ told = [p \in Procs |-> "no"]
    /\ id = [p \in Procs |-> None]
    /\ keyFile = None
    /\ misread = [p \in Procs |-> None]

-----------------------------------------------------------------------------
(* The plugin. *)

Goto(o, l) == pc' = [pc EXCEPT ![o] = l]

\* Mutant: startNode does not stop the process there is.
CallWithoutStopping(o) ==
    /\ pc[o] = "idle" /\ ~detached[at[o]]
    /\ Goto(o, IF o \in Stops THEN "taking" ELSE "spawning")
    /\ calm' = [calm EXCEPT ![at[o]] = @ /\ \A c \in Calls : Active(c) => at[c] # at[o]]
    /\ UNCHANGED <<nodeProcess, detached, at, mine, procVars>>

\* onMethodCall launches a coroutine.
Call(o) ==
    /\ pc[o] = "idle" /\ ~detached[at[o]]
    /\ Goto(o, "taking")
    /\ calm' = [calm EXCEPT ![at[o]] = @ /\ \A c \in Calls : Active(c) => at[c] # at[o]]
    /\ UNCHANGED <<nodeProcess, detached, at, mine, procVars>>

\* startNode goes on after stopNode.
AfterStop(o) == Goto(o, IF o \in Stops THEN "stopped" ELSE "spawning")

\* stopNode: getAndSet(null), and destroy if there was a process.
TakeProcess(o) ==
    /\ pc[o] = "taking"
    /\ nodeProcess' = [nodeProcess EXCEPT ![at[o]] = None]
    /\ LET p == nodeProcess[at[o]] IN
       \/ p = None /\ AfterStop(o) /\ UNCHANGED <<mine, told>>
       \/ /\ p # None
          /\ mine' = [mine EXCEPT ![o] = p]
          /\ told' = [told EXCEPT ![p] = "term"]
          /\ Goto(o, "waiting")
    /\ UNCHANGED <<detached, at, calm, proc, id, keyFile, misread>>

\* Mutant: waitFor without a timeout.
WaitForEver(o) ==
    /\ pc[o] = "waiting" /\ proc[mine[o]] = "dead"
    /\ AfterStop(o)
    /\ UNCHANGED <<nodeProcess, detached, at, mine, calm, procVars>>

\* Mutant: no destroyForcibly.
WaitOnly(o) ==
    /\ pc[o] = "waiting"
    /\ AfterStop(o)
    /\ UNCHANGED <<nodeProcess, detached, at, mine, calm, procVars>>

\* stopNode: waitFor(5 s), then destroyForcibly, whose effect is not waited for.
WaitForProcess(o) ==
    /\ pc[o] = "waiting"
    /\ AfterStop(o)
    /\ \/ proc[mine[o]] = "dead" /\ UNCHANGED told
       \/ proc[mine[o]] # "dead" /\ told' = [told EXCEPT ![mine[o]] = "kill"]
    /\ UNCHANGED <<nodeProcess, detached, at, mine, calm, proc, id, keyFile, misread>>

\* startNode: the new process replaces whatever nodeProcess refers to.
StartProcess(o) ==
    /\ pc[o] = "spawning"
    /\ \E p \in Procs :
          /\ proc[p] = "none"
          /\ proc' = [proc EXCEPT ![p] = "opening"]
          /\ nodeProcess' = [nodeProcess EXCEPT ![at[o]] = p]
          /\ mine' = [mine EXCEPT ![o] = p]
    /\ Goto(o, "probing")
    /\ UNCHANGED <<detached, at, calm, told, id, keyFile, misread>>

\* There is no daemon binary, or ProcessBuilder.start fails.
StartFails(o) ==
    /\ pc[o] = "spawning"
    /\ Goto(o, "failed")
    /\ UNCHANGED <<nodeProcess, detached, at, mine, calm, procVars>>

\* Two seconds later: is the process alive?  A gRPC server that does not answer
\* yet counts as started.
Probe(o) ==
    /\ pc[o] = "probing"
    /\ Goto(o, IF proc[mine[o]] = "dead" THEN "failed" ELSE "started")
    /\ UNCHANGED <<nodeProcess, detached, at, mine, calm, procVars>>

\* onDetachedFromEngine launches stopNode and cancels the scope; a coroutine that
\* has not begun, or suspends, ends there.
Detach(o) ==
    /\ pc[o] = "idle" /\ o \in Stops /\ ~detached[at[o]]
    /\ detached' = [detached EXCEPT ![at[o]] = TRUE]
    /\ calm' = [calm EXCEPT ![at[o]] = FALSE]
    /\ Goto(o, "taking")
    /\ UNCHANGED <<nodeProcess, at, mine, procVars>>

Cancelled(o) ==
    /\ detached[at[o]]
    /\ pc[o] \in {"taking", "spawning", "probing"}
    /\ Goto(o, "failed")
    /\ UNCHANGED <<nodeProcess, detached, at, mine, calm, procVars>>

-----------------------------------------------------------------------------
(* The processes. *)

Become(p, s) == proc' = [proc EXCEPT ![p] = s]

\* Mutant: the store is opened without its lock.
OpenUnlocked(p) ==
    /\ proc[p] = "opening"
    /\ Become(p, "keying")
    /\ UNCHANGED <<told, id, keyFile, misread, pluginVars>>

\* Mutant: storage.New waits for the lock.
OpenWaiting(p) ==
    /\ proc[p] = "opening" /\ \A q \in Procs : ~Owns(q)
    /\ Become(p, "keying")
    /\ UNCHANGED <<told, id, keyFile, misread, pluginVars>>

\* storage.New: the directory is locked without waiting.
OpenStore(p) ==
    /\ proc[p] = "opening"
    /\ Become(p, IF \E q \in Procs : Owns(q) THEN "dead" ELSE "keying")
    /\ UNCHANGED <<told, id, keyFile, misread, pluginVars>>

\* Mutant: a key that cannot be decoded is used all the same.
LoadAnyKey(p) ==
    /\ proc[p] = "keying" /\ keyFile # None
    /\ id' = [id EXCEPT ![p] = keyFile]
    /\ Become(p, "up")
    /\ UNCHANGED <<told, keyFile, misread, pluginVars>>

\* loadOrGenerateKey, with a key file that it can read: one that cannot be decoded
\* is an error.
LoadKey(p) ==
    /\ proc[p] = "keying" /\ keyFile # None
    /\ \/ keyFile = Torn /\ Become(p, "dead") /\ UNCHANGED id
       \/ /\ keyFile # Torn
          /\ id' = [id EXCEPT ![p] = keyFile]
          /\ Become(p, "up")
    /\ UNCHANGED <<told, keyFile, misread, pluginVars>>

\* Whatever os.ReadFile fails with, a key is generated, not only when there is no
\* file; it is written in place, over what is there: first the file is created, or
\* emptied.
GenerateKey(p) ==
    /\ proc[p] = "keying"
    /\ misread' = [misread EXCEPT ![p] = keyFile]
    /\ Become(p, "generating")
    /\ UNCHANGED <<told, id, keyFile, pluginVars>>

CreateKeyFile(p) ==
    /\ proc[p] = "generating"
    /\ keyFile' = Torn
    /\ Become(p, "writing")
    /\ UNCHANGED <<told, id, misread, pluginVars>>

WriteKey(p) ==
    /\ proc[p] = "writing"
    /\ keyFile' = p
    /\ id' = [id EXCEPT ![p] = p]
    /\ Become(p, "up")
    /\ UNCHANGED <<told, misread, pluginVars>>

\* A crash, a failed start, the end after SIGTERM, SIGKILL.
Die(p) ==
    /\ Alive(p)
    /\ Become(p, "dead")
    /\ UNCHANGED <<told, id, keyFile, misread, pluginVars>>

Next ==
    \/ \E o \in Calls :
          \/ Call(o) \/ Detach(o) \/ TakeProcess(o) \/ WaitForProcess(o)
          \/ StartProcess(o) \/ StartFails(o) \/ Probe(o) \/ Cancelled(o)
    \/ \E p \in Procs :
          OpenStore(p) \/ LoadKey(p) \/ GenerateKey(p) \/ CreateKeyFile(p) \/ WriteKey(p) \/ Die(p)

Spec == Init /\ [][Next]_vars

\* Coroutines and processes are scheduled, waitFor times out, SIGKILL works.
\* SIGTERM alone need not: shutting down may wait for a hung call (Lifecycle).
Fairness ==
    /\ \A o \in Calls : WF_vars(TakeProcess(o) \/ WaitForProcess(o) \/ StartProcess(o)
                                \/ StartFails(o) \/ Probe(o))
    /\ \A p \in Procs :
          /\ WF_vars(OpenStore(p) \/ LoadKey(p) \/ GenerateKey(p) \/ CreateKeyFile(p) \/ WriteKey(p))
          /\ WF_vars(told[p] = "kill" /\ Die(p))

FairSpec == Spec /\ Fairness

-----------------------------------------------------------------------------
(* Properties. *)

\* A daemon that is up runs under the key on disk, and an identity that a daemon
\* has run under is lost only to a process that found that very key and could not
\* read it, however starts overlap and wherever processes die (host/key.go 15-50;
\* storage.New comes before host.New, main.go 91-111).
IdentityIsStable == \A p \in Procs :
    /\ proc[p] = "up" => keyFile = id[p]
    /\ id[p] # None => keyFile = id[p] \/ \E q \in Procs : misread[q] = id[p]

\* Every live process has been told to end or can be, by the plugin that started
\* it, unless calls of that very plugin overlapped or it was detached: what the
\* app's other engines do takes no process from it (startNode 78-189).
NoOrphans == \A p \in Procs : Alive(p) =>
    \/ told[p] # "no"
    \/ \E o \in Starts : mine[o] = p /\ (nodeProcess[at[o]] = p \/ ~calm[at[o]])

\* A process a plugin has stopped ends, even one that is stuck in its shutdown
\* (stopNode 191-205).
StoppedProcessesEnd == \A p \in Procs : told[p] # "no" ~> proc[p] = "dead"

\* Every call is answered or cancelled, whatever the process it waits for does.
CallsReturn == \A o \in Calls : Active(o) ~> ~Active(o)

\* However calls overlap and plugins come and go, in the end there is at most one
\* daemon on the data directory: the others do not wait for the lock.
OneDaemonIsLeft == <>[](Cardinality({p \in Procs : Alive(p)}) <= 1)
=============================================================================
