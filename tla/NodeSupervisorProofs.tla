----------------------- MODULE NodeSupervisorProofs -----------------------
(***************************************************************************)
(* Proofs about NodeSupervisor, for any number of plugins, calls and       *)
(* processes: an identity is lost only by misreading its key file, and     *)
(* calls that do not overlap at a plugin leave no daemon of it behind.     *)
(***************************************************************************)
EXTENDS NodeSupervisor, TLAPS

\* The lock of the store lets one process near the key file at a time.
OneOwner == \A p, q \in Procs : Owns(p) /\ Owns(q) => p = q

\* What a process has found, or made, of the key file when it goes on.
KeySteps == \A p \in Procs :
    /\ proc[p] \in {"none", "opening", "keying"} => misread[p] = None
    /\ proc[p] = "generating" => keyFile = misread[p]
    /\ proc[p] = "writing" => keyFile = Torn

\* The inductive invariant of the processes.
KeyInv == OneOwner /\ KeySteps /\ IdentityIsStable

\* While nothing overlaps at its plugin a call is alone there, and between
\* stopNode and the new process the plugin refers to none.
OneCall == \A c \in Calls : calm[at[c]] =>
    /\ \A d \in Calls : at[d] = at[c] /\ Active(c) /\ Active(d) => c = d
    /\ pc[c] \in {"waiting", "spawning"} => nodeProcess[at[c]] = None

\* Until it starts a process, a call knows at most one that it has told to end; only
\* startNode goes on to start one.
MineIsTold == \A c \in Calls :
    /\ pc[c] \in {"idle", "taking"} => mine[c] = None
    /\ pc[c] \in {"waiting", "spawning"} => mine[c] = None \/ told[mine[c]] # "no"
    /\ pc[c] = "spawning" => c \in Starts

\* The inductive invariant of the calls.
CallInv == OneCall /\ MineIsTold /\ NoOrphans

\* The inductive invariant.
IInv == TypeOK /\ KeyInv /\ CallInv

-----------------------------------------------------------------------------
(* Types. *)

\* Nothing runs in the beginning.
LEMMA InitIInv == Init => IInv
BY NamesAssumption
   DEF Init, IInv, TypeOK, KeyInv, OneOwner, KeySteps, IdentityIsStable,
       CallInv, OneCall, MineIsTold, NoOrphans, Owns, Alive, Active

\* Steps of the plugin keep every type.
LEMMA CallType ==
    ASSUME TypeOK, NEW o \in Calls,
           \/ Call(o) \/ Detach(o) \/ TakeProcess(o) \/ WaitForProcess(o)
           \/ StartProcess(o) \/ StartFails(o) \/ Probe(o) \/ Cancelled(o)
    PROVE  TypeOK'
<1> USE DEF TypeOK, Goto, AfterStop, procVars
<1>1. CASE Call(o)
  BY <1>1 DEF Call
<1>2. CASE Detach(o)
  BY <1>2 DEF Detach
<1>3. CASE TakeProcess(o)
  BY <1>3 DEF TakeProcess
<1>4. CASE WaitForProcess(o)
  BY <1>4 DEF WaitForProcess
<1>5. CASE StartProcess(o)
  BY <1>5 DEF StartProcess
<1>6. CASE StartFails(o)
  BY <1>6 DEF StartFails
<1>7. CASE Probe(o)
  BY <1>7 DEF Probe
<1>8. CASE Cancelled(o)
  BY <1>8 DEF Cancelled
<1> QED
  BY <1>1, <1>2, <1>3, <1>4, <1>5, <1>6, <1>7, <1>8

\* So do steps of the processes.
LEMMA ProcType ==
    ASSUME TypeOK, NEW p \in Procs,
           \/ OpenStore(p) \/ LoadKey(p) \/ GenerateKey(p)
           \/ CreateKeyFile(p) \/ WriteKey(p) \/ Die(p)
    PROVE  TypeOK'
BY DEF TypeOK, Become, pluginVars, OpenStore, LoadKey, GenerateKey, CreateKeyFile, WriteKey, Die

-----------------------------------------------------------------------------
(* The identity. *)

\* Starting a process, or telling one to end, takes nothing from the key.
LEMMA CallKey ==
    ASSUME IInv, NEW o \in Calls,
           \/ Call(o) \/ Detach(o) \/ TakeProcess(o) \/ WaitForProcess(o)
           \/ StartProcess(o) \/ StartFails(o) \/ Probe(o) \/ Cancelled(o)
    PROVE  KeyInv'
<1>1. UNCHANGED <<id, keyFile, misread>>
  BY DEF Call, Detach, TakeProcess, WaitForProcess, StartProcess, StartFails, Probe,
         Cancelled, procVars
<1>2. \A p \in Procs : proc'[p] = proc[p] \/ (proc[p] = "none" /\ proc'[p] = "opening")
  BY DEF Call, Detach, TakeProcess, WaitForProcess, StartProcess, StartFails, Probe,
         Cancelled, procVars, IInv, TypeOK
<1> QED
  BY <1>1, <1>2 DEF IInv, KeyInv, OneOwner, KeySteps, IdentityIsStable, Owns

\* A process that found the key file whole and reached the point of emptying it
\* has misread it; one that is writing has found it so.
LEMMA AllLost ==
    ASSUME IInv, NEW p \in Procs, proc[p] \in {"generating", "writing"}
    PROVE  \A r \in Procs : id[r] # None => \E q \in Procs : misread[q] = id[r]
BY NamesAssumption DEF IInv, TypeOK, KeyInv, KeySteps, IdentityIsStable

\* The owner of the lock is the only one to look at the key file or write it.
LEMMA ProcKey ==
    ASSUME IInv, NEW p \in Procs,
           \/ OpenStore(p) \/ LoadKey(p) \/ GenerateKey(p)
           \/ CreateKeyFile(p) \/ WriteKey(p) \/ Die(p)
    PROVE  KeyInv'
<1> USE DEF IInv, KeyInv, Become
<1>1. CASE OpenStore(p)
  BY <1>1 DEF OpenStore, OneOwner, KeySteps, IdentityIsStable, Owns, TypeOK
<1>2. CASE LoadKey(p)
  <2>1. OneOwner' /\ KeySteps'
    BY <1>2 DEF LoadKey, OneOwner, KeySteps, Owns, TypeOK
  <2>2. IdentityIsStable'
    BY <1>2 DEF LoadKey, IdentityIsStable, TypeOK
  <2> QED
    BY <2>1, <2>2
<1>3. CASE GenerateKey(p)
  <2>1. OneOwner' /\ KeySteps'
    BY <1>3 DEF GenerateKey, OneOwner, KeySteps, Owns, TypeOK
  <2>2. ASSUME NEW r \in Procs, id[r] # None, keyFile # id[r]
        PROVE  \E q \in Procs : misread'[q] = id[r]
    <3>1. PICK q \in Procs : misread[q] = id[r]
      BY <2>2 DEF IdentityIsStable
    <3>2. q # p
      BY <1>3, <2>2, <3>1 DEF GenerateKey, KeySteps
    <3> QED
      BY <1>3, <3>1, <3>2 DEF GenerateKey, TypeOK
  <2>3. IdentityIsStable'
    BY <1>3, <2>2 DEF GenerateKey, IdentityIsStable, TypeOK
  <2> QED
    BY <2>1, <2>3
<1>4. CASE CreateKeyFile(p)
  <2>1. OneOwner' /\ KeySteps'
    BY <1>4 DEF CreateKeyFile, OneOwner, KeySteps, Owns, TypeOK
  <2>2. \A r \in Procs : proc'[r] # "up"
    BY <1>4 DEF CreateKeyFile, OneOwner, Owns, TypeOK
  <2> QED
    BY <1>4, <2>1, <2>2, AllLost DEF CreateKeyFile, IdentityIsStable
<1>5. CASE WriteKey(p)
  <2>1. OneOwner' /\ KeySteps'
    BY <1>5 DEF WriteKey, OneOwner, KeySteps, Owns, TypeOK
  <2>2. \A r \in Procs : proc'[r] = "up" => r = p
    BY <1>5 DEF WriteKey, OneOwner, Owns, TypeOK
  <2>3. /\ id' = [id EXCEPT ![p] = p] /\ keyFile' = p /\ misread' = misread
        /\ proc[p] = "writing"
    BY <1>5 DEF WriteKey
  <2>4. \A r \in Procs : id'[r] # None => keyFile' = id'[r] \/ \E q \in Procs : misread'[q] = id'[r]
    BY <2>3, AllLost DEF TypeOK
  <2>5. IdentityIsStable'
    BY <2>2, <2>3, <2>4 DEF IdentityIsStable, TypeOK
  <2> QED
    BY <2>1, <2>5
<1>6. CASE Die(p)
  BY <1>6 DEF Die, OneOwner, KeySteps, IdentityIsStable, Owns, TypeOK
<1> QED
  BY <1>1, <1>2, <1>3, <1>4, <1>5, <1>6

-----------------------------------------------------------------------------
(* The calls. *)

\* What a process does by itself makes no process alive.
LEMMA ProcCall ==
    ASSUME IInv, NEW p \in Procs,
           \/ OpenStore(p) \/ LoadKey(p) \/ GenerateKey(p)
           \/ CreateKeyFile(p) \/ WriteKey(p) \/ Die(p)
    PROVE  CallInv'
<1>1. UNCHANGED <<pluginVars, told>>
  BY DEF OpenStore, LoadKey, GenerateKey, CreateKeyFile, WriteKey, Die
<1>2. \A q \in Procs : Alive(q)' => Alive(q)
  BY DEF OpenStore, LoadKey, GenerateKey, CreateKeyFile, WriteKey, Die, Become, Alive, IInv, TypeOK
<1> QED
  BY <1>1, <1>2 DEF IInv, CallInv, OneCall, MineIsTold, NoOrphans, pluginVars, Active

\* A call that changes no process and no reference, and begins nothing.
LEMMA Idle ==
    ASSUME IInv, NEW o \in Calls, calm' = calm, at' = at, mine' = mine,
           UNCHANGED <<nodeProcess, proc>>,
           \A p \in Procs : told[p] # "no" => told'[p] # "no",
           \A c \in Calls : pc'[c] = pc[c] \/ pc'[c] \in {"started", "stopped", "failed"}
                            \/ (c = o /\ o \in Starts /\ pc[o] = "waiting" /\ pc'[c] = "spawning")
    PROVE  CallInv'
<1>1. \A c \in Calls : Active(c)' => Active(c)
  BY DEF Active
<1>2. OneCall'
  BY <1>1 DEF IInv, CallInv, OneCall, Active
<1>3. MineIsTold'
  BY DEF IInv, TypeOK, CallInv, MineIsTold
<1>4. NoOrphans'
  BY DEF IInv, CallInv, NoOrphans, Alive
<1> QED
  BY <1>2, <1>3, <1>4 DEF CallInv

\* A call begins: the one call at its plugin, or not calm any more.
LEMMA CallBegins ==
    ASSUME IInv, NEW o \in Calls, pc[o] = "idle", pc' = [pc EXCEPT ![o] = "taking"],
           UNCHANGED <<nodeProcess, at, mine, procVars>>,
           NEW alone \in BOOLEAN,
           alone => \A c \in Calls : Active(c) => at[c] # at[o],
           calm' = [calm EXCEPT ![at[o]] = @ /\ alone]
    PROVE  CallInv'
<1>1. \A c \in Calls : c # o => pc'[c] = pc[c]
  BY DEF IInv, TypeOK
<1>2. \A c \in Calls : /\ calm'[at[c]] => calm[at[c]]
                       /\ calm'[at[c]] /\ at[c] = at[o] => alone
  BY DEF IInv, TypeOK
<1>3. pc'[o] = "taking"
  BY DEF IInv, TypeOK
<1>4. OneCall'
  <2>1. ASSUME NEW c \in Calls, NEW d \in Calls, calm'[at[c]], at[d] = at[c],
               Active(c)', Active(d)'
        PROVE  c = d
    <3>1. CASE c = o \/ d = o
      BY <1>1, <1>2, <2>1, <3>1 DEF Active
    <3>2. CASE c # o /\ d # o
      BY <1>1, <1>2, <2>1, <3>2 DEF IInv, CallInv, OneCall, Active
    <3> QED
      BY <3>1, <3>2
  <2>2. ASSUME NEW c \in Calls, calm'[at[c]], pc'[c] \in {"waiting", "spawning"}
        PROVE  nodeProcess[at[c]] = None
    BY <1>1, <1>2, <1>3, <2>2 DEF IInv, CallInv, OneCall
  <2> QED
    BY <2>1, <2>2 DEF OneCall
<1>5. MineIsTold'
  BY <1>1, <1>3 DEF IInv, CallInv, MineIsTold, procVars
<1>6. NoOrphans'
  BY <1>2 DEF IInv, CallInv, NoOrphans, Alive, procVars, Calls
<1> QED
  BY <1>4, <1>5, <1>6 DEF CallInv

\* A process is taken from its plugin and told to end in one step; a new one is
\* put where there is none.
LEMMA CallCall ==
    ASSUME IInv, NEW o \in Calls,
           \/ Call(o) \/ Detach(o) \/ TakeProcess(o) \/ WaitForProcess(o)
           \/ StartProcess(o) \/ StartFails(o) \/ Probe(o) \/ Cancelled(o)
    PROVE  CallInv'
<1> USE DEF Goto
<1>1. CASE Call(o)
  <2> DEFINE alone == \A c \in Calls : Active(c) => at[c] # at[o]
  <2>1. /\ pc[o] = "idle" /\ pc' = [pc EXCEPT ![o] = "taking"]
        /\ UNCHANGED <<nodeProcess, at, mine, procVars>>
        /\ calm' = [calm EXCEPT ![at[o]] = @ /\ alone]
    BY <1>1 DEF Call
  <2>2. alone \in BOOLEAN
    OBVIOUS
  <2> QED
    BY <2>1, <2>2, CallBegins
<1>2. CASE Detach(o)
  <2>1. calm' = [calm EXCEPT ![at[o]] = @ /\ FALSE]
    BY <1>2 DEF Detach
  <2>2. pc[o] = "idle" /\ pc' = [pc EXCEPT ![o] = "taking"]
    BY <1>2 DEF Detach
  <2>3. UNCHANGED <<nodeProcess, at, mine, procVars>>
    BY <1>2 DEF Detach
  <2> QED
    BY <2>1, <2>2, <2>3, CallBegins
<1>3. CASE TakeProcess(o)
  <2> DEFINE r == nodeProcess[at[o]]
  <2>1. /\ at[o] \in Plugins
        /\ nodeProcess' = [nodeProcess EXCEPT ![at[o]] = None]
        /\ pc[o] = "taking" /\ UNCHANGED <<at, calm, proc>>
        /\ \A c \in Calls : c # o => pc'[c] = pc[c] /\ mine'[c] = mine[c]
        /\ pc'[o] \in {"stopped", "waiting"} \/ (pc'[o] = "spawning" /\ o \in Starts)
    BY <1>3 DEF TakeProcess, AfterStop, IInv, TypeOK, Calls
  <2>2. \A p \in Procs : (told[p] # "no" \/ p = r) => told'[p] # "no"
    BY <1>3, NamesAssumption DEF TakeProcess, IInv, TypeOK
  <2>3. mine[o] = None /\ (mine'[o] = None \/ told'[mine'[o]] # "no")
    <3>1. mine[o] = None
      BY <2>1 DEF IInv, CallInv, MineIsTold
    <3>2. \/ UNCHANGED mine
          \/ r \in Procs /\ mine' = [mine EXCEPT ![o] = r]
      BY <1>3, <2>1 DEF TakeProcess, IInv, TypeOK
    <3> QED
      BY <2>2, <3>1, <3>2 DEF IInv, TypeOK
  <2>4. OneCall'
    <3>1. \A c \in Calls : Active(c)' => Active(c)
      BY <2>1 DEF Active
    <3>2. \A c \in Calls : at[c] \in Plugins
      BY DEF IInv, TypeOK
    <3>3. \A c \in Calls : nodeProcess'[at[c]] = None \/ nodeProcess'[at[c]] = nodeProcess[at[c]]
      BY <2>1, <3>2 DEF IInv, TypeOK
    <3>4. nodeProcess'[at[o]] = None
      BY <2>1 DEF IInv, TypeOK
    <3> QED
      BY <2>1, <3>1, <3>3, <3>4 DEF IInv, CallInv, OneCall
  <2>5. MineIsTold'
    BY <2>1, <2>2, <2>3 DEF IInv, TypeOK, CallInv, MineIsTold
  <2>6. NoOrphans'
    <3> SUFFICES ASSUME NEW p \in Procs, Alive(p), told'[p] = "no"
                 PROVE  \E c \in Starts : mine'[c] = p /\ (nodeProcess'[at[c]] = p \/ ~calm[at[c]])
      BY <2>1 DEF NoOrphans, Alive
    <3>1. PICK c \in Starts : mine[c] = p /\ (nodeProcess[at[c]] = p \/ ~calm[at[c]])
      BY <2>2 DEF IInv, CallInv, NoOrphans
    <3>2. c # o /\ mine'[c] = p
      BY <2>1, <2>3, <3>1, NamesAssumption DEF Calls
    <3>3. nodeProcess[at[c]] = p => at[c] # at[o]
      BY <2>2
    <3> QED
      BY <2>1, <3>1, <3>2, <3>3 DEF IInv, TypeOK, Calls
  <2> QED
    BY <2>4, <2>5, <2>6 DEF CallInv
<1>4. CASE WaitForProcess(o)
  <2>1. \A p \in Procs : told[p] # "no" => told'[p] # "no"
    BY <1>4 DEF WaitForProcess, IInv, TypeOK
  <2>2. \A c \in Calls : pc'[c] = pc[c] \/ pc'[c] \in {"started", "stopped", "failed"}
                         \/ (c = o /\ o \in Starts /\ pc[o] = "waiting" /\ pc'[c] = "spawning")
    BY <1>4 DEF WaitForProcess, AfterStop, IInv, TypeOK, Calls
  <2>3. calm' = calm /\ at' = at /\ mine' = mine /\ UNCHANGED <<nodeProcess, proc>>
    BY <1>4 DEF WaitForProcess
  <2> QED
    BY <2>1, <2>2, <2>3, Idle
<1>5. CASE StartProcess(o)
  <2>1. PICK p \in Procs : /\ proc' = [proc EXCEPT ![p] = "opening"]
                           /\ nodeProcess' = [nodeProcess EXCEPT ![at[o]] = p]
                           /\ mine' = [mine EXCEPT ![o] = p]
    BY <1>5 DEF StartProcess
  <2>2. /\ pc[o] = "spawning" /\ UNCHANGED <<at, calm, told>>
        /\ at[o] \in Plugins
        /\ pc' = [pc EXCEPT ![o] = "probing"]
    BY <1>5 DEF StartProcess, IInv, TypeOK
  <2>3. \A c \in Calls : c # o => pc'[c] = pc[c] /\ mine'[c] = mine[c]
    BY <2>1, <2>2 DEF IInv, TypeOK
  <2>4. /\ pc'[o] = "probing" /\ mine'[o] = p
        /\ \A c \in Calls : at[c] # at[o] => nodeProcess'[at[c]] = nodeProcess[at[c]]
        /\ nodeProcess'[at[o]] = p
    BY <2>1, <2>2 DEF IInv, TypeOK
  <2>5. ASSUME NEW c \in Calls, c # o, calm[at[c]], at[c] = at[o]
        PROVE  ~Active(c)
    BY <2>2, <2>5 DEF IInv, CallInv, OneCall, Active
  <2>6. OneCall'
    <3>1. ASSUME NEW c \in Calls, calm[at[c]], pc'[c] \in {"waiting", "spawning"}
          PROVE  nodeProcess'[at[c]] = None
      <4>1. c # o /\ pc[c] \in {"waiting", "spawning"}
        BY <2>3, <2>4, <3>1
      <4>2. at[c] # at[o]
        BY <2>5, <3>1, <4>1 DEF Active
      <4> QED
        BY <2>4, <3>1, <4>1, <4>2 DEF IInv, CallInv, OneCall
    <3>2. \A c \in Calls : Active(c)' => Active(c)
      BY <2>2, <2>3 DEF Active
    <3> QED
      BY <2>2, <3>1, <3>2 DEF IInv, CallInv, OneCall
  <2>7. MineIsTold'
    BY <2>2, <2>3, <2>4 DEF IInv, CallInv, MineIsTold
  <2>8. NoOrphans'
    <3> SUFFICES ASSUME NEW q \in Procs, Alive(q)', told[q] = "no"
                 PROVE  \E c \in Starts : mine'[c] = q /\ (nodeProcess'[at[c]] = q \/ ~calm[at[c]])
      BY <2>2 DEF NoOrphans
    <3>1. CASE q = p
      <4>1. o \in Starts
        BY <2>2 DEF IInv, CallInv, MineIsTold
      <4> QED
        BY <2>4, <3>1, <4>1
    <3>2. CASE q # p
      <4>1. Alive(q)
        BY <2>1, <3>2 DEF Alive, IInv, TypeOK
      <4>2. PICK c \in Starts : mine[c] = q /\ (nodeProcess[at[c]] = q \/ ~calm[at[c]])
        BY <4>1 DEF IInv, CallInv, NoOrphans
      <4>3. c # o
        BY <2>2, <4>2, NamesAssumption DEF IInv, CallInv, MineIsTold
      <4>4. mine'[c] = q
        BY <2>3, <4>2, <4>3 DEF Calls
      <4>5. nodeProcess[at[c]] = q => at[c] # at[o] \/ ~calm[at[c]]
        BY <2>2, NamesAssumption DEF IInv, CallInv, OneCall
      <4> QED
        BY <2>4, <4>2, <4>4, <4>5 DEF Calls
    <3> QED
      BY <3>1, <3>2
  <2> QED
    BY <2>6, <2>7, <2>8 DEF CallInv
<1>6. CASE StartFails(o) \/ Probe(o) \/ Cancelled(o)
  <2>1. UNCHANGED <<calm, at, mine, nodeProcess, proc, told>>
    BY <1>6 DEF StartFails, Probe, Cancelled, procVars
  <2>2. \A c \in Calls : pc'[c] = pc[c] \/ pc'[c] \in {"started", "stopped", "failed"}
    BY <1>6 DEF StartFails, Probe, Cancelled, IInv, TypeOK
  <2> QED
    BY <2>1, <2>2, Idle
<1> QED
  BY <1>1, <1>2, <1>3, <1>4, <1>5, <1>6

-----------------------------------------------------------------------------
(* The theorems. *)

\* Every step preserves the invariant.
LEMMA NextIInv == IInv /\ [Next]_vars => IInv'
<1> SUFFICES ASSUME IInv, [Next]_vars PROVE IInv'
  OBVIOUS
<1>1. ASSUME NEW o \in Calls,
             \/ Call(o) \/ Detach(o) \/ TakeProcess(o) \/ WaitForProcess(o)
             \/ StartProcess(o) \/ StartFails(o) \/ Probe(o) \/ Cancelled(o)
      PROVE  IInv'
  BY <1>1, CallType, CallKey, CallCall DEF IInv
<1>2. ASSUME NEW p \in Procs,
             \/ OpenStore(p) \/ LoadKey(p) \/ GenerateKey(p)
             \/ CreateKeyFile(p) \/ WriteKey(p) \/ Die(p)
      PROVE  IInv'
  BY <1>2, ProcType, ProcKey, ProcCall DEF IInv
<1>3. CASE UNCHANGED vars
  BY <1>3 DEF vars, pluginVars, procVars, IInv, TypeOK, KeyInv, OneOwner, KeySteps,
              IdentityIsStable, CallInv, OneCall, MineIsTold, NoOrphans, Owns, Alive, Active
<1> QED
  BY <1>1, <1>2, <1>3 DEF Next

\* The invariant holds in every reachable state.
THEOREM Invariance == Spec => []IInv
BY InitIInv, NextIInv, PTL DEF Spec

\* Every variable keeps its type (CotuneNodePlugin.kt, host/key.go).
THEOREM TypeCorrect == Spec => []TypeOK
<1>1. IInv => TypeOK
  BY DEF IInv
<1> QED
  BY <1>1, Invariance, PTL

\* An up daemon runs under the key on disk, and an identity is lost only by
\* misreading its key file (host/key.go 15-50), with any number of overlapping
\* starts, plugins, and processes that die at any point.
THEOREM OneIdentity == Spec => []IdentityIsStable
<1>1. IInv => IdentityIsStable
  BY DEF IInv, KeyInv
<1> QED
  BY <1>1, Invariance, PTL

\* Calls that do not overlap at their plugin leave no daemon behind that it does not
\* refer to, whatever other plugins do (CotuneNodePlugin.kt 78-205).
THEOREM NoneOrphaned == Spec => []NoOrphans
<1>1. IInv => NoOrphans
  BY DEF IInv, CallInv
<1> QED
  BY <1>1, Invariance, PTL
=============================================================================
