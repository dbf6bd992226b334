-------------------------- MODULE BootstrapProofs --------------------------
(***************************************************************************)
(* Proofs about Bootstrap, for any number of nodes, addresses and callers: *)
(* an announcement is given up only by a daemon that was cut off.          *)
(***************************************************************************)
EXTENDS Bootstrap, TLAPS

\* What a call knows: a connection that has lasted was there when it looked, and
\* one that gives up had seen none and found no routing at its end.
CallInv == \A c \in Users :
    /\ linked[c] => seen[c]
    /\ pc[c] = "blocked" => ~finds[c] /\ ~seen[c] /\ ~routed[c]

\* What has lasted is there now.
LastingInv == \A c \in Users : routed[c] => hasUsableRouting

\* The loop starts when New is done.
StartInv == pc[New] = "dial" => pc[Loop] = "off"

\* The inductive invariant.
IInv == TypeOK /\ StartInv /\ CallInv /\ LastingInv

-----------------------------------------------------------------------------

\* The names of the processes.
LEMMA Names == /\ New \in Processes /\ Loop \in Processes /\ New # Loop
               /\ New \notin Users /\ Loop \notin Users
               /\ Users \subseteq Processes
               /\ \A a \in Addrs : NodeAt[a] \in Nodes
BY ProcessesAssumption, NodesAssumption DEF Processes, Nodes

\* Nothing is known in the beginning.
LEMMA InitIInv == Init => IInv
<1> SUFFICES ASSUME Init PROVE IInv
  OBVIOUS
<1>1. /\ {finds, seen, linked, routed} \subseteq [Users -> BOOLEAN]
      /\ node \in [Boots -> {"down", "starting", "up", "closing"}]
      /\ left \in [Processes -> SUBSET Addrs]
  BY DEF Init
<1>2. /\ pc \in [Processes -> Under \cup {"idle", "blocked", "done", "off", "wait", "lost", "gone"}]
      /\ pc[New] = "dial" /\ pc[Loop] = "off" /\ \A c \in Users : pc[c] = "idle"
  BY Names DEF Init, Under
<1>3. \A x \in Processes : left[x] # {} => pc[x] = "dial"
  BY DEF Init
<1>4. TypeOK
  BY <1>1, <1>2, <1>3 DEF Init, TypeOK
<1> QED
  BY <1>2, <1>4 DEF Init, IInv, StartInv, CallInv, LastingInv

\* History has the right type, and what it says has lasted is there.
LEMMA HistoryLasts ==
    ASSUME History
    PROVE  /\ linked' \in [Users -> BOOLEAN] /\ routed' \in [Users -> BOOLEAN]
           /\ LastingInv'
           /\ \A c \in Users : routed'[c] => pc[c] = "idle" \/ routed[c]
           /\ \A c \in Users : linked'[c] => /\ pc'[c] # "idle" /\ peers' # {}
                                             /\ pc[c] = "idle" \/ linked[c]
BY DEF History, LastingInv, hasUsableRouting

\* Three things may happen to a call in a step.
Returns(c) == pc'[c] = "idle"
Begins(c)  == pc'[c] = "check" /\ seen'[c] = (peers' # {})
GoesOn(c)  == /\ pc[c] # "idle" /\ finds'[c] = finds[c] /\ seen'[c] = seen[c]
              /\ pc'[c] = "blocked" =>
                    pc[c] = "blocked" \/ (~finds[c] /\ ~seen[c] /\ table' = {})

\* Each of them keeps what calls know.
LEMMA CallStep ==
    ASSUME CallInv, History, \A c \in Users : Returns(c) \/ Begins(c) \/ GoesOn(c)
    PROVE  CallInv' /\ LastingInv'
BY HistoryLasts DEF CallInv, LastingInv, Returns, Begins, GoesOn, hasUsableRouting

\* A step that leaves all calls alone is one of the three for each of them.
LEMMA Untouched ==
    ASSUME UNCHANGED <<finds, seen>>, TypeOK, \A c \in Users : pc'[c] = pc[c]
    PROVE  \A c \in Users : Returns(c) \/ Begins(c) \/ GoesOn(c)
BY DEF Returns, GoesOn

\* So is a step of one call, if it is for that one.
LEMMA OneTouched ==
    ASSUME TypeOK, NEW c \in Users, Returns(c) \/ Begins(c) \/ GoesOn(c),
           \A d \in Users : d # c => pc'[d] = pc[d] /\ finds'[d] = finds[d] /\ seen'[d] = seen[d]
    PROVE  \A d \in Users : Returns(d) \/ Begins(d) \/ GoesOn(d)
<1> TAKE d \in Users
<1>1. CASE d = c
  BY <1>1
<1>2. CASE d # c
  BY <1>2 DEF Returns, GoesOn
<1> QED
  BY <1>1, <1>2

-----------------------------------------------------------------------------
(* The network. *)

\* What the network does changes no goroutine.
NetworkStep == /\ History /\ UNCHANGED <<closed, pc, left, finds, seen>>
               /\ node' \in [Boots -> {"down", "starting", "up", "closing"}]
               /\ peers' \subseteq Nodes /\ table' \subseteq Nodes

LEMMA EnvironmentIInv ==
    ASSUME IInv, Environment
    PROVE  IInv'
<1>1. NetworkStep
  <2>1. ASSUME NEW b \in Boots,
               StartHost(b) \/ StartDHT(b) \/ StopNode(b) \/ CloseNode(b) \/ CrashNode(b)
        PROVE  NetworkStep
    BY <2>1 DEF StartHost, StartDHT, StopNode, CloseNode, CrashNode, Become, IInv, TypeOK,
                callVars, NetworkStep
  <2>2. ASSUME NEW q \in Nodes,
               Disconnect(q) \/ ConnectToPeer(q) \/ AddToTable(q) \/ Evict(q)
        PROVE  NetworkStep
    BY <2>2 DEF Disconnect, ConnectToPeer, AddToTable, Evict, IInv, TypeOK, callVars, NetworkStep
  <2> QED
    BY <2>1, <2>2 DEF Environment
<1>2. TypeOK'
  BY <1>1, HistoryLasts DEF NetworkStep, IInv, TypeOK, Calling
<1> QED
  BY <1>1, <1>2, Untouched, CallStep DEF NetworkStep, IInv, StartInv

-----------------------------------------------------------------------------
(* The goroutines. *)

\* Where a goroutine may be.
Places(x) ==
    IF x = New THEN {"dial", "done"}
    ELSE IF x = Loop THEN {"off", "wait", "lost", "refresh", "dial", "gone"}
    ELSE Under \cup {"idle", "blocked"}

\* A step of one goroutine to one of its places keeps the types; the addresses
\* it has left are those it is trying.
LEMMA StepType ==
    ASSUME TypeOK, History, UNCHANGED <<node, table>>,
           peers' \subseteq Nodes, closed' \in BOOLEAN,
           finds' \in [Users -> BOOLEAN], seen' \in [Users -> BOOLEAN],
           NEW x \in Processes, NEW l \in Places(x), Goto(x, l),
           left' \in [Processes -> SUBSET Addrs],
           \A y \in Processes : y # x => left'[y] = left[y],
           left'[x] # {} => l = "dial"
    PROVE  TypeOK'
<1>1. pc'[x] = l /\ \A y \in Processes : y # x => pc'[y] = pc[y]
  BY DEF Goto, TypeOK
<1>2. pc' \in [Processes -> Under \cup {"idle", "blocked", "done", "off", "wait", "lost", "gone"}]
  BY DEF Goto, TypeOK, Places, Under
<1>3. pc'[New] \in {"dial", "done"}
  BY <1>1, Names DEF TypeOK, Places
<1>4. pc'[Loop] \in {"off", "wait", "lost", "refresh", "dial", "gone"}
  BY <1>1, Names DEF TypeOK, Places
<1>5. \A c \in Users : Calling(c)' \/ pc'[c] \in {"idle", "blocked"}
  BY <1>1, Names DEF TypeOK, Places, Calling
<1>6. \A y \in Processes : left'[y] # {} => pc'[y] = "dial"
  BY <1>1 DEF TypeOK
<1> QED
  BY <1>2, <1>3, <1>4, <1>5, <1>6, HistoryLasts DEF TypeOK

\* A goroutine that stays where it is makes a step to its own place.
LEMMA Stays ==
    ASSUME TypeOK, NEW x \in Processes, UNCHANGED pc
    PROVE  Goto(x, pc[x]) /\ pc[x] \in Places(x)
BY Names DEF TypeOK, Goto, Places, Calling, Processes

\* An attempt leaves a call where it is, or returns from it.
LEMMA DialIInv ==
    ASSUME IInv, NEW x \in Processes, NEW a \in Addrs,
           Reach(x, a) \/ Miss(x, a) \/ ReachInVain(x, a)
    PROVE  IInv'
<1>1. /\ History /\ UNCHANGED <<node, table, closed>>
      /\ pc[x] = "dial" /\ peers' \subseteq Nodes
      /\ left' \in [Processes -> SUBSET Addrs]
      /\ \A y \in Processes : y # x => left'[y] = left[y]
  BY Names DEF Reach, Miss, ReachInVain, netVars, IInv, TypeOK
<1>2. CASE x \in Users /\ Return(x) /\ left'[x] = {}
  <2>1. /\ finds' \in [Users -> BOOLEAN] /\ seen' \in [Users -> BOOLEAN]
        /\ Goto(x, "idle") /\ "idle" \in Places(x)
    BY <1>2, Names DEF Return, IInv, TypeOK, Places
  <2>2. \A d \in Users : d # x => pc'[d] = pc[d] /\ finds'[d] = finds[d] /\ seen'[d] = seen[d]
    BY <1>2 DEF Return, Goto, IInv, TypeOK
  <2>3. Returns(x)
    BY <1>2 DEF Return, Goto, Returns, IInv, TypeOK
  <2>4. TypeOK'
    BY <1>1, <1>2, <2>1, StepType DEF IInv, TypeOK
  <2>5. StartInv'
    BY <1>2, Names DEF Return, Goto, StartInv, IInv, TypeOK
  <2> QED
    BY <1>1, <1>2, <2>2, <2>3, <2>4, <2>5, OneTouched, CallStep DEF IInv
<1>3. CASE UNCHANGED <<pc, finds, seen>>
  <2>1. TypeOK'
    BY <1>1, <1>3, Stays, StepType DEF IInv, TypeOK
  <2> QED
    BY <1>1, <1>3, <2>1, Untouched, CallStep DEF IInv, StartInv
<1>4. UNCHANGED <<pc, finds, seen>> \/ (x \in Users /\ Return(x) /\ left'[x] = {})
  BY DEF Reach, Miss, ReachInVain, callVars, IInv, TypeOK
<1> QED
  BY <1>2, <1>3, <1>4

\* New starts the loop when it ends.
LEMMA EndNewIInv ==
    ASSUME IInv, EndNew
    PROVE  IInv'
<1>1. /\ History /\ UNCHANGED <<node, peers, table, closed, left, finds, seen>>
      /\ pc' = [pc EXCEPT ![New] = "done", ![Loop] = IF Addrs = {} THEN @ ELSE "wait"]
      /\ left[New] = {}
  BY DEF EndNew, netVars, callVars, Tried
<1>2. /\ pc'[New] = "done" /\ pc'[Loop] \in {pc[Loop], "wait"}
      /\ \A y \in Processes \ {New, Loop} : pc'[y] = pc[y]
  BY <1>1, Names DEF IInv, TypeOK
<1>3. pc' \in [Processes -> Under \cup {"idle", "blocked", "done", "off", "wait", "lost", "gone"}]
  BY <1>1, Names DEF IInv, TypeOK
<1>4. \A c \in Users : pc'[c] = pc[c]
  BY <1>2, Names
<1>5. \A y \in Processes : left[y] # {} => pc'[y] = "dial"
  <2>1. left[New] = {} /\ left[Loop] = {}
    BY <1>1, Names DEF IInv, TypeOK, StartInv, EndNew, Tried
  <2> QED
    BY <1>2, <2>1 DEF IInv, TypeOK
<1>6. \A c \in Users : Calling(c)' \/ pc'[c] \in {"idle", "blocked"}
  BY <1>4 DEF IInv, TypeOK, Calling
<1>7. TypeOK'
  <2>1. /\ pc'[New] \in {"dial", "done"}
        /\ pc'[Loop] \in {"off", "wait", "lost", "refresh", "dial", "gone"}
    BY <1>2 DEF IInv, TypeOK
  <2>2. linked' \in [Users -> BOOLEAN] /\ routed' \in [Users -> BOOLEAN]
    BY <1>1, HistoryLasts
  <2> QED
    BY <1>1, <1>3, <1>5, <1>6, <2>1, <2>2 DEF IInv, TypeOK
<1>8. StartInv'
  BY <1>2 DEF StartInv
<1> QED
  BY <1>1, <1>4, <1>7, <1>8, Untouched, CallStep DEF IInv

\* A step of the loop touches no call.
LEMMA LoopIInv ==
    ASSUME IInv, Tick \/ Restore \/ Refreshed \/ EndRound \/ LeaveLoop
    PROVE  IInv'
<1>1. /\ History /\ UNCHANGED <<node, peers, table, closed, finds, seen>>
      /\ pc[Loop] # "off"
  BY DEF Tick, Restore, Refreshed, EndRound, LeaveLoop, Tried, netVars, callVars
<1> DEFINE Goes(l) == /\ Goto(Loop, l)
                      /\ left' = left \/ left' = [left EXCEPT ![Loop] = Addrs]
                      /\ left'[Loop] # {} => l = "dial"
<1>2. PICK l \in Places(Loop) : Goes(l)
  <2>1. ASSUME NEW l \in {"lost", "refresh", "wait", "gone"}, Goto(Loop, l),
               left' = left, left[Loop] = {}
        PROVE  \E k \in Places(Loop) : Goes(k)
    BY <2>1, Names DEF Places
  <2>2. ASSUME DialAll(Loop)
        PROVE  \E k \in Places(Loop) : Goes(k)
    BY <2>2, Names DEF Places, DialAll
  <2>3. pc[Loop] # "dial" => left[Loop] = {}
    BY Names DEF IInv, TypeOK
  <2> QED
    BY <2>1, <2>2, <2>3 DEF Tick, Restore, Refreshed, EndRound, LeaveLoop, Tried
<1>4. /\ left' \in [Processes -> SUBSET Addrs]
      /\ \A y \in Processes : y # Loop => left'[y] = left[y]
  BY <1>2, Names DEF IInv, TypeOK
<1>5. TypeOK'
  BY <1>1, <1>2, <1>4, StepType, Names DEF IInv, TypeOK
<1>6. (\A c \in Users : pc'[c] = pc[c]) /\ pc'[New] = pc[New]
  BY <1>2, Names DEF Goto, IInv, TypeOK
<1>7. StartInv'
  BY <1>1, <1>6 DEF StartInv, IInv
<1> QED
  BY <1>1, <1>5, <1>6, <1>7, Untouched, CallStep DEF IInv

\* Closing changes a flag.
LEMMA CloseIInv ==
    ASSUME IInv, Close
    PROVE  IInv'
<1>1. History /\ UNCHANGED <<node, peers, table, pc, left, finds, seen>> /\ closed' \in BOOLEAN
  BY DEF Close, netVars, callVars
<1>2. TypeOK'
  BY <1>1, HistoryLasts DEF IInv, TypeOK, Calling
<1> QED
  BY <1>1, <1>2, Untouched, CallStep DEF IInv, StartInv

\* A call gives up after the last address, with what it has seen and no routing.
LEMMA UserIInv ==
    ASSUME IInv, NEW c \in Users,
           Begin(c) \/ Check(c) \/ Recheck(c) \/ Decide(c) \/ Block(c)
    PROVE  IInv'
<1>1. History /\ UNCHANGED <<node, peers, table, closed>>
  BY DEF Begin, Check, Recheck, Decide, Block, netVars
<1>2. ASSUME NEW l \in Places(c), Goto(c, l),
             left' = left \/ left' = [left EXCEPT ![c] = Addrs], left'[c] # {} => l = "dial",
             finds' \in [Users -> BOOLEAN], seen' \in [Users -> BOOLEAN],
             \A d \in Users : d # c => finds'[d] = finds[d] /\ seen'[d] = seen[d],
             Returns(c) \/ Begins(c) \/ GoesOn(c)
      PROVE  IInv'
  <2>1. /\ left' \in [Processes -> SUBSET Addrs]
        /\ \A y \in Processes : y # c => left'[y] = left[y] /\ pc'[y] = pc[y]
    BY <1>2, Names DEF Goto, IInv, TypeOK
  <2>2. TypeOK'
    BY <1>1, <1>2, <2>1, StepType, Names DEF IInv, TypeOK
  <2>3. StartInv'
    BY <2>1, Names DEF IInv, StartInv
  <2>4. CallInv' /\ LastingInv'
    BY <1>1, <1>2, <2>1, OneTouched, CallStep, Names DEF IInv
  <2> QED
    BY <2>2, <2>3, <2>4 DEF IInv
<1>3. /\ c \in Processes /\ Places(c) = Under \cup {"idle", "blocked"}
      /\ pc[c] # "dial" => left[c] = {}
      /\ \A l : Goto(c, l) => pc'[c] = l
  BY Names DEF Places, Goto, IInv, TypeOK
<1>4. ASSUME Return(c), left' = left, left[c] = {}
      PROVE  IInv'
  BY <1>2, <1>3, <1>4 DEF Return, Returns, IInv, TypeOK
<1>5. ASSUME DialAll(c), UNCHANGED callVars, pc[c] \in Under
      PROVE  IInv'
  BY <1>2, <1>3, <1>5 DEF DialAll, GoesOn, callVars, Under, IInv, TypeOK
<1>6. CASE Begin(c)
  <2>1. Begins(c)
    BY <1>3, <1>1, <1>6 DEF Begin, Begins, Connected, netVars, IInv, TypeOK
  <2> QED
    BY <1>2, <1>3, <1>6, <2>1 DEF Begin, Under, Connected, IInv, TypeOK
<1>7. CASE Check(c)
  <2>1. CASE Goto(c, "refresh") /\ UNCHANGED <<left, callVars>>
    BY <1>2, <1>3, <1>7, <2>1 DEF Check, GoesOn, callVars, Under, IInv, TypeOK
  <2> QED
    BY <1>3, <1>4, <1>5, <1>7, <2>1 DEF Check, DialUnlessNone, Under
<1>8. CASE Recheck(c)
  BY <1>3, <1>4, <1>5, <1>8 DEF Recheck, DialUnlessNone, Under
<1>9. CASE Decide(c)
  <2>1. CASE Goto(c, "blocked") /\ UNCHANGED callVars /\ ~(hasUsableRouting \/ seen[c] \/ finds[c])
    <3>1. GoesOn(c)
      BY <1>1, <1>9, <2>1 DEF Decide, Tried, GoesOn, callVars, hasUsableRouting
    <3> QED
      BY <1>2, <1>3, <1>9, <2>1, <3>1 DEF Decide, Tried, callVars, IInv, TypeOK
  <2> QED
    BY <1>4, <1>9, <2>1 DEF Decide, Tried
<1>10. CASE Block(c)
  BY <1>3, <1>4, <1>10 DEF Block
<1> QED
  BY <1>6, <1>7, <1>8, <1>9, <1>10

-----------------------------------------------------------------------------
(* The theorems. *)

\* Every step preserves the invariant.
LEMMA NextIInv == IInv /\ [Next]_vars => IInv'
<1> SUFFICES ASSUME IInv, [Next]_vars PROVE IInv'
  OBVIOUS
<1>1. CASE Environment
  BY <1>1, EnvironmentIInv
<1>2. ASSUME NEW x \in Processes, Dial(x) PROVE IInv'
  BY <1>2, DialIInv DEF Dial
<1>3. CASE EndNew \/ Close
  BY <1>3, EndNewIInv, CloseIInv
<1>4. CASE bootstrapRetryLoop \/ LeaveLoop
  BY <1>2, <1>4, LoopIInv, Names DEF bootstrapRetryLoop
<1>5. ASSUME NEW c \in Users, Begin(c) \/ ensureBootstrapConnectivity(c) \/ Block(c)
      PROVE  IInv'
  BY <1>2, <1>5, UserIInv, Names DEF ensureBootstrapConnectivity
<1>6. CASE UNCHANGED vars
  BY <1>6 DEF vars, netVars, callVars, history, IInv, TypeOK, StartInv, CallInv, LastingInv,
              Calling, hasUsableRouting
<1> QED
  BY <1>1, <1>2, <1>3, <1>4, <1>5, <1>6, Names DEF Next

\* The invariant holds in every reachable state.
THEOREM Invariance == Spec => []IInv
BY InitIInv, NextIInv, PTL DEF Spec

\* Every variable keeps its type; only a goroutine that is trying addresses has
\* any left (dht.go 102-225).
THEOREM TypeCorrect == Spec => []TypeOK
<1>1. IInv => TypeOK
  BY DEF IInv
<1> QED
  BY <1>1, Invariance, PTL

\* ensureBootstrapConnectivity (dht.go 172-225) gives up no lookup, and no
\* announcement of a daemon that has been connected, or has had routing, all
\* through the call: for any network, and whatever the retry loop does meanwhile.
THEOREM BlockedCutOff == Spec => []BlockedIsCutOff
<1>1. IInv => BlockedIsCutOff
  BY DEF IInv, CallInv, BlockedIsCutOff
<1> QED
  BY <1>1, Invariance, PTL
=============================================================================
