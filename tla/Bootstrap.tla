----------------------------- MODULE Bootstrap -----------------------------
(***************************************************************************)
(* How a daemon gets into the network and back into it: dht.New, the       *)
(* bootstrap retry loop, and ensureBootstrapConnectivity, which every      *)
(* announcement and lookup goes through (dht.go), against bootstrap nodes  *)
(* that stop, crash and come back (bootstrap/main.go), peers that come and *)
(* go, and connections made and closed through the APIs.                   *)
(*                                                                         *)
(* Addresses name the peer ID they expect; a node's key existed when its   *)
(* address was configured, so that it comes back under the same ID.  peers *)
(* is what Network().Peers() returns, table the WAN and LAN routing tables *)
(* together; both change while the code decides on what it has read.       *)
(***************************************************************************)
EXTENDS FiniteSets

CONSTANTS
    Boots,     \* bootstrap nodes
    Addrs,     \* their addresses in -bootstrap, the empty ones left out
    NodeAt,    \* the node an address is of
    Lan,       \* other peers
    Users,     \* goroutines that announce and look up
    New, Loop  \* the goroutine in dht.New, and the retry loop

ASSUME NodesAssumption     == Boots \cap Lan = {} /\ NodeAt \in [Addrs -> Boots]
ASSUME ProcessesAssumption == New # Loop /\ {New, Loop} \cap Users = {}

VARIABLES
    node,    \* bootstrap nodes
    peers,   \* nodes this daemon is connected to
    table,   \* nodes in its routing tables
    closed,  \* has Close been called?
    pc,      \* where a goroutine is
    left,    \* addresses it has not tried yet
    finds,   \* is the call a lookup (FindProviders, FindProvidersForToken)?
    seen,    \* connectedPeers > 0, as read at the start of the call
    linked,  \* has there been a connection all through the call?
    routed   \* has there been routing all through the call?

netVars  == <<node, peers, table>>
callVars == <<finds, seen>>
history  == <<linked, routed>>
vars     == <<netVars, closed, pc, left, callVars, history>>

Nodes     == Boots \cup Lan
Processes == Users \cup {New, Loop}

hasUsableRouting == table # {}
Connected        == peers # {}
Under            == {"check", "refresh", "dial"}
Calling(c)       == pc[c] \in Under

TypeOK ==
    /\ node \in [Boots -> {"down", "starting", "up", "closing"}]
    /\ peers \subseteq Nodes
    /\ table \subseteq Nodes
    /\ closed \in BOOLEAN
    /\ pc \in [Processes -> Under \cup {"idle", "blocked", "done", "off", "wait", "lost", "gone"}]
    /\ pc[New] \in {"dial", "done"}
    /\ pc[Loop] \in {"off", "wait", "lost", "refresh", "dial", "gone"}
    /\ \A c \in Users : Calling(c) \/ pc[c] \in {"idle", "blocked"}
    /\ left \in [Processes -> SUBSET Addrs]
    /\ \A x \in Processes : left[x] # {} => pc[x] = "dial"
    /\ {finds, seen, linked, routed} \subseteq [Users -> BOOLEAN]

Init ==
    /\ node \in [Boots -> {"down", "up"}]
    /\ peers = {}
    /\ table = {}
    /\ closed = FALSE
    /\ pc = [x \in Processes |-> IF x = New THEN "dial" ELSE IF x = Loop THEN "off" ELSE "idle"]
    /\ left = [x \in Processes |-> IF x = New THEN Addrs ELSE {}]
    /\ finds = [c \in Users |-> FALSE]
    /\ seen = [c \in Users |-> FALSE]
    /\ linked = [c \in Users |-> FALSE]
    /\ routed = [c \in Users |-> FALSE]

Goto(x, l) == pc' = [pc EXCEPT ![x] = l]

\* What has been so at every moment of a call, from its first step on.
History ==
    LET Still(c, was) == pc'[c] # "idle" /\ (pc[c] = "idle" \/ was[c])
    IN  /\ linked' = [c \in Users |-> Still(c, linked) /\ peers' # {}]
        /\ routed' = [c \in Users |-> Still(c, routed) /\ table' # {}]

-----------------------------------------------------------------------------
(* The bootstrap nodes and the rest of the network. *)

Become(b, s) ==
    /\ node' = [node EXCEPT ![b] = s]
    /\ UNCHANGED <<table, closed, pc, left, callVars>>

\* Its host accepts connections before its DHT is there.
StartHost(b) == node[b] = "down"     /\ Become(b, "starting") /\ UNCHANGED peers /\ History
StartDHT(b)  == node[b] = "starting" /\ Become(b, "up")       /\ UNCHANGED peers /\ History

\* A stopping node closes its DHT, then its host and every connection with it.
StopNode(b)  == node[b] = "up"       /\ Become(b, "closing")  /\ UNCHANGED peers /\ History
CloseNode(b) == node[b] = "closing"  /\ Become(b, "down") /\ peers' = peers \ {b} /\ History

\* A crash, or a start that fails; that a connection is dead shows later.
CrashNode(b) == node[b] # "down"     /\ Become(b, "down")     /\ UNCHANGED peers /\ History

\* A connection is lost, closed by the other side, or closed by /disconnect.
Disconnect(q) ==
    /\ q \in peers
    /\ peers' = peers \ {q}
    /\ UNCHANGED <<node, table, closed, pc, left, callVars>>
    /\ History

\* A peer connects, or gRPC Connect or POST /connect reaches it.
ConnectToPeer(q) ==
    /\ ~closed
    /\ q \notin peers /\ (q \in Boots => node[q] # "down")
    /\ peers' = peers \cup {q}
    /\ UNCHANGED <<node, table, closed, pc, left, callVars>>
    /\ History

\* The DHT library adds peers it is connected to, and evicts others.
AddToTable(q) ==
    /\ q \in peers \ table
    /\ q \in Boots => node[q] = "up"
    /\ table' = table \cup {q}
    /\ UNCHANGED <<node, peers, closed, pc, left, callVars>>
    /\ History

Evict(q) ==
    /\ q \in table \ peers
    /\ table' = table \ {q}
    /\ UNCHANGED <<node, peers, closed, pc, left, callVars>>
    /\ History

-----------------------------------------------------------------------------
(* bootstrap: one attempt at one address. *)

\* ensureBootstrapConnectivity returns nil, and the DHT operation goes on.
Return(c) ==
    /\ Goto(c, "idle")
    /\ finds' = [finds EXCEPT ![c] = FALSE]
    /\ seen' = [seen EXCEPT ![c] = FALSE]

\* Mutant: a call that got through leaves the other addresses to be tried.
ReachEach(x, a) ==
    /\ pc[x] = "dial" /\ a \in left[x]
    /\ node[NodeAt[a]] # "down" \/ NodeAt[a] \in peers
    /\ ~(x = Loop /\ closed /\ NodeAt[a] \notin peers)
    /\ peers' = peers \cup {NodeAt[a]}
    /\ left' = [left EXCEPT ![x] = @ \ {a}]
    /\ IF x \in Users THEN Return(x) ELSE UNCHANGED <<pc, callVars>>
    /\ UNCHANGED <<node, table, closed>>
    /\ History

\* Connected, and dht.Bootstrap done.  A call needs one address only; New and
\* the loop try the others too.
Reach(x, a) ==
    /\ pc[x] = "dial" /\ a \in left[x]
    /\ node[NodeAt[a]] # "down" \/ NodeAt[a] \in peers
    /\ ~(x = Loop /\ closed /\ NodeAt[a] \notin peers)
    /\ peers' = peers \cup {NodeAt[a]}
    /\ left' = [left EXCEPT ![x] = IF x \in Users THEN {} ELSE @ \ {a}]
    /\ IF x \in Users THEN Return(x) ELSE UNCHANGED <<pc, callVars>>
    /\ UNCHANGED <<node, table, closed>>
    /\ History

\* The attempt fails: unreachable, timed out, cancelled.
Miss(x, a) ==
    /\ pc[x] = "dial" /\ a \in left[x]
    /\ left' = [left EXCEPT ![x] = @ \ {a}]
    /\ UNCHANGED <<netVars, closed, pc, callVars>>
    /\ History

\* It connects, but refreshing the routing tables fails.
ReachInVain(x, a) ==
    /\ pc[x] = "dial" /\ a \in left[x]
    /\ node[NodeAt[a]] # "down"
    /\ ~(x = Loop /\ closed)
    /\ peers' = peers \cup {NodeAt[a]}
    /\ left' = [left EXCEPT ![x] = @ \ {a}]
    /\ UNCHANGED <<node, table, closed, pc, callVars>>
    /\ History

Dial(x) == \E a \in Addrs : Reach(x, a) \/ Miss(x, a) \/ ReachInVain(x, a)

\* The last address has been tried.
Tried(x) == pc[x] = "dial" /\ left[x] = {}

DialAll(x) == Goto(x, "dial") /\ left' = [left EXCEPT ![x] = Addrs]

-----------------------------------------------------------------------------
(* New and bootstrapRetryLoop. *)

EndNew ==
    /\ Tried(New)
    /\ pc' = [pc EXCEPT ![New] = "done", ![Loop] = IF Addrs = {} THEN @ ELSE "wait"]
    /\ UNCHANGED <<netVars, closed, left, callVars>>
    /\ History

\* Mutant: a routing table that is not empty is enough.
TickOnRouting ==
    /\ pc[Loop] = "wait"
    /\ ~hasUsableRouting
    /\ Goto(Loop, "lost")
    /\ UNCHANGED <<netVars, closed, left, callVars>>
    /\ History

Tick ==
    /\ pc[Loop] = "wait"
    /\ ~(hasUsableRouting /\ Connected)
    /\ Goto(Loop, "lost")
    /\ UNCHANGED <<netVars, closed, left, callVars>>
    /\ History

\* Peers() is read again.
Restore ==
    /\ pc[Loop] = "lost"
    /\ IF Connected THEN Goto(Loop, "refresh") /\ UNCHANGED left ELSE DialAll(Loop)
    /\ UNCHANGED <<netVars, closed, callVars>>
    /\ History

\* Routing over the connected peers has been refreshed, or that failed.
Refreshed ==
    /\ pc[Loop] = "refresh"
    /\ \/ hasUsableRouting /\ Goto(Loop, "wait") /\ UNCHANGED left
       \/ DialAll(Loop)
    /\ UNCHANGED <<netVars, closed, callVars>>
    /\ History

\* Mutant: a round that reaches nobody is followed by the next one at once.
EndRoundConnected ==
    /\ Tried(Loop)
    /\ IF Connected THEN Goto(Loop, "wait") /\ UNCHANGED left ELSE DialAll(Loop)
    /\ UNCHANGED <<netVars, closed, callVars>>
    /\ History

EndRound ==
    /\ Tried(Loop)
    /\ Goto(Loop, "wait")
    /\ UNCHANGED <<netVars, closed, left, callVars>>
    /\ History

\* retryCancel has been called; with a tick there too, select takes either.
LeaveLoop ==
    /\ pc[Loop] = "wait" /\ closed
    /\ Goto(Loop, "gone")
    /\ UNCHANGED <<netVars, closed, left, callVars>>
    /\ History

Close ==
    /\ pc[New] = "done" /\ ~closed
    /\ closed' = TRUE
    /\ UNCHANGED <<netVars, pc, left, callVars>>
    /\ History

-----------------------------------------------------------------------------
(* ensureBootstrapConnectivity. *)

\* The number of connected peers is read once, here.
Begin(c) ==
    /\ pc[c] = "idle" /\ pc[New] = "done"
    /\ Goto(c, "check")
    /\ seen' = [seen EXCEPT ![c] = Connected]
    /\ \E f \in BOOLEAN : finds' = [finds EXCEPT ![c] = f]
    /\ UNCHANGED <<netVars, closed, left>>
    /\ History

DialUnlessNone(c) ==
    IF Addrs = {} THEN Return(c) /\ UNCHANGED left ELSE DialAll(c) /\ UNCHANGED callVars

Check(c) ==
    /\ pc[c] = "check"
    /\ CASE seen[c] /\ hasUsableRouting  -> Return(c) /\ UNCHANGED left
         [] seen[c] /\ ~hasUsableRouting -> Goto(c, "refresh") /\ UNCHANGED <<left, callVars>>
         [] OTHER                        -> DialUnlessNone(c)
    /\ UNCHANGED <<netVars, closed>>
    /\ History

\* The refresh is over, whether it failed or not.
Recheck(c) ==
    /\ pc[c] = "refresh"
    /\ IF hasUsableRouting THEN Return(c) /\ UNCHANGED left ELSE DialUnlessNone(c)
    /\ UNCHANGED <<netVars, closed>>
    /\ History

\* Mutant: peers that are no help in routing do not count.
DecideOnRouting(c) ==
    /\ Tried(c)
    /\ IF hasUsableRouting \/ finds[c]
       THEN Return(c)
       ELSE Goto(c, "blocked") /\ UNCHANGED callVars
    /\ UNCHANGED <<netVars, closed, left>>
    /\ History

\* No address could be reached.  An announcement is given up; a lookup only
\* logs the error, and goes on.
Decide(c) ==
    /\ Tried(c)
    /\ IF hasUsableRouting \/ seen[c] \/ finds[c]
       THEN Return(c)
       ELSE Goto(c, "blocked") /\ UNCHANGED callVars
    /\ UNCHANGED <<netVars, closed, left>>
    /\ History

\* The error has been returned to whoever announces.
Block(c) ==
    /\ pc[c] = "blocked"
    /\ Return(c)
    /\ UNCHANGED <<netVars, closed, left>>
    /\ History

ensureBootstrapConnectivity(c) == Check(c) \/ Recheck(c) \/ Dial(c) \/ Decide(c)

-----------------------------------------------------------------------------
Environment ==
    \/ \E b \in Boots : StartHost(b) \/ StartDHT(b) \/ StopNode(b) \/ CloseNode(b) \/ CrashNode(b)
    \/ \E q \in Nodes : Disconnect(q) \/ ConnectToPeer(q) \/ AddToTable(q) \/ Evict(q)

bootstrapRetryLoop == Tick \/ Restore \/ Refreshed \/ Dial(Loop) \/ EndRound

Next ==
    \/ Environment
    \/ Dial(New) \/ EndNew \/ Close
    \/ bootstrapRetryLoop \/ LeaveLoop
    \/ \E c \in Users : Begin(c) \/ ensureBootstrapConnectivity(c) \/ Block(c)

Spec == Init /\ [][Next]_vars

\* Attempts are bounded by their timeouts, and select does not choose the same
\* one of two for ever.  A node that is there again and again is reached in the
\* end, and gets into a routing table if it stays connected or comes back.
Fairness ==
    /\ WF_vars(Dial(New) \/ EndNew)
    /\ WF_vars(bootstrapRetryLoop)
    /\ SF_vars(LeaveLoop)
    /\ \A b \in Boots : SF_vars(\E a \in Addrs : NodeAt[a] = b /\ Reach(Loop, a))
    /\ \A q \in Nodes : SF_vars(AddToTable(q))

FairSpec == Spec /\ Fairness

-----------------------------------------------------------------------------
(* Properties. *)

\* ensureBootstrapConnectivity (dht.go:215) gives an announcement up only when
\* the daemon is cut off: not in a LAN mesh, where it has been connected all
\* through the call, nor where there has been routing all through it.  A lookup
\* goes on in any case.
BlockedIsCutOff ==
    \A c \in Users : pc[c] = "blocked" => ~finds[c] /\ ~linked[c] /\ ~routed[c]

\* The retry loop (dht.go:102) brings the daemon back: when some bootstrap node
\* comes back to stay, the daemon is connected and has routing again and again,
\* however often either is lost, until the service is closed.
Rejoins ==
    (\E a \in Addrs : <>[](node[NodeAt[a]] = "up"))
        => []<>((Connected /\ hasUsableRouting) \/ closed)

\* Closing the service ends the retry loop, in the middle of a round too
\* (dht.go:398).
LoopEnds == closed ~> pc[Loop] \in {"off", "gone"}
=============================================================================
