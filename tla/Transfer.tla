------------------------------ MODULE Transfer ------------------------------
(***************************************************************************)
(* What a download promises its caller, without providers, streams, chunks *)
(* or retries: it alone decides what is at its output path while it runs,  *)
(* and it reports success only when the whole file is there.               *)
(***************************************************************************)
CONSTANTS Downloads, Paths, None

VARIABLES
    whole,    \* paths that hold the whole file
    target,   \* the path a download was given, or None
    state     \* what has become of it: "idle", "running", "ok" or "failed"

tvars == <<whole, target, state>>

\* What is on disk to begin with is up to the user.
TransferInit ==
    /\ whole \in SUBSET Paths
    /\ target = [d \in Downloads |-> None]
    /\ state  = [d \in Downloads |-> "idle"]

Begin(d) == \E p \in Paths :
    /\ state[d] = "idle" /\ \A e \in Downloads : target[e] # p
    /\ target' = [target EXCEPT ![d] = p]
    /\ state' = [state EXCEPT ![d] = "running"]
    /\ UNCHANGED whole

\* Its file may come and go, attempt by attempt, and the download may end with
\* the step that completes it.
Write(d) ==
    /\ state[d] = "running"
    /\ whole' \in {whole \cup {target[d]}, whole \ {target[d]}}
    /\ \/ UNCHANGED state
       \/ target[d] \in whole' /\ state' = [state EXCEPT ![d] = "ok"]
    /\ UNCHANGED target

Fail(d) ==
    /\ state[d] = "running"
    /\ state' = [state EXCEPT ![d] = "failed"]
    /\ UNCHANGED <<whole, target>>

Report(d) ==
    /\ state[d] \in {"ok", "failed"}
    /\ state' = [state EXCEPT ![d] = "idle"]
    /\ target' = [target EXCEPT ![d] = None]
    /\ UNCHANGED whole

TransferNext == \E d \in Downloads : Begin(d) \/ Write(d) \/ Fail(d) \/ Report(d)

TransferSpec == TransferInit /\ [][TransferNext]_tvars
=============================================================================
