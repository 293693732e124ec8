---------------------------- MODULE DrainProtocol ----------------------------
(***************************************************************************)
(* What ScheduleNodesDrain promises for each node (its doc comment,        *)
(* pkg/upgrade/drain_manager.go:51-56), without calls, goroutines or the   *)
(* loop: a node is scheduled only when no drain of it is under way; it is  *)
(* cordoned, then its pods are evicted; a drain that got that far moves    *)
(* the node to pod-restart-required, one that failed before moves it to    *)
(* drain-failed; then the node is released and may be scheduled again.    *)
(* The upgrade state write may fail, leaving the label as it was.          *)
(***************************************************************************)
CONSTANTS Nodes

VARIABLES
    phase,          \* phase[n]: where the drain of n stands
    nodeState,      \* the upgrade state label of each node
    unschedulable,  \* nodes cordoned so far
    evicted         \* nodes whose pods were evicted by a drain

avars == <<phase, nodeState, unschedulable, evicted>>

Phases == {"idle", "scheduled", "cordoned", "drained", "decided"}

Init ==
    /\ phase = [n \in Nodes |-> "idle"]
    /\ nodeState = [n \in Nodes |-> "drain-required"]
    /\ unschedulable = {}
    /\ evicted = {}

Move(n, from, to) ==
    /\ phase[n] \in from
    /\ phase' = [phase EXCEPT ![n] = to]

\* The upgrade state of n becomes v, or the write fails.
Label(n, v) ==
    \/ nodeState' = [nodeState EXCEPT ![n] = v]
    \/ UNCHANGED nodeState

Schedule(n) ==
    /\ Move(n, {"idle"}, "scheduled")
    /\ UNCHANGED <<nodeState, unschedulable, evicted>>

Cordon(n) ==
    /\ Move(n, {"scheduled"}, "cordoned")
    /\ unschedulable' = unschedulable \cup {n}
    /\ UNCHANGED <<nodeState, evicted>>

Evict(n) ==
    /\ Move(n, {"cordoned"}, "drained")
    /\ evicted' = evicted \cup {n}
    /\ UNCHANGED <<nodeState, unschedulable>>

Fail(n) ==
    /\ Move(n, {"scheduled", "cordoned"}, "decided")
    /\ Label(n, "drain-failed")
    /\ UNCHANGED <<unschedulable, evicted>>

Restart(n) ==
    /\ Move(n, {"drained"}, "decided")
    /\ n \in unschedulable \cap evicted
    /\ Label(n, "pod-restart-required")
    /\ UNCHANGED <<unschedulable, evicted>>

Release(n) ==
    /\ Move(n, {"decided"}, "idle")
    /\ UNCHANGED <<nodeState, unschedulable, evicted>>

Progress(n) == Cordon(n) \/ Evict(n) \/ Fail(n) \/ Restart(n) \/ Release(n)

Next == \E n \in Nodes : Schedule(n) \/ Progress(n)

\* Once scheduled, a node's drain runs on to its release; when nodes are
\* scheduled is up to the caller.
Spec == Init /\ [][Next]_avars /\ \A n \in Nodes : WF_avars(Progress(n))
=============================================================================
