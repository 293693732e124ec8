---------------------------- MODULE DrainManager ----------------------------
(***************************************************************************)
(* DrainManagerImpl.ScheduleNodesDrain (pkg/upgrade/drain_manager.go).     *)
(* The upgrade reconciler calls it with the nodes whose upgrade state says *)
(* a drain is required.  For every node not already in drainingNodes it    *)
(* adds the node and starts a goroutine that cordons the node, drains it   *)
(* and moves its upgrade state to pod-restart-required or drain-failed,    *)
(* removing the node from drainingNodes on exit.  The goroutines outlive   *)
(* the call; the next call may run while they are still working.          *)
(*                                                                         *)
(* The goroutine's closure reads the loop variable `node` at each use.     *)
(* With per-iteration loop variables (Go 1.22 and later, go.mod's go line) *)
(* every goroutine sees its own node; before that all iterations of one    *)
(* call share one variable, which the loop keeps overwriting.              *)
(* PerIterationLoopVar selects the semantics.                              *)
(***************************************************************************)
EXTENDS Naturals, Sequences, FiniteSets, SequencesExt

CONSTANTS
    Nodes,               \* cluster nodes (model values)
    NoNode,              \* the loop variable before the first iteration
    PerIterationLoopVar, \* the build gives each iteration its own `node`
    TimeoutSecond,       \* drainSpec.TimeoutSecond
    EvictChoices,        \* possible seconds each node's pod evictions take
    MaxCalls,            \* bound on ScheduleNodesDrain calls
    MaxUpdateFailures    \* bound on failed ChangeNodeUpgradeState calls

ASSUME NoNode \notin Nodes
ASSUME PerIterationLoopVar \in BOOLEAN
ASSUME TimeoutSecond \in Nat /\ EvictChoices \subseteq [Nodes -> Nat]
ASSUME MaxCalls \in Nat \ {0} /\ MaxUpdateFailures \in Nat

NodeStates == {"drain-required", "pod-restart-required", "drain-failed"}
Calls == 1..MaxCalls
\* One goroutine per call and loop iteration at most.
GIds == Calls \X (1..Cardinality(Nodes))
GPcs == {"none", "start", "cordon", "drain", "report", "exit", "done"}
Outcomes == {"none", "cordonFailed", "drained", "evictionFailed", "timeout"}
GRec == [pc : GPcs, node : Nodes \cup {NoNode}, deferNode : Nodes \cup {NoNode},
         outcome : Outcomes]

VARIABLES
    drainingNodes,  \* m.drainingNodes
    nodeState,      \* the upgrade state label of each node
    cordoned,       \* nodes marked unschedulable
    drained,        \* nodes whose pods a drain evicted successfully
    evictSeconds,   \* how long evicting each node's pods takes
    failedWrites,   \* ChangeNodeUpgradeState calls that failed so far
    calls,          \* ScheduleNodesDrain calls made so far
    caller,         \* the running call: its node list and loop position
    loopVar,        \* loopVar[k]: the shared `node` variable of call k
    gs              \* gs[g]: the goroutines

vars == <<drainingNodes, nodeState, cordoned, drained, evictSeconds,
          failedWrites, calls, caller, loopVar, gs>>

TypeOK ==
    /\ drainingNodes \subseteq Nodes
    /\ nodeState \in [Nodes -> NodeStates]
    /\ cordoned \subseteq Nodes /\ drained \subseteq Nodes
    /\ evictSeconds \in EvictChoices
    /\ failedWrites \in 0..MaxUpdateFailures
    /\ calls \in 0..MaxCalls
    /\ caller \in [busy : BOOLEAN, nodes : Seq(Nodes), i : Nat]
    /\ loopVar \in [Calls -> Nodes \cup {NoNode}]
    /\ gs \in [GIds -> GRec]

NoG == [pc |-> "none", node |-> NoNode, deferNode |-> NoNode,
        outcome |-> "none"]

Init ==
    /\ drainingNodes = {}
    /\ nodeState = [n \in Nodes |-> "drain-required"]
    /\ cordoned = {}
    /\ drained = {}
    /\ evictSeconds \in EvictChoices
    /\ failedWrites = 0
    /\ calls = 0
    /\ caller = [busy |-> FALSE, nodes |-> <<>>, i |-> 1]
    /\ loopVar = [k \in Calls |-> NoNode]
    /\ gs = [g \in GIds |-> NoG]

\* The value goroutine g sees when its closure reads `node`.
NodeOf(g) == IF PerIterationLoopVar THEN gs[g].node ELSE loopVar[g[1]]

\* drain.Helper.Timeout is time.Duration(drainSpec.TimeoutSecond): a count
\* of nanoseconds.  Zero means no timeout.
DrainTimeoutNs == TimeoutSecond
EvictionNs(n) == evictSeconds[n] * 1000000000

---------------------------------------------------------------------------
(* ScheduleNodesDrain                                                      *)

\* The call's early returns: no nodes, no drain spec (an error), drain
\* disabled.  None of them touches anything.
ScheduleNodesDrainNoop ==
    /\ ~caller.busy /\ calls < MaxCalls
    /\ calls' = calls + 1
    /\ UNCHANGED <<drainingNodes, nodeState, cordoned, drained, evictSeconds,
                   failedWrites, caller, loopVar, gs>>

\* A call with an enabled drain spec and the nodes that require a drain,
\* in the order the reconciler lists them.
ScheduleNodesDrainStart ==
    /\ ~caller.busy /\ calls < MaxCalls
    /\ \E S \in SUBSET {n \in Nodes : nodeState[n] = "drain-required"} :
       \E list \in SetToSeqs(S) :
          /\ list # <<>>
          /\ caller' = [busy |-> TRUE, nodes |-> list, i |-> 1]
    /\ calls' = calls + 1
    /\ UNCHANGED <<drainingNodes, nodeState, cordoned, drained, evictSeconds,
                   failedWrites, loopVar, gs>>

\* Mutant: the drainingNodes check is dropped.
SchedulableAlways(n) == TRUE

\* !m.drainingNodes.Has(node.Name)
Schedulable(n) == n \notin drainingNodes

\* One iteration: `node` takes the next list element; a node not being
\* drained is added to drainingNodes and gets a goroutine, a node already
\* being drained is skipped.
ScheduleIteration ==
    /\ caller.busy /\ caller.i <= Len(caller.nodes)
    /\ LET n == caller.nodes[caller.i]
           g == <<calls, caller.i>>
       IN /\ loopVar' = [loopVar EXCEPT ![calls] = n]
          /\ IF Schedulable(n)
             THEN /\ drainingNodes' = drainingNodes \cup {n}
                  /\ gs' = [gs EXCEPT ![g] = [NoG EXCEPT !.pc = "start",
                                                         !.node = n]]
             ELSE UNCHANGED <<drainingNodes, gs>>
    /\ caller' = [caller EXCEPT !.i = @ + 1]
    /\ UNCHANGED <<nodeState, cordoned, drained, evictSeconds, failedWrites,
                   calls>>

ScheduleNodesDrainReturn ==
    /\ caller.busy /\ caller.i > Len(caller.nodes)
    /\ caller' = [caller EXCEPT !.busy = FALSE]
    /\ UNCHANGED <<drainingNodes, nodeState, cordoned, drained, evictSeconds,
                   failedWrites, calls, loopVar, gs>>

---------------------------------------------------------------------------
(* The drain goroutine                                                     *)

\* defer m.drainingNodes.Remove(node.Name): the argument is read now.
GoDefer(g) ==
    /\ gs[g].pc = "start"
    /\ gs' = [gs EXCEPT ![g].pc = "cordon", ![g].deferNode = NodeOf(g)]
    /\ UNCHANGED <<drainingNodes, nodeState, cordoned, drained, evictSeconds,
                   failedWrites, calls, caller, loopVar>>

\* Mutant: no return after a failed cordon; the drain goes ahead.
AfterCordonErrorNoReturn(g) == [gs EXCEPT ![g].pc = "drain"]

\* A failed cordon reports drain-failed and returns.
AfterCordonError(g) ==
    [gs EXCEPT ![g].pc = "report", ![g].outcome = "cordonFailed"]

\* drain.RunCordonOrUncordon(drainHelper, node, true).
GoCordon(g) ==
    /\ gs[g].pc = "cordon"
    /\ \/ /\ cordoned' = cordoned \cup {NodeOf(g)}
          /\ gs' = [gs EXCEPT ![g].pc = "drain"]
       \/ /\ gs' = AfterCordonError(g)
          /\ UNCHANGED cordoned
    /\ UNCHANGED <<drainingNodes, nodeState, drained, evictSeconds,
                   failedWrites, calls, caller, loopVar>>

\* drain.RunNodeDrain(drainHelper, node.Name): evictions that outlast the
\* helper's timeout fail it; an eviction may also be refused outright.
GoDrain(g) ==
    /\ gs[g].pc = "drain"
    /\ LET n == NodeOf(g) IN
       \/ /\ DrainTimeoutNs > 0 /\ EvictionNs(n) > DrainTimeoutNs
          /\ gs' = [gs EXCEPT ![g].pc = "report", ![g].outcome = "timeout"]
          /\ UNCHANGED drained
       \/ /\ gs' = [gs EXCEPT ![g].pc = "report",
                              ![g].outcome = "evictionFailed"]
          /\ UNCHANGED drained
       \/ /\ DrainTimeoutNs = 0 \/ EvictionNs(n) <= DrainTimeoutNs
          /\ drained' = drained \cup {n}
          /\ gs' = [gs EXCEPT ![g].pc = "report", ![g].outcome = "drained"]
    /\ UNCHANGED <<drainingNodes, nodeState, cordoned, evictSeconds,
                   failedWrites, calls, caller, loopVar>>

\* ChangeNodeUpgradeState(ctx, node, ...): pod-restart-required after a
\* drain, drain-failed after a failed cordon or drain.  Its error is
\* discarded (`_ =`): a failed write leaves the label as it was.
GoReport(g) ==
    /\ gs[g].pc = "report"
    /\ \/ /\ nodeState' = [nodeState EXCEPT ![NodeOf(g)] =
                           IF gs[g].outcome = "drained"
                           THEN "pod-restart-required" ELSE "drain-failed"]
          /\ UNCHANGED failedWrites
       \/ /\ failedWrites < MaxUpdateFailures
          /\ failedWrites' = failedWrites + 1
          /\ UNCHANGED nodeState
    /\ gs' = [gs EXCEPT ![g].pc = "exit"]
    /\ UNCHANGED <<drainingNodes, cordoned, drained, evictSeconds, calls,
                   caller, loopVar>>

\* Mutant: the deferred Remove is missing.
RemovedNothing(n) == drainingNodes

\* m.drainingNodes.Remove(n)
Removed(n) == drainingNodes \ {n}

\* The deferred Remove runs as the goroutine returns.
GoExit(g) ==
    /\ gs[g].pc = "exit"
    /\ drainingNodes' = Removed(gs[g].deferNode)
    /\ gs' = [gs EXCEPT ![g].pc = "done"]
    /\ UNCHANGED <<nodeState, cordoned, drained, evictSeconds, failedWrites,
                   calls, caller, loopVar>>

Goroutine(g) ==
    GoDefer(g) \/ GoCordon(g) \/ GoDrain(g) \/ GoReport(g) \/ GoExit(g)

CallerStep ==
    ScheduleNodesDrainStart \/ ScheduleIteration \/ ScheduleNodesDrainReturn

\* Once the calls are spent and every goroutine has returned nothing is
\* left to do.
Quiescent == calls = MaxCalls /\ ~caller.busy
             /\ \A g \in GIds : gs[g].pc \in {"none", "done"}
Done == Quiescent /\ UNCHANGED vars

Next ==
    \/ ScheduleNodesDrainNoop \/ CallerStep
    \/ \E g \in GIds : Goroutine(g)
    \/ Done

\* The Go scheduler runs every runnable goroutine, and the caller's loop
\* runs to its end.  Whether the reconciler calls again is not assumed.
Spec == /\ Init /\ [][Next]_vars
        /\ WF_vars(ScheduleIteration \/ ScheduleNodesDrainReturn)
        /\ \A g \in GIds : WF_vars(Goroutine(g))

---------------------------------------------------------------------------
(* Properties                                                              *)

Active(g) == gs[g].pc \in {"start", "cordon", "drain", "report", "exit"}

\* ScheduleNodesDrain's contract: a node being drained is never scheduled
\* for drain a second time before the first drain completes, across the
\* goroutines of one call and of later calls.
NoNodeScheduledTwice ==
    \A g1, g2 \in GIds :
        (g1 # g2 /\ Active(g1) /\ Active(g2)) => gs[g1].node # gs[g2].node

\* A node's upgrade state moves to pod-restart-required only after that
\* node was cordoned and its pods evicted: the driver pod is never
\* restarted under running workloads.
RestartOnlyAfterDrain ==
    \A n \in Nodes :
        nodeState[n] = "pod-restart-required" => n \in cordoned \cap drained

\* The deferred Remove runs on every path out of the goroutine, the early
\* returns after a failed cordon or drain included: a node put into
\* drainingNodes always leaves it, so it can be scheduled again.
NodeEventuallyReleased ==
    \A n \in Nodes : (n \in drainingNodes) ~> (n \notin drainingNodes)

\* ScheduleNodesDrain's doc comment: a scheduled node moves to
\* pod-restart-required if its drain succeeds and to drain-failed
\* otherwise.  Every node put into drainingNodes leaves it again with
\* such a verdict in its upgrade state, even when the label write fails.
ScheduledNodeGetsVerdict ==
    \A n \in Nodes :
        (n \in drainingNodes) ~>
            (n \notin drainingNodes /\ nodeState[n] # "drain-required")

\* DrainSpec.TimeoutSecond is the drain timeout in seconds: a drain fails
\* on its timeout only when the node's evictions take longer than that.
DrainHonoursTimeout ==
    \A g \in GIds :
        gs[g].outcome = "timeout" => evictSeconds[gs[g].node] > TimeoutSecond
---------------------------------------------------------------------------
(* Refinement: ScheduleNodesDrain implements DrainProtocol.  A node's      *)
(* phase is read off the goroutine working on it: the one it was put into *)
(* drainingNodes with.  Which phase a goroutine about to report stands in  *)
(* depends on how far it got.                                              *)

ReportPhase == [cordonFailed |-> "scheduled", evictionFailed |-> "cordoned",
                timeout |-> "cordoned", drained |-> "drained"]

GoroutinePhase(g) ==
    CASE gs[g].pc \in {"start", "cordon"} -> "scheduled"
      [] gs[g].pc = "drain"               -> "cordoned"
      [] gs[g].pc = "report"              -> ReportPhase[gs[g].outcome]
      [] gs[g].pc = "exit"                -> "decided"

DrainPhase ==
    [n \in Nodes |->
        LET working == {g \in GIds : Active(g) /\ gs[g].node = n}
        IN IF working = {} THEN "idle"
           ELSE GoroutinePhase(CHOOSE g \in working : TRUE)]

Abstract == INSTANCE DrainProtocol
              WITH phase <- DrainPhase, unschedulable <- cordoned,
                   evicted <- drained

\* The goroutines, the loop and drainingNodes together keep the promise of
\* ScheduleNodesDrain's doc comment, also when the label write fails: each
\* node passes idle, scheduled, cordoned, evicted, verdict and back to
\* idle, skipping only to a drain-failed verdict, and a scheduled node is
\* always released again.
DrainProtocolRefined == Abstract!Spec
=============================================================================
