---------------------------- MODULE StateManager ----------------------------
(***************************************************************************)
(* The reconciliation engine: stateManager.SyncState (pkg/state/           *)
(* manager.go) invoking, in the configured order, every state's Sync; each *)
(* Sync is the one of stateCNIPlugins, the template every per-component    *)
(* state instantiates, running on the shared skeleton (create-or-update,   *)
(* stale-object removal, status evaluation) against the live cluster of    *)
(* ClusterAPI.                                                             *)
(*                                                                         *)
(* One pass is split at every cluster API round trip, so the platform's    *)
(* controllers, garbage collection, user drift and CR edits interleave     *)
(* with the pass exactly where they can in the running operator.           *)
(***************************************************************************)
EXTENDS ClusterAPI

CONSTANTS
    StateOrder,          \* the states in the order the manager runs them
    Rendering,           \* Rendering[s][c]: what state s renders for spec c
    StaticInfoOptions    \* whether a call's info catalog carries a static
                         \* config provider

N == Len(StateOrder)

\* What a state's Sync makes of a custom-resource spec: whether the spec
\* enables the sub-system, whether its templates render, and the rendered
\* objects in template (lexicographic file) order.
RenderOutcome == [enabled : BOOLEAN, renderOk : BOOLEAN, objs : Seq(Objs)]

ASSUME StateOrder \in Seq(States) /\ ToSet(StateOrder) = States
ASSUME \A i, j \in 1..N : StateOrder[i] = StateOrder[j] => i = j
ASSUME \A s \in States, c \in Configs :
          /\ Rendering[s][c] \in RenderOutcome
          /\ \A o \in ToSet(Rendering[s][c].objs) : Owner[o] = s
ASSUME StaticInfoOptions \subseteq BOOLEAN /\ StaticInfoOptions # {}

SyncStates == {"Ready", "NotReady", "Error", "Ignore"}
\* ErrInfo of a Result, abstracted to the step whose failure it wraps.
ErrInfos == {"none", "staticInfo", "render", "apply", "list", "delete",
             "status"}
Result == [state : States, status : SyncStates, err : ErrInfos]

VARIABLES
    pass,         \* "idle" between SyncState calls, "running" inside one
    snapshot,     \* the custom resource handed to this SyncState call
    staticInfo,   \* its info catalog provides static info
    idx,          \* position in StateOrder of the state being synced
    phase,        \* where in its Sync that state is
    todo,         \* objects the current loop of the skeleton has left
    applyFailed,  \* an object of the create-or-update loop failed
    statesReady,  \* statesReady of SyncState
    results,      \* managerResult.StatesStatus
    aggregate,    \* managerResult.Status of the last finished call
    aggSnapshot   \* the custom resource that call reconciled

mgrVars == <<pass, snapshot, staticInfo, idx, phase, todo, applyFailed,
             statesReady, results, aggregate, aggSnapshot>>
vars == <<clusterVars, mgrVars>>

Phases == {"begin", "apply", "stale", "deleteAll", "status"}

TypeOK ==
    /\ ClusterTypeOK
    /\ pass \in {"idle", "running"}
    /\ snapshot \in Configs
    /\ staticInfo \in BOOLEAN
    /\ idx \in 1..N+1
    /\ phase \in Phases
    /\ todo \in Seq(Objs)
    /\ applyFailed \in BOOLEAN
    /\ statesReady \in BOOLEAN
    /\ results \in Seq(Result) /\ Len(results) <= N
    /\ aggregate \in {"None", "Ready", "NotReady"}
    /\ aggSnapshot \in Configs

cur == StateOrder[idx]
Rendered(s, c) == Rendering[s][c]
Desired(s, c) == ToSet(Rendering[s][c].objs)
\* Objects s tracks that the spec c no longer renders.
Stale(s, c) == Tracked(s) \ Desired(s, c)

Init ==
    /\ ClusterInit
    /\ pass = "idle"
    /\ snapshot = cr
    /\ staticInfo \in StaticInfoOptions
    /\ idx = 1
    /\ phase = "begin"
    /\ todo = <<>>
    /\ applyFailed = FALSE
    /\ statesReady = TRUE
    /\ results = <<>>
    /\ aggregate = "None"
    /\ aggSnapshot = cr

---------------------------------------------------------------------------
(* stateManager.SyncState                                                  *)

\* Mutant: the results of the previous call are not cleared.
NewResultsKeepingPrevious(prev) == prev

\* managerResult starts with no state results.
NewResults(prev) == <<>>

\* The hosting controller calls SyncState with the custom resource as it
\* reads it now.
SyncStateStart ==
    /\ pass = "idle"
    /\ pass' = "running"
    /\ snapshot' = cr
    /\ staticInfo' \in StaticInfoOptions
    /\ idx' = 1
    /\ phase' = "begin"
    /\ results' = NewResults(results)
    /\ statesReady' = TRUE
    /\ UNCHANGED <<clusterVars, todo, applyFailed, aggregate, aggSnapshot>>

\* Mutant: Error does not clear statesReady.
FailingIgnoringError(status) == status = "NotReady"

\* The statuses that clear statesReady.
Failing(status) == status \in {"NotReady", "Error"}

\* Mutant: the manager stops at the first state that is not Ready.
NextIdxBreakOnFailure(status) == IF Failing(status) THEN N + 1 ELSE idx + 1

\* The loop goes on with the next state, whatever the status.
NextIdx(status) == idx + 1

\* state.Sync returns (status, err): the manager appends the Result, clears
\* statesReady on NotReady or Error, and goes on with the next state.
Return(status, err) ==
    /\ results' = Append(results, [state |-> cur, status |-> status,
                                   err |-> err])
    /\ statesReady' = (statesReady /\ ~Failing(status))
    /\ idx' = NextIdx(status)
    /\ phase' = "begin"
    /\ todo' = <<>>
    /\ UNCHANGED <<pass, snapshot, staticInfo, applyFailed, aggregate,
                   aggSnapshot>>

\* After the last state: Ready iff statesReady.
SyncStateEnd ==
    /\ pass = "running"
    /\ idx = N + 1
    /\ aggregate' = IF statesReady THEN "Ready" ELSE "NotReady"
    /\ aggSnapshot' = snapshot
    /\ pass' = "idle"
    /\ UNCHANGED <<clusterVars, snapshot, staticInfo, idx, phase, todo,
                   applyFailed,
                   statesReady, results>>

---------------------------------------------------------------------------
(* stateCNIPlugins.Sync on the skeleton, for the state cur.                *)

Running(ph) == pass = "running" /\ idx <= N /\ phase = ph

\* Mutant: the deletion finds nothing to delete.
DeletionListNothing(s) == <<>>

\* handleStateObjectsDeletion deletes every object s tracks.
DeletionList(s) == SetToSeq(Tracked(s))

\* The head of Sync for a spec that does not enable the sub-system: the
\* objects created earlier are to be removed (handleStateObjectsDeletion).
SyncDisabled ==
    /\ Running("begin")
    /\ ~Rendered(cur, snapshot).enabled
    /\ phase' = "deleteAll"
    /\ todo' = DeletionList(cur)
    /\ UNCHANGED <<clusterVars, pass, snapshot, staticInfo, idx, applyFailed,
                   statesReady, results, aggregate, aggSnapshot>>

\* Mutant: a failed rendering is taken for an empty desired set.
ApplicableIgnoringRenderError(r) == ~r.renderOk \/ r.objs # <<>>

\* getManifestObjects succeeded and rendered at least one object.
Applicable(r) == r.renderOk /\ r.objs # <<>>

\* Mutant: the first rendered object is left out of createOrUpdateObjs.
ToApplySkippingFirst(r) == Tail(r.objs)

\* The objects handed to createOrUpdateObjs: all that were rendered.
ToApply(r) == r.objs

\* The head of Sync for an enabled sub-system: it needs the static info,
\* renders its manifests (all or nothing), and refuses an empty rendering.
SyncEnabled ==
    /\ Running("begin")
    /\ LET r == Rendered(cur, snapshot) IN
       /\ r.enabled
       /\ \/ ~staticInfo /\ Return("Error", "staticInfo")
          \/ staticInfo /\ ~r.renderOk /\ Return("NotReady", "render")
          \/ staticInfo /\ r.renderOk /\ r.objs = <<>>
             /\ Return("NotReady", "none")
          \/ /\ staticInfo /\ Applicable(r)
             /\ phase' = "apply" /\ todo' = ToApply(r) /\ applyFailed' = FALSE
             /\ UNCHANGED <<pass, snapshot, staticInfo, idx, statesReady,
                            results, aggregate, aggSnapshot>>
    /\ UNCHANGED clusterVars

\* createOrUpdateObjs, one object: the owner reference is stamped and the
\* object created or merged.  A failed call is recorded and the loop goes
\* on with the next object.
ApplyObj ==
    /\ Running("apply")
    /\ todo # <<>>
    /\ todo' = Tail(todo)
    /\ \/ /\ CreateOrUpdate(Head(todo), snapshot)
          /\ UNCHANGED <<cr, budget, applyFailed>>
       \/ /\ Disturb
          /\ applyFailed' = TRUE
          /\ UNCHANGED <<live, terminating, content, rolledOut, cr>>
    /\ UNCHANGED <<pass, snapshot, staticInfo, idx, phase, statesReady, results,
                   aggregate, aggSnapshot>>

\* Mutant: stale objects are picked against the custom resource as it is
\* now rather than the one this call rendered.
StaleListVsLiveCR(s) == SetToSeq(Stale(s, cr))

\* handleStaleStateObjects: the objects s tracks that this call's
\* rendering no longer contains.
StaleList(s) == SetToSeq(Stale(s, snapshot))

\* End of createOrUpdateObjs: on an error Sync returns NotReady at once;
\* otherwise handleStaleStateObjects lists the objects the state tracks
\* and picks those the rendering no longer contains.
ApplyDone ==
    /\ Running("apply")
    /\ todo = <<>>
    /\ \/ /\ applyFailed
          /\ Return("NotReady", "apply")
          /\ UNCHANGED clusterVars
       \/ /\ ~applyFailed
          /\ Disturb
          /\ Return("NotReady", "list")
          /\ UNCHANGED <<live, terminating, content, rolledOut, cr>>
       \/ /\ ~applyFailed
          /\ phase' = "stale"
          /\ todo' = StaleList(cur)
          /\ UNCHANGED <<clusterVars, pass, snapshot, staticInfo, idx,
                         applyFailed,
                         statesReady, results, aggregate, aggSnapshot>>

\* One delete of the stale-object loop (phase "stale") or of the
\* delete-everything loop of a disabled state (phase "deleteAll").  A
\* failed delete ends Sync with NotReady.
DeleteObj ==
    /\ pass = "running" /\ idx <= N /\ phase \in {"stale", "deleteAll"}
    /\ todo # <<>>
    /\ \/ /\ Delete(Head(todo))
          /\ todo' = Tail(todo)
          /\ UNCHANGED <<cr, budget, pass, snapshot, staticInfo, idx, phase,
                         applyFailed, statesReady, results, aggregate,
                         aggSnapshot>>
       \/ /\ Disturb
          /\ Return("NotReady", "delete")
          /\ UNCHANGED <<live, terminating, content, rolledOut, cr>>

\* Mutant: an object whose deletion is pending counts as gone.
WaitForRemovalIgnoringTerminating(s, c) == Stale(s, c) \ terminating # {}

\* waitForStaleObjectsRemoval: a stale object of s still exists.
WaitForRemoval(s, c) == Stale(s, c) # {}

\* After the stale deletes: wait (NotReady) while any stale object still
\* exists; otherwise go on to read the objects' status.
StaleDone ==
    /\ Running("stale")
    /\ todo = <<>>
    /\ \/ /\ WaitForRemoval(cur, snapshot)
          /\ Return("NotReady", "none")
          /\ UNCHANGED clusterVars
       \/ /\ ~WaitForRemoval(cur, snapshot)
          /\ phase' = "status"
          /\ todo' = Rendered(cur, snapshot).objs
          /\ UNCHANGED <<clusterVars, pass, snapshot, staticInfo, idx,
                         applyFailed,
                         statesReady, results, aggregate, aggSnapshot>>

\* handleStateObjectsDeletion, after its deletes: NotReady while anything
\* the state created remains, otherwise the state contributes nothing.
DeleteAllDone ==
    /\ Running("deleteAll")
    /\ todo = <<>>
    /\ IF Tracked(cur) # {} THEN Return("NotReady", "none")
                            ELSE Return("Ignore", "none")
    /\ UNCHANGED clusterVars

\* getSyncState, one object: a failed read or a vanished object is an error
\* that Sync wraps into NotReady; an object whose rollout has not
\* converged makes the state NotReady.
StatusObj ==
    /\ Running("status")
    /\ todo # <<>>
    /\ LET o == Head(todo) IN
       \/ /\ Disturb
          /\ Return("NotReady", "status")
          /\ UNCHANGED <<live, terminating, content, rolledOut, cr>>
       \/ /\ o \notin live
          /\ Return("NotReady", "status")
          /\ UNCHANGED clusterVars
       \/ /\ o \in live \ rolledOut
          /\ Return("NotReady", "none")
          /\ UNCHANGED clusterVars
       \/ /\ o \in rolledOut
          /\ todo' = Tail(todo)
          /\ UNCHANGED <<clusterVars, pass, snapshot, staticInfo, idx, phase,
                         applyFailed, statesReady, results, aggregate,
                         aggSnapshot>>

StatusDone ==
    /\ Running("status")
    /\ todo = <<>>
    /\ Return("Ready", "none")
    /\ UNCHANGED clusterVars

---------------------------------------------------------------------------

OperatorStep ==
    \/ SyncDisabled \/ SyncEnabled \/ ApplyObj \/ ApplyDone \/ DeleteObj \/ StaleDone
    \/ DeleteAllDone \/ StatusObj \/ StatusDone \/ SyncStateEnd

Env == ClusterEnv /\ UNCHANGED mgrVars

Next == SyncStateStart \/ OperatorStep \/ Env

\* Sync is synchronous and never blocks, so a started pass runs to its end;
\* the hosting controller requeues and watches, so a new pass always comes;
\* the platform's controllers eventually roll out and garbage-collect.
Fairness ==
    /\ WF_vars(OperatorStep)
    /\ WF_vars(SyncStateStart)
    /\ \A o \in Objs : /\ WF_vars(Rollout(o) /\ UNCHANGED mgrVars)
                     /\ WF_vars(Finalize(o) /\ UNCHANGED mgrVars)

Spec == Init /\ [][Next]_vars /\ Fairness

---------------------------------------------------------------------------
(* Properties                                                              *)

\* SyncState: a finished call holds one Result per configured state, in
\* the configured order (a failing state never stops the others), and its
\* Status is Ready exactly when no state reported NotReady or Error.
ManagerVerdict ==
    (pass = "idle" /\ aggregate # "None") =>
        /\ Len(results) = N
        /\ \A i \in 1..N : results[i].state = StateOrder[i]
        /\ (aggregate = "Ready") <=>
               \A i \in 1..N : results[i].status \in {"Ready", "Ignore"}

\* No step of a Sync creates an object the spec it reconciles does not
\* render, and none deletes (or starts deleting) an object unless that
\* spec disables the object's state or renders that state successfully
\* without the object: a failed rendering never garbage-collects.
OperatorKeepsToDesired ==
    [][OperatorStep =>
         LET d == UNION {Desired(s, snapshot) : s \in States}
             removable == {o \in Objs :
                             LET r == Rendered(Owner[o], snapshot) IN
                             ~r.enabled \/ (r.renderOk /\ o \notin d)}
         IN /\ live' \ live \subseteq d
            /\ (live \ live') \cup (terminating' \ terminating)
                   \subseteq removable
      ]_vars

\* Section 7 of the spec: a template that fails to parse or to evaluate is
\* fatal to the state's cycle and surfaced as Error.  Sync wraps the
\* render error of getManifestObjects.
FatalFailuresReportError ==
    \A i \in DOMAIN results :
        results[i].err = "render" => results[i].status = "Error"

\* handleStaleStateObjects / handleStateObjectsDeletion: an object the
\* custom resource no longer renders (its state dropped it from the
\* rendering, or the state was disabled) is eventually gone from the
\* cluster, however its deletion is delayed by finalizers.
StaleObjectsEventuallyRemoved ==
    \A o \in Objs : (o \in Stale(Owner[o], cr)) ~> (o \notin Stale(Owner[o], cr))

\* Once the user stops editing and drift stops, the engine converges: from
\* some point on the cluster holds exactly what the custom resource
\* renders, with the fields it renders, and every finished SyncState
\* reports Ready for that spec.
Converges ==
    <>[](/\ aggregate = "Ready" /\ aggSnapshot = cr
         /\ \A s \in States : Tracked(s) = Desired(s, cr)
         /\ \A o \in live : content[o] = cr)

---------------------------------------------------------------------------
(* Refinement: SyncState implements Reconciliation.  The abstract pass is *)
(* the running call; the states that have reported, and those that        *)
(* reported favourably, are read off managerResult.StatesStatus.           *)

ReportedStates(ok) ==
    {results[i].state : i \in {j \in DOMAIN results : results[j].status \in ok}}

Abstract == INSTANCE Reconciliation
              WITH busy <- (pass = "running"), target <- snapshot,
                   visited <- ReportedStates(SyncStates),
                   confirmed <- ReportedStates({"Ready", "Ignore"}),
                   verdict <- aggregate, verdictFor <- aggSnapshot

\* SyncState with every Sync keeps the promise of a pass as a whole: it
\* reconciles the spec it read at its start, touches only what that spec
\* allows, hears every state once and in order, takes a state's favourable
\* report only when nothing stale of it is left, publishes Ready exactly
\* when every report was favourable, and always ends.
ImplementsReconciliation == Abstract!Spec
=============================================================================
