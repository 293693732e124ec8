# TLA+ models of the network-operator

These modules model the parts of the network-operator that carry real control
logic:
- the reconciliation engine (`pkg/state/manager.go`);
- the node drain manager (`pkg/upgrade/drain_manager.go`);
- the NicClusterPolicy admission webhook (`api/v1alpha1/validator/nicclusterpolicy_webhook.go`).

They are checked with TLC. `PROJECT.json` lists the runs, the mutants that
show each passing property can fail, the map from definitions to source lines,
the findings and the hazards.

## The system and how its parts interact

| Part | Source | Role |
|---|---|---|
| State manager | `manager.go:26-112` | `SyncState` calls every state's `Sync` in order. It records `(state, status, err)` for each and reports Ready only if no state is NotReady or Error. |
| State `Sync` (template `stateCNIPlugins`) | `manager.go:113-267` | A disabled component deletes everything it tracks. Otherwise: missing static info gives Error, a render failure gives NotReady, an empty rendering gives NotReady. Then it creates or updates each rendered object, deletes stale tracked objects (NotReady while any remain), and reads each object's readiness. |
| State skeleton, renderer | not under `src/` (spec §3-4) | create-or-merge, delete, list by owner label, status of a DaemonSet. Objects rendered from templates. |
| Cluster | environment | Rollout, garbage collection after finalizers, user drift and custom-resource edits, failed API calls. |
| Drain manager | `drain_manager.go:57-139` | `ScheduleNodesDrain` records each node in `drainingNodes` and starts a goroutine that cordons, drains and sets the node's upgrade state. Its deferred `Remove` takes the node out again. |
| Admission webhook | `nicclusterpolicy_webhook.go` | One validator object serves every create, update and delete request. Each request copies the object into the validator and runs the field checks on that copy. |

The state manager and the webhook meet only through the custom resource: the
webhook filters what the user writes, and the manager reconciles what was
admitted. The drain manager is driven by the upgrade reconciler, which is not
in this repository excerpt. It calls `ScheduleNodesDrain` repeatedly, and those
calls can overlap goroutines of earlier calls.

## Modules

| Module | Models | State / actions |
|---|---|---|
| `ClusterAPI` | the cluster (environment + API calls used by the skeleton) | `live`, `terminating`, `content` (which custom-resource spec an object's fields come from), `rolledOut`, `cr`, `budget`. `CreateOrUpdate`, `Delete` (immediate or pending on a finalizer), `Rollout`, `Finalize`, `ExternalDelete`, `ExternalEdit`, `EditCR`. |
| `StateManager` (EXTENDS `ClusterAPI`) | `SyncState` + `Sync` | One pass over `StateOrder`. `snapshot` is the custom resource the pass reconciles. `staticInfo` says whether that call's info catalog provides static info, chosen per call from `StaticInfoOptions`. Each branch of `Sync` is an action: `SyncDisabled` and `DeleteAllDone`; `SyncEnabled` (static info, render, empty); `ApplyObj` and `ApplyDone`; `DeleteObj` and `StaleDone`; `StatusObj` and `StatusDone`. Each action does one API call per step. `Return` is lines 88-101 and `SyncStateEnd` is lines 103-111. |
| `MC_StateManager` | instantiation | Two states: sA owns a1 and a2, sB owns b1. Spec c1 enables everything, c2 drops a1 and disables sB, and c3 (faults) breaks sA's rendering and renders nothing for sB. |
| `DrainManager` | `ScheduleNodesDrain` and its goroutines | `drainingNodes`, `nodeState`, `cordoned`, `drained`, `calls`, `caller` (the running loop), `loopVar` (the loop variable of each call), `gs` (goroutines: pc, node, deferred node, outcome). `PerIterationLoopVar` selects Go ≥ 1.22 or the older semantics. `evictSeconds` is how long each node's evictions take. `failedWrites` counts failed `ChangeNodeUpgradeState` calls, up to `MaxUpdateFailures`. |
| `Reconciliation` | what a `SyncState` pass promises (the `Manager` interface comment, spec §5-7) | `busy`, `target`, `visited`, `confirmed`, `verdict` and `verdictFor`, over the cluster variables. `Begin` reads the custom resource. `Reconcile` lets the operator only write what `target` renders and only remove what it lets go. `Report(favourable)` takes the next state in order, and a favourable report needs that state free of stale objects. `Publish` reports Ready exactly when every report was favourable. `Env` is any step of the rest of the cluster: nothing is created, fields are only cleared, and each custom-resource edit costs a disturbance. |
| `DrainProtocol` | the promise of `ScheduleNodesDrain`'s doc comment (`drain_manager.go:51-56`) | `phase[n]` moves idle → scheduled → cordoned → drained → decided → idle. A failed cordon or drain goes straight to decided with drain-failed. `Restart` requires the node to be cordoned and evicted. The label write may fail. Weak fairness on each node's progress. |
| `NicClusterPolicyValidation` | every field check, as pure operators | A policy is a function from the declared components to their specs. Matched strings are model values, and a regex or parser is the set of values it accepts. GUIDs are kept as characters, and the range check parses them as hex (`HexValue`). `ValidateContainerResources` checks only components whose spec type has an `ImageSpec` field, as the reflection lookup does (`ReflectsImageSpec`). `DocumentedValid` restates the rules of the comment at lines 139-155 as a reference. |
| `ValidatorWebhook` (EXTENDS the above) | concurrent admission requests on one validator | `w` (the shared embedded policy), `pc`, `errs` and `allowed` for each request. `ValidateCreateOrUpdate` copies the object into `w`. Each `RunCheck` step runs one check of `validateNicClusterPolicy` reading `w`. `Respond` returns the verdict. |
| `MC_StateManager`, `MC_DrainManager`, `MC_ValidatorWebhook` | instantiations | Two states and three objects; two nodes with eviction times `AnyEvict` (each node 0 or 1 s) or `MixedEvict` (n1 0 s, n2 1 s); policies built from the options of each branch. |

Abstract specifications and refinements:

`StateManager` defines `Abstract == INSTANCE Reconciliation WITH busy <- (pass = "running"), target <- snapshot, visited <- ..., confirmed <- ..., verdict <- aggregate, verdictFor <- aggSnapshot`.
- `visited` and `confirmed` are the states in `results`, and those among them whose status is Ready or Ignore.
- Every step inside a `Sync` that does not return is a `Reconcile` step or a stutter. Each `Return` is a `Report`.
- Fairness in `Reconciliation` is on `Begin`, `Report` and `Publish`. How many writes a pass takes is not promised.

`DrainManager` defines `Abstract == INSTANCE DrainProtocol WITH phase <- DrainPhase, unschedulable <- cordoned, evicted <- drained`.
- `DrainPhase` reads each node's phase off the goroutine working on it. It is idle when there is none, scheduled before the cordon, cordoned before the drain, and decided once the label is written. A goroutine about to report stands in the phase its outcome reached.
- The defer, a failed cordon or drain, and a skipped iteration are stuttering steps of the abstract spec.
- The mapping takes the node from the goroutine record, so it is checked only under per-iteration loop variables. Under shared loop variables the run `drain_loop_var` already fails.

## Runs

| Run | Checks | Result |
|---|---|---|
| `state_manager` | `TypeOK`, `ManagerVerdict`, `OperatorKeepsToDesired`, `StaleObjectsEventuallyRemoved`, `Converges`, `ImplementsReconciliation` | passes (≈20k states) |
| `state_manager_faults` | `ManagerVerdict`, `OperatorKeepsToDesired` and `ImplementsReconciliation`, with calls that lack static info and with a failing and an empty rendering | passes (≈35k states) |
| `render_error_not_fatal` | `FatalFailuresReportError` | violated: code returns NotReady (`manager.go:209`), spec §7 says Error |
| `empty_render_leaves_stale` | `StaleObjectsEventuallyRemoved` with an enabled, empty rendering | violated: `manager.go:211` returns before stale cleanup |
| `drain_manager` | `NoNodeScheduledTwice`, `RestartOnlyAfterDrain`, `NodeEventuallyReleased`, `DrainProtocolRefined` (the abstract spec, fairness included), with one failing label write | passes (≈87k states) |
| `drain_loop_var` | `RestartOnlyAfterDrain` under shared loop variables | violated: the goroutine acts on the wrong node |
| `drain_timeout_units` | `DrainHonoursTimeout` | violated: `time.Duration(TimeoutSecond)` is nanoseconds |
| `drain_lost_verdict` | `ScheduledNodeGetsVerdict`, with one failing label write | violated: the discarded `ChangeNodeUpgradeState` error (`drain_manager.go:106/114/119`) releases a node still drain-required, against the doc comment at lines 55-56 |
| `webhook_verdict` | `AdmissionJudgesOwnObject`, one request, 8,640 policies; the CNI plugins have no or acceptable containerResources | passes |
| `webhook_race` | `AdmissionJudgesOwnObject`, two concurrent requests | violated: a request is judged on the copy another request stored; in the trace a valid OFED policy is rejected with a concurrent SR-IOV policy's errors |
| `webhook_repo_path` | `RepositoryErrorsNameTheirComponent` | violated: OFED repository reported under nicFeatureDiscovery |
| `webhook_cni_resources` | `AdmissionJudgesOwnObject`, a policy whose CNI plugins name an unsupported container | violated: `FieldByName("ImageSpec")` (`nicclusterpolicy_webhook.go:566`) finds nothing in the bare `*ImageSpec` of the CNI plugins (`manager.go:179, 251`), so their containerResources are never checked |

What the properties say:
- **`NodeEventuallyReleased`:** the deferred `Remove` runs on every way out of the goroutine, so a node put into `drainingNodes` always leaves it.
- **`ScheduledNodeGetsVerdict`:** a node that leaves `drainingNodes` carries a pod-restart-required or drain-failed label, as the doc comment promises. This fails once a label write fails.
- **`ManagerVerdict`:** after a pass, the results list every state in order, and the aggregate is Ready exactly when all results are Ready or Ignore.
- **`OperatorKeepsToDesired`:** an operator step creates only objects the reconciled spec renders. It deletes only objects of a state that this spec disables, or that it renders successfully without them.
- **`ImplementsReconciliation`:** a `SyncState` pass, with all its API round trips, interleaved drift and edits, is a behaviour of `Reconciliation`. It reconciles the spec it read at its start and touches only what that spec allows. It hears each state once and in order, and a favourable report comes only from a state without stale objects. It publishes Ready exactly when every report was favourable, and always ends.
- **`DrainProtocolRefined`:** each node's drain, seen through `DrainPhase`, is a behaviour of `DrainProtocol`. A node is scheduled only when idle. It reaches pod-restart-required only through a cordon and an eviction. It is always released again. The only deviation is a failed label write, which leaves the label as it was.
- **`Converges`:** once disturbances stop, the cluster ends up holding exactly the desired objects, written from the current custom resource, and reports Ready.

Each passing property has a mutant in `PROJECT.json`: a plausible bug in the
mapped code under which TLC finds it violated.

## Bounds, and why they are enough

- **StateManager:** two states, three objects and two or three specs, and at most two disturbances (drift, edits, failed calls). This is enough for:
  - a custom-resource edit in the middle of a pass, followed by drift or a failure;
  - an object that is desired in one spec and stale in the other;
  - a disabled state;
  - one state failing while the other succeeds.
- **DrainManager:** two nodes and two calls, so a second call overlaps goroutines of the first. The drain timeout is 300 s, and eviction takes 0 or 1 s per node. The passing run fixes n1 at 0 s and n2 at 1 s (`MixedEvict`) to stay under five minutes with one failed label write. That still gives a timely drain, a drain over the timeout, and a refused eviction. The violation runs let each node take 0 or 1 s.
- **Webhook:**
  - The verdict run uses one request. Two requests are enough for the race.
  - GUIDs have 2 byte groups instead of 8. TLC integers are 32-bit, and the digit order does not depend on the length.
  - The CNI plugins get a bad repository, acceptable resources or none in the verdict run. Unacceptable resources are in `webhook_cni_resources`, where the code admits them.

## Fairness

- **StateManager:** weak fairness on the operator's steps, which the caller re-invokes periodically (spec §5), and on the platform's rollout and garbage collection. Drift, edits and failures get no fairness and are bounded.
- **DrainManager:** weak fairness on each goroutine and on the running loop. The Go scheduler runs every runnable goroutine, and nothing in them blocks forever in the model. `DrainProtocol` assumes weak fairness on each node's progress. `drain_manager` shows that the goroutine fairness implies it.
- **Webhook:** weak fairness on each request handler.

## What is not modelled

- CRD schemas, the Multus manifest template, the renderer tests, CI, lint and release configuration: these are declarative or test code with no operations.
- The state constructors (`NewStateCNIPlugins`, `manager.go:157-172`) and `InitSchemaValidator` (`nicclusterpolicy_webhook.go:670-688`): they run once at start-up, read the manifest or schema directory and panic or fail on an error. Their results are the `Rendering`, `SupportedContainers` and `LoadedSchemas` constants.
- The logged-only error of the state constructor in the webhook (`nicclusterpolicy_webhook.go:571`): what `ParseContainerNames` makes of the renderer it gets back is not in the excerpt.
- The template engine itself: abstracted as the `Rendering` constant.
- `DisableValidations`: only switches validation off.
- The JSON schema contents, and regex internals other than the GUID check.
- Which spec types other than the CNI plugins' bare `ImageSpec` lack an `ImageSpec` field: the API types are not in the excerpt, so the model takes them to embed it (`BareImageSpec`).
- What the upgrade reconciler does with a node whose label write failed: it is not in this repository.
- `GetWatchSources` (`manager.go:57-77`, `241-245`): a pure fold over the states' kind maps in which the first declaration wins. It changes no state and a unit test reaches it directly.

## Plan for later work

1. A `Renderer` module (spec_modelled): lexicographic file order, all-or-nothing on failure. The renderer tests describe this behaviour.
2. Concurrent `SyncState` invocations for the same custom resource. Spec §5 forbids them; the model would show what the hosting controller must guarantee.
3. The upgrade reconciler's re-scheduling of drain-failed nodes (its code is not in this excerpt).
