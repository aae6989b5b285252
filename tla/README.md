# Kubeling in TLA+

Kubeling applies rules from a ConfigMap to the Nodes of a Kubernetes cluster:
labels, annotations, external IPs, and the initialization of new Nodes. Its
code is small and sequential to read, and everything hard about it lies
between its lines: controllers decide from a cache that lags behind, share one
object with writers they do not know, swallow conflicts because someone will
wake them up again, and keep in memory what a restart loses. This directory
models that, checks it with TLC and proves what matters most with TLAPS.

Paths below are relative to the repository (`pkg/controller/...`,
`pkg/config/...`, `cmd/kubeling/main.go`); README.md with a line number is the
repository's README.

## The system

| Component | Code | State | Operations | Modelled in |
| --- | --- | --- | --- | --- |
| flap detector | `flaps.go` | per Node: flaps, appliedAt, until, desired | applied, rulesChanged, drifted, remaining, forget | `FlapState`, `FlapDetector`, `RuleController` |
| rule matching | `match.go`, `types.go` | none (a regexp cache) | matches, matchingIDs, Validate | `NodeRules`, `RuleValidation` |
| label and annotation controllers | `metadata_controller.go` | none of its own | reconcile, resolveValues, applyOverwrite | `NodeRules`, `RuleAlgebra`, `RuleController` |
| externalIP controller | `externalip_controller.go` | none of its own | reconcile, mergeExternalIPs | the same |
| drift handling | `drift.go` | none of its own | beforeApply, fingerprint; drift and recentWriters for messages | `RuleController`, `NodeRules`; `DriftReport`, `RuleAlgebra` |
| conditions | `conditions.go` | the Node's conditions | ensureCondition, ensureConditionAbsent | `RuleController` |
| node workqueue | `controller.go` | queue, delayed adds, retry counts | event handlers, EnqueueAll, Run, processNextItem | `NodeQueue`; `RuleController`, as a `TaskQueue` |
| config watcher | `watcher.go` | the current configuration | load, Parse, clear, Current | `RuleController` (LoadConfig, EnqueueAll), `RuleValidation` |
| initialization controller | `initialization_controller.go` | none of its own | reconcile, resolveProviderIDScheme | `NodeRules`, `RuleController` (Initialize) |
| process, leader election | `main.go` | the lease | run, OnChange, stop | `Crash`, `Fresh` in `RuleController`; `Handover` |
| ConfigMap reference, flags, health endpoint, chart | `ref.go`, `main.go`, `charts/` | none | | not modelled |

How they interact. One shared informer keeps a cache of every Node and calls
each controller's event handlers: an addition or change queues the Node's
name, a deletion makes the flap detector forget it. A second informer feeds
the ConfigMap to the watcher, which stores the parsed configuration and then
calls `OnChange`, which queues every cached Node with every controller. A
worker takes a name from its controller's queue, reads the Node from the cache
and the rules from the watcher, and makes at most one write to the API server,
which accepts it only if the Node still has the resourceVersion of the
snapshot. The write comes back through the informer and wakes all controllers
up for the next step. Cooldowns and retries add the name to the queue later.

What is hard about it:

- **Stale reads.** Cache, configuration and API server are never looked at
  together. A decision is made from a snapshot and carried out later.
- **Swallowed conflicts.** `reconcile` returns no error on a conflict: that is
  only right if a wake-up is certain to come (`metadata_controller.go:137-140`,
  `conditions.go:129-132`).
- **Order.** The watcher has to store before it announces. The retry, the
  delayed add and the watch event of one key meet in one queue.
- **Memory against the cluster.** The flap detector's memory and the Node's
  condition are updated at different times and either can be lost alone.
- **Other writers.** They change the same keys, other keys of the same object,
  delete the Node and create it again, and they may do so forever.
- **Two leaders.** The lease is released before the old leader's workers have
  stopped (`main.go:190`), and a request outlives its process.
- **Boundaries.** The cooldown is a shifted duration with a cap; heartbeats
  are truncated to the second.

What makes each component correct, in one line each: the *detector* tells each
caller a wait that doubles and is bounded, and never touches one that is
running; *merging* settles at once, and *resolving* takes only what rules agree on; the
*controllers* never lose somebody else's change, never make a condition say
what is not so, never write during a cooldown, and always end up with the
Node as the rules want it; the *queue and watcher* never lose the wake-up that
this takes; the *drift report* names what is about to be changed and who
changed it before, and nobody else; *validation* lets through no term that can
never match; the *initialization controller* never initializes a Node without
the providerID its rules ask for.

## The modules

    FlapState            pure: what flaps.go remembers, and how it changes
      FlapDetector       the detector as an object: any calls in any order
        FlapDetector_proofs
    NodeRules            pure: matching, merging, fingerprints
      RuleValidation     pure: which configurations Validate accepts
      DriftReport        pure: what is reported of a drift
        RuleAlgebra      all of these over all small inputs
          RuleAlgebra_proofs    extends NodeRules_proofs, the lemmas on lists
      RuleController     queues, cache, watcher, API server, other writers
        MCRuleController, RuleClaims
        RuleController_proofs, RuleController_wakeup, RuleController_refinement
        Handover         two of them around one lease
          Handover_proofs       extends RuleController_refinement
    NodeContract         what the rule controllers promise, abstractly
    NodeQueue            one controller's workqueue and its workers
      NodeQueue_proofs
    TaskQueue            what a workqueue promises, abstractly

`RuleController` uses `FlapState` in place through `INSTANCE`, so the detector
that is proved about on its own is the one the controllers run.

### FlapState and FlapDetector

One operator per operation of `flaps.go`; `Drifted` is the state `drifted`
leaves behind and `DriftedWait` what it returns. A missing map entry and the
zero `flapState` are the same thing, as every operation treats them alike. Go's
zero time is a time further back than any flap window. `FlapDetector` makes
each operation an action, callable for any Node with any arguments (a heartbeat may
come from a clock that is ahead), and keeps
the wait the last `drifted` call granted, so that what successive callers are
told can be related.

### NodeRules and RuleAlgebra

A Node's labels and annotations are functions, its addresses a sequence of
`[type, ip]`, an IP a family and a host. A `providerIDPattern` is the set of
providerIDs it accepts. Rule IDs are numbers: the code only sorts them.
`ResolveValues` leaves out keys on which matched rules disagree;
`MergeExternalIPs` keeps the Node's order, removes duplicates and puts IPv6
first. Fingerprints are sets, which is what sorting and joining amounts to.
An IP that does not parse counts as IPv4, with which it sorts.

A providerID is a sequence: none is empty, one made from a scheme is
`<<scheme, name>>`. An initialization rule's value is its scheme, `NoScheme` if
it has none. `MayInitialize` is `resolveProviderIDScheme`'s verdict: rules that
disagree stop the pass, but only for a Node that has no providerID yet.
`Initialized` stamps the providerID and removes the `uninitialized` taint, and
nothing else.

### RuleController

| Code | Model |
| --- | --- |
| Node objects and resourceVersions in the API server | `api`, `revision`, `Store` |
| the Node watch, the shared cache, handler notifications | `watch`, `cache`, `notes`; `Deliver`, `Relist`, `Resync`, `Handle` |
| the ConfigMap, `Watcher.current`, `OnChange` | `configMap`, `configWatch`, `config`, `announce`; `LoadConfig`, `ResyncConfig`, `EnqueueAll` |
| the workqueue and its delayed adds | `dirty`, `waiting`; `Schedule`, `Wake` |
| a worker in `reconcile` | `worker`; `Start`, `Reconcile`, `Write`, `Record` |
| `flapDetector.nodes` | `flaps` |
| process start, crash, change of leader | `Fresh`, `Init`, `Crash` |
| other clients, kubelet, operator, time | `ForeignWrite`, `DeleteNode`, `CreateNode`, `EditConfigMap`, `Tick` |

A *task* is a pair of domain and Node. A queue never hands one key to two
workers, and tasks share nothing but cache, rules and API server, so every task
has its own worker. This allows more interleavings than the code's two workers
per controller and so loses none. `reconcile` is cut where others can interfere:
reading the cache (`Start`), deciding (`Reconcile`), the API server's answer
(`Write`), `flaps.applied` (`Record`). The disjuncts of `Reconcile` are the
branches of `reconcile` and `beforeApply` in the code's order, each with its
whole effect: flap state, delayed add and the one write. For the
initialization controller it is `Initialize`: no condition, no cooldown, just the
one write that stamps and removes the taint. A write succeeds,
conflicts (swallowed), or fails (retried): because the Node is gone, without
effect, or after it took effect with the answer lost.

`Crash` keeps what the cluster keeps and starts over with empty queues, an empty
flap detector and, as in the code, an empty configuration until the ConfigMap
has been loaded. A new leader starts in the same way. What the model leaves to
the environment (other writers, deletions, edits, faults) is bounded by a budget,
chosen from `Budgets` at the start, and time by the budget's horizon; the program
itself is not bounded. `ForeignWrite` sets any field that
the constants name to any of its values, except that nobody changes a providerID
once it is set, which the API server forbids.

### NodeContract

The life of a Node seen from the API server, without cache, queue or versions:
`Clear`, `Pend`, `Drift`, `Apply` and `Confirm` each look at the Node *as it is*,
decide by some configuration the ConfigMap may hold, and change one thing.
`Initialize` does so for a Node without a providerID or with the taint. Values
are never written before the Node carries a condition; `Drift` only happens to
an applied condition whose values are missing. That `RuleController` implements
it (mapping away versions and heartbeats) says that all its stale
reads and partial failures are invisible in the cluster, apart from *when*
things happen. Which rules match and what they want are parameters of the
contract.

### Handover

Two replicas. `RuleController` is used twice: its variables are the new
leader's, and `Old` is an instance for the old leader's with a cache, rules,
queue and flap detector of its own; API server, ConfigMap and clock are shared.
A step of one reaches the other's watches like anybody else's change
(`NewSees`, `OldSees`). `LoseLease` is the release of the lease or its expiry
while the leader is paused, `TakeOver` the other's `OnStartedLeading`, and
`Stop` the end of the old leader's context and process, in any order that the
code allows: the old leader may be stopped before, while or after it loses the
lease. `LandWrite` is a request that the API server carries out after its
process has ended; its answer is never heard.

The old leader stops soon after it has lost its lease, so the reconciles that
it *starts* in between are bounded (`Overlaps`, per budget); those under way are
always finished or cut off. While both work, each is the other's foreign writer. They
may disagree, as either may go by rules that the other has not loaded: the new
leader clears conditions that the old one writes until it has loaded the
ConfigMap, and so does whichever of them first loads that it is gone.

### NodeQueue and TaskQueue

`NodeQueue` is one controller's queue as client-go implements it: the FIFO,
the dirty and processing sets, one delayed add per key of which the earlier
time stands, the rate limiter's failure count and shutdown, with the event
handlers that fill it and the workers that `Run` starts on it once the cache is
synced. A reconcile only asks for a cooldown, fails or succeeds. A retry waits
for at least the exponential back-off and at most `MaxDelay`, as the limiter
that all keys share may add to it. Run returns on cancellation without waiting
for its workers, and shuts the queue down even if it has started none.

`TaskQueue` is what this amounts to: a set of dirty keys, any of which may be
next unless a worker has it, and one wake-up per key. `RuleController` assumes
no more of its queues (`dirty`, `waiting`): its `Start`, `Done`, `Schedule` and
`Wake` are `TaskQueue`'s, with the steps that a worker takes without a pause
taken together.

### DriftReport and RuleValidation

Pure functions, which `RuleAlgebra` runs over all small inputs. Lists are
filtered by positions (`Pick`) and sorted by insertion (`Inserted`), as recursive
functions: the library's `SelectSeq` and `SortSeq` would do for TLC, but nothing
can be proved about them here. `DriftReport` is
what `beforeApply` reports and logs: the labels or addresses that are missing or
changed, and the field managers that wrote them. The API server keeps managedFields
per manager, operation and subresource, in whole seconds and in no order
(`EntriesOf`). An entry's FieldsV1 are the domains of which the manager owns a value,
or absent (`NoFields`), or no JSON (`Broken`), and it may lack a time (`NoTime`).
`IsRecent` has every guard of `recentWriters`: the subresource that the domain's
controller asks for (`SubresourceOf`), Kubeling itself, the fields, the path and the
time. Managers that own nothing any more have no entry, and nobody claims that
they are found.

In `RuleValidation`, `Accepted` is `Config.Validate`'s verdict on a configuration, of
the rules of all four domains. What the nodeaffinity package parses is modelled from
its rules for operators and values. `matches` parses terms and patterns with the
functions that `Validate` has called on them, so its branches for what does not
parse cannot be reached with a loaded configuration, and `NodeRules` leaves them out.

## The runs

Every passing run is exhaustive. One Node is enough for the rule controllers:
tasks of different Nodes share no variable but `revision`, the rules and the
clock, and the proofs hold for any number. A cooldown of one tick and a
horizon of two, beyond which time only passes towards a cooldown's end, reach drifts
in and after a cooldown; a horizon of three, one after the flap window of two
ticks. Longer streaks are `flap_detector`'s business.

| Run | Bounds | Shows |
| --- | --- | --- |
| `flap_detector` | 1 Node, 2 fingerprints, cooldowns 1..4, 20 ticks, streaks to 6, heartbeats up to 2 ticks ahead | type correctness; waits are bounded and double; a running cooldown is kept; the streak invariant |
| `algebra` | up to 3 of 5 addresses and 3 of 4 IPs; all sets of 3 rules on 2 keys and 2 values, all labels; up to 3 entries in 2 seconds of 2 ticks, of 2 other managers or Kubeling, some through another subresource, of other, no or broken fields, or without a time; in each domain 2 rules, one of them with terms of up to 1 label and 1 field requirement with 5 operators and 2 values, or a pair of terms; Nodes of 3 names with all labels | merging settles at once, is an ordered union and is stable; a key is resolved exactly if all rules that set it agree, however many they are; what is reported as drift is what is written; those who wrote these values since are named, once, the most recent first, and nobody else; no accepted term is dead |
| `rules_faults` | 1 foreign write up to horizon 3; 2 of them, or 1 and 1 fault of any kind, up to horizon 2; 2 ticks per second | types, no lost wake-up, truthful conditions, cooldowns served, the contract |
| `rules_edits` | 1 edit among 4 contents, 1 foreign write to labels or providerID, fairness | no lost wake-up and truthful conditions while rules and matches change; the Node ends up as the loaded rules want it, and the controller comes to rest |
| `rules_external_ips` | 1 foreign write of addresses, 2 deletions or creations, horizon 1 | no lost wake-up, justified updates, no lost update; versions identify Nodes; nothing is remembered of a gone one |
| `rules_initialization` | 2 foreign writes to labels, providerID or taints, 1 edit, 1 fault, horizon 1; 3 rules of which 2 have conflicting schemes, for Nodes with and without a providerID | Nodes are initialized with the providerID their rules ask for or not at all; none is forgotten; the contract |
| `rules_chained` | initialization and labels on one Node, nobody else writes, fairness | the stamped providerID starts a label rule whose label ends its own match: neither controller loses the other's update, and both come to rest |
| `handover` | 2 reconciles started without the lease in a quiet cluster; or none, while those under way go on, and 1 edit | with two replicas at work no update is lost, no condition lies, no wake-up is lost |
| `node_queue` | 3 Nodes, 2 workers, a cooldown of 2 ticks and a back-off of 1, fairness | one worker per Node; queued once; implements `TaskQueue`; no key starves; workers end |
| `claim_*` | as small as the disagreement allows | see below |

In `handover` two reconciles are enough for the old leader to answer the new
one's change with a condition and with values. Nobody else writes there: the
other replica is the foreign writer, with the same wishes or, before the
ConfigMap is loaded and after the edit, with none: the edit removes or invalidates
the ConfigMap, as a second set of rules takes TLC close to five minutes. The proofs
have edits to any rules. Three Nodes in `node_queue`
let one wait behind two that are being reconciled; one back-off stands for all,
as failure counts only choose among delays. The proofs have any number of these.

`CHECK_DEADLOCK FALSE` is set for the controllers because they really come to
rest: when everything is settled and others have used up their bounds, nothing
is left to do. `NoLostWakeup` is what deadlock checking would be looking for: it
says that such a rest is only reached when the work is done.

The bounds are in the environment's actions (`Spend`, the horizon) and in
`FlapDetector` (`MaxClock`, `MaxStreak`). `Tick` goes past the horizon only
towards a wake-up that is scheduled, so a cooldown at the end is still served.

Each property of each passing run has a mutant in PROJECT.json: a definition
changed as a plausible bug would change it (a swallowed error, a missing deep
copy, a missing version check, a write before its condition, a handler that
does not announce), under which TLC finds the property violated. The mutants
stand beside the definitions they change, named for what they do.

### Fairness

`FairSpec` assumes weak fairness of the informers' deliveries and handlers, of
the workers (`Run` starts them with `wait.UntilWithContext`, they block only in
`queue.Get` and in calls that return), of the API server's answers, of delayed
adds, of the watcher's handler and of time. It is weak everywhere: each of these
stays possible until it happens. Nothing is assumed of other writers,
edits, faults or resyncs: in particular convergence does not lean on the
periodic resync. Convergence is claimed for the time after the bounded foreign
writes, and includes that the controllers come to rest; against a writer that never
stops the code promises only to slow down (README.md:344-347), which is a safety
property (`CooldownServed`). The cooldown is in the process's memory: after a crash
there is none to serve, and `CooldownServed` asks for none.

`NodeQueue`'s `Fairness` is that of its workers, the waiting loop, time and the
informer's first sync; a reconcile returns but may fail forever, and nothing is
assumed of who adds keys or cancels.

## What is proved

Every invariant and every action property of the passing runs, and that the
detailed specifications implement the abstract ones, for every set of Nodes,
domains and configurations, all cooldowns and all bounds. The only assumptions
are `CooldownAssumption` and `ShiftAssumption` (`FlapState`), `DetectorAssumption`
(`FlapDetector`), `RuleControllerAssumption` (`RuleController`),
`NodeQueueAssumption` (`NodeQueue`), `SecondAssumption` (`DriftReport`) and, in
`RuleAlgebra`, that an address is a type and an IP, that bounds and times are
natural numbers (an absent time is none) and that Nodes may have the labels and
names that rules ask for. TLC evaluates them on each run that extends the module.

- **FlapDetector_proofs.** `TypeCorrect`, `BoundedCooldown`, `CooldownKept`,
  `StreakInvariant`, `CooldownDoubles`. Doubling is not inductive as it stands:
  it relates two calls that may be far apart. The invariant `StreakGranted` (the
  last wait granted is the cooldown of the streak's length) ties them together,
  and `ShiftAssumption` shows the shift limit of 16 to be harmless.
- **RuleController_proofs.**
  - `TypeCorrect`.
  - `VersionsCorrect`: two copies with one resourceVersion are one Node. It is
    inductive together with types, because it speaks of *all* copies: the
    cache, the versions on their way to it and the workers' snapshots.
  - `JustifiedUpdates`: a worker's pending update is its snapshot with one
    change, and the change is called for by the snapshot. There always is one:
    no controller wakes itself up with a write that changes nothing but a
    heartbeat.
  - `UpdatesKeepOthers`, `ConditionsTruthful`: action properties of the moment
    the API server stores an update. The version check makes snapshot and Node
    one (`VersionsIdentify`), and `Justified` says what was changed.
  - `CooldownsServed`: from the stronger invariant `SentWhenCool`: a worker whose
    values are on their way has a flap state that is not cooling down, which
    nobody but that worker (or a deletion, which ends cooldowns) can change.
  - `InitializedProperly`: at the moment an initialization is stored, the taint
    goes together with the providerID of the one scheme that all matching rules
    agreed on, and a providerID set meanwhile is kept. It needs the same pair:
    the version check and what `Justified` says of `initialize`.
- **RuleController_refinement.** `Implementation`: every step maps to a step of
  `NodeContract` or a stutter. What is needed beyond the invariants above is
  `Decision`: an update in flight was decided by a configuration of `Rulesets`
  that the contract may use again, although the ConfigMap has changed since.
- **RuleController_wakeup.** `NoWakeupLost`: nothing rests before it is settled.
  `NoLostWakeup` speaks of tasks that are quiet; its strengthening `WakeupInv`
  says who may still come back to the others. `WatchCurrent`: the last version
  on its way to the cache, or else the cache, is the server's Node. `Unsettled`:
  a task that is not settled by cache and rules is attended, by an event, a
  queue entry, a timer, an announcement or a worker whose snapshot is the cache's.
  `StaleAnnounced`: a worker with another snapshot need not do anything, as the
  change it has missed has been announced.
  `GoneIsForgotten` states `ForgottenWhenGone` under one hypothesis: no list that a
  broken watch leads to lacks the Node (`ListsWhatIsGone`), which is where the code
  does leave an entry behind (see below). Failed calls, lost answers, crashes,
  resyncs and other lists are all allowed, while the run has no faults at all. A worker
  may write a flap state down after the deletion has been handled; the invariant
  `ForgetInv` says that another pass is then certain (`Heeded`: the worker's own
  write is still on its way to the cache, or has woken its key).
- **Handover_proofs.** All that `Handover` says of two replicas. `HandoverInv` is
  `RuleController`'s invariants of both, the old leader's for as long as one of its
  requests may be carried out. A step of one replica is, to the other, a step
  that another client takes: `SeenStep` and `SeenWakeup` prove it of any change
  of the API server that the versions tell apart, so the lemmas of `RuleController` are
  used as they stand for the new leader and through `Old!` for the old one.
  `HandoverCorrect` is the invariant; `NoWakeupLostInHandover`,
  `HandoverKeepsOthers`, `HandoverIsTruthful` and `HandoverInitializes` follow from
  it. `HandoverImplements`: two replicas, with the requests that outlive the
  process, implement `NodeContract` together. That a decision was made by
  rules which only one of the replicas has loaded does no harm, as the contract
  may go by any configuration.
- **NodeQueue_proofs.** `TypeCorrect`, `KeysNotShared`, `KeysQueuedOnce`,
  `KeysHeldByWorkers`, for any number of keys and workers, and `Implementation`:
  `NodeQueue` implements `TaskQueue`. The three invariants are inductive only
  together: a key gets a second worker if it is queued twice or queued while
  one has it, and Done may only release what its worker holds.
- **NodeRules_proofs.** Lemmas on the lists of `NodeRules`: what `Pick` keeps, in
  which order (`PickOrder`, `PickIs`), that picking commutes with what it does not
  tell apart, and what `Distinct`, `IPv6First` and the parts of a Node's addresses are.
  They need induction over the length of a list. The library's theorems for that
  take an operator, so it is done with sets instead: a set of natural numbers
  that has 0 and with each number the next has them all (`SetInduction`, from the
  least element of its complement), and `Recursion` gives a recursive function's
  equations from it.
- **RuleAlgebra_proofs.** All invariants of `algebra`, for lists of any length, any
  number of keys, values and Nodes, and (by the lemmas) of rules.
  - `Consent`: a resolved key is one that all rules setting it agree on, and a
    key that is left out is one that two disagree on.
  - `MergeAlwaysSettles`, `MergeIsAlwaysOrdered`, `MergeIsAlwaysStable`: a merged
    list falls apart into the addresses of other types and the distinct IPs, IPv6
    first (`MergeParts`), and merging again takes exactly these (`MergeAgain`).
  - `DriftIsAlwaysApplied`: the report and the write agree.
  - `CulpritsAlwaysNamed`: sorting by insertion leaves a list in order that has the
    same elements, so the first recent entry of a manager is its latest, and rounding
    `since` down loses nobody. `EntryOfWrite` says which writes leave a recent entry;
    one without a time counts as before all others.
  - `NoTermIsDead` gives each operator a Node that meets it, which is what
    `MatchAssumption` is for.

Only model-checked: liveness (`Converges`, `EveryKeyServed`, `WorkersStop`), which
is out of this prover's reach, as is `ENABLED`. The three disagreements below are
counterexamples, which TLC finds.

## Where the code and its documentation disagree

Each of these has a run in which TLC finds the behaviour (module `RuleClaims`).
None of them leaves a Node wrong for good.

1. `claim_edit_no_flap`: editing rules is documented as no flap
   (README.md:347-348). The detector forgets what was last applied *before* the
   Pending condition is written (`flaps.go:66`); if that write conflicts, the
   next pass takes the edit for a drift.
2. `claim_tight_loop`: the detector is documented to prevent tight loops
   (README.md:344-345). It only looks at conditions that are True: a writer who
   is quicker than the Applied condition is fought without any cooldown
   (`drift.go:180-185`).
3. `claim_cleared`: a condition is documented to be absent only while no rule
   matches (README.md:359-360). After a restart, workers may run before the
   ConfigMap is loaded and clear it (`main.go:126-132`, `watcher.go:42`); it comes
   back as Applied afterwards.

Five smaller observations, which no run states as a property:

- Rules edited while a Node cools down wait for the old streak's cooldown, and
  their values are then written from Drifted, without passing through Pending
  (`drift.go:153`, `drift.go:175`).
- One foreign change, seen twice through a cache that lags behind, counts as two
  flaps (`flaps.go:95`).
- If a Node is deleted while its update is in flight and a relist skips the
  update's own watch event, `flaps.applied` runs after the deletion has been
  handled, and an entry for the gone Node remains (`metadata_controller.go:143`).
  Otherwise `ForgottenWhenGone` holds (`GoneIsForgotten`): the update's watch event
  queues the key, and the pass that follows finds no Node and forgets it.
- Rules with different schemes are documented to keep a Node from being initialized
  at all (README.md:251-253). The code asks for their agreement only if the Node has
  no providerID yet (`initialization_controller.go:63-71`); one that has is
  initialized in spite of the conflict. `rules_initialization` reaches both, and
  `ProperlyInitialized` asks for agreement in the first case only.
- Leader election is documented to let only one replica reconcile Nodes at a time
  (`main.go:52`). With `ReleaseOnCancel` (`main.go:190`) the lease is free while
  the old leader's workers still run, and a request that is on its way may be
  carried out even after `os.Exit`. `handover` shows what holds nevertheless.

## What is not modelled

- The wording of messages and logs; `LastTransitionTime`, which nothing reads.
- YAML and regular expressions: a document is valid, invalid or missing, a
  pattern is the set it accepts. `providerIDScheme`'s syntax is one bit (`Malformed`).
- Metrics, and the rate limiter's overall rate except as "longer". In
  `RuleController` retries come within a tick; `NodeQueue` has their back-off.
- Clocks that differ between replicas, except for heartbeats that reach the flap
  detector from a clock ahead of its own (`MaxSkew`): `RuleController` and `Handover`
  have one clock.
- The Lease itself: acquiring and renewing it is client-go's.
- Two replicas next to other writers, or with time passing: the states exceed what
  TLC can exhaust; each replica is the other's foreign writer instead. The
  proofs have other writers nowhere in `Handover` either. That two replicas settle
  under fairness is not checked, for the same reason.
- Flags, `ref.go`, the health endpoint, chart and manifests.

## Plan

What is left, the most valuable first:

1. Other writers, faults and time in `Handover`. The lemmas of `Handover_proofs` speak
   of any change of the API server, so the proofs should stand; TLC can only
   follow on runs that are smaller in everything else.
2. That two replicas settle under fairness, which only TLC can show.
3. That `RuleController`'s queue steps are sequences of `TaskQueue` steps is a remark:
   some of its steps are two of `TaskQueue`'s, so a refinement mapping would need
   a stuttering variable for what one comment says.
