---------------------------- MODULE RuleController ----------------------------
(***************************************************************************)
(* The rule controllers of Kubeling (the label, annotation, externalIP and *)
(* initialization controllers) at work on a cluster: their workqueues, the *)
(* shared Node cache they read, the API server they write to, the          *)
(* ConfigMap watcher that feeds them rules, and everybody else who writes  *)
(* Nodes.                                                                  *)
(*                                                                         *)
(* A task <<d, n>> is the work of domain d's controller on Node n.  A      *)
(* workqueue never hands one key to two workers, and reconciling two Nodes *)
(* shares nothing but the cache and the rules, so a task has a worker of   *)
(* its own.  A reconcile takes the steps at which others can interfere:    *)
(*   Start      queue.Get and lister.Get: the snapshot of the Node,        *)
(*   Reconcile  Current() and everything up to the pass's one write,       *)
(*   Write      the API server answers the Update,                         *)
(*   Record     flaps.applied after values were written.                   *)
(* The flapState of a Node is only used by its task and by the delete      *)
(* handler, so the calls in between are part of Reconcile.                 *)
(***************************************************************************)
EXTENDS NodeRules

CONSTANTS
    Nodes,              \* Node names
    Domains,            \* the rule domains whose controllers run
    Missing,            \* no ConfigMap, or one without a config.yaml
    Invalid,            \* a config.yaml that Parse rejects
    Configs,            \* valid configurations the ConfigMap may hold
    FieldValues,        \* per Node field, the values it may hold
    ForeignFields,      \* the fields other writers change
    Contents,           \* the fields a Node may be created with
    MinCooldown, MaxCooldown,
    HeartbeatGrain,     \* ticks per second: condition times are in seconds
    Budgets             \* bounds: how many writes to Nodes by others, lifecycles
                        \* (their deletions and creations), edits of the ConfigMap
                        \* and faults (failed calls, lost answers, relists,
                        \* resyncs and crashes) a behaviour may have, up to which
                        \* horizon

Bounds == {"writes", "lifecycles", "edits", "faults", "horizon"}

Tasks == Domains \X Nodes

Flap == INSTANCE FlapState WITH NoDesired <- {}

Never == -1                     \* no wake-up is scheduled
NoCondition == [reason |-> "none"]
Gone == [exists |-> FALSE]      \* no such Node object
EmptyConfig == [d \in Domains |-> <<>>]

IsFields(fields) == fields = [f \in NodeFields |-> fields[f]]

ASSUME RuleControllerAssumption ==
    /\ Domains \subseteq AllDomains
    /\ MinCooldown \in Nat \ {0}
    /\ MaxCooldown \in Nat
    /\ MinCooldown <= MaxCooldown
    /\ MaxCooldown <= MinCooldown * 32768
    /\ HeartbeatGrain \in Nat \ {0}
    /\ DOMAIN FieldValues = NodeFields
    /\ ForeignFields \subseteq NodeFields
    /\ \A c \in Contents : IsFields(c)
    /\ Budgets \subseteq [Bounds -> Nat]

VARIABLES
    \* The API server.
    api,            \* every Node object, or Gone
    revision,       \* the last resourceVersion given out
    watch,          \* per Node, the versions its cache has yet to see
    configMap,      \* the ConfigMap's content
    configWatch,    \* its contents the watcher has yet to see
    \* The process.
    cache,          \* the shared informer's Node cache
    notes,          \* per task, informer notifications yet to be handled
    config,         \* Watcher.current
    announce,       \* domains OnChange has yet to call EnqueueAll for
    dirty,          \* tasks queued
    waiting,        \* per task, when AddAfter or AddRateLimited adds it
    worker,         \* per task, where its reconcile is
    flaps,          \* per task, the Node's flapState
    clock,
    left            \* what is left of the bounds

server  == <<api, revision, watch>>
rules   == <<configMap, configWatch, config, announce>>
queue   == <<dirty, waiting>>
vars    == <<server, rules, cache, notes, queue, worker, flaps, clock, left>>

Idle == [pc |-> "idle"]

-------------------------------------------------------------------------------
(***************************************************************************)
(* Start-up.  The controllers wait for the Node cache to be filled, so     *)
(* they begin with every Node in it and announced to them, but not for the *)
(* ConfigMap: Current() is the empty configuration until it is loaded.  A  *)
(* ConfigMap that does not exist is never announced; one without a         *)
(* config.yaml is.                                                         *)
(***************************************************************************)
FirstSeen(content) == {<<content>>} \cup (IF content = Missing THEN {<<>>} ELSE {})

Fresh ==
    /\ cache' = [n \in Nodes |-> api'[n]]
    /\ watch' = [n \in Nodes |-> <<>>]
    /\ notes' = [t \in Tasks |-> IF api'[t[2]] = Gone THEN <<>> ELSE <<"update">>]
    /\ config' = EmptyConfig
    /\ configWatch' \in FirstSeen(configMap')
    /\ announce' = {}
    /\ dirty' = {}
    /\ waiting' = [t \in Tasks |-> Never]
    /\ worker' = [t \in Tasks |-> Idle]
    /\ flaps' = [t \in Tasks |-> Flap!ZeroFlapState]

NewNode(n, content, rv) ==
    [name |-> n, rv |-> rv, conditions |-> [d \in Domains |-> NoCondition],
     fields |-> content]

Init ==
    /\ \E content \in [Nodes -> Contents] :
        api = [n \in Nodes |-> NewNode(n, content[n], 0)]
    /\ revision = 0
    /\ watch = [n \in Nodes |-> <<>>]
    /\ configMap \in Configs \cup {Missing, Invalid}
    /\ configWatch \in FirstSeen(configMap)
    /\ cache = api
    /\ notes = [t \in Tasks |-> <<"update">>]
    /\ config = EmptyConfig
    /\ announce = {}
    /\ dirty = {}
    /\ waiting = [t \in Tasks |-> Never]
    /\ worker = [t \in Tasks |-> Idle]
    /\ flaps = [t \in Tasks |-> Flap!ZeroFlapState]
    /\ clock = 0
    /\ left \in Budgets

Spend(budget) ==
    /\ left[budget] > 0
    /\ left' = [left EXCEPT ![budget] = @ - 1]

\* The API server stores node as Node n's next version and sends it out.
Store(n, node) ==
    LET stored == IF node = Gone THEN Gone ELSE [node EXCEPT !.rv = revision + 1]
    IN  /\ revision' = revision + 1
        /\ api' = [api EXCEPT ![n] = stored]
        /\ watch' = [watch EXCEPT ![n] = Append(@, stored)]

-------------------------------------------------------------------------------
(***************************************************************************)
(* The informers' side: the cache, the event handlers, the rules.          *)
(***************************************************************************)
Notify(n, before, after) ==
    notes' = [t \in Tasks |->
        IF t[2] # n \/ (before = Gone /\ after = Gone) THEN notes[t]
        ELSE Append(notes[t], IF after = Gone THEN "delete" ELSE "update")]

Deliver(n) ==
    /\ watch[n] # <<>>
    /\ cache' = [cache EXCEPT ![n] = Head(watch[n])]
    /\ watch' = [watch EXCEPT ![n] = Tail(@)]
    /\ Notify(n, cache[n], Head(watch[n]))
    /\ UNCHANGED <<api, revision, rules, queue, worker, flaps, clock, left>>

\* A broken watch is replaced by a list, which skips versions in between.
Relist(n) ==
    /\ Len(watch[n]) > 1
    /\ Spend("faults")
    /\ cache' = [cache EXCEPT ![n] = api[n]]
    /\ watch' = [watch EXCEPT ![n] = <<>>]
    /\ Notify(n, cache[n], api[n])
    /\ UNCHANGED <<api, revision, rules, queue, worker, flaps, clock>>

\* The informer announces every cached Node again once per resync period.
Resync(n) ==
    /\ cache[n] # Gone
    /\ Spend("faults")
    /\ Notify(n, cache[n], cache[n])
    /\ UNCHANGED <<server, rules, cache, queue, worker, flaps, clock>>

\* Mutant of Handle: what changes while a Node is reconciled is not queued.
HandleUnlessBusy(t) ==
    /\ notes[t] # <<>>
    /\ notes' = [notes EXCEPT ![t] = Tail(@)]
    /\ \/ /\ Head(notes[t]) = "update"
          /\ dirty' = IF worker[t] = Idle THEN dirty \cup {t} ELSE dirty
          /\ UNCHANGED flaps
       \/ /\ Head(notes[t]) = "delete"
          /\ flaps' = [flaps EXCEPT ![t] = Flap!ZeroFlapState]
          /\ UNCHANGED dirty
    /\ UNCHANGED <<server, rules, cache, waiting, worker, clock, left>>

Handle(t) ==
    /\ notes[t] # <<>>
    /\ notes' = [notes EXCEPT ![t] = Tail(@)]
    /\ \/ /\ Head(notes[t]) = "update"
          /\ dirty' = dirty \cup {t}
          /\ UNCHANGED flaps
       \/ /\ Head(notes[t]) = "delete"
          /\ flaps' = [flaps EXCEPT ![t] = Flap!ZeroFlapState]
          /\ UNCHANGED dirty
    /\ UNCHANGED <<server, rules, cache, waiting, worker, clock, left>>

\* Mutant of LoadConfig: clearing the configuration does not call OnChange.
LoadConfigQuietClear ==
    /\ configWatch # <<>>
    /\ announce = {}
    /\ configWatch' = Tail(configWatch)
    /\ LET content == Head(configWatch)
       IN  IF content = Invalid THEN UNCHANGED <<config, announce>>
           ELSE /\ config' = IF content = Missing THEN EmptyConfig ELSE content
                /\ announce' = IF content = Missing THEN {} ELSE Domains
    /\ UNCHANGED <<server, configMap, cache, notes, queue, worker, flaps, clock, left>>

\* Watcher.load and clear: Store first, then OnChange.
LoadConfig ==
    /\ configWatch # <<>>
    /\ announce = {}
    /\ configWatch' = Tail(configWatch)
    /\ LET content == Head(configWatch)
       IN  IF content = Invalid THEN UNCHANGED <<config, announce>>
           ELSE /\ config' = IF content = Missing THEN EmptyConfig ELSE content
                /\ announce' = Domains
    /\ UNCHANGED <<server, configMap, cache, notes, queue, worker, flaps, clock, left>>

\* The ConfigMap's informer resyncs as well.
ResyncConfig ==
    /\ configWatch = <<>>
    /\ configMap # Missing
    /\ Spend("faults")
    /\ configWatch' = <<configMap>>
    /\ UNCHANGED <<server, configMap, config, announce, cache, notes, queue, worker,
                   flaps, clock>>

EnqueueAll(d) ==
    /\ d \in announce
    /\ announce' = announce \ {d}
    /\ dirty' = dirty \cup {t \in Tasks : t[1] = d /\ cache[t[2]] # Gone}
    /\ UNCHANGED <<server, configMap, configWatch, config, cache, notes, waiting,
                   worker, flaps, clock, left>>

-------------------------------------------------------------------------------
(***************************************************************************)
(* A reconcile.                                                            *)
(***************************************************************************)
\* Mutant of Start: a Node that is gone is not forgotten.
StartRemembering(t) ==
    /\ t \in dirty
    /\ worker[t] = Idle
    /\ dirty' = dirty \ {t}
    /\ IF cache[t[2]] = Gone THEN UNCHANGED worker
       ELSE worker' = [worker EXCEPT ![t] = [pc |-> "reconcile", node |-> cache[t[2]]]]
    /\ UNCHANGED <<server, rules, cache, notes, waiting, flaps, clock, left>>

Start(t) ==
    /\ t \in dirty
    /\ worker[t] = Idle
    /\ dirty' = dirty \ {t}
    /\ LET node == cache[t[2]]
       IN  IF node = Gone
           THEN /\ flaps' = [flaps EXCEPT ![t] = Flap!ZeroFlapState]
                /\ UNCHANGED worker
           ELSE /\ worker' = [worker EXCEPT ![t] = [pc |-> "reconcile", node |-> node]]
                /\ UNCHANGED flaps
    /\ UNCHANGED <<server, rules, cache, notes, waiting, clock, left>>

Condition(t) == worker[t].node.conditions[t[1]]
IsTrue(condition) == condition.reason = "Applied"
Matched(t) == MatchingIDs(worker[t].node, config[t[1]])
Wanted(t) == Desired(t[1], Matched(t), config[t[1]])
WantedPrint(t) == Fingerprint(t[1], Wanted(t))

\* Mutant of Schedule: the key is not added again.
ScheduleNothing(t, at) == UNCHANGED waiting

\* AddAfter on a key that is waiting already keeps the earlier time.
Schedule(t, at) ==
    waiting' = [waiting EXCEPT ![t] = IF @ = Never \/ at < @ THEN at ELSE @]

\* Mutant of Done: what the worker held stays behind.
DoneUncleared(t) == worker' = [worker EXCEPT ![t].pc = "idle"]

Done(t) == worker' = [worker EXCEPT ![t] = Idle]

\* Mutant of Send: the update is made in place, without DeepCopy.
SendInPlace(t, kind, updated) ==
    worker' = [worker EXCEPT ![t] =
        [pc |-> "write", kind |-> kind, node |-> updated,
         updated |-> updated, desired |-> Wanted(t)]]

\* The pass's one write: the API server will be sent the Node as `updated`.
Send(t, kind, updated) ==
    worker' = [worker EXCEPT ![t] =
        [pc |-> "write", kind |-> kind, node |-> worker[t].node,
         updated |-> updated, desired |-> Wanted(t)]]

\* Mutant of SendValues: the field becomes what the rules want, no more.
SendOnlyWanted(t) ==
    LET node  == worker[t].node
        empty == <<>>
    IN  Send(t, "values", [node EXCEPT
            !.fields[t[1]] = WithDesired(t[1], empty, Wanted(t))])

SendValues(t) ==
    LET node == worker[t].node
    IN  Send(t, "values", [node EXCEPT
            !.fields[t[1]] = WithDesired(t[1], @, Wanted(t))])

\* ensureCondition and ensureConditionAbsent: nothing to do if up to date.
ConditionOf(t, reason) ==
    IF reason = "none" THEN NoCondition
    ELSE [reason |-> reason, ids |-> Matched(t),
          heartbeat |-> clock - (clock % HeartbeatGrain)]

UpToDate(t, reason) ==
    /\ Condition(t).reason = reason
    /\ reason # "none" => Condition(t).ids = Matched(t)

\* Mutant of EnsureCondition: an up-to-date condition is written again.
EnsureConditionAnyway(t, reason) ==
    Send(t, "condition",
         [worker[t].node EXCEPT !.conditions[t[1]] = ConditionOf(t, reason)])

EnsureCondition(t, reason) ==
    IF UpToDate(t, reason) THEN Done(t)
    ELSE Send(t, "condition",
              [worker[t].node EXCEPT !.conditions[t[1]] = ConditionOf(t, reason)])

Reconciling(t) ==
    /\ worker[t].pc = "reconcile"
    /\ UNCHANGED <<server, rules, cache, notes, dirty, clock, left>>

\* Mutant of Unmatched: the condition stays.
UnmatchedKeepsCondition(t) ==
    /\ Reconciling(t)
    /\ Matched(t) = {}
    /\ flaps' = [flaps EXCEPT ![t] = Flap!ZeroFlapState]
    /\ Done(t)
    /\ UNCHANGED waiting

\* No rule matches: forget the Node and clear the condition.
Unmatched(t) ==
    /\ Reconciling(t)
    /\ Matched(t) = {}
    /\ flaps' = [flaps EXCEPT ![t] = Flap!ZeroFlapState]
    /\ EnsureCondition(t, "none")
    /\ UNCHANGED waiting

\* The values are on the Node: say so.
Confirm(t) ==
    /\ Reconciling(t)
    /\ Matched(t) # {}
    /\ InPlace(t[1], worker[t].node, Wanted(t))
    /\ EnsureCondition(t, "Applied")
    /\ UNCHANGED <<flaps, waiting>>

(***************************************************************************)
(* beforeApply: the values of matching rules are not on the Node.          *)
(***************************************************************************)
Unapplied(t) ==
    /\ Reconciling(t)
    /\ Matched(t) # {}
    /\ ~InPlace(t[1], worker[t].node, Wanted(t))

\* They are not the values last applied: start over from Pending.
StartOver(t) ==
    /\ Unapplied(t)
    /\ IsTrue(Condition(t))
    /\ Flap!RulesChanged(flaps[t], WantedPrint(t))
    /\ flaps' = [flaps EXCEPT ![t] = Flap!ZeroFlapState]
    /\ EnsureCondition(t, "Pending")
    /\ UNCHANGED waiting

\* Someone else changed applied values: restore them now, or report the
\* flap and come back after the cooldown.
HandleDrift(t) ==
    /\ Unapplied(t)
    /\ IsTrue(Condition(t))
    /\ ~Flap!RulesChanged(flaps[t], WantedPrint(t))
    /\ LET confirmedAt == Condition(t).heartbeat
           wait == Flap!DriftedWait(flaps[t], confirmedAt, clock)
       IN  /\ flaps' = [flaps EXCEPT ![t] = Flap!Drifted(@, confirmedAt, clock)]
           /\ \/ /\ wait = 0
                 /\ SendValues(t)
                 /\ UNCHANGED waiting
              \/ /\ wait > 0
                 /\ Schedule(t, clock + wait)
                 /\ EnsureCondition(t, "Drifted")

AwaitCooldown(t) ==
    /\ Unapplied(t)
    /\ ~IsTrue(Condition(t))
    /\ Flap!Remaining(flaps[t], clock) > 0
    /\ Schedule(t, clock + Flap!Remaining(flaps[t], clock))
    /\ Done(t)
    /\ UNCHANGED flaps

BeginPending(t) ==
    /\ Unapplied(t)
    /\ Condition(t) = NoCondition
    /\ Flap!Remaining(flaps[t], clock) = 0
    /\ EnsureCondition(t, "Pending")
    /\ UNCHANGED <<flaps, waiting>>

\* Mutants of ApplyValues: during the cooldown, and before Pending.
ApplyValuesAnyTime(t) ==
    /\ Unapplied(t)
    /\ Condition(t) # NoCondition
    /\ ~IsTrue(Condition(t))
    /\ SendValues(t)
    /\ UNCHANGED <<flaps, waiting>>

ApplyValuesAtOnce(t) ==
    /\ Unapplied(t)
    /\ ~IsTrue(Condition(t))
    /\ Flap!Remaining(flaps[t], clock) = 0
    /\ SendValues(t)
    /\ UNCHANGED <<flaps, waiting>>

ApplyValues(t) ==
    /\ Unapplied(t)
    /\ Condition(t) # NoCondition
    /\ ~IsTrue(Condition(t))
    /\ Flap!Remaining(flaps[t], clock) = 0
    /\ SendValues(t)
    /\ UNCHANGED <<flaps, waiting>>

(***************************************************************************)
(* The initialization controller's pass: no condition, no cooldown.        *)
(***************************************************************************)
Initialize(t) ==
    /\ Reconciling(t)
    /\ LET node        == worker[t].node
           initialized == Initialized(node, Wanted(t))
       IN  \/ /\ MayInitialize(node, Matched(t), config[t[1]])
              /\ initialized # node
              /\ Send(t, "initialize", initialized)
           \/ /\ ~MayInitialize(node, Matched(t), config[t[1]]) \/ initialized = node
              /\ Done(t)
    /\ UNCHANGED <<flaps, waiting>>

Reconcile(t) ==
    \/ /\ t[1] = "initialization"
       /\ Initialize(t)
    \/ /\ t[1] # "initialization"
       /\ \/ Unmatched(t)
          \/ Confirm(t)
          \/ StartOver(t)
          \/ HandleDrift(t)
          \/ AwaitCooldown(t)
          \/ BeginPending(t)
          \/ ApplyValues(t)

(***************************************************************************)
(* The API server's answer to the write.                                   *)
(***************************************************************************)
Writing(t) ==
    /\ worker[t].pc = "write"
    /\ UNCHANGED <<rules, cache, notes, dirty, flaps, clock>>

\* Mutant of Current: updates are sent without a resourceVersion.
CurrentUnchecked(t) == api[t[2]] # Gone

\* The server only replaces the version the update was made from.
Current(t) == api[t[2]] # Gone /\ api[t[2]].rv = worker[t].node.rv

WriteSucceeds(t) ==
    /\ Writing(t)
    /\ Current(t)
    /\ Store(t[2], worker[t].updated)
    /\ IF worker[t].kind = "values"
       THEN worker' = [worker EXCEPT ![t] = [pc |-> "record", desired |-> worker[t].desired]]
       ELSE Done(t)
    /\ UNCHANGED <<waiting, left>>

\* A conflict is swallowed: the newer Node is on its way through the cache.
WriteConflicts(t) ==
    /\ Writing(t)
    /\ api[t[2]] # Gone
    /\ ~Current(t)
    /\ Done(t)
    /\ UNCHANGED <<server, waiting, left>>

\* Mutant of WriteFails: errors are swallowed like conflicts.
WriteFailsForGood(t) ==
    /\ Writing(t)
    /\ \/ /\ api[t[2]] = Gone
          /\ UNCHANGED <<server, left>>
       \/ /\ Spend("faults")
          /\ UNCHANGED server
       \/ /\ Spend("faults")
          /\ Current(t)
          /\ Store(t[2], worker[t].updated)
    /\ Done(t)
    /\ UNCHANGED waiting

\* Any other error is retried, rate limited (well within a tick).
WriteFails(t) ==
    /\ Writing(t)
    /\ \/ /\ api[t[2]] = Gone
          /\ UNCHANGED <<server, left>>
       \/ /\ Spend("faults")
          /\ UNCHANGED server
       \/ /\ Spend("faults")            \* the write was done, its answer lost
          /\ Current(t)
          /\ Store(t[2], worker[t].updated)
    /\ Done(t)
    /\ Schedule(t, clock)

Write(t) == WriteSucceeds(t) \/ WriteConflicts(t) \/ WriteFails(t)

Record(t) ==
    /\ worker[t].pc = "record"
    /\ flaps' = [flaps EXCEPT ![t] =
            Flap!Applied(@, Fingerprint(t[1], worker[t].desired), clock)]
    /\ Done(t)
    /\ UNCHANGED <<server, rules, cache, notes, queue, clock, left>>

Wake(t) ==
    /\ waiting[t] # Never
    /\ waiting[t] <= clock
    /\ waiting' = [waiting EXCEPT ![t] = Never]
    /\ dirty' = dirty \cup {t}
    /\ UNCHANGED <<server, rules, cache, notes, worker, flaps, clock, left>>

-------------------------------------------------------------------------------
(***************************************************************************)
(* Everybody else.                                                         *)
(***************************************************************************)
\* Another client, the kubelet or a cloud-controller-manager updates a field
\* of a Node.  The value may be the one it has: then something the rules do
\* not look at has changed.  The API server lets nobody change a providerID.
ForeignWrite(n) ==
    /\ clock <= left.horizon
    /\ api[n] # Gone
    /\ Spend("writes")
    /\ \E f \in ForeignFields : \E v \in FieldValues[f] :
        /\ f = "providerID" => api[n].fields[f] \in {NoProviderID, v}
        /\ Store(n, [api[n] EXCEPT !.fields[f] = v])
    /\ UNCHANGED <<rules, cache, notes, queue, worker, flaps, clock>>

DeleteNode(n) ==
    /\ clock <= left.horizon
    /\ api[n] # Gone
    /\ Spend("lifecycles")
    /\ Store(n, Gone)
    /\ UNCHANGED <<rules, cache, notes, queue, worker, flaps, clock>>

CreateNode(n) ==
    /\ clock <= left.horizon
    /\ api[n] = Gone
    /\ Spend("lifecycles")
    /\ \E c \in Contents : Store(n, NewNode(n, c, 0))
    /\ UNCHANGED <<rules, cache, notes, queue, worker, flaps, clock>>

EditConfigMap ==
    /\ clock <= left.horizon
    /\ Spend("edits")
    /\ \E c \in (Configs \cup {Missing, Invalid}) \ {configMap} :
        /\ configMap' = c
        /\ configWatch' = Append(configWatch, c)
    /\ UNCHANGED <<server, config, announce, cache, notes, queue, worker, flaps, clock>>

\* The process stops at any point and starts again, or another replica is
\* elected: nothing but the cluster's own objects survives.
Crash ==
    /\ Spend("faults")
    /\ UNCHANGED <<api, revision, configMap, clock>>
    /\ Fresh

\* Bound: after the horizon, time only passes towards a scheduled wake-up.
Tick ==
    /\ clock < left.horizon \/ \E t \in Tasks : waiting[t] > clock
    /\ clock' = clock + 1
    /\ UNCHANGED <<server, rules, cache, notes, queue, worker, flaps, left>>

System(t) ==
    Handle(t) \/ Start(t) \/ Reconcile(t) \/ Write(t) \/ Record(t) \/ Wake(t)

Next ==
    \/ \E t \in Tasks : System(t)
    \/ \E n \in Nodes : Deliver(n) \/ Relist(n) \/ Resync(n)
    \/ LoadConfig
    \/ ResyncConfig
    \/ \E d \in Domains : EnqueueAll(d)
    \/ \E n \in Nodes : ForeignWrite(n) \/ DeleteNode(n) \/ CreateNode(n)
    \/ EditConfigMap
    \/ Crash
    \/ Tick

Spec == Init /\ [][Next]_vars

(***************************************************************************)
(* The informers, the workers and the API server keep working, and timers  *)
(* fire.  Nothing is assumed of other writers, faults or resyncs.          *)
(***************************************************************************)
Fairness ==
    /\ \A t \in Tasks : /\ WF_vars(Handle(t))
                        /\ WF_vars(Start(t))
                        /\ WF_vars(Reconcile(t))
                        /\ WF_vars(Write(t))
                        /\ WF_vars(Record(t))
                        /\ WF_vars(Wake(t))
    /\ \A n \in Nodes : WF_vars(Deliver(n))
    /\ WF_vars(LoadConfig)
    /\ \A d \in Domains : WF_vars(EnqueueAll(d))
    /\ WF_vars(Tick)

FairSpec == Spec /\ Fairness
-------------------------------------------------------------------------------
(***************************************************************************)
(* The shape of the state.  Field values are left untyped: a Node's fields *)
(* are any function on NodeFields.                                         *)
(***************************************************************************)
Rulesets == Configs \cup {EmptyConfig}
RuleIDs == UNION {DOMAIN c[d] : c \in Rulesets, d \in Domains}

Conditions ==
    [reason : {"Pending", "Applied", "Drifted"}, ids : SUBSET RuleIDs, heartbeat : Int]
        \cup {NoCondition}

IsNode(n, o) ==
    /\ o = [name |-> n, rv |-> o.rv, conditions |-> o.conditions, fields |-> o.fields]
    /\ o.rv \in Nat
    /\ o.conditions \in [Domains -> Conditions]
    /\ IsFields(o.fields)

IsVersion(n, o) == o = Gone \/ IsNode(n, o)

IsWorker(n, w) ==
    \/ w = Idle
    \/ /\ w.pc = "reconcile"
       /\ w = [pc |-> "reconcile", node |-> w.node]
       /\ IsNode(n, w.node)
    \/ /\ w.pc = "write"
       /\ w = [pc |-> "write", kind |-> w.kind, node |-> w.node,
               updated |-> w.updated, desired |-> w.desired]
       /\ w.kind \in {"values", "condition", "initialize"}
       /\ IsNode(n, w.node)
       /\ IsNode(n, w.updated)
    \/ /\ w.pc = "record"
       /\ w = [pc |-> "record", desired |-> w.desired]

IsFlapState(s) ==
    /\ s = [flaps |-> s.flaps, appliedAt |-> s.appliedAt, until |-> s.until,
            desired |-> s.desired]
    /\ s.flaps \in Nat
    /\ s.appliedAt \in Int
    /\ s.until \in Int

ServerOK ==
    /\ api = [n \in Nodes |-> api[n]]
    /\ revision \in Nat
    /\ watch = [n \in Nodes |-> watch[n]]
    /\ \A n \in Nodes :
        /\ IsVersion(n, api[n])
        /\ watch[n] \in Seq(ToSet(watch[n]))
        /\ \A o \in ToSet(watch[n]) : IsVersion(n, o)

RulesOK ==
    /\ configMap \in Configs \cup {Missing, Invalid}
    /\ configWatch \in Seq(Configs \cup {Missing, Invalid})
    /\ config \in Rulesets
    /\ announce \subseteq Domains

CacheOK ==
    /\ cache = [n \in Nodes |-> cache[n]]
    /\ \A n \in Nodes : IsVersion(n, cache[n])

QueueOK ==
    /\ notes \in [Tasks -> Seq({"update", "delete"})]
    /\ dirty \subseteq Tasks
    /\ waiting \in [Tasks -> Int]

WorkersOK ==
    /\ worker = [t \in Tasks |-> worker[t]]
    /\ \A t \in Tasks : IsWorker(t[2], worker[t])

FlapsOK ==
    /\ flaps = [t \in Tasks |-> flaps[t]]
    /\ \A t \in Tasks : IsFlapState(flaps[t])

BoundsOK ==
    /\ clock \in Nat
    /\ left \in [Bounds -> Nat]

TypeOK ==
    /\ ServerOK
    /\ RulesOK
    /\ CacheOK
    /\ QueueOK
    /\ WorkersOK
    /\ FlapsOK
    /\ BoundsOK

(***************************************************************************)
(* Properties.                                                             *)
(***************************************************************************)

\* The copies of Node n on their way to, or in use by, the program.
Copies(n) ==
    {cache[n]} \cup ToSet(watch[n])
        \cup {worker[t].node :
                t \in {u \in Tasks : /\ u[2] = n
                                    /\ worker[u].pc \in {"reconcile", "write"}}}

\* A copy with the resourceVersion of the server's Node is the server's Node:
\* what makes the version check of an Update protect other writers' changes,
\* across deletions, re-creations and restarts.
VersionsIdentify ==
    \A n \in Nodes :
        /\ api[n] # Gone => api[n].rv <= revision
        /\ \A o \in Copies(n) \ {Gone} :
            /\ o.rv <= revision
            /\ api[n] # Gone /\ api[n].rv = o.rv => api[n] = o

\* Nothing the program has scheduled or been sent concerns task t any more.
Quiet(t) ==
    /\ watch[t[2]] = <<>>
    /\ notes[t] = <<>>
    /\ t \notin dirty
    /\ waiting[t] = Never
    /\ worker[t] = Idle
    /\ configWatch = <<>>
    /\ announce = {}

\* Node t[2] is as the loaded rules of domain t[1] want it, and says so.
Settled(t) ==
    LET d       == t[1]
        node    == api[t[2]]
        matched == MatchingIDs(node, config[d])
        wanted  == Desired(d, matched, config[d])
    IN  \/ node = Gone
        \/ /\ d = "initialization"
           /\ MayInitialize(node, matched, config[d]) => Initialized(node, wanted) = node
        \/ /\ d # "initialization"
           /\ matched = {} => node.conditions[d] = NoCondition
           /\ matched # {} =>
                /\ InPlace(d, node, wanted)
                /\ node.conditions[d].reason = "Applied"
                /\ node.conditions[d].ids = matched

\* A task nobody will ever come back to (short of a resync) is settled:
\* swallowed conflicts, failed writes, cooldowns, rule edits that race a
\* running reconcile and restarts never lose the wake-up that is needed.
NoLostWakeup == \A t \in Tasks : Quiet(t) => Settled(t)

\* What a worker is about to send is its snapshot with one thing changed, and
\* that change is the one the snapshot calls for.  Something does change, or
\* the controller would wake itself up with its own writes: of a condition
\* more than its time.
Justified(d, w) ==
    LET applied == InPlace(d, w.node, w.desired)
        old     == w.node.conditions[d]
        claim   == w.updated.conditions[d]
    IN  \/ /\ w.kind = "initialize"
           /\ d = "initialization"
           /\ w.updated = Initialized(w.node, w.desired)
           /\ w.updated # w.node
           /\ w.node.fields.providerID = NoProviderID => SchemesAgree(w.desired)
        \/ /\ w.kind = "values"
           /\ d # "initialization"
           /\ ~applied
           /\ w.updated = [w.node EXCEPT
                !.fields[d] = WithDesired(d, w.node.fields[d], w.desired)]
        \/ /\ w.kind = "condition"
           /\ d # "initialization"
           /\ claim.reason = "Applied" => applied
           /\ claim.reason \in {"Pending", "Drifted"} => ~applied
           /\ claim.reason = old.reason => claim.reason # "none" /\ claim.ids # old.ids
           /\ w.updated = [w.node EXCEPT !.conditions[d] = claim]

\* Every update that waits for the API server's answer is the deep copy of the
\* snapshot with its controller's own part changed (metadata_controller.go:135-139,
\* externalip_controller.go:93-97, initialization_controller.go:79-83,
\* conditions.go:77-103).
UpdatesJustified ==
    \A t \in Tasks : worker[t].pc = "write" => Justified(t[1], worker[t])

\* In this step the API server stores task t's update.
Stores(t) ==
    /\ worker[t].pc = "write"
    /\ worker'[t].pc # "write"
    /\ api'[t[2]] # api[t[2]]

\* The fields a domain's controller writes.
OwnFields(d) == IF d = "initialization" THEN {"providerID", "taints"} ELSE {d}

\* Although it is made from a cached snapshot and replaces the whole object,
\* an update changes nothing on the server's Node but what its rules set (to
\* what they want) or its own domain's condition.
NoLostUpdate ==
    [][\A t \in Tasks : Stores(t) =>
         LET d   == t[1]
             old == api[t[2]]
             new == api'[t[2]]
         IN  /\ \A f \in NodeFields \ OwnFields(d) : new.fields[f] = old.fields[f]
             /\ \A e \in Domains \ {d} : new.conditions[e] = old.conditions[e]
             /\ d # "initialization" =>
                  \/ /\ new.fields[d] = WithDesired(d, old.fields[d], worker[t].desired)
                     /\ new.conditions[d] = old.conditions[d]
                  \/ new.fields[d] = old.fields[d]]_vars

\* Initialization cannot be undone (initialization_controller.go:66-67): a Node
\* is never left without the providerID its rules asked for, a providerID that
\* a cloud-controller-manager has set meanwhile is never replaced, and only the
\* one taint goes.
ProperlyInitialized ==
    [][\A t \in Tasks : Stores(t) /\ worker[t].kind = "initialize" =>
         LET old     == api[t[2]].fields
             new     == api'[t[2]].fields
             schemes == worker[t].desired
         IN  /\ new.taints = old.taints \ {"uninitialized"}
             /\ old.providerID # NoProviderID => new.providerID = old.providerID
             /\ old.providerID = NoProviderID /\ schemes # {} =>
                    schemes = {new.providerID[1]}]_vars

\* A condition turns True only while the server's Node has the values, and
\* turns from True to False only while it really lacks them (README.md:327
\* and 334), whatever happened to the Node since it was read.
TruthfulCondition ==
    [][\A t \in Tasks : Stores(t) =>
         LET d       == t[1]
             applied == InPlace(d, api[t[2]], worker[t].desired)
             old     == api[t[2]].conditions[d]
             new     == api'[t[2]].conditions[d]
         IN  /\ IsTrue(new) /\ new # old => applied
             /\ IsTrue(old) /\ new.reason \in {"Pending", "Drifted"} => ~applied]_vars

\* Values are never written while their Node cools down, although the
\* condition write that starts the cooldown itself wakes the controller up.
CooldownServed ==
    [][\A t \in Tasks :
         /\ t[1] # "initialization"
         /\ Stores(t)
         /\ api'[t[2]].fields[t[1]] # api[t[2]].fields[t[1]]
         => ~Flap!CoolingDown(flaps[t], clock)]_vars

\* Once a Node is gone and all is quiet, nothing is remembered about it: a
\* later Node of that name starts without a streak.
ForgottenWhenGone ==
    \A t \in Tasks :
        Quiet(t) /\ api[t[2]] = Gone => flaps[t] = Flap!ZeroFlapState

(***************************************************************************)
(* The controllers implement NodeContract: seen from the API server, every *)
(* write is one atomic, justified step on the Node as it is at that time.  *)
(***************************************************************************)
Public(o) ==
    IF o = Gone THEN Gone
    ELSE [name |-> o.name,
          fields |-> o.fields,
          conditions |-> [d \in Domains |->
            IF o.conditions[d] = NoCondition THEN NoCondition
            ELSE [reason |-> o.conditions[d].reason, ids |-> o.conditions[d].ids]]]

Contract == INSTANCE NodeContract WITH nodes <- [n \in Nodes |-> Public(api[n])]

\* Every behaviour of the controllers is one of the contract (README.md:310-348).
ImplementsContract == Contract!Spec

\* When others stop interfering, every Node ends up as the rules want it and
\* the controllers come to rest: their own writes, which wake up the others as
\* well, do not make them write again and again (conditions.go:124-136).
Converges == <>[](\A t \in Tasks : Quiet(t) /\ Settled(t))
===============================================================================
