------------------------------- MODULE Handover -------------------------------
(***************************************************************************)
(* A change of leader.  Two replicas of Kubeling campaign for one Lease.   *)
(* The leader gives it up before its workers have stopped: with            *)
(* ReleaseOnCancel the lease is released as soon as the context is         *)
(* cancelled or renewing it has failed, and os.Exit follows later.  A      *)
(* leader that was paused may even find its lease expired.  So for a while *)
(* both may reconcile the same Nodes, each from its own cache, rules,      *)
(* queue and flap detector.                                                *)
(*                                                                         *)
(* The variables of RuleController are the new leader's, which starts      *)
(* nothing before it is elected; those named old... are the old leader's.  *)
(* The API server and the ConfigMap are one.  A change of leader is short: *)
(* the clock stands still, which leaves cooldowns running, and nobody else *)
(* writes to the Nodes.                                                    *)
(***************************************************************************)
EXTENDS RuleController

CONSTANT Overlaps   \* bounds: per budget, the reconciles a leader starts without its
                    \* lease

VARIABLES
    oldWatch, oldConfigWatch, oldCache, oldNotes, oldConfig, oldAnnounce,
    oldDirty, oldWaiting, oldWorker, oldFlaps,
    overlap,        \* what is left of that bound
    old,            \* what the old leader does: "leading" or "stopped"
    lease           \* who holds the lease: "old", "none" or "new"

\* The old leader is a RuleController, and what is proved of one holds of it.
Old == INSTANCE RuleController_refinement WITH
    watch <- oldWatch, configWatch <- oldConfigWatch, cache <- oldCache,
    notes <- oldNotes, config <- oldConfig, announce <- oldAnnounce,
    dirty <- oldDirty, waiting <- oldWaiting, worker <- oldWorker,
    flaps <- oldFlaps

informed  == <<oldWatch, oldConfigWatch>>
oldMemory == <<oldCache, oldNotes, oldConfig, oldAnnounce, oldDirty, oldWaiting,
               oldWorker, oldFlaps>>
memory    == <<cache, notes, config, announce, dirty, waiting, worker, flaps>>
election  == <<old, lease, overlap>>
replicas  == <<vars, informed, oldMemory, election>>

\* The old leader has loaded its rules and queued every Node.
HandoverInit ==
    /\ \E content \in [Nodes -> Contents] :
        api = [n \in Nodes |-> NewNode(n, content[n], 0)]
    /\ revision = 0
    /\ configMap \in Configs
    /\ clock = 0
    /\ left \in Budgets
    /\ old = "leading"
    /\ lease = "old"
    /\ overlap = Overlaps[left]
    /\ oldConfig = configMap
    /\ config = EmptyConfig
    /\ oldCache = api
    /\ cache = [n \in Nodes |-> Gone]
    /\ oldDirty = Tasks
    /\ dirty = {}
    /\ watch = [n \in Nodes |-> <<>>]
    /\ oldWatch = watch
    /\ configWatch = <<>>
    /\ oldConfigWatch = configWatch
    /\ notes = [t \in Tasks |-> <<>>]
    /\ oldNotes = notes
    /\ announce = {}
    /\ oldAnnounce = announce
    /\ waiting = [t \in Tasks |-> Never]
    /\ oldWaiting = waiting
    /\ worker = [t \in Tasks |-> Idle]
    /\ oldWorker = worker
    /\ flaps = [t \in Tasks |-> Flap!ZeroFlapState]
    /\ oldFlaps = flaps

\* What this step stores reaches another replica's watches, too.
NodesSeen(seen) ==
    [n \in Nodes |-> IF api'[n] = api[n] THEN seen[n] ELSE Append(seen[n], api'[n])]

RulesSeen(seen) == IF configMap' = configMap THEN seen ELSE Append(seen, configMap')

NewSees ==
    IF lease = "new"
    THEN /\ watch' = NodesSeen(watch)
         /\ configWatch' = RulesSeen(configWatch)
    ELSE UNCHANGED <<watch, configWatch>>

OldSees ==
    IF old = "leading"
    THEN /\ oldWatch' = NodesSeen(oldWatch)
         /\ oldConfigWatch' = RulesSeen(oldConfigWatch)
    ELSE UNCHANGED informed

-------------------------------------------------------------------------------
\* The old leader works for as long as its context is not cancelled, whoever
\* holds the lease.
OldWorks(A) ==
    /\ old = "leading"
    /\ A
    /\ NewSees
    /\ UNCHANGED <<memory, old, lease>>

OldStarts(t) ==
    /\ lease # "old" => overlap > 0
    /\ OldWorks(Old!Start(t))
    /\ overlap' = IF lease = "old" THEN overlap ELSE overlap - 1

OldContinues(A)  == OldWorks(A) /\ UNCHANGED overlap
OldSystem(t) ==
    \/ OldStarts(t)
    \/ OldContinues(\/ Old!Handle(t) \/ Old!Reconcile(t) \/ Old!Write(t)
                    \/ Old!Record(t) \/ Old!Wake(t))
OldDelivers(n)   == OldContinues(Old!Deliver(n))
OldLoads         == OldContinues(Old!LoadConfig)
OldEnqueues(d)   == OldContinues(Old!EnqueueAll(d))

\* Everybody but the old leader.
Others(A) ==
    /\ A
    /\ OldSees
    /\ UNCHANGED <<oldMemory, election>>

NewWorks(A)      == lease = "new" /\ Others(A)
NewSystem(t)     == NewWorks(System(t))
NewDelivers(n)   == NewWorks(Deliver(n))
NewLoads         == NewWorks(LoadConfig)
NewEnqueues(d)   == NewWorks(EnqueueAll(d))

\* The operator edits the rules; whichever replica watches them will see it.
Edit ==
    \/ OldContinues(Old!EditConfigMap)
    \/ old = "stopped" /\ Others(EditConfigMap)

\* The old leader's lease is released or expires.
LoseLease ==
    /\ lease = "old"
    /\ lease' = "none"
    /\ UNCHANGED <<vars, informed, oldMemory, old, overlap>>

\* SIGTERM, or the lease is lost: the context is cancelled.  No request is sent
\* any more, and nothing of the process matters but those that are on their way.
Stop ==
    /\ old = "leading"
    /\ old' = "stopped"
    /\ oldWorker' = [t \in Tasks |->
            IF oldWorker[t].pc = "write" THEN oldWorker[t] ELSE Idle]
    /\ oldWatch' = [n \in Nodes |-> <<>>]
    /\ oldConfigWatch' = <<>>
    /\ oldCache' = [n \in Nodes |-> Gone]
    /\ oldNotes' = [t \in Tasks |-> <<>>]
    /\ oldConfig' = EmptyConfig
    /\ oldAnnounce' = {}
    /\ oldDirty' = {}
    /\ oldWaiting' = [t \in Tasks |-> Never]
    /\ oldFlaps' = [t \in Tasks |-> Flap!ZeroFlapState]
    /\ UNCHANGED <<vars, lease, overlap>>

\* Such a request is carried out, or not: nobody hears the answer.
LandWrite(t) ==
    /\ old = "stopped"
    /\ oldWorker[t].pc = "write"
    /\ \/ /\ Old!Current(t)
          /\ Store(t[2], oldWorker[t].updated)
       \/ UNCHANGED server
    /\ oldWorker' = [oldWorker EXCEPT ![t] = Idle]
    /\ UNCHANGED <<rules, cache, notes, queue, worker, flaps, clock, left, informed,
                   oldCache, oldNotes, oldConfig, oldAnnounce, oldDirty, oldWaiting,
                   oldFlaps, election>>

\* The other replica is elected: run starts its informers and controllers.
TakeOver ==
    /\ lease = "none"
    /\ lease' = "new"
    /\ UNCHANGED <<api, revision, configMap, clock, left, informed, oldMemory, old,
                   overlap>>
    /\ Fresh

HandoverNext ==
    \/ \E t \in Tasks : OldSystem(t) \/ NewSystem(t) \/ LandWrite(t)
    \/ \E n \in Nodes : OldDelivers(n) \/ NewDelivers(n)
    \/ OldLoads \/ NewLoads
    \/ \E d \in Domains : OldEnqueues(d) \/ NewEnqueues(d)
    \/ Edit
    \/ LoseLease \/ Stop \/ TakeOver

HandoverSpec == HandoverInit /\ [][HandoverNext]_replicas

-------------------------------------------------------------------------------
\* Both replicas' updates change nothing of the Node but their own part, and
\* what their conditions say is true of it, although each writes behind the
\* other's back.
ReplicasKeepOthers == NoLostUpdate /\ Old!NoLostUpdate
ReplicasTruthful   == TruthfulCondition /\ Old!TruthfulCondition

\* Whatever the old leader leaves half done or stores after its end, the new
\* one never rests before the Nodes are as its rules want them; nor does the
\* old one while it leads.
NoWakeupLostAcross ==
    \A t \in Tasks :
        /\ lease = "new" /\ Quiet(t) => Settled(t)
        /\ old = "leading" /\ Old!Quiet(t) => Old!Settled(t)
===============================================================================
