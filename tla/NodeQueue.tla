------------------------------ MODULE NodeQueue ------------------------------
(***************************************************************************)
(* One controller's nodeQueue (controller.go): client-go's rate-limited    *)
(* workqueue, the event handlers that fill it, and the workers that Run    *)
(* starts on it.  What a reconcile does to the cluster is RuleController's *)
(* business; here it may ask for a cooldown, fail or succeed.              *)
(***************************************************************************)
EXTENDS Integers, Sequences

CONSTANTS
    Keys,           \* Node names
    Workers,
    Cooldowns,      \* ticks a reconcile may pass to AddAfter
    MaxFailures,    \* bound: failures beyond it change no back-off
    BackOff,        \* per number of failures, the ticks to wait at least
    MaxDelay        \* and at most

ASSUME NodeQueueAssumption ==
    /\ Cooldowns \subseteq Nat \ {0}
    /\ MaxDelay \in Nat
    /\ MaxFailures \in Nat
    /\ BackOff \in [0 .. MaxFailures -> 1 .. MaxDelay]

VARIABLES
    queue,          \* keys in the order in which workers get them
    dirty,          \* keys that need a reconcile
    processing,     \* keys a worker has
    delay,          \* per key, ticks until its delayed add, or Never
    failures,       \* per key, the rate limiter's count
    down,           \* the queue is shut down
    synced,         \* the Node cache is filled
    cancelled,      \* Run's context is
    worker          \* per worker, its step and key

items == <<queue, dirty>>
run   == <<down, synced, cancelled>>
vars  == <<items, processing, delay, failures, run, worker>>

Never == -1
At(pc)      == [pc |-> pc]
With(pc, k) == [pc |-> pc, key |-> k]
Busy(w)     == worker[w].pc \in {"reconcile", "returned"}

Init ==
    /\ queue = <<>>
    /\ dirty = {}
    /\ processing = {}
    /\ delay = [k \in Keys |-> Never]
    /\ failures = [k \in Keys |-> 0]
    /\ down = FALSE
    /\ synced = FALSE
    /\ cancelled = FALSE
    /\ worker = [w \in Workers |-> At("off")]

-------------------------------------------------------------------------------
(***************************************************************************)
(* The workqueue.                                                          *)
(***************************************************************************)
\* Mutant of Push: a key is queued although a worker has it.
PushAnyway(k) ==
    IF down \/ k \in dirty THEN UNCHANGED items
    ELSE /\ dirty' = dirty \cup {k}
         /\ queue' = Append(queue, k)

\* Add: a key that a worker has is queued when that worker is done.
Push(k) ==
    IF down \/ k \in dirty THEN UNCHANGED items
    ELSE /\ dirty' = dirty \cup {k}
         /\ queue' = IF k \in processing THEN queue ELSE Append(queue, k)

\* Mutant of PushLater: the later of two times is kept.
PushLatest(k, d) ==
    IF down THEN UNCHANGED delay
    ELSE delay' = [delay EXCEPT ![k] = d]

\* AddAfter: the earlier of two times is kept.
PushLater(k, d) ==
    IF down THEN UNCHANGED delay
    ELSE delay' = [delay EXCEPT ![k] = IF @ = Never \/ d < @ THEN d ELSE @]

\* The waiting loop adds a key that is due, until the queue is shut down.
Due(k) ==
    /\ ~down
    /\ delay[k] = 0
    /\ delay' = [delay EXCEPT ![k] = Never]
    /\ Push(k)
    /\ UNCHANGED <<processing, failures, run, worker>>

Tick ==
    /\ \E k \in Keys : delay[k] > 0
    /\ delay' = [k \in Keys |-> IF delay[k] > 0 THEN delay[k] - 1 ELSE delay[k]]
    /\ UNCHANGED <<items, processing, failures, run, worker>>

\* Exponential, and longer if the overall rate is exceeded.
BackOffs(k) == BackOff[failures[k]] .. MaxDelay

-------------------------------------------------------------------------------
(***************************************************************************)
(* Event handlers and workers.                                             *)
(***************************************************************************)
\* enqueue, or EnqueueAll for one of its Nodes: at any time.
Enqueue(k) ==
    /\ Push(k)
    /\ UNCHANGED <<processing, delay, failures, run, worker>>

Sync ==
    /\ ~synced
    /\ synced' = TRUE
    /\ UNCHANGED <<items, processing, delay, failures, down, cancelled, worker>>

\* Run, once WaitForCacheSync returns true.
StartWorkers ==
    /\ synced
    /\ ~cancelled
    /\ \A w \in Workers : worker[w] = At("off")
    /\ worker' = [w \in Workers |-> At("idle")]
    /\ UNCHANGED <<items, processing, delay, failures, run>>

\* Mutant of Get: the key queued last is next.
GetLast(w) ==
    /\ worker[w].pc = "idle"
    /\ queue # <<>>
    /\ LET k == queue[Len(queue)]
       IN  /\ queue' = SubSeq(queue, 1, Len(queue) - 1)
           /\ dirty' = dirty \ {k}
           /\ processing' = processing \cup {k}
           /\ worker' = [worker EXCEPT ![w] = With("reconcile", k)]
    /\ UNCHANGED <<delay, failures, run>>

\* Keys left in the queue are handed out even after it was shut down.
Get(w) ==
    /\ worker[w].pc = "idle"
    /\ queue # <<>>
    /\ queue' = Tail(queue)
    /\ dirty' = dirty \ {Head(queue)}
    /\ processing' = processing \cup {Head(queue)}
    /\ worker' = [worker EXCEPT ![w] = With("reconcile", Head(queue))]
    /\ UNCHANGED <<delay, failures, run>>

GetShutDown(w) ==
    /\ worker[w].pc = "idle"
    /\ queue = <<>>
    /\ down
    /\ worker' = [worker EXCEPT ![w] = At("stopped")]
    /\ UNCHANGED <<items, processing, delay, failures, run>>

\* beforeApply asks for a cooldown.
CoolDown(w) ==
    /\ worker[w].pc = "reconcile"
    /\ \E d \in Cooldowns : PushLater(worker[w].key, d)
    /\ UNCHANGED <<items, processing, failures, run, worker>>

\* reconcile returns an error: AddRateLimited.
Fail(w) ==
    /\ worker[w].pc = "reconcile"
    /\ LET k == worker[w].key
       IN  /\ \E d \in BackOffs(k) : PushLater(k, d)
           /\ failures' = [failures EXCEPT ![k] = IF @ < MaxFailures THEN @ + 1 ELSE @]
           /\ worker' = [worker EXCEPT ![w] = With("returned", k)]
    /\ UNCHANGED <<items, processing, run>>

\* Or none: Forget.
Succeed(w) ==
    /\ worker[w].pc = "reconcile"
    /\ failures' = [failures EXCEPT ![worker[w].key] = 0]
    /\ worker' = [worker EXCEPT ![w] = With("returned", worker[w].key)]
    /\ UNCHANGED <<items, processing, delay, run>>

\* Mutant of Done: what was added meanwhile is not queued.
DoneForgetful(w) ==
    /\ worker[w].pc = "returned"
    /\ processing' = processing \ {worker[w].key}
    /\ worker' = [worker EXCEPT ![w] = At("idle")]
    /\ UNCHANGED <<items, delay, failures, run>>

\* The deferred Done queues what was added meanwhile.
Done(w) ==
    /\ worker[w].pc = "returned"
    /\ LET k == worker[w].key
       IN  /\ processing' = processing \ {k}
           /\ queue' = IF k \in dirty THEN Append(queue, k) ELSE queue
    /\ worker' = [worker EXCEPT ![w] = At("idle")]
    /\ UNCHANGED <<dirty, delay, failures, run>>

Cancel ==
    /\ ~cancelled
    /\ cancelled' = TRUE
    /\ UNCHANGED <<items, processing, delay, failures, down, synced, worker>>

\* Mutant of ShutDown: Run returns without it if workers were started.
ShutDownUnstarted ==
    /\ cancelled
    /\ ~down
    /\ \A w \in Workers : worker[w] = At("off")
    /\ down' = TRUE
    /\ UNCHANGED <<items, processing, delay, failures, synced, cancelled, worker>>

\* Run returns, whether or not it has started workers, and does not wait for
\* them.
ShutDown ==
    /\ cancelled
    /\ ~down
    /\ down' = TRUE
    /\ UNCHANGED <<items, processing, delay, failures, synced, cancelled, worker>>

ProcessNextItem(w) ==
    Get(w) \/ GetShutDown(w) \/ CoolDown(w) \/ Fail(w) \/ Succeed(w) \/ Done(w)

Next ==
    \/ \E k \in Keys : Enqueue(k) \/ Due(k)
    \/ \E w \in Workers : ProcessNextItem(w)
    \/ Tick \/ Sync \/ StartWorkers \/ Cancel \/ ShutDown

Spec == Init /\ [][Next]_vars

(***************************************************************************)
(* The informer syncs, workers and timers go on, and reconcile returns; it *)
(* may fail forever, and others may add keys forever.                      *)
(***************************************************************************)
Fairness ==
    /\ \A k \in Keys : WF_vars(Due(k))
    /\ \A w \in Workers : /\ WF_vars(Get(w) \/ GetShutDown(w))
                          /\ WF_vars(Fail(w) \/ Succeed(w))
                          /\ WF_vars(Done(w))
    /\ WF_vars(Tick) /\ WF_vars(Sync) /\ WF_vars(StartWorkers) /\ WF_vars(ShutDown)

FairSpec == Spec /\ Fairness
-------------------------------------------------------------------------------
TypeOK ==
    /\ queue \in Seq(Keys)
    /\ dirty \subseteq Keys
    /\ processing \subseteq Keys
    /\ delay \in [Keys -> Nat \cup {Never}]
    /\ failures \in [Keys -> 0 .. MaxFailures]
    /\ down \in BOOLEAN /\ synced \in BOOLEAN /\ cancelled \in BOOLEAN
    /\ worker \in [Workers -> [pc : {"off", "idle", "stopped"}]
                       \cup [pc : {"reconcile", "returned"}, key : Keys]]

\* No Node is ever reconciled by two workers of one controller at a time, which
\* is what lets reconcile go without a lock (controller.go:127-142).
OneWorkerPerKey ==
    \A v, w \in Workers :
        v # w /\ Busy(v) /\ Busy(w) => worker[v].key # worker[w].key

\* A key that needs a reconcile is in the queue once, or will be put there by
\* the worker that has it: none is lost between Add, Get and Done, and none
\* piles up.
QueuedOnce ==
    /\ {queue[i] : i \in DOMAIN queue} = dirty \ processing
    /\ \A i, j \in DOMAIN queue : queue[i] = queue[j] => i = j

\* Keys are held by workers and by nobody else: none stays blocked.
HeldByWorkers ==
    processing = {worker[w].key : w \in {v \in Workers : Busy(v)}}

\* The workqueue is the abstract one that RuleController works with.
Abstract == INSTANCE TaskQueue WITH
    Delays <- Cooldowns \cup 1 .. MaxDelay, busy <- processing, closed <- down
ImplementsTaskQueue == Abstract!Spec

\* While Run runs, every key that was added is reconciled and every delayed
\* one is added, however often other keys are added or fail.
EveryKeyServed ==
    \A k \in Keys :
        /\ (k \in dirty /\ ~cancelled) ~> (k \in processing \/ cancelled)
        /\ (delay[k] # Never /\ ~cancelled) ~> (k \in dirty \/ cancelled)

\* After the context is cancelled, all workers come to an end.
WorkersStop ==
    cancelled ~> \A w \in Workers : worker[w].pc \in {"off", "stopped"}
==============================================================================
