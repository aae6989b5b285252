--------------------------- MODULE NodeQueue_proofs ---------------------------
(***************************************************************************)
(* The workqueue never hands a key to two workers, loses none, and is the  *)
(* abstract TaskQueue, for any Nodes, workers, cooldowns and back-offs.    *)
(***************************************************************************)
EXTENDS NodeQueue, TLAPS

Elements(s) == {s[i] : i \in DOMAIN s}
Distinct(s) == \A i, j \in DOMAIN s : s[i] = s[j] => i = j

\* Appending a new element.
LEMMA AppendDistinct ==
    ASSUME NEW S, NEW s \in Seq(S), NEW e \in S,
           Distinct(s), e \notin Elements(s)
    PROVE  /\ Append(s, e) \in Seq(S)
           /\ Distinct(Append(s, e))
           /\ Elements(Append(s, e)) = Elements(s) \cup {e}
<1> DEFINE t == Append(s, e)
<1>1. /\ t \in Seq(S)
      /\ DOMAIN s = 1 .. Len(s)
      /\ DOMAIN t = 1 .. Len(s) + 1
      /\ \A i \in 1 .. Len(s) : t[i] = s[i]
      /\ t[Len(s) + 1] = e
      /\ Len(s) \in Nat
  OBVIOUS
<1>2. Distinct(t)
  BY <1>1 DEF Distinct, Elements
<1>3. Elements(t) = Elements(s) \cup {e}
  <2>1. ASSUME NEW x \in Elements(t) PROVE x \in Elements(s) \cup {e}
    BY <1>1, <2>1 DEF Elements
  <2>2. ASSUME NEW x \in Elements(s) PROVE x \in Elements(t)
    BY <1>1, <2>2 DEF Elements
  <2>3. e \in Elements(t)
    BY <1>1 DEF Elements
  <2> QED BY <2>1, <2>2, <2>3
<1> QED BY <1>1, <1>2, <1>3

\* Removing the first one.
LEMMA TailDistinct ==
    ASSUME NEW S, NEW s \in Seq(S), s # <<>>, Distinct(s)
    PROVE  /\ Tail(s) \in Seq(S)
           /\ Head(s) \in Elements(s)
           /\ Head(s) \in S
           /\ Distinct(Tail(s))
           /\ Elements(Tail(s)) = Elements(s) \ {Head(s)}
<1> DEFINE t == Tail(s)
<1>1. /\ t \in Seq(S)
      /\ Len(s) \in Nat \ {0}
      /\ DOMAIN s = 1 .. Len(s)
      /\ DOMAIN t = 1 .. Len(s) - 1
      /\ \A i \in 1 .. Len(s) - 1 : t[i] = s[i + 1]
      /\ Head(s) = s[1]
      /\ s[1] \in S
  OBVIOUS
<1>2. Distinct(t)
  BY <1>1 DEF Distinct
<1>3. Head(s) \in Elements(s)
  BY <1>1 DEF Elements
<1>4. Elements(t) = Elements(s) \ {Head(s)}
  <2>1. ASSUME NEW x \in Elements(t) PROVE x \in Elements(s) \ {Head(s)}
    <3>1. PICK i \in 1 .. Len(s) - 1 : x = t[i]
      BY <1>1, <2>1 DEF Elements
    <3>2. x = s[i + 1] /\ i + 1 \in 1 .. Len(s) /\ 1 \in 1 .. Len(s) /\ i + 1 # 1
      BY <1>1, <3>1
    <3> QED BY <1>1, <3>2 DEF Elements, Distinct
  <2>2. ASSUME NEW x \in Elements(s) \ {Head(s)} PROVE x \in Elements(t)
    <3>1. PICK i \in 1 .. Len(s) : x = s[i]
      BY <1>1, <2>2 DEF Elements
    <3>2. i - 1 \in 1 .. Len(s) - 1 /\ t[i - 1] = s[(i - 1) + 1] /\ (i - 1) + 1 = i
      BY <1>1, <2>2, <3>1
    <3> QED BY <1>1, <3>1, <3>2 DEF Elements
  <2> QED BY <2>1, <2>2
<1> QED BY <1>1, <1>2, <1>3, <1>4
-------------------------------------------------------------------------------
\* HeldByWorkers, one key and one worker at a time.
Held ==
    /\ \A w \in Workers : Busy(w) => worker[w].key \in processing
    /\ \A k \in processing : \E w \in Workers : Busy(w) /\ worker[w].key = k

LEMMA HeldEquivalent == Held <=> HeldByWorkers
BY DEF Held, HeldByWorkers

WorkerStates ==
    [pc : {"off", "idle", "stopped"}] \cup [pc : {"reconcile", "returned"}, key : Keys]

Inv == TypeOK /\ OneWorkerPerKey /\ QueuedOnce /\ Held

\* What a busy worker holds is a key.
LEMMA BusyKey ==
    ASSUME TypeOK, NEW w \in Workers, Busy(w)
    PROVE  worker[w].key \in Keys
BY DEF TypeOK, Busy

\* Adding a key keeps the queue in order.
LEMMA Pushed ==
    ASSUME TypeOK, QueuedOnce, NEW k \in Keys, Push(k), UNCHANGED processing
    PROVE  /\ queue' \in Seq(Keys)
           /\ dirty' \in SUBSET Keys
           /\ QueuedOnce'
<1> USE DEF TypeOK, QueuedOnce
<1>1. CASE UNCHANGED items
  BY <1>1 DEF items
<1>2. CASE /\ k \notin dirty
           /\ dirty' = dirty \cup {k}
           /\ k \in processing
           /\ queue' = queue
  BY <1>2
<1>3. CASE /\ k \notin dirty
           /\ dirty' = dirty \cup {k}
           /\ k \notin processing
           /\ queue' = Append(queue, k)
  <2>1. Distinct(queue) /\ Elements(queue) = dirty \ processing
    BY DEF Distinct, Elements
  <2>2. /\ queue' \in Seq(Keys)
        /\ Distinct(queue')
        /\ Elements(queue') = Elements(queue) \cup {k}
    BY <1>3, <2>1, AppendDistinct
  <2>3. Elements(queue') = dirty' \ processing'
    BY <1>3, <2>1, <2>2
  <2> QED BY <1>3, <2>2, <2>3 DEF Distinct, Elements
<1> QED BY <1>1, <1>2, <1>3 DEF Push

LEMMA PushedLater ==
    ASSUME TypeOK, NEW k \in Keys, NEW d \in Nat, PushLater(k, d)
    PROVE  delay' \in [Keys -> Nat \cup {Never}]
BY DEF TypeOK, PushLater, Never

LEMMA InitInv == Init => Inv
<1> SUFFICES ASSUME Init PROVE Inv
  OBVIOUS
<1>1. TypeOK
  <2>1. failures \in [Keys -> 0 .. MaxFailures]
    BY NodeQueueAssumption DEF Init
  <2>2. worker \in [Workers -> WorkerStates]
    BY DEF Init, At, WorkerStates
  <2>3. delay \in [Keys -> Nat \cup {Never}] /\ queue \in Seq(Keys)
    BY DEF Init
  <2> QED BY <2>1, <2>2, <2>3 DEF Init, TypeOK, WorkerStates
<1>2. \A w \in Workers : ~Busy(w)
  BY DEF Init, Busy, At
<1>3. QueuedOnce
  BY DEF Init, QueuedOnce
<1> QED BY <1>1, <1>2, <1>3 DEF Init, Inv, OneWorkerPerKey, Held

\* A worker gets a key that no other has.
LEMMA GetInv ==
    ASSUME Inv, NEW w \in Workers, Get(w)
    PROVE  Inv'
<1> DEFINE k == Head(queue)
<1> USE DEF Inv
<1>1. Distinct(queue) /\ Elements(queue) = dirty \ processing /\ queue \in Seq(Keys)
      /\ queue # <<>>
  BY DEF QueuedOnce, Distinct, Elements, TypeOK, Get
<1>2. /\ queue' \in Seq(Keys)
      /\ Distinct(queue')
      /\ Elements(queue') = Elements(queue) \ {k}
      /\ k \in Keys
      /\ k \in dirty \ processing
  BY <1>1, TailDistinct DEF Get
<1>3. worker' = [worker EXCEPT ![w] = [pc |-> "reconcile", key |-> k]]
  BY DEF Get, With
<1>4. QueuedOnce'
  <2>1. Elements(queue') = dirty' \ processing'
    BY <1>1, <1>2 DEF Get
  <2> QED BY <1>2, <2>1 DEF QueuedOnce, Elements, Distinct
<1>5. /\ worker'[w] = [pc |-> "reconcile", key |-> k]
      /\ \A v \in Workers \ {w} : worker'[v] = worker[v]
      /\ Busy(w)'
      /\ ~Busy(w)
      /\ \A v \in Workers \ {w} : Busy(v)' <=> Busy(v)
  BY <1>3 DEF TypeOK, Busy, Get
<1>6. TypeOK'
  BY <1>2, <1>3 DEF TypeOK, Get, run
<1>7. OneWorkerPerKey'
  BY <1>2, <1>5 DEF OneWorkerPerKey, Held
<1>8. Held'
  <2>1. processing' = processing \cup {k}
    BY DEF Get
  <2> QED BY <1>5, <2>1 DEF Held
<1> QED BY <1>4, <1>6, <1>7, <1>8

\* A key that was added while a worker had it is queued when it is done.
LEMMA DoneInv ==
    ASSUME Inv, NEW w \in Workers, Done(w)
    PROVE  Inv'
<1> DEFINE k == worker[w].key
<1> USE DEF Inv
<1>1. /\ Busy(w)
      /\ k \in Keys
      /\ k \in processing
      /\ processing' = processing \ {k}
      /\ dirty' = dirty
      /\ worker' = [worker EXCEPT ![w] = At("idle")]
      /\ queue' = IF k \in dirty THEN Append(queue, k) ELSE queue
  BY BusyKey DEF Done, Busy, Held
<1>2. Distinct(queue) /\ Elements(queue) = dirty \ processing /\ queue \in Seq(Keys)
  BY DEF QueuedOnce, Distinct, Elements, TypeOK
<1>3. /\ queue' \in Seq(Keys)
      /\ Distinct(queue')
      /\ Elements(queue') = dirty' \ processing'
  <2>1. CASE k \in dirty
    <3>1. k \notin Elements(queue) /\ queue' = Append(queue, k)
      BY <1>1, <1>2, <2>1
    <3>2. /\ queue' \in Seq(Keys)
          /\ Distinct(queue')
          /\ Elements(queue') = Elements(queue) \cup {k}
      BY <1>1, <1>2, <3>1, AppendDistinct
    <3> QED BY <1>1, <1>2, <2>1, <3>2
  <2>2. CASE k \notin dirty
    BY <1>1, <1>2, <2>2
  <2> QED BY <2>1, <2>2
<1>4. QueuedOnce'
  BY <1>3 DEF QueuedOnce, Elements, Distinct
<1>5. /\ ~Busy(w)'
      /\ \A v \in Workers \ {w} : worker'[v] = worker[v] /\ (Busy(v)' <=> Busy(v))
  BY <1>1 DEF TypeOK, Busy, At
<1>6. TypeOK'
  BY <1>1, <1>3 DEF TypeOK, Done, run, At
<1>7. OneWorkerPerKey'
  BY <1>5 DEF OneWorkerPerKey
<1>8. Held'
  BY <1>1, <1>5 DEF Held, OneWorkerPerKey
<1> QED BY <1>4, <1>6, <1>7, <1>8

\* A reconcile returns.
LEMMA ReturnInv ==
    ASSUME Inv, NEW w \in Workers, Fail(w) \/ Succeed(w)
    PROVE  Inv'
<1> DEFINE k == worker[w].key
<1> USE DEF Inv
<1>1. /\ Busy(w)
      /\ k \in Keys
      /\ worker' = [worker EXCEPT ![w] = [pc |-> "returned", key |-> k]]
      /\ UNCHANGED <<queue, dirty, processing, down, synced, cancelled>>
  BY BusyKey DEF Fail, Succeed, Busy, With, items, run
<1>2. delay' \in [Keys -> Nat \cup {Never}]
  <2>1. CASE Fail(w)
    <3>1. PICK d \in BackOffs(k) : PushLater(k, d)
      BY <2>1 DEF Fail
    <3>2. d \in Nat
      BY <1>1, <3>1, NodeQueueAssumption DEF BackOffs, TypeOK
    <3> QED BY <1>1, <3>1, <3>2, PushedLater
  <2>2. CASE Succeed(w)
    BY <2>2 DEF Succeed, TypeOK
  <2> QED BY <2>1, <2>2
<1>3. failures' \in [Keys -> 0 .. MaxFailures]
  <2>1. CASE Fail(w)
    <3>1. failures' = [failures EXCEPT ![k] = IF @ < MaxFailures THEN @ + 1 ELSE @]
      BY <2>1 DEF Fail
    <3>2. failures[k] \in 0 .. MaxFailures
      BY <1>1 DEF TypeOK
    <3>3. (IF failures[k] < MaxFailures THEN failures[k] + 1 ELSE failures[k])
            \in 0 .. MaxFailures
      BY <3>2, NodeQueueAssumption
    <3> QED BY <3>1, <3>3 DEF TypeOK
  <2>2. CASE Succeed(w)
    <3>1. failures' = [failures EXCEPT ![k] = 0] /\ 0 \in 0 .. MaxFailures
      BY <2>2, NodeQueueAssumption DEF Succeed
    <3> QED BY <3>1 DEF TypeOK
  <2> QED BY <2>1, <2>2
<1>4. \A v \in Workers : (Busy(v)' <=> Busy(v)) /\ (Busy(v) => worker'[v].key = worker[v].key)
  BY <1>1 DEF TypeOK, Busy
<1>5. TypeOK'
  BY <1>1, <1>2, <1>3 DEF TypeOK
<1> QED BY <1>1, <1>4, <1>5 DEF OneWorkerPerKey, QueuedOnce, Held

\* Every other step leaves keys where they are.
LEMMA NextInv == Inv /\ [Next]_vars => Inv'
<1> SUFFICES ASSUME Inv, [Next]_vars PROVE Inv'
  OBVIOUS
<1> USE DEF Inv
<1>1. ASSUME NEW k \in Keys, Enqueue(k) PROVE Inv'
  <2>1. /\ queue' \in Seq(Keys)
        /\ dirty' \in SUBSET Keys
        /\ QueuedOnce'
    BY <1>1, Pushed DEF Enqueue
  <2> QED BY <1>1, <2>1 DEF Enqueue, run, TypeOK, OneWorkerPerKey, Held, Busy
<1>2. ASSUME NEW k \in Keys, Due(k) PROVE Inv'
  <2>1. /\ queue' \in Seq(Keys)
        /\ dirty' \in SUBSET Keys
        /\ QueuedOnce'
    BY <1>2, Pushed DEF Due
  <2> QED BY <1>2, <2>1 DEF Due, run, TypeOK, OneWorkerPerKey, Held, Busy
<1>3. ASSUME NEW w \in Workers, CoolDown(w) PROVE Inv'
  <2>1. PICK d \in Cooldowns : PushLater(worker[w].key, d)
    BY <1>3 DEF CoolDown
  <2>2. delay' \in [Keys -> Nat \cup {Never}]
    BY <1>3, <2>1, PushedLater, BusyKey, NodeQueueAssumption DEF CoolDown, Busy
  <2> QED BY <1>3, <2>2
       DEF CoolDown, items, run, TypeOK, OneWorkerPerKey, QueuedOnce, Held, Busy
<1>4. ASSUME NEW w \in Workers, GetShutDown(w) PROVE Inv'
  <2>1. \A v \in Workers : (Busy(v)' <=> Busy(v)) /\ (Busy(v) => worker'[v] = worker[v])
    BY <1>4 DEF GetShutDown, TypeOK, Busy, At
  <2>2. TypeOK'
    BY <1>4 DEF GetShutDown, items, run, TypeOK, At
  <2> QED BY <1>4, <2>1, <2>2
       DEF GetShutDown, items, run, OneWorkerPerKey, QueuedOnce, Held
<1>5. CASE StartWorkers
  <2>1. \A v \in Workers : ~Busy(v)' /\ ~Busy(v)
    BY <1>5 DEF StartWorkers, Busy, At
  <2>2. TypeOK'
    BY <1>5 DEF StartWorkers, items, run, TypeOK, At
  <2> QED BY <1>5, <2>1, <2>2
       DEF StartWorkers, items, run, OneWorkerPerKey, QueuedOnce, Held
<1>6. CASE Tick
  <2>1. delay' \in [Keys -> Nat \cup {Never}]
    BY <1>6 DEF Tick, TypeOK, Never
  <2> QED BY <1>6, <2>1
       DEF Tick, items, run, TypeOK, OneWorkerPerKey, QueuedOnce, Held, Busy
<1>7. CASE Sync \/ Cancel \/ ShutDown
  <2>1. TypeOK'
    BY <1>7 DEF Sync, Cancel, ShutDown, items, TypeOK
  <2> QED BY <1>7, <2>1
       DEF Sync, Cancel, ShutDown, items, OneWorkerPerKey, QueuedOnce, Held, Busy
<1>8. CASE UNCHANGED vars
  BY <1>8 DEF vars, items, run, TypeOK, OneWorkerPerKey, QueuedOnce, Held, Busy
<1> QED
  BY <1>1, <1>2, <1>3, <1>4, <1>5, <1>6, <1>7, <1>8, GetInv, DoneInv, ReturnInv
  DEF Next, ProcessNextItem

\* The states stay well-formed.
THEOREM TypeCorrect == Spec => []TypeOK
<1>1. Inv => TypeOK
  BY DEF Inv
<1> QED BY <1>1, InitInv, NextInv, PTL DEF Spec

\* A key is in the hands of one worker at most.
THEOREM KeysNotShared == Spec => []OneWorkerPerKey
<1>1. Inv => OneWorkerPerKey
  BY DEF Inv
<1> QED BY <1>1, InitInv, NextInv, PTL DEF Spec

\* The queue holds the dirty keys no worker has, each of them once.
THEOREM KeysQueuedOnce == Spec => []QueuedOnce
<1>1. Inv => QueuedOnce
  BY DEF Inv
<1> QED BY <1>1, InitInv, NextInv, PTL DEF Spec

\* No key is blocked by a worker that does not have it.
THEOREM KeysHeldByWorkers == Spec => []HeldByWorkers
<1>1. Inv => HeldByWorkers
  BY HeldEquivalent DEF Inv
<1> QED BY <1>1, InitInv, NextInv, PTL DEF Spec
-------------------------------------------------------------------------------
\* Every step of the workqueue is a step of TaskQueue, or invisible to it.
LEMMA AbstractStep == Inv /\ [Next]_vars => [Abstract!Next]_Abstract!vars
<1> SUFFICES ASSUME Inv, [Next]_vars PROVE [Abstract!Next]_Abstract!vars
  OBVIOUS
<1> USE DEF Inv, Abstract!vars
<1> DEFINE delays == Cooldowns \cup 1 .. MaxDelay
<1>1. ASSUME NEW k \in Keys, Enqueue(k) PROVE [Abstract!Add(k)]_Abstract!vars
  <2>1. CASE UNCHANGED items
    BY <1>1, <2>1 DEF Enqueue, items, run
  <2>2. CASE ~down /\ dirty' = dirty \cup {k}
    BY <1>1, <2>2 DEF Enqueue, run, Abstract!Add
  <2> QED BY <1>1, <2>1, <2>2 DEF Enqueue, Push, TypeOK
<1>2. ASSUME NEW k \in Keys, Due(k) PROVE Abstract!Wake(k)
  <2>1. dirty' = dirty \cup {k}
    BY <1>2 DEF Due, Push, items
  <2> QED BY <1>2, <2>1 DEF Due, run, Abstract!Wake, Never, Abstract!Never
<1>3. ASSUME NEW w \in Workers, Get(w) PROVE \E k \in Keys : Abstract!Start(k)
  <2>1. queue \in Seq(Keys) /\ queue # <<>> /\ Distinct(queue)
    BY <1>3 DEF TypeOK, Get, QueuedOnce, Distinct
  <2>2. Head(queue) \in Keys /\ Head(queue) \in dirty \ processing
    BY <2>1, TailDistinct DEF QueuedOnce, Elements
  <2>3. Abstract!Start(Head(queue))
    BY <1>3, <2>2 DEF Get, run, Abstract!Start
  <2> QED BY <2>2, <2>3
<1>4. ASSUME NEW w \in Workers, NEW k \in Keys, NEW d \in delays, PushLater(k, d),
             UNCHANGED <<dirty, processing, down>>
      PROVE  [\E i \in Keys : \E e \in delays : Abstract!Schedule(i, e)]_Abstract!vars
  BY <1>4 DEF PushLater, TypeOK, Abstract!Schedule, Never, Abstract!Never
<1>5. ASSUME NEW w \in Workers, CoolDown(w) PROVE [Abstract!Next]_Abstract!vars
  <2>1. PICK d \in Cooldowns : PushLater(worker[w].key, d)
    BY <1>5 DEF CoolDown
  <2>2. worker[w].key \in Keys /\ UNCHANGED <<dirty, processing, down>>
    BY <1>5, BusyKey DEF CoolDown, Busy, items, run
  <2> QED BY <1>4, <2>1, <2>2 DEF Abstract!Next
<1>6. ASSUME NEW w \in Workers, Fail(w) PROVE [Abstract!Next]_Abstract!vars
  <2>1. PICK d \in BackOffs(worker[w].key) : PushLater(worker[w].key, d)
    BY <1>6 DEF Fail
  <2>2. worker[w].key \in Keys /\ UNCHANGED <<dirty, processing, down>>
    BY <1>6, BusyKey DEF Fail, Busy, items, run
  <2>3. d \in delays
    BY <2>1, <2>2, NodeQueueAssumption DEF BackOffs, TypeOK
  <2> QED BY <1>4, <2>1, <2>2, <2>3 DEF Abstract!Next
<1>7. ASSUME NEW w \in Workers, Done(w) PROVE \E k \in Keys : Abstract!Done(k)
  <2>1. worker[w].key \in Keys /\ worker[w].key \in processing
    BY <1>7, BusyKey DEF Done, Busy, Held
  <2>2. Abstract!Done(worker[w].key)
    BY <1>7, <2>1 DEF Done, run, Abstract!Done
  <2> QED BY <2>1, <2>2
<1>8. ASSUME NEW w \in Workers, GetShutDown(w) \/ Succeed(w) PROVE UNCHANGED Abstract!vars
  BY <1>8 DEF GetShutDown, Succeed, items, run
<1>9. CASE Tick
  BY <1>9 DEF Tick, items, run, Abstract!Tick, Abstract!Next
<1>10. CASE ShutDown
  BY <1>10 DEF ShutDown, items, Abstract!Close, Abstract!Next
<1>11. CASE Sync \/ StartWorkers \/ Cancel \/ UNCHANGED vars
  BY <1>11 DEF Sync, StartWorkers, Cancel, vars, items, run
<1> QED
  BY <1>1, <1>2, <1>3, <1>5, <1>6, <1>7, <1>8, <1>9, <1>10, <1>11
  DEF Next, ProcessNextItem, Abstract!Next

\* The workqueue implements what RuleController assumes of it.
THEOREM Implementation == Spec => ImplementsTaskQueue
<1>1. Init => Abstract!Init
  BY DEF Init, Abstract!Init, Never, Abstract!Never
<1> QED BY <1>1, InitInv, NextInv, AbstractStep, PTL DEF Spec, ImplementsTaskQueue, Abstract!Spec
===============================================================================
