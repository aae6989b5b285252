------------------------ MODULE RuleController_wakeup ------------------------
(***************************************************************************)
(* No wake-up is lost: the proof.  NoLostWakeup speaks of tasks that are   *)
(* quiet; what makes it inductive is who else may still come back to a     *)
(* task that is not settled (Attended), and what a worker with an outdated *)
(* snapshot can rely on (StaleAnnounced): it gives up, and may.            *)
(***************************************************************************)
EXTENDS RuleController_proofs

\* The informer's handlers have been told of t's Node, or have queued it.
Announced(t) == "update" \in ToSet(notes[t]) \/ t \in dirty

Busy(t) == worker[t].pc \in {"reconcile", "write"}

Attended(t) ==
    \/ watch[t[2]] # <<>>
    \/ Announced(t)
    \/ waiting[t] # Never
    \/ t[1] \in announce
    \/ Busy(t) /\ worker[t].node = cache[t[2]]

\* The newest version on its way to the cache is the server's.
Newest(n) == IF watch[n] = <<>> THEN cache[n] ELSE watch[n][Len(watch[n])]
WatchCurrent == \A n \in Nodes : Newest(n) = api[n]

StaleAnnounced ==
    \A t \in Tasks : Busy(t) =>
        worker[t].node = cache[t[2]] \/ Announced(t) \/ cache[t[2]] = Gone

Unsettled == \A t \in Tasks : Settled(t) \/ Attended(t)

WakeupInv == WatchCurrent /\ StaleAnnounced /\ Unsettled

-------------------------------------------------------------------------------
(***************************************************************************)
(* The cache catches up with the server.                                   *)
(***************************************************************************)
LEMMA TailKeeps ==
    ASSUME NEW S, NEW s \in Seq(S), s # <<>>
    PROVE  /\ \A e \in ToSet(s) : e = Head(s) \/ e \in ToSet(Tail(s))
           /\ Tail(s) = <<>> => Head(s) = s[Len(s)]
           /\ Tail(s) # <<>> => Tail(s)[Len(Tail(s))] = s[Len(s)]
<1>1. /\ Len(s) \in Nat \ {0} /\ DOMAIN s = 1 .. Len(s) /\ Head(s) = s[1]
      /\ Tail(s) \in Seq(S)
      /\ Len(Tail(s)) = Len(s) - 1
      /\ \A i \in 1 .. Len(Tail(s)) : Tail(s)[i] = s[i + 1]
  BY LenProperties, HeadTailProperties, EmptySeq
<1>2. DOMAIN Tail(s) = 1 .. Len(Tail(s)) BY <1>1, LenProperties
<1>3. ASSUME NEW i \in DOMAIN s, i # 1 PROVE s[i] \in ToSet(Tail(s))
  <2>1. i - 1 \in DOMAIN Tail(s) /\ Tail(s)[i - 1] = s[i] BY <1>1, <1>2, <1>3
  <2> QED BY <2>1 DEF ToSet
<1>4. \A e \in ToSet(s) : e = Head(s) \/ e \in ToSet(Tail(s)) BY <1>1, <1>3 DEF ToSet
<1>5. Tail(s) = <<>> => Len(s) = 1
  <2>1. Len(<<>>) = 0 OBVIOUS
  <2>2. Tail(s) = <<>> => Len(Tail(s)) = 0 BY ONLY <2>1
  <2> QED BY <1>1, <2>2
<1>6. Tail(s) # <<>> => Tail(s)[Len(Tail(s))] = s[Len(s)]
  <2>1. Tail(s) # <<>> => Len(Tail(s)) \in 1 .. Len(Tail(s)) BY <1>1, EmptySeq
  <2> QED BY <1>1, <2>1
<1> QED BY <1>1, <1>4, <1>5, <1>6

LEMMA StoreNewest ==
    ASSUME ServerOK, NEW n \in Nodes, NEW o, Store(n, o)
    PROVE  /\ watch'[n] # <<>>
           /\ watch'[n][Len(watch'[n])] = api'[n]
           /\ \A m \in Nodes \ {n} : watch'[m] = watch[m] /\ api'[m] = api[m]
<1> DEFINE stored == IF o = Gone THEN Gone ELSE [o EXCEPT !.rv = revision + 1]
<1>1. /\ api'[n] = stored
      /\ watch'[n] = Append(watch[n], stored)
      /\ \A m \in Nodes \ {n} : watch'[m] = watch[m] /\ api'[m] = api[m]
  BY DEF Store, ServerOK
<1> HIDE DEF stored
<1>2. watch[n] \in Seq(ToSet(watch[n])) BY DEF ServerOK
<1>3. \A s \in Seq(ToSet(watch[n])) :
        Append(s, stored) # <<>> /\ Append(s, stored)[Len(Append(s, stored))] = stored
  OBVIOUS
<1> QED BY <1>1, <1>2, <1>3

\* A step stores at most one version, delivers one, or is none of the server's.
LEMMA ServerStep ==
    ASSUME TypeOK, [Next]_vars
    PROVE  \/ UNCHANGED <<server, cache>>
           \/ \E n \in Nodes : \E o : Store(n, o) /\ UNCHANGED cache
           \/ \E n \in Nodes : Deliver(n) \/ Relist(n)
           \/ Crash
<1>1. ASSUME NEW t \in Tasks, System(t)
      PROVE  UNCHANGED cache /\ (UNCHANGED server \/ \E n \in Nodes : \E o : Store(n, o))
  BY <1>1, TaskParts
  DEF System, Handle, Start, Reconcile, Unmatched, Confirm, Initialize, StartOver,
      HandleDrift, AwaitCooldown, BeginPending, ApplyValues, Unapplied, Reconciling, Write,
      WriteSucceeds, WriteConflicts, WriteFails, Writing, Record, Wake
<1>2. ASSUME NEW n \in Nodes, Resync(n) \/ ForeignWrite(n) \/ DeleteNode(n) \/ CreateNode(n)
      PROVE  UNCHANGED cache /\ (UNCHANGED server \/ \E o : Store(n, o))
  BY <1>2 DEF Resync, ForeignWrite, DeleteNode, CreateNode
<1>3. CASE \/ LoadConfig \/ ResyncConfig \/ \E d \in Domains : EnqueueAll(d)
           \/ EditConfigMap \/ Tick \/ UNCHANGED vars
  BY <1>3 DEF LoadConfig, ResyncConfig, EnqueueAll, EditConfigMap, Tick, vars
<1> QED BY <1>1, <1>2, <1>3 DEF Next

\* A process that starts has everything in its cache, and announced.
LEMMA FreshWakeup ==
    ASSUME Fresh
    PROVE  WakeupInv'
<1>1. WatchCurrent' BY DEF Fresh, WatchCurrent, Newest
<1>2. StaleAnnounced' BY DEF Fresh, StaleAnnounced, Busy, Idle
<1>3. ASSUME NEW t \in Tasks PROVE (Settled(t) \/ Attended(t))'
  <2>1. api'[t[2]] # Gone => notes'[t] = <<"update">> BY DEF Fresh
  <2>2. "update" \in ToSet(<<"update">>) BY DEF ToSet
  <2> QED BY <2>1, <2>2 DEF Attended, Announced, Settled
<1> QED BY <1>1, <1>2, <1>3 DEF WakeupInv, Unsettled

LEMMA ApiStep ==
    ASSUME TypeOK, [Next]_vars
    PROVE  UNCHANGED <<api, revision>> \/ \E n \in Nodes : Replaces(n, api'[n])
<1>1. ASSUME NEW n \in Nodes, NEW o, Store(n, o) PROVE Replaces(n, api'[n])
  <2> DEFINE stored == IF o = Gone THEN Gone ELSE [o EXCEPT !.rv = revision + 1]
  <2>1. revision' = revision + 1 /\ api' = [api EXCEPT ![n] = stored] /\ ServerOK
    BY <1>1 DEF Store, TypeOK
  <2>2. o # Gone => DOMAIN stored = DOMAIN o
    OBVIOUS
  <2>3. o # Gone /\ "rv" \in DOMAIN o => stored.rv = revision + 1
    OBVIOUS
  <2> HIDE DEF stored
  <2>4. api'[n] = stored BY <2>1 DEF ServerOK
  <2>5. IsVersion(n, stored) BY <2>4, TypeStep DEF TypeOK, ServerOK
  <2>6. stored # Gone => "rv" \in DOMAIN stored BY <2>5 DEF IsVersion, IsNode
  <2>7. stored # Gone => stored.rv = revision + 1
    <3>1. o = Gone => stored = Gone BY DEF stored
    <3> QED BY <2>2, <2>3, <2>6, <3>1
  <2> QED BY <2>1, <2>4, <2>7 DEF Replaces
<1>2. ASSUME NEW n \in Nodes, Deliver(n) \/ Relist(n) PROVE UNCHANGED <<api, revision>>
  BY <1>2 DEF Deliver, Relist
<1> QED BY <1>1, <1>2, ServerStep DEF server, Crash

LEMMA WatchStep == TypeOK /\ WatchCurrent /\ [Next]_vars => WatchCurrent'
<1> SUFFICES ASSUME TypeOK, WatchCurrent, [Next]_vars, NEW m \in Nodes
             PROVE  Newest(m)' = api'[m]
  BY DEF WatchCurrent, Newest
<1>0. ServerOK /\ CacheOK BY DEF TypeOK
<1>1. CASE UNCHANGED <<server, cache>>
  BY <1>1 DEF WatchCurrent, Newest, server
<1>2. ASSUME NEW n \in Nodes, NEW o, Store(n, o), UNCHANGED cache PROVE Newest(m)' = api'[m]
  BY <1>0, <1>2, StoreNewest DEF WatchCurrent, Newest
<1>3. ASSUME NEW n \in Nodes, Deliver(n) PROVE Newest(m)' = api'[m]
  <2>1. /\ watch[n] # <<>>
        /\ watch[n] \in Seq(ToSet(watch[n]))
        /\ UNCHANGED api
        /\ \A k \in Nodes : watch'[k] = IF k = n THEN Tail(watch[n]) ELSE watch[k]
        /\ \A k \in Nodes : cache'[k] = IF k = n THEN Head(watch[n]) ELSE cache[k]
    BY <1>0, <1>3 DEF Deliver, ServerOK, CacheOK
  <2>2. CASE m = n
    <3>1. Newest(n) = watch[n][Len(watch[n])] BY <2>1 DEF Newest
    <3>2. /\ Tail(watch[n]) = <<>> => Head(watch[n]) = watch[n][Len(watch[n])]
          /\ Tail(watch[n]) # <<>> =>
                Tail(watch[n])[Len(Tail(watch[n]))] = watch[n][Len(watch[n])]
      BY <2>1, TailKeeps
    <3>3. watch'[n] = Tail(watch[n]) /\ cache'[n] = Head(watch[n]) BY <2>1
    <3>4. Newest(n)' = watch[n][Len(watch[n])] BY <3>2, <3>3 DEF Newest
    <3> QED BY <2>1, <2>2, <3>1, <3>4 DEF WatchCurrent
  <2>3. CASE m # n BY <2>1, <2>3 DEF WatchCurrent, Newest
  <2> QED BY <2>2, <2>3
<1>4. ASSUME NEW n \in Nodes, Relist(n) PROVE Newest(m)' = api'[m]
  <2>1. /\ UNCHANGED api
        /\ \A k \in Nodes : watch'[k] = IF k = n THEN <<>> ELSE watch[k]
        /\ \A k \in Nodes : cache'[k] = IF k = n THEN api[n] ELSE cache[k]
    BY <1>0, <1>4 DEF Relist, ServerOK, CacheOK
  <2> QED BY <2>1 DEF WatchCurrent, Newest
<1>5. CASE Crash BY <1>5, FreshWakeup DEF Crash, WakeupInv, WatchCurrent, Newest
<1> QED BY <1>1, <1>2, <1>3, <1>4, <1>5, ServerStep

-------------------------------------------------------------------------------
(***************************************************************************)
(* Announcements are not lost.                                             *)
(***************************************************************************)
LEMMA NotifyKeeps ==
    ASSUME QueueOK, NEW n \in Nodes, NEW before, NEW after,
           Notify(n, before, after), NEW t \in Tasks
    PROVE  /\ ToSet(notes[t]) \subseteq ToSet(notes'[t])
           /\ t[2] = n /\ after # Gone => "update" \in ToSet(notes'[t])
           /\ t[2] = n /\ after = Gone /\ before # Gone => "delete" \in ToSet(notes'[t])
<1> DEFINE note == IF after = Gone THEN "delete" ELSE "update"
<1>1. /\ notes'[t] = notes[t] \/ notes'[t] = Append(notes[t], note)
      /\ t[2] = n /\ ~(before = Gone /\ after = Gone)
            => notes'[t] = Append(notes[t], note)
  BY DEF Notify
<1>2. after = Gone => note = "delete" OBVIOUS
<1>3. after # Gone => note = "update" OBVIOUS
<1> HIDE DEF note
<1>4. notes[t] \in Seq({"update", "delete"}) BY DEF QueueOK
<1>5. ToSet(Append(notes[t], note)) = ToSet(notes[t]) \cup {note}
  BY <1>4, AppendElements
<1> QED BY <1>1, <1>2, <1>3, <1>5

LEMMA HandleKeeps ==
    ASSUME QueueOK, NEW t \in Tasks, NEW u \in Tasks, Handle(u), Announced(t)
    PROVE  Announced(t)'
<1>1. CASE t # u BY <1>1 DEF Handle, QueueOK, Announced
<1>2. CASE t = u
  <2>1. /\ notes[t] # <<>> /\ notes[t] \in Seq({"update", "delete"})
        /\ notes'[t] = Tail(notes[t])
        /\ Head(notes[t]) = "update" => t \in dirty'
        /\ t \in dirty => t \in dirty'
    BY <1>2 DEF Handle, QueueOK
  <2>2. \A e \in ToSet(notes[t]) : e = Head(notes[t]) \/ e \in ToSet(Tail(notes[t]))
    BY <2>1, TailKeeps
  <2> QED BY <2>1, <2>2 DEF Announced
<1> QED BY <1>1, <1>2

\* Only the start of its own pass takes an announcement away.
LEMMA AnnouncedStep ==
    ASSUME TypeOK, [Next]_vars, NEW t \in Tasks, Announced(t), ~Crash, ~Start(t)
    PROVE  Announced(t)'
<1>0. QueueOK BY DEF TypeOK
<1>1. ASSUME NEW u \in Tasks, System(u) PROVE Announced(t)'
  <2>1. CASE Handle(u) BY <1>0, <2>1, HandleKeeps
  <2>2. CASE Start(u) BY <2>2 DEF Start, Announced
  <2>3. CASE Reconcile(u) \/ Write(u) \/ Record(u)
    <3>1. UNCHANGED <<notes, dirty>>
      BY <2>3 DEF Reconcile, Unmatched, Confirm, Initialize, StartOver, HandleDrift,
                  AwaitCooldown, BeginPending, ApplyValues, Unapplied, Reconciling, Write,
                  WriteSucceeds, WriteConflicts, WriteFails, Writing, Record, queue
    <3> QED BY <3>1 DEF Announced
  <2>4. CASE Wake(u) BY <2>4 DEF Wake, Announced
  <2> QED BY <1>1, <2>1, <2>2, <2>3, <2>4 DEF System
<1>2. ASSUME NEW n \in Nodes, Deliver(n) \/ Relist(n) \/ Resync(n) PROVE Announced(t)'
  <2>1. UNCHANGED dirty /\ \E before, after : Notify(n, before, after)
    BY <1>2 DEF Deliver, Relist, Resync, queue
  <2> QED BY <1>0, <2>1, NotifyKeeps DEF Announced
<1>3. CASE \/ LoadConfig \/ ResyncConfig \/ EditConfigMap \/ Tick \/ UNCHANGED vars
           \/ \E n \in Nodes : ForeignWrite(n) \/ DeleteNode(n) \/ CreateNode(n)
  BY <1>3 DEF LoadConfig, ResyncConfig, EditConfigMap, Tick, ForeignWrite, DeleteNode,
              CreateNode, vars, queue, Announced
<1>4. ASSUME NEW d \in Domains, EnqueueAll(d) PROVE Announced(t)'
  BY <1>4 DEF EnqueueAll, Announced
<1> QED BY <1>1, <1>2, <1>3, <1>4 DEF Next

\* Whoever is delivered to the cache is announced or gone.
LEMMA CacheStep ==
    ASSUME TypeOK, [Next]_vars, NEW t \in Tasks, cache'[t[2]] # cache[t[2]]
    PROVE  Announced(t)' \/ cache'[t[2]] = Gone
<1>0. QueueOK /\ CacheOK /\ t[2] \in Nodes BY TaskParts DEF TypeOK
<1>1. ASSUME NEW n \in Nodes, Deliver(n) \/ Relist(n)
      PROVE  Announced(t)' \/ cache'[t[2]] = Gone
  <2>1. PICK before, after : /\ Notify(n, before, after)
                             /\ cache' = [cache EXCEPT ![n] = after]
    BY <1>1 DEF Deliver, Relist
  <2>2. n = t[2] /\ cache'[t[2]] = after BY <1>0, <2>1 DEF CacheOK
  <2> QED BY <1>0, <2>1, <2>2, NotifyKeeps DEF Announced
<1>2. CASE Crash
  <2>1. cache'[t[2]] # Gone => notes'[t] = <<"update">> BY <1>0, <1>2 DEF Crash, Fresh
  <2>2. "update" \in ToSet(<<"update">>) BY DEF ToSet
  <2> QED BY <2>1, <2>2 DEF Announced
<1> QED BY <1>1, <1>2, ServerStep

LEMMA StaleStep == TypeOK /\ StaleAnnounced /\ [Next]_vars => StaleAnnounced'
<1> SUFFICES ASSUME TypeOK, StaleAnnounced, [Next]_vars, NEW t \in Tasks, Busy(t)',
                    cache'[t[2]] # Gone, ~Announced(t)'
             PROVE  worker'[t].node = cache'[t[2]]
  BY DEF StaleAnnounced, Busy, Announced
<1>0. WorkersOK /\ worker = [u \in Tasks |-> worker[u]] BY DEF TypeOK, WorkersOK
<1>1. cache'[t[2]] = cache[t[2]] BY CacheStep
<1>2. worker'[t] # Idle BY DEF Busy, Idle
<1>3. ~Crash BY <1>2 DEF Crash, Fresh
<1>4. CASE Start(t)
  <2>1. CASE cache[t[2]] = Gone BY <1>1, <2>1
  <2>2. CASE cache[t[2]] # Gone
    <3>1. worker'[t] = [pc |-> "reconcile", node |-> cache[t[2]]]
      BY <1>0, <1>4, <2>2 DEF Start
    <3> QED BY <1>1, <3>1
  <2> QED BY <2>1, <2>2
<1>5. CASE ~Start(t)
  <2>1. ~Announced(t) BY <1>3, <1>5, AnnouncedStep
  <2>2. Busy(t) /\ worker'[t].node = worker[t].node
    <3>1. CASE worker'[t] = worker[t] BY <3>1 DEF Busy
    <3>2. CASE Reconcile(t)
      <4>1. worker[t].pc = "reconcile"
        BY <3>2 DEF Reconcile, Unmatched, Confirm, Initialize, StartOver, HandleDrift,
                    AwaitCooldown, BeginPending, ApplyValues, Unapplied, Reconciling
      <4>2. ~Done(t) BY <1>0, <1>2 DEF Done
      <4>3. PICK kind, o : Send(t, kind, o)
        BY <3>2, <4>2
        DEF Reconcile, Unmatched, Confirm, Initialize, StartOver, HandleDrift, AwaitCooldown,
            BeginPending, ApplyValues, EnsureCondition, SendValues
      <4>4. worker'[t].node = worker[t].node
        <5> DEFINE w == [pc |-> "write", kind |-> kind, node |-> worker[t].node,
                         updated |-> o, desired |-> Wanted(t)]
        <5>1. w.node = worker[t].node /\ worker' = [worker EXCEPT ![t] = w]
          BY <4>3 DEF Send
        <5> HIDE DEF w
        <5> QED BY <1>0, <5>1
      <4> QED BY <4>1, <4>4 DEF Busy
    <3>3. CASE Write(t) \/ Record(t)
      <4>1. worker'[t] = Idle
            \/ worker'[t] = [pc |-> "record", desired |-> worker[t].desired]
        BY <1>0, <3>3
        DEF Write, WriteSucceeds, WriteConflicts, WriteFails, Record, Done
      <4> QED BY <1>2, <4>1 DEF Busy
    <3>4. CASE Handle(t) \/ Wake(t)
      <4>1. worker'[t] = worker[t] BY <3>4 DEF Handle, Wake
      <4> QED BY <3>1, <4>1
    <3> QED BY <1>2, <1>5, <3>1, <3>2, <3>3, <3>4, WorkerStep DEF System
  <2> QED BY <1>1, <2>1, <2>2 DEF StaleAnnounced
<1> QED BY <1>4, <1>5

-------------------------------------------------------------------------------
(***************************************************************************)
(* A pass that sends nothing and schedules nothing has nothing to do.      *)
(***************************************************************************)
LEMMA ScheduleWakes ==
    ASSUME QueueOK, NEW t \in Tasks, NEW at \in Nat, Schedule(t, at)
    PROVE  waiting'[t] # Never
<1>1. waiting'[t] = IF waiting[t] = Never \/ at < waiting[t] THEN at ELSE waiting[t]
  BY DEF Schedule, QueueOK
<1> QED BY <1>1 DEF Never

LEMMA SendIsNotIdle ==
    ASSUME WorkersOK, NEW t \in Tasks, NEW kind, NEW o, Send(t, kind, o)
    PROVE  worker'[t].pc = "write" /\ worker'[t].node = worker[t].node
<1> DEFINE w == [pc |-> "write", kind |-> kind, node |-> worker[t].node,
                 updated |-> o, desired |-> Wanted(t)]
<1>1. /\ w.pc = "write" /\ w.node = worker[t].node
      /\ worker' = [worker EXCEPT ![t] = w]
  BY DEF Send
<1> HIDE DEF w
<1> QED BY <1>1 DEF WorkersOK

LEMMA DoneIsSettled ==
    ASSUME TypeOK, NEW t \in Tasks, Reconcile(t), worker'[t] = Idle,
           waiting'[t] = Never, worker[t].node = api[t[2]]
    PROVE  Settled(t)
<1>1. /\ WorkersOK /\ QueueOK /\ clock \in Nat
      /\ IsFlapState(flaps[t])
      /\ t[1] \in Domains
  BY TaskParts DEF TypeOK, BoundsOK, FlapsOK
<1>2. \A kind, o : ~Send(t, kind, o)
  <2>1. Idle.pc # "write" BY DEF Idle
  <2> QED BY <1>1, <2>1, SendIsNotIdle
<1>3. \A reason : EnsureCondition(t, reason) => UpToDate(t, reason)
  BY <1>2 DEF EnsureCondition
<1>4. ~SendValues(t) BY <1>2 DEF SendValues
<1> DEFINE node == api[t[2]]
<1>5. CASE t[1] = "initialization"
  <2>1. Initialize(t) BY <1>5 DEF Reconcile
  <2>2. MayInitialize(node, Matched(t), config[t[1]]) => Initialized(node, Wanted(t)) = node
    BY <1>2, <2>1 DEF Initialize
  <2> QED BY <1>5, <2>2 DEF Settled, Matched, Wanted
<1>6. CASE t[1] # "initialization"
  <2>1. CASE Unmatched(t)
    <3>1. Matched(t) = {} /\ Condition(t).reason = "none"
      BY <1>3, <2>1 DEF Unmatched, UpToDate
    <3>2. worker[t].pc = "reconcile" BY <2>1 DEF Unmatched, Reconciling
    <3>3. IsNode(t[2], worker[t].node) BY <1>1, <3>2 DEF WorkersOK, IsWorker, Idle
    <3>4. Condition(t) \in Conditions BY <1>1, <3>3 DEF IsNode, Condition
    <3>5. Condition(t) = NoCondition BY <3>1, <3>4 DEF Conditions
    <3> QED BY <1>6, <3>1, <3>5 DEF Settled, Matched, Condition
  <2>2. CASE Confirm(t)
    <3>1. /\ Matched(t) # {}
          /\ InPlace(t[1], node, Wanted(t))
          /\ Condition(t).reason = "Applied"
          /\ Condition(t).ids = Matched(t)
      BY <1>3, <2>2 DEF Confirm, UpToDate
    <3> QED BY <1>6, <3>1 DEF Settled, Matched, Wanted, Condition
  <2>3. ~StartOver(t) BY <1>3 DEF StartOver, UpToDate, IsTrue
  <2>4. ~HandleDrift(t)
    <3> SUFFICES ASSUME HandleDrift(t) PROVE FALSE
      OBVIOUS
    <3> DEFINE wait == Flap!DriftedWait(flaps[t], Condition(t).heartbeat, clock)
    <3>1. Condition(t).heartbeat \in Int
      BY <1>1, HeartbeatType DEF HandleDrift, Unapplied
    <3>2. wait \in Int BY <1>1, <3>1, DriftedType
    <3>3. wait > 0 /\ Schedule(t, clock + wait) BY <1>4 DEF HandleDrift
    <3> HIDE DEF wait
    <3>4. clock + wait \in Nat BY <1>1, <3>2, <3>3
    <3> QED BY <1>1, <3>3, <3>4, ScheduleWakes
  <2>5. ~AwaitCooldown(t)
    <3> SUFFICES ASSUME AwaitCooldown(t) PROVE FALSE
      OBVIOUS
    <3> DEFINE wait == Flap!Remaining(flaps[t], clock)
    <3>1. wait \in Int BY <1>1, RemainingType
    <3>2. wait > 0 /\ Schedule(t, clock + wait) BY DEF AwaitCooldown
    <3> HIDE DEF wait
    <3>3. clock + wait \in Nat BY <1>1, <3>1, <3>2
    <3> QED BY <1>1, <3>2, <3>3, ScheduleWakes
  <2>6. ~BeginPending(t) BY <1>3 DEF BeginPending, UpToDate, NoCondition
  <2>7. ~ApplyValues(t) BY <1>4 DEF ApplyValues
  <2> QED BY <1>6, <2>1, <2>2, <2>3, <2>4, <2>5, <2>6, <2>7 DEF Reconcile
<1> QED BY <1>5, <1>6

-------------------------------------------------------------------------------
(***************************************************************************)
(* Every step keeps every task settled or attended.  Each lemma assumes    *)
(* that the task is not attended afterwards.                               *)
(***************************************************************************)
\* What is settled is only upset by a newer Node or by other rules.
LEMMA Untouched ==
    ASSUME Unsettled, NEW t \in Tasks, ~Attended(t)',
           api'[t[2]] = api[t[2]], config' = config,
           watch'[t[2]] = watch[t[2]], cache'[t[2]] = cache[t[2]],
           waiting[t] # Never => waiting'[t] # Never,
           t[1] \in announce => t[1] \in announce',
           Busy(t) => worker'[t] = worker[t],
           Announced(t) => Announced(t)'
    PROVE  Settled(t)'
<1>1. ~Attended(t) BY DEF Attended, Busy
<1>2. Settled(t) BY <1>1 DEF Unsettled
<1> QED BY <1>2 DEF Settled

\* When nothing is on its way, a Node that is gone from the cache is gone.
LEMMA GoneIsSettled ==
    ASSUME WatchCurrent', NEW t \in Tasks, ~Attended(t)'
    PROVE  /\ api'[t[2]] = cache'[t[2]]
           /\ cache'[t[2]] = Gone => Settled(t)'
<1>1. watch'[t[2]] = <<>> BY DEF Attended
<1>2. api'[t[2]] = cache'[t[2]] BY <1>1, TaskParts DEF WatchCurrent, Newest
<1> QED BY <1>2 DEF Settled

LEMMA OwnPassStep ==
    ASSUME TypeOK, WatchCurrent', StaleAnnounced, Unsettled,
           NEW t \in Tasks, ~Attended(t)', Reconcile(t)
    PROVE  Settled(t)'
<1>1. /\ worker[t].pc = "reconcile"
      /\ UNCHANGED <<api, watch, config, cache, notes, dirty>>
  BY DEF Reconcile, Unmatched, Confirm, Initialize, StartOver, HandleDrift, AwaitCooldown,
         BeginPending, ApplyValues, Unapplied, Reconciling, server, rules
<1>2. WorkersOK BY DEF TypeOK
<1>3. ~Announced(t) BY <1>1 DEF Attended, Announced
<1>4. CASE worker[t].node # cache[t[2]]
  <2>1. cache'[t[2]] = Gone BY <1>1, <1>3, <1>4 DEF StaleAnnounced, Busy
  <2> QED BY <2>1, GoneIsSettled
<1>5. CASE worker[t].node = cache[t[2]]
  <2>1. Done(t) \/ \E kind, o : Send(t, kind, o)
    BY DEF Reconcile, Unmatched, Confirm, Initialize, StartOver, HandleDrift, AwaitCooldown,
           BeginPending, ApplyValues, EnsureCondition, SendValues
  <2>2. \A kind, o : ~Send(t, kind, o)
    BY <1>1, <1>2, <1>5, SendIsNotIdle DEF Attended, Busy
  <2>3. worker'[t] = Idle BY <1>2, <2>1, <2>2 DEF Done, WorkersOK
  <2>4. waiting'[t] = Never BY DEF Attended
  <2>5. worker[t].node = api[t[2]] BY <1>1, <1>5, GoneIsSettled
  <2>6. Settled(t) BY <2>3, <2>4, <2>5, DoneIsSettled
  <2> QED BY <1>1, <2>6 DEF Settled
<1> QED BY <1>4, <1>5

LEMMA OwnWriteStep ==
    ASSUME TypeOK, WatchCurrent', StaleAnnounced, Unsettled,
           NEW t \in Tasks, ~Attended(t)', Write(t)
    PROVE  Settled(t)'
<1>1. /\ worker[t].pc = "write"
      /\ UNCHANGED <<config, cache, notes, dirty>>
      /\ ServerOK /\ QueueOK /\ clock \in Nat /\ t[2] \in Nodes
  BY TaskParts
  DEF Write, WriteSucceeds, WriteConflicts, WriteFails, Writing, rules, TypeOK, BoundsOK
<1>2. ~Announced(t) BY <1>1 DEF Attended, Announced
<1>3. ~WriteSucceeds(t) BY <1>1, StoreNewest DEF WriteSucceeds, Attended
<1>4. ~WriteFails(t) BY <1>1, ScheduleWakes DEF WriteFails, Attended
<1>5. CASE WriteConflicts(t)
  <2>1. UNCHANGED api BY <1>5 DEF WriteConflicts, server
  <2>2. worker[t].node # api[t[2]] BY <1>5 DEF WriteConflicts, Current
  <2>3. worker[t].node # cache[t[2]] BY <1>1, <2>1, <2>2, GoneIsSettled
  <2>4. cache'[t[2]] = Gone BY <1>1, <1>2, <2>3 DEF StaleAnnounced, Busy
  <2> QED BY <2>4, GoneIsSettled
<1> QED BY <1>3, <1>4, <1>5 DEF Write

LEMMA OwnStep ==
    ASSUME TypeOK, WatchCurrent', StaleAnnounced, Unsettled,
           NEW t \in Tasks, ~Attended(t)', System(t)
    PROVE  Settled(t)'
<1>0. WorkersOK /\ QueueOK BY DEF TypeOK
<1>1. CASE Handle(t)
  <2>1. UNCHANGED <<api, config, watch, cache, waiting, announce, worker>>
    BY <1>1 DEF Handle, server, rules
  <2> QED BY <1>0, <1>1, <2>1, HandleKeeps, Untouched
<1>2. CASE Start(t)
  <2>1. UNCHANGED cache BY <1>2 DEF Start
  <2>2. CASE cache[t[2]] = Gone BY <2>1, <2>2, GoneIsSettled
  <2>3. CASE cache[t[2]] # Gone
    <3>1. worker'[t] = [pc |-> "reconcile", node |-> cache[t[2]]]
      BY <1>0, <1>2, <2>3 DEF Start, WorkersOK
    <3> QED BY <2>1, <3>1 DEF Attended, Busy
  <2> QED BY <2>2, <2>3
<1>3. CASE Reconcile(t) BY <1>3, OwnPassStep
<1>4. CASE Write(t) BY <1>4, OwnWriteStep
<1>5. CASE Record(t)
  <2>1. ~Busy(t) BY <1>5 DEF Record, Busy
  <2>2. UNCHANGED <<api, config, watch, cache, waiting, announce, notes, dirty>>
    BY <1>5 DEF Record, server, rules, queue
  <2> QED BY <2>1, <2>2, Untouched DEF Announced
<1>6. CASE Wake(t) BY <1>6 DEF Wake, Attended, Announced
<1> QED BY <1>1, <1>2, <1>3, <1>4, <1>5, <1>6 DEF System

LEMMA OtherStep ==
    ASSUME TypeOK, [Next]_vars, Unsettled, NEW t \in Tasks, ~Attended(t)',
           NEW u \in Tasks, u # t, System(u)
    PROVE  Settled(t)'
<1>0. WorkersOK /\ QueueOK /\ ServerOK /\ t[2] \in Nodes /\ u[2] \in Nodes
  BY TaskParts DEF TypeOK
<1>1. UNCHANGED <<config, cache, announce>>
  BY DEF System, Handle, Start, Reconcile, Unmatched, Confirm, Initialize, StartOver,
         HandleDrift, AwaitCooldown, BeginPending, ApplyValues, Unapplied, Reconciling, Write,
         WriteSucceeds, WriteConflicts, WriteFails, Writing, Record, Wake, rules
<1>2. waiting'[t] = waiting[t]
  <2>1. UNCHANGED waiting \/ \E at : waiting' = [waiting EXCEPT ![u] = at]
    BY DEF System, Handle, Start, Reconcile, Unmatched, Confirm, Initialize, StartOver,
           HandleDrift, AwaitCooldown, BeginPending, ApplyValues, Write, WriteSucceeds,
           WriteConflicts, WriteFails, Record, Wake, Schedule, queue
  <2> QED BY <1>0, <2>1 DEF QueueOK
<1>3. worker'[t] = worker[t]
  <2>1. UNCHANGED worker \/ \E w : worker' = [worker EXCEPT ![u] = w]
    BY DEF System, Handle, Start, Reconcile, Unmatched, Confirm, Initialize, StartOver,
           HandleDrift, AwaitCooldown, BeginPending, ApplyValues, EnsureCondition, SendValues,
           Send, Done, Write, WriteSucceeds, WriteConflicts, WriteFails, Record, Wake
  <2> QED BY <1>0, <2>1 DEF WorkersOK
<1>4. UNCHANGED server \/ \E o : Store(u[2], o)
  BY DEF System, Handle, Start, Reconcile, Unmatched, Confirm, Initialize, StartOver,
         HandleDrift, AwaitCooldown, BeginPending, ApplyValues, Unapplied, Reconciling, Write,
         WriteSucceeds, WriteConflicts, WriteFails, Writing, Record, Wake
<1>5. watch'[t[2]] = <<>> BY DEF Attended
<1>6. watch'[t[2]] = watch[t[2]] /\ api'[t[2]] = api[t[2]]
  BY <1>0, <1>4, <1>5, StoreNewest DEF server
<1>7. Announced(t) => Announced(t)'
  <2>1. (~Crash /\ ~Start(t)) \/ worker'[t] = Idle
    BY <1>0, <1>3 DEF Crash, Fresh, Start
  <2>2. ASSUME Announced(t), Handle(u) PROVE Announced(t)'
    BY <1>0, <2>2, HandleKeeps
  <2>3. CASE ~Handle(u)
    <3>1. UNCHANGED notes /\ (t \in dirty => t \in dirty')
      BY <2>3 DEF System, Start, Reconcile, Unmatched, Confirm, Initialize, StartOver,
           HandleDrift, AwaitCooldown, BeginPending, ApplyValues, Unapplied, Reconciling,
           Write, WriteSucceeds, WriteConflicts, WriteFails, Writing, Record, Wake, queue
    <3> QED BY <3>1 DEF Announced
  <2> QED BY <2>2, <2>3
<1> QED BY <1>1, <1>2, <1>3, <1>6, <1>7, Untouched

LEMMA UnsettledStep ==
    TypeOK /\ WakeupInv /\ [Next]_vars => Unsettled'
<1> SUFFICES ASSUME TypeOK, WakeupInv, [Next]_vars, NEW t \in Tasks, ~Attended(t)'
             PROVE  Settled(t)'
  BY DEF Unsettled
<1>0. /\ WatchCurrent' /\ StaleAnnounced /\ Unsettled
      /\ QueueOK /\ ServerOK /\ CacheOK /\ t[1] \in Domains /\ t[2] \in Nodes
  BY WatchStep, TaskParts DEF WakeupInv, TypeOK
<1>1. ASSUME NEW u \in Tasks, System(u) PROVE Settled(t)'
  <2>1. CASE u = t BY <1>0, <1>1, <2>1, OwnStep
  <2>2. CASE u # t BY <1>0, <1>1, <2>2, OtherStep
  <2> QED BY <2>1, <2>2
<1>2. ASSUME NEW n \in Nodes, Deliver(n) \/ Relist(n) PROVE Settled(t)'
  <2>1. PICK before, after : Notify(n, before, after) /\ after = cache'[n]
    BY <1>0, <1>2 DEF Deliver, Relist, CacheOK
  <2>2. CASE n = t[2]
    <3>1. cache'[t[2]] = Gone BY <1>0, <2>1, <2>2, NotifyKeeps DEF Attended, Announced
    <3> QED BY <1>0, <3>1, GoneIsSettled
  <2>3. CASE n # t[2]
    <3>1. /\ UNCHANGED <<api, config, announce, waiting, worker, dirty>>
          /\ watch'[t[2]] = watch[t[2]] /\ cache'[t[2]] = cache[t[2]]
      BY <1>0, <1>2, <2>3 DEF Deliver, Relist, rules, queue, ServerOK, CacheOK
    <3>2. Announced(t) => Announced(t)' BY <1>0, <2>1, <3>1, NotifyKeeps DEF Announced
    <3> QED BY <1>0, <3>1, <3>2, Untouched
  <2> QED BY <2>2, <2>3
<1>3. ASSUME NEW n \in Nodes, Resync(n) PROVE Settled(t)'
  <2>1. /\ UNCHANGED <<api, watch, cache, config, announce, waiting, worker, dirty>>
        /\ Notify(n, cache[n], cache[n])
    BY <1>3 DEF Resync, server, rules, queue
  <2>2. Announced(t) => Announced(t)' BY <1>0, <2>1, NotifyKeeps DEF Announced
  <2> QED BY <1>0, <2>1, <2>2, Untouched
<1>4. CASE LoadConfig
  <2>1. UNCHANGED <<api, watch, cache, notes, dirty, waiting, worker>>
    BY <1>4 DEF LoadConfig, server, queue
  <2>2. UNCHANGED <<config, announce>>
    BY <1>0, <1>4 DEF LoadConfig, Attended
  <2> QED BY <1>0, <2>1, <2>2, Untouched DEF Announced
<1>5. ASSUME NEW d \in Domains, EnqueueAll(d) PROVE Settled(t)'
  <2>1. UNCHANGED <<api, watch, cache, config, notes, waiting, worker>>
    BY <1>5 DEF EnqueueAll, server
  <2>2. CASE d = t[1]
    <3>1. cache'[t[2]] = Gone
      BY <1>0, <1>5, <2>1, <2>2 DEF EnqueueAll, Attended, Announced
    <3> QED BY <1>0, <3>1, GoneIsSettled
  <2>3. CASE d # t[1]
    <3>1. /\ t[1] \in announce => t[1] \in announce'
          /\ Announced(t) => Announced(t)'
      BY <1>5, <2>3 DEF EnqueueAll, Announced
    <3> QED BY <1>0, <2>1, <3>1, Untouched
  <2> QED BY <2>2, <2>3
<1>6. ASSUME NEW n \in Nodes, ForeignWrite(n) \/ DeleteNode(n) \/ CreateNode(n)
      PROVE  Settled(t)'
  <2>1. /\ \E o : Store(n, o)
        /\ UNCHANGED <<config, announce, cache, notes, dirty, waiting, worker>>
    BY <1>6 DEF ForeignWrite, DeleteNode, CreateNode, rules, queue
  <2>2. watch'[t[2]] = watch[t[2]] /\ api'[t[2]] = api[t[2]]
    BY <1>0, <2>1, StoreNewest DEF Attended
  <2> QED BY <1>0, <2>1, <2>2, Untouched DEF Announced
<1>7. CASE ResyncConfig \/ EditConfigMap \/ Tick \/ UNCHANGED vars
  <2>1. UNCHANGED <<api, watch, config, announce, cache, notes, dirty, waiting, worker>>
    BY <1>7 DEF ResyncConfig, EditConfigMap, Tick, vars, server, rules, queue
  <2> QED BY <1>0, <2>1, Untouched DEF Announced
<1>8. CASE Crash BY <1>8, FreshWakeup DEF Crash, WakeupInv, Unsettled
<1> QED BY <1>1, <1>2, <1>3, <1>4, <1>5, <1>6, <1>7, <1>8 DEF Next

\* Another client's writes reach the process through its watch.
LEMMA SeenWakeup ==
    ASSUME TypeOK, WakeupInv,
           \A n \in Nodes : (api'[n] = api[n] /\ watch'[n] = watch[n]) \/ Sees(n),
           UNCHANGED <<config, announce, cache, notes, dirty, waiting, worker>>
    PROVE  WakeupInv'
<1>1. ASSUME NEW n \in Nodes, Sees(n)
      PROVE  watch'[n] # <<>> /\ watch'[n][Len(watch'[n])] = api'[n]
  <2>1. watch[n] \in Seq(ToSet(watch[n])) BY DEF TypeOK, ServerOK
  <2>2. \A o : \A s \in Seq(ToSet(watch[n])) :
            Append(s, o) # <<>> /\ Append(s, o)[Len(Append(s, o))] = o
    OBVIOUS
  <2> QED BY <1>1, <2>1, <2>2 DEF Sees
<1>2. WatchCurrent' BY <1>1 DEF WakeupInv, WatchCurrent, Newest
<1>3. StaleAnnounced' BY DEF WakeupInv, StaleAnnounced, Busy, Announced
<1>4. ASSUME NEW t \in Tasks, ~Attended(t)' PROVE Settled(t)'
  <2>1. watch'[t[2]] = watch[t[2]] /\ api'[t[2]] = api[t[2]]
    BY <1>1, <1>4, TaskParts DEF Attended
  <2> QED BY <1>4, <2>1, Untouched DEF Announced, WakeupInv
<1> QED BY <1>2, <1>3, <1>4 DEF WakeupInv, Unsettled

-------------------------------------------------------------------------------
LEMMA WakeupInit == Init => WakeupInv
<1> SUFFICES ASSUME Init PROVE WakeupInv
  OBVIOUS
<1>1. WatchCurrent BY DEF Init, WatchCurrent, Newest
<1>2. \A t \in Tasks : ~Busy(t) BY DEF Init, Busy, Idle
<1>3. \A t \in Tasks : Announced(t)
  <2>1. "update" \in ToSet(<<"update">>) BY DEF ToSet
  <2> QED BY <2>1 DEF Init, Announced
<1> QED BY <1>1, <1>2, <1>3 DEF WakeupInv, StaleAnnounced, Unsettled, Attended

LEMMA WakeupStep == TypeOK /\ WakeupInv /\ [Next]_vars => WakeupInv'
BY WatchStep, StaleStep, UnsettledStep DEF WakeupInv

LEMMA WakeupMeans == WakeupInv => NoLostWakeup
<1> SUFFICES ASSUME WakeupInv, NEW t \in Tasks, Quiet(t) PROVE Settled(t)
  BY DEF NoLostWakeup
<1>1. "update" \notin ToSet(<<>>) BY NoElements
<1>2. ~Attended(t) BY <1>1 DEF Quiet, Attended, Announced, Busy, Idle
<1> QED BY <1>2 DEF WakeupInv, Unsettled

\* However the deliveries, queues, conflicts, failed calls, lost answers,
\* cooldowns, edits and restarts interleave: a task that nothing in the program
\* will ever come back to is as its rules want it (metadata_controller.go:137-140,
\* conditions.go:129-132, initialization_controller.go:84-87, drift.go:166-175,
\* controller.go:97-107 and 134-142, watcher.go:133-137).
THEOREM NoWakeupLost == Spec => []NoLostWakeup
BY WakeupInit, WakeupStep, WakeupMeans, TypeCorrect, PTL DEF Spec
-------------------------------------------------------------------------------
(***************************************************************************)
(* A Node that is gone is forgotten.  A worker that still has it may write *)
(* a flapState down after the delete handler has cleared it; what clears   *)
(* that one is another pass, to which the worker's own write leads: its    *)
(* version is on its way to the cache, or announced, or its retry waits.   *)
(***************************************************************************)
Heeded(t) ==
    \/ \E o \in ToSet(watch[t[2]]) : o # Gone
    \/ Announced(t)
    \/ waiting[t] # Never

Forgotten(t) ==
    \/ flaps[t] = Flap!ZeroFlapState
    \/ cache[t[2]] # Gone
    \/ "delete" \in ToSet(notes[t])
    \/ worker[t].pc = "write"
    \/ Heeded(t)

RecordsHeeded == \A t \in Tasks : worker[t].pc = "record" => Heeded(t)

ForgetInv == RecordsHeeded /\ \A t \in Tasks : Forgotten(t)

\* Only a list shows the cache that a Node is gone without the versions before.
ListsWhatIsGone == \E n \in Nodes : Relist(n) /\ api[n] = Gone

\* What the API server stores reaches the watch, behind what is there.
LEMMA StoreWatches ==
    ASSUME ServerOK, NEW n \in Nodes, NEW o, Store(n, o)
    PROVE  /\ \A m \in Nodes : ToSet(watch[m]) \subseteq ToSet(watch'[m])
           /\ IsNode(n, o) => \E v \in ToSet(watch'[n]) : v # Gone
<1> DEFINE stored == IF o = Gone THEN Gone ELSE [o EXCEPT !.rv = revision + 1]
<1>1. watch' = [watch EXCEPT ![n] = Append(@, stored)] BY DEF Store
<1>2. IsNode(n, o) => stored # Gone
  <2> SUFFICES ASSUME IsNode(n, o)
               PROVE  "rv" \in DOMAIN o /\ "rv" \in DOMAIN [o EXCEPT !.rv = revision + 1]
    BY DEF Gone
  <2>1. "rv" \in DOMAIN o BY DEF IsNode
  <2> QED BY <2>1
<1> HIDE DEF stored
<1>3. watch[n] \in Seq(ToSet(watch[n])) BY DEF ServerOK
<1>4. ToSet(Append(watch[n], stored)) = ToSet(watch[n]) \cup {stored}
  BY <1>3, AppendElements
<1>5. watch'[n] = Append(watch[n], stored) /\ \A m \in Nodes \ {n} : watch'[m] = watch[m]
  BY <1>1 DEF ServerOK
<1> QED BY <1>2, <1>4, <1>5

\* A pass remembers something new of its Node only if it comes back to it, to
\* write the values or by a timer.  What it schedules is for now or later.
LEMMA ReconcileSchedules ==
    ASSUME TypeOK, NEW t \in Tasks, Reconcile(t)
    PROVE  \/ \E at \in Nat : Schedule(t, at)
           \/ /\ UNCHANGED waiting
              /\ \/ UNCHANGED flaps
                 \/ flaps' = [flaps EXCEPT ![t] = Flap!ZeroFlapState]
                 \/ SendValues(t)
<1>1. WorkersOK /\ clock \in Nat /\ IsFlapState(flaps[t])
  BY DEF TypeOK, BoundsOK, FlapsOK
<1>2. CASE HandleDrift(t)
  <2> DEFINE wait == Flap!DriftedWait(flaps[t], Condition(t).heartbeat, clock)
  <2>1. Condition(t).heartbeat \in Int
    BY <1>1, <1>2, HeartbeatType DEF HandleDrift, Unapplied
  <2>2. wait \in Int BY <1>1, <2>1, DriftedType
  <2>3. (UNCHANGED waiting /\ SendValues(t)) \/ (wait > 0 /\ Schedule(t, clock + wait))
    BY <1>2 DEF HandleDrift
  <2> HIDE DEF wait
  <2>4. wait > 0 => clock + wait \in Nat BY <1>1, <2>2
  <2> QED BY <2>3, <2>4
<1>3. CASE AwaitCooldown(t)
  <2> DEFINE wait == Flap!Remaining(flaps[t], clock)
  <2>1. wait \in Int BY <1>1, RemainingType
  <2>2. wait > 0 /\ Schedule(t, clock + wait) BY <1>3 DEF AwaitCooldown
  <2> HIDE DEF wait
  <2>3. clock + wait \in Nat BY <1>1, <2>1, <2>2
  <2> QED BY <2>2, <2>3
<1> QED BY <1>2, <1>3 DEF Reconcile, Unmatched, Confirm, Initialize, StartOver,
                         BeginPending, ApplyValues

\* Only its timer takes a wake-up that is scheduled away.
LEMMA WaitingStep ==
    ASSUME TypeOK, [Next]_vars, NEW t \in Tasks, waiting[t] # Never, ~Crash, ~Wake(t)
    PROVE  waiting'[t] # Never
<1>0. QueueOK /\ clock \in Nat BY DEF TypeOK, BoundsOK
<1>1. ASSUME NEW u \in Tasks, System(u) PROVE waiting'[t] # Never
  <2>1. ASSUME NEW at \in Nat, Schedule(u, at) PROVE waiting'[t] # Never
    <3>1. CASE u = t BY <1>0, <2>1, <3>1, ScheduleWakes
    <3>2. CASE u # t BY <1>0, <2>1, <3>2 DEF Schedule, QueueOK
    <3> QED BY <3>1, <3>2
  <2>2. CASE Reconcile(u)
    <3>1. UNCHANGED waiting \/ \E at \in Nat : Schedule(u, at)
      BY <2>2, ReconcileSchedules
    <3> QED BY <2>1, <3>1
  <2>3. CASE Write(u)
    <3>1. UNCHANGED waiting \/ Schedule(u, clock)
      BY <2>3 DEF Write, WriteSucceeds, WriteConflicts, WriteFails
    <3> QED BY <1>0, <2>1, <3>1
  <2>4. CASE Handle(u) \/ Start(u) \/ Record(u)
    BY <2>4 DEF Handle, Start, Record, queue
  <2>5. CASE Wake(u)
    <3>1. u # t /\ waiting' = [waiting EXCEPT ![u] = Never] BY <2>5 DEF Wake
    <3> QED BY <1>0, <3>1 DEF QueueOK
  <2> QED BY <1>1, <2>2, <2>3, <2>4, <2>5 DEF System
<1>2. CASE \E n \in Nodes : \/ Deliver(n) \/ Relist(n) \/ Resync(n)
                            \/ ForeignWrite(n) \/ DeleteNode(n) \/ CreateNode(n)
  BY <1>2 DEF Deliver, Relist, Resync, ForeignWrite, DeleteNode, CreateNode, queue
<1>3. CASE \/ LoadConfig \/ ResyncConfig \/ \E d \in Domains : EnqueueAll(d)
           \/ EditConfigMap \/ Tick \/ UNCHANGED vars
  BY <1>3 DEF LoadConfig, ResyncConfig, EnqueueAll, EditConfigMap, Tick, vars, queue
<1> QED BY <1>1, <1>2, <1>3 DEF Next

\* Nothing but the start of its own pass stops what leads to one.
LEMMA HeededStep ==
    ASSUME TypeOK, [Next]_vars, NEW t \in Tasks, Heeded(t),
           ~Crash, ~Start(t), ~ListsWhatIsGone
    PROVE  Heeded(t)'
<1>0. QueueOK /\ ServerOK /\ CacheOK /\ t[2] \in Nodes BY TaskParts DEF TypeOK
<1>1. CASE Announced(t) BY <1>1, AnnouncedStep DEF Heeded
<1>2. CASE waiting[t] # Never
  <2>1. CASE Wake(t) BY <2>1 DEF Wake, Heeded, Announced
  <2>2. CASE ~Wake(t) BY <1>2, <2>2, WaitingStep DEF Heeded
  <2> QED BY <2>1, <2>2
<1>3. ASSUME NEW o \in ToSet(watch[t[2]]), o # Gone PROVE Heeded(t)'
  <2>1. CASE UNCHANGED watch BY <1>3, <2>1 DEF Heeded
  <2>2. ASSUME NEW n \in Nodes, NEW q, Store(n, q) PROVE Heeded(t)'
    <3>1. ToSet(watch[t[2]]) \subseteq ToSet(watch'[t[2]]) BY <1>0, <2>2, StoreWatches
    <3> QED BY <1>3, <3>1 DEF Heeded
  <2>3. ASSUME NEW n \in Nodes, Deliver(n) PROVE Heeded(t)'
    <3>1. CASE n # t[2]
      <4>1. watch'[t[2]] = watch[t[2]] BY <1>0, <2>3, <3>1 DEF Deliver, ServerOK
      <4> QED BY <1>3, <4>1 DEF Heeded
    <3>2. CASE n = t[2]
      <4>1. /\ watch'[n] = Tail(watch[n]) /\ watch[n] # <<>>
            /\ watch[n] \in Seq(ToSet(watch[n]))
        BY <1>0, <2>3 DEF Deliver, ServerOK
      <4>2. o = Head(watch[n]) \/ o \in ToSet(Tail(watch[n]))
        BY <1>3, <3>2, <4>1, TailKeeps
      <4>3. CASE o \in ToSet(Tail(watch[n])) BY <1>3, <3>2, <4>1, <4>3 DEF Heeded
      <4>4. CASE o = Head(watch[n])
        <5>1. Notify(n, cache[n], o) BY <2>3, <4>4 DEF Deliver
        <5> QED BY <1>0, <1>3, <3>2, <5>1, NotifyKeeps DEF Heeded, Announced
      <4> QED BY <4>2, <4>3, <4>4
    <3> QED BY <3>1, <3>2
  <2>4. ASSUME NEW n \in Nodes, Relist(n) PROVE Heeded(t)'
    <3>1. CASE n # t[2]
      <4>1. watch'[t[2]] = watch[t[2]] BY <1>0, <2>4, <3>1 DEF Relist, ServerOK
      <4> QED BY <1>3, <4>1 DEF Heeded
    <3>2. CASE n = t[2]
      <4>1. Notify(n, cache[n], api[n]) /\ api[n] # Gone
        BY <2>4 DEF Relist, ListsWhatIsGone
      <4> QED BY <1>0, <3>2, <4>1, NotifyKeeps DEF Heeded, Announced
    <3> QED BY <3>1, <3>2
  <2> QED BY <2>1, <2>2, <2>3, <2>4, ServerStep DEF server
<1> QED BY <1>1, <1>2, <1>3 DEF Heeded

\* A write that is over has stored the Node, or its retry waits, or the Node it
\* was in conflict with is on its way to the cache or there.
LEMMA WriteHeeded ==
    ASSUME TypeOK, WatchCurrent, NEW t \in Tasks, Write(t)
    PROVE  Heeded(t)' \/ (cache'[t[2]] # Gone /\ worker'[t] = Idle)
<1>0. QueueOK /\ ServerOK /\ WorkersOK /\ clock \in Nat /\ t[2] \in Nodes
  BY TaskParts DEF TypeOK, BoundsOK
<1>1. CASE WriteSucceeds(t)
  <2>1. IsNode(t[2], worker[t].updated)
    BY <1>0, <1>1 DEF WriteSucceeds, Writing, WorkersOK, IsWorker, Idle
  <2> QED BY <1>0, <1>1, <2>1, StoreWatches DEF WriteSucceeds, Heeded
<1>2. CASE WriteConflicts(t)
  <2>1. api[t[2]] # Gone /\ worker'[t] = Idle /\ UNCHANGED <<watch, cache>>
    BY <1>0, <1>2 DEF WriteConflicts, Writing, server, Done, WorkersOK
  <2>2. CASE watch[t[2]] = <<>>
    BY <1>0, <2>1, <2>2 DEF WatchCurrent, Newest
  <2>3. CASE watch[t[2]] # <<>>
    <3>1. watch[t[2]][Len(watch[t[2]])] # Gone
      BY <1>0, <2>1, <2>3 DEF WatchCurrent, Newest
    <3>2. \A S : \A s \in Seq(S) : s # <<>> => s[Len(s)] \in ToSet(s)
      <4> SUFFICES ASSUME NEW S, NEW s \in Seq(S), s # <<>> PROVE s[Len(s)] \in ToSet(s)
        OBVIOUS
      <4>1. Len(s) \in DOMAIN s BY LenProperties, EmptySeq
      <4> QED BY <4>1 DEF ToSet
    <3>3. watch[t[2]][Len(watch[t[2]])] \in ToSet(watch[t[2]])
      BY <1>0, <2>3, <3>2 DEF ServerOK
    <3> QED BY <2>1, <3>1, <3>3 DEF Heeded
  <2> QED BY <2>2, <2>3
<1>3. CASE WriteFails(t)
  BY <1>0, <1>3, ScheduleWakes DEF WriteFails, Heeded
<1> QED BY <1>1, <1>2, <1>3 DEF Write

LEMMA RecordsStep ==
    ASSUME TypeOK, WatchCurrent, RecordsHeeded, [Next]_vars, ~ListsWhatIsGone
    PROVE  RecordsHeeded'
<1> SUFFICES ASSUME NEW t \in Tasks, worker'[t].pc = "record" PROVE Heeded(t)'
  BY DEF RecordsHeeded, Heeded, Announced
<1>0. WorkersOK BY DEF TypeOK
<1>1. worker'[t] # Idle BY DEF Idle
<1>2. ~Crash BY <1>1 DEF Crash, Fresh
<1>3. CASE Write(t) BY <1>1, <1>3, WriteHeeded
<1>4. CASE ~Write(t)
  <2>1. ~Start(t)
    <3> SUFFICES ASSUME Start(t) PROVE FALSE
      OBVIOUS
    <3>1. worker'[t] = Idle \/ worker'[t] = [pc |-> "reconcile", node |-> cache[t[2]]]
      BY <1>0 DEF Start, WorkersOK
    <3> QED BY <1>1, <3>1
  <2>2. ~Record(t) BY <1>0, <1>1 DEF Record, Done, WorkersOK
  <2>3. ~Reconcile(t)
    <3> SUFFICES ASSUME Reconcile(t) PROVE FALSE
      OBVIOUS
    <3>1. Done(t) \/ \E kind, o : Send(t, kind, o)
      BY DEF Reconcile, Unmatched, Confirm, Initialize, StartOver, HandleDrift, AwaitCooldown,
             BeginPending, ApplyValues, EnsureCondition, SendValues
    <3>2. \A kind, o : ~Send(t, kind, o) BY <1>0, SendIsNotIdle
    <3> QED BY <1>0, <1>1, <3>1, <3>2 DEF Done, WorkersOK
  <2>4. worker'[t] = worker[t]
    <3>1. Handle(t) \/ Wake(t) => worker'[t] = worker[t] BY DEF Handle, Wake
    <3> QED BY <1>1, <1>4, <2>1, <2>2, <2>3, <3>1, WorkerStep DEF System
  <2> QED BY <1>2, <2>1, <2>4, HeededStep DEF RecordsHeeded
<1> QED BY <1>3, <1>4

\* Whoever goes from the cache is announced as deleted.
LEMMA GoneIsTold ==
    ASSUME TypeOK, [Next]_vars, NEW t \in Tasks, ~Crash,
           cache[t[2]] # Gone, cache'[t[2]] = Gone
    PROVE  "delete" \in ToSet(notes'[t])
<1>0. QueueOK /\ CacheOK /\ t[2] \in Nodes BY TaskParts DEF TypeOK
<1>1. PICK n \in Nodes : Deliver(n) \/ Relist(n) BY ServerStep
<1>2. PICK after : /\ Notify(n, cache[n], after)
                   /\ cache' = [cache EXCEPT ![n] = after]
  BY <1>1 DEF Deliver, Relist
<1>3. n = t[2] /\ after = Gone BY <1>0, <1>2 DEF CacheOK
<1> QED BY <1>0, <1>2, <1>3, NotifyKeeps

\* The deletion is not taken from the notifications without forgetting the Node.
LEMMA DeletionStep ==
    ASSUME TypeOK, [Next]_vars, NEW t \in Tasks, ~Crash, "delete" \in ToSet(notes[t])
    PROVE  "delete" \in ToSet(notes'[t]) \/ flaps'[t] = Flap!ZeroFlapState
<1>0. QueueOK /\ FlapsOK BY DEF TypeOK
<1>1. ASSUME NEW u \in Tasks, System(u)
      PROVE  "delete" \in ToSet(notes'[t]) \/ flaps'[t] = Flap!ZeroFlapState
  <2>1. CASE Handle(u) /\ u # t BY <1>0, <2>1 DEF Handle, QueueOK
  <2>2. CASE Handle(u) /\ u = t
    <3>1. /\ notes[t] # <<>> /\ notes[t] \in Seq({"update", "delete"})
          /\ notes'[t] = Tail(notes[t])
          /\ Head(notes[t]) = "delete" => flaps'[t] = Flap!ZeroFlapState
      BY <1>0, <2>2 DEF Handle, QueueOK, FlapsOK
    <3>2. \A e \in ToSet(notes[t]) : e = Head(notes[t]) \/ e \in ToSet(Tail(notes[t]))
      BY <3>1, TailKeeps
    <3> QED BY <3>1, <3>2
  <2>3. CASE ~Handle(u)
    <3>1. UNCHANGED notes
      BY <1>1, <2>3
      DEF System, Start, Reconcile, Unmatched, Confirm, Initialize, StartOver, HandleDrift,
          AwaitCooldown, BeginPending, ApplyValues, Unapplied, Reconciling, Write,
          WriteSucceeds, WriteConflicts, WriteFails, Writing, Record, Wake
    <3> QED BY <3>1
  <2> QED BY <2>1, <2>2, <2>3
<1>2. ASSUME NEW n \in Nodes, Deliver(n) \/ Relist(n) \/ Resync(n)
      PROVE  "delete" \in ToSet(notes'[t])
  <2>1. \E before, after : Notify(n, before, after)
    BY <1>2 DEF Deliver, Relist, Resync
  <2> QED BY <1>0, <2>1, NotifyKeeps
<1>3. CASE \/ LoadConfig \/ ResyncConfig \/ \E d \in Domains : EnqueueAll(d)
           \/ EditConfigMap \/ Tick \/ UNCHANGED vars
           \/ \E n \in Nodes : ForeignWrite(n) \/ DeleteNode(n) \/ CreateNode(n)
  BY <1>3 DEF LoadConfig, ResyncConfig, EnqueueAll, EditConfigMap, Tick, vars, ForeignWrite,
              DeleteNode, CreateNode
<1> QED BY <1>1, <1>2, <1>3 DEF Next

LEMMA ForgottenStep ==
    ASSUME TypeOK, WatchCurrent, ForgetInv, [Next]_vars, ~ListsWhatIsGone, NEW t \in Tasks
    PROVE  Forgotten(t)'
<1>0. /\ QueueOK /\ WorkersOK /\ CacheOK /\ clock \in Nat /\ t[2] \in Nodes
      /\ flaps = [u \in Tasks |-> flaps[u]]
  BY TaskParts DEF TypeOK, BoundsOK, FlapsOK
<1>1. CASE Crash BY <1>1 DEF Crash, Fresh, Forgotten
<1>2. CASE Start(t) BY <1>0, <1>2 DEF Start, Forgotten
<1>3. CASE Write(t) BY <1>3, WriteHeeded DEF Forgotten
<1>4. CASE Reconcile(t) /\ ~Crash /\ ~Start(t)
  <2>1. UNCHANGED <<cache, notes>>
    BY <1>4 DEF Reconcile, Unmatched, Confirm, Initialize, StartOver, HandleDrift,
                AwaitCooldown, BeginPending, ApplyValues, Unapplied, Reconciling
  <2>2. \/ flaps'[t] = flaps[t]
        \/ flaps'[t] = Flap!ZeroFlapState
        \/ SendValues(t)
        \/ \E at \in Nat : Schedule(t, at)
    BY <1>0, <1>4, ReconcileSchedules
  <2>3. SendValues(t) => worker'[t].pc = "write"
    BY <1>0, SendIsNotIdle DEF SendValues
  <2>4. (\E at \in Nat : Schedule(t, at)) => waiting'[t] # Never
    BY <1>0, ScheduleWakes
  <2>5. worker[t].pc # "write"
    BY <1>4 DEF Reconcile, Unmatched, Confirm, Initialize, StartOver, HandleDrift,
                AwaitCooldown, BeginPending, ApplyValues, Unapplied, Reconciling
  <2>6. Heeded(t) => Heeded(t)' BY <1>4, HeededStep
  <2>7. CASE flaps[t] = Flap!ZeroFlapState
    BY <2>2, <2>3, <2>4, <2>7 DEF Forgotten, Heeded
  <2>8. CASE flaps[t] # Flap!ZeroFlapState
    BY <2>1, <2>5, <2>6, <2>8 DEF Forgotten, ForgetInv
  <2> QED BY <2>7, <2>8
<1>5. CASE ~Crash /\ ~Start(t) /\ ~Write(t) /\ ~Reconcile(t)
  <2>1. CASE Heeded(t) BY <1>5, <2>1, HeededStep DEF Forgotten
  <2>2. CASE ~Heeded(t)
    <3>1. ~Record(t) BY <2>2 DEF Record, ForgetInv, RecordsHeeded
    <3>2. worker'[t] = worker[t]
      <4>1. Handle(t) \/ Wake(t) => worker'[t] = worker[t] BY DEF Handle, Wake
      <4> QED BY <1>5, <3>1, <4>1, WorkerStep DEF System
    <3>3. flaps'[t] = flaps[t] \/ flaps'[t] = Flap!ZeroFlapState
      BY <1>5, <3>1, FlapsStep
    <3>4. "delete" \in ToSet(notes[t]) =>
            "delete" \in ToSet(notes'[t]) \/ flaps'[t] = Flap!ZeroFlapState
      BY <1>5, DeletionStep
    <3>5. cache[t[2]] # Gone => cache'[t[2]] # Gone \/ "delete" \in ToSet(notes'[t])
      BY <1>5, GoneIsTold
    <3> QED BY <2>2, <3>2, <3>3, <3>4, <3>5 DEF Forgotten, ForgetInv
  <2> QED BY <2>1, <2>2
<1> QED BY <1>1, <1>2, <1>3, <1>4, <1>5

LEMMA ForgetInit == Init => ForgetInv
BY DEF Init, ForgetInv, RecordsHeeded, Forgotten, Idle

LEMMA ForgetStep ==
    TypeOK /\ WakeupInv /\ ForgetInv /\ [Next]_vars /\ [~ListsWhatIsGone]_vars => ForgetInv'
<1> SUFFICES ASSUME TypeOK, WakeupInv, ForgetInv, [Next]_vars, [~ListsWhatIsGone]_vars
             PROVE  ForgetInv'
  OBVIOUS
<1>1. CASE UNCHANGED vars
  BY <1>1 DEF vars, server, queue, ForgetInv, RecordsHeeded, Forgotten, Heeded, Announced
<1>2. CASE ~ListsWhatIsGone
  <2>1. RecordsHeeded' BY <1>2, RecordsStep DEF WakeupInv, ForgetInv
  <2>2. \A t \in Tasks : Forgotten(t)' BY <1>2, ForgottenStep DEF WakeupInv
  <2> QED BY <2>1, <2>2 DEF ForgetInv
<1> QED BY <1>1, <1>2

LEMMA ForgetMeans == WakeupInv /\ ForgetInv => ForgottenWhenGone
<1> SUFFICES ASSUME WakeupInv, ForgetInv, NEW t \in Tasks, Quiet(t), api[t[2]] = Gone
             PROVE  flaps[t] = Flap!ZeroFlapState
  BY DEF ForgottenWhenGone
<1>1. cache[t[2]] = Gone BY TaskParts DEF WakeupInv, WatchCurrent, Newest, Quiet
<1>2. ~Heeded(t) BY NoElements DEF Quiet, Heeded, Announced
<1>3. worker[t].pc # "write" /\ "delete" \notin ToSet(notes[t])
  BY NoElements DEF Quiet, Idle
<1> QED BY <1>1, <1>2, <1>3 DEF ForgetInv, Forgotten

\* Once a Node is gone and all is quiet, nothing is remembered about it, even
\* if flaps.applied ran after the delete handler (controller.go:63, drift.go:160,
\* metadata_controller.go:143): conflicts, failed writes, lost answers,
\* resyncs, restarts and relists that find the Node do no harm.  The one fault
\* that does is ruled out by hypothesis: a list, after a broken watch, from
\* which the Node is missing and which hides the write that came before.
THEOREM GoneIsForgotten == Spec /\ [][~ListsWhatIsGone]_vars => []ForgottenWhenGone
BY ForgetInit, ForgetStep, ForgetMeans, WakeupInit, WakeupStep, TypeCorrect, PTL DEF Spec

================================================================================
