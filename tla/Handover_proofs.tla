---------------------------- MODULE Handover_proofs ----------------------------
(***************************************************************************)
(* A change of leader: the proofs.  Each replica keeps the invariants of   *)
(* RuleController (of the old leader, for as long as one of its requests   *)
(* may be on its way), because a step of the other is to it what a step of *)
(* any other client is: SeenStep and SeenWakeup.  The lemmas of            *)
(* RuleController hold of the new leader as they stand, and of the old one *)
(* as Old!...                                                              *)
(***************************************************************************)
EXTENDS Handover, RuleController_refinement

NewInv ==
    /\ TypeOK
    /\ VersionsIdentify
    /\ UpdatesJustified
    /\ lease = "new" => WakeupInv

OldInv ==
    /\ Old!TypeOK
    /\ Old!VersionsIdentify
    /\ Old!UpdatesJustified
    /\ old = "leading" => Old!WakeupInv

HandoverInv == NewInv /\ OldInv

-------------------------------------------------------------------------------
(***************************************************************************)
(* What both replicas mean by a Node, a version and a step of the server.  *)
(***************************************************************************)
LEMMA OldAssumption == Old!RuleControllerAssumption
BY RuleControllerAssumption
DEF AllDomains, ValueDomains, NodeFields, IsFields, Bounds, Old!AllDomains,
    Old!ValueDomains, Old!NodeFields, Old!IsFields, Old!Bounds

LEMMA SameNames ==
    /\ Old!Tasks = Tasks
    /\ Old!Gone = Gone
    /\ Old!Idle = Idle
    /\ Old!EmptyConfig = EmptyConfig
    /\ Old!BoundsOK <=> BoundsOK
    /\ Old!BoundsOK' <=> BoundsOK'
BY DEF Old!Tasks, Tasks, Old!Gone, Gone, Old!Idle, Idle, Old!EmptyConfig, EmptyConfig,
       Old!BoundsOK, BoundsOK, Old!Bounds, Bounds

LEMMA SameVersions ==
    /\ \A n, o : Old!IsVersion(n, o) <=> IsVersion(n, o)
    /\ \A n, o : Old!Replaces(n, o) <=> Replaces(n, o)
<1>1. Old!Conditions = Conditions
  BY DEF Old!Conditions, Conditions, Old!RuleIDs, RuleIDs, Old!Rulesets, Rulesets,
         Old!EmptyConfig, EmptyConfig, Old!NoCondition, NoCondition
<1>2. \A f : Old!IsFields(f) <=> IsFields(f)
  BY DEF Old!IsFields, IsFields, Old!NodeFields, NodeFields, Old!ValueDomains, ValueDomains
<1>3. \A n, o : Old!IsNode(n, o) <=> IsNode(n, o) BY <1>1, <1>2 DEF Old!IsNode, IsNode
<1> QED BY <1>3, SameNames DEF Old!IsVersion, IsVersion, Old!Replaces, Replaces

\* The server's side of a replica's type invariant is the other's, too.
ServerTyped ==
    /\ revision \in Nat
    /\ api = [n \in Nodes |-> api[n]]
    /\ \A n \in Nodes : IsVersion(n, api[n])
    /\ BoundsOK
    /\ configMap \in Configs \cup {Missing, Invalid}

LEMMA NewServerTyped == TypeOK => ServerTyped
BY DEF TypeOK, ServerOK, RulesOK, ServerTyped

LEMMA OldServerTyped == Old!TypeOK => ServerTyped
BY SameNames, SameVersions DEF Old!TypeOK, Old!ServerOK, Old!RulesOK, ServerTyped

-------------------------------------------------------------------------------
(***************************************************************************)
(* A replica while the other one works.                                    *)
(***************************************************************************)
ApiChange == UNCHANGED <<api, revision>> \/ \E n \in Nodes : Replaces(n, api'[n])

LEMMA NewWatches ==
    ASSUME TypeOK, NewSees
    PROVE  /\ watch' = [n \in Nodes |-> watch'[n]]
           /\ \A n \in Nodes : watch'[n] = watch[n] \/ Sees(n)
           /\ lease = "new" =>
                \A n \in Nodes : (api'[n] = api[n] /\ watch'[n] = watch[n]) \/ Sees(n)
           /\ configWatch' = configWatch \/ configWatch' = Append(configWatch, configMap')
<1>1. CASE lease = "new"
  BY <1>1 DEF NewSees, NodesSeen, RulesSeen, Sees
<1>2. CASE lease # "new"
  BY <1>2 DEF NewSees, TypeOK, ServerOK
<1> QED BY <1>1, <1>2

LEMMA NewKept ==
    ASSUME NewInv, ServerTyped', ApiChange, NewSees, UNCHANGED <<memory, lease>>
    PROVE  NewInv'
<1>1. TypeOK /\ VersionsIdentify /\ UpdatesJustified BY DEF NewInv
<1>2. UNCHANGED <<cache, notes, config, announce, dirty, waiting, worker, flaps>>
  BY DEF memory
<1>3. worker' = [t \in Tasks |-> worker'[t]] BY <1>1, <1>2 DEF TypeOK, WorkersOK
<1>4. TypeOK' /\ VersionsIdentify' /\ UpdatesJustified'
  BY <1>1, <1>2, <1>3, NewWatches, SeenStep DEF ServerTyped, ApiChange, queue
<1>5. lease = "new" => WakeupInv'
  BY <1>1, <1>2, NewWatches, SeenWakeup DEF NewInv
<1> QED BY <1>4, <1>5 DEF NewInv

LEMMA OldWatches ==
    ASSUME Old!TypeOK, OldSees
    PROVE  /\ oldWatch' = [n \in Nodes |-> oldWatch'[n]]
           /\ \A n \in Nodes : oldWatch'[n] = oldWatch[n] \/ Old!Sees(n)
           /\ old = "leading" =>
                \A n \in Nodes :
                    (api'[n] = api[n] /\ oldWatch'[n] = oldWatch[n]) \/ Old!Sees(n)
           /\ \/ oldConfigWatch' = oldConfigWatch
              \/ oldConfigWatch' = Append(oldConfigWatch, configMap')
<1>1. CASE old = "leading"
  BY <1>1 DEF OldSees, NodesSeen, RulesSeen, Old!Sees
<1>2. CASE old # "leading"
  BY <1>2 DEF OldSees, informed, Old!TypeOK, Old!ServerOK
<1> QED BY <1>1, <1>2

LEMMA OldKept ==
    ASSUME OldInv, ServerTyped', ApiChange, OldSees, UNCHANGED <<oldMemory, old>>
    PROVE  OldInv'
<1>1. Old!TypeOK /\ Old!VersionsIdentify /\ Old!UpdatesJustified BY DEF OldInv
<1>2. UNCHANGED <<oldCache, oldNotes, oldConfig, oldAnnounce, oldDirty, oldWaiting,
                  oldWorker, oldFlaps>>
  BY DEF oldMemory
<1>3. oldWorker' = [t \in Old!Tasks |-> oldWorker'[t]]
  BY <1>1, <1>2 DEF Old!TypeOK, Old!WorkersOK
<1>4. Old!TypeOK' /\ Old!VersionsIdentify' /\ Old!UpdatesJustified'
  BY <1>1, <1>2, <1>3, OldWatches, Old!SeenStep, OldAssumption, SameNames, SameVersions
  DEF ServerTyped, ApiChange, Old!queue
<1>5. old = "leading" => Old!WakeupInv'
  BY <1>1, <1>2, OldWatches, Old!SeenWakeup, OldAssumption DEF OldInv
<1> QED BY <1>4, <1>5 DEF OldInv

-------------------------------------------------------------------------------
(***************************************************************************)
(* The steps.                                                              *)
(***************************************************************************)
LEMMA NewWorking ==
    ASSUME HandoverInv, Next, OldSees, UNCHANGED <<oldMemory, election>>
    PROVE  HandoverInv'
<1>1. NewInv /\ OldInv BY DEF HandoverInv
<1>2. TypeOK' /\ VersionsIdentify' /\ UpdatesJustified'
  BY <1>1, TypeStep, VersionsStep, JustifiedStep DEF NewInv
<1>3. lease = "new" => WakeupInv' BY <1>1, WakeupStep DEF NewInv
<1>4. NewInv' BY <1>2, <1>3 DEF NewInv, election
<1>5. ApiChange BY <1>1, ApiStep DEF NewInv, ApiChange
<1>6. ServerTyped' BY <1>2 DEF TypeOK, ServerOK, RulesOK, ServerTyped
<1>7. OldInv' BY <1>1, <1>5, <1>6, OldKept DEF election
<1> QED BY <1>4, <1>7 DEF HandoverInv

LEMMA OldWorking ==
    ASSUME HandoverInv, old = "leading", Old!Next, NewSees, UNCHANGED <<memory, old, lease>>
    PROVE  HandoverInv'
<1>1. NewInv /\ OldInv BY DEF HandoverInv
<1>2. Old!TypeOK' /\ Old!VersionsIdentify' /\ Old!UpdatesJustified' /\ Old!WakeupInv'
  BY <1>1, Old!TypeStep, Old!VersionsStep, Old!JustifiedStep, Old!WakeupStep, OldAssumption
  DEF OldInv
<1>3. OldInv' BY <1>2 DEF OldInv
<1>4. UNCHANGED <<api, revision>> \/ \E n \in Nodes : Old!Replaces(n, api'[n])
  BY <1>1, Old!ApiStep, OldAssumption DEF OldInv
<1>5. ApiChange BY <1>4, SameVersions DEF ApiChange
<1>6. ServerTyped'
  BY <1>2, SameNames, SameVersions
  DEF Old!TypeOK, Old!ServerOK, Old!RulesOK, ServerTyped
<1>7. NewInv' BY <1>1, <1>5, <1>6, NewKept
<1> QED BY <1>3, <1>7 DEF HandoverInv

\* The new leader starts: as after a crash.
LEMMA TakesOver ==
    ASSUME HandoverInv, TakeOver
    PROVE  HandoverInv'
<1>1. NewInv /\ OldInv BY DEF HandoverInv
<1>2. BoundsOK' BY <1>1 DEF TakeOver, NewInv, TypeOK, BoundsOK
<1>3. TypeOK' /\ VersionsIdentify'
  BY <1>1, <1>2, FreshType, FreshVersions DEF TakeOver, NewInv, TypeOK
<1>4. UpdatesJustified' BY DEF TakeOver, Fresh, UpdatesJustified, Idle
<1>5. WakeupInv' BY FreshWakeup DEF TakeOver
<1>6. NewInv' BY <1>3, <1>4, <1>5 DEF NewInv
<1>7. OldSees
  <2>1. \A n \in Nodes : api'[n] = api[n] BY DEF TakeOver
  <2>2. oldWatch = [n \in Nodes |-> oldWatch[n]]
    BY <1>1 DEF OldInv, Old!TypeOK, Old!ServerOK
  <2> QED BY <2>1, <2>2 DEF TakeOver, OldSees, informed, NodesSeen, RulesSeen
<1>8. OldInv'
  BY <1>1, <1>3, <1>7, NewServerTyped, OldKept
  DEF TakeOver, TypeOK, ServerOK, RulesOK, ServerTyped, ApiChange
<1> QED BY <1>6, <1>8 DEF HandoverInv

\* The old leader's end: it keeps nothing but its requests.
LEMMA Stops ==
    ASSUME HandoverInv, Stop
    PROVE  HandoverInv'
<1>1. NewInv /\ OldInv BY DEF HandoverInv
<1>2. NewInv'
  <2>1. NewSees
    <3>1. \A n \in Nodes : api'[n] = api[n] BY DEF Stop, vars, server
    <3>2. watch = [n \in Nodes |-> watch[n]]
      BY <1>1 DEF NewInv, TypeOK, ServerOK
    <3> QED BY <3>1, <3>2 DEF Stop, vars, server, rules, NewSees, NodesSeen, RulesSeen
  <2>2. ServerTyped /\ ServerTyped'
    BY <1>1, NewServerTyped DEF NewInv, Stop, vars, server, rules, ServerTyped, BoundsOK
  <2> QED BY <1>1, <2>1, <2>2, NewKept
          DEF Stop, vars, server, rules, queue, memory, ApiChange
<1>3. /\ \A t \in Old!Tasks : oldWorker'[t] = oldWorker[t] \/ oldWorker'[t] = Old!Idle
      /\ \A n \in Nodes : oldWatch'[n] = <<>> /\ oldCache'[n] = Gone
      /\ UNCHANGED <<api, revision, configMap, clock, left>>
  BY SameNames DEF Stop, vars, server, rules
<1>4. Old!TypeOK'
  <2>1. Old!ServerOK'
    <3>1. /\ <<>> \in Seq(Old!ToSet(<<>>))
          /\ \A n \in Nodes : \A o \in Old!ToSet(<<>>) : Old!IsVersion(n, o)
      BY Old!NoElements, OldAssumption
    <3> QED BY <1>1, <1>3, <3>1 DEF OldInv, Old!TypeOK, Old!ServerOK, Stop
  <2>2. Old!RulesOK'
    BY <1>1, <1>3, SameNames, SingleElement
    DEF OldInv, Old!TypeOK, Old!RulesOK, Old!Rulesets, Stop
  <2>3. Old!CacheOK' BY <1>3, SameNames DEF Old!CacheOK, Old!IsVersion, Stop
  <2>4. Old!QueueOK'
    BY SameNames, SingleElement DEF Old!QueueOK, Stop, Never
  <2>5. Old!WorkersOK'
    BY <1>1, <1>3, SameNames DEF OldInv, Old!TypeOK, Old!WorkersOK, Old!IsWorker, Stop
  <2>6. Old!FlapsOK'
    <3>1. Old!IsFlapState(Flap!ZeroFlapState)
      BY ZeroFlapStateType DEF IsFlapState, Old!IsFlapState
    <3> QED BY <3>1, SameNames DEF Old!FlapsOK, Stop
  <2>7. Old!BoundsOK' BY <1>1, <1>3 DEF OldInv, Old!TypeOK, Old!BoundsOK
  <2> QED BY <2>1, <2>2, <2>3, <2>4, <2>5, <2>6, <2>7 DEF Old!TypeOK
<1>5. Old!VersionsIdentify'
  <2>1. \A n \in Nodes : \A o \in Old!Copies(n)' : o \in Old!Copies(n) \/ o = Gone
    <3>1. Old!ToSet(<<>>) = {} BY Old!NoElements, OldAssumption
    <3> QED BY <1>3, <3>1, SameNames DEF Old!Copies, Old!Idle
  <2> QED BY <1>1, <1>3, <2>1, SameNames DEF OldInv, Old!VersionsIdentify
<1>6. Old!UpdatesJustified' BY <1>1, <1>3, Old!SeenJustified, OldAssumption DEF OldInv
<1>7. OldInv' BY <1>4, <1>5, <1>6 DEF OldInv, Stop
<1> QED BY <1>2, <1>7 DEF HandoverInv

\* A request the old leader has sent is stored after its end.
LEMMA LandedLate ==
    ASSUME HandoverInv, NEW t \in Tasks, oldWorker[t].pc = "write",
           Old!Current(t), Store(t[2], oldWorker[t].updated)
    PROVE  /\ Replaces(t[2], api'[t[2]])
           /\ Old!Lands(t)
           /\ ServerOK'
           /\ watch' = [n \in Nodes |-> watch'[n]]
           /\ \A n \in Nodes : (api'[n] = api[n] /\ watch'[n] = watch[n]) \/ Sees(n)
<1> DEFINE n == t[2]
           o == oldWorker[t].updated
           stored == [o EXCEPT !.rv = revision + 1]
<1>1. n \in Nodes BY TaskParts
<1>2. TypeOK /\ VersionsIdentify /\ ServerOK BY DEF HandoverInv, NewInv, TypeOK
<1>3. Old!IsNode(n, o)
  BY SameNames DEF HandoverInv, OldInv, Old!TypeOK, Old!WorkersOK, Old!IsWorker, Old!Idle
<1>4. IsVersion(n, o) /\ o # Gone
  <2>1. IsVersion(n, o) BY <1>3, SameVersions DEF Old!IsVersion
  <2>2. DOMAIN Gone = {"exists"} BY DEF Gone
  <2>3. "rv" \in DOMAIN o BY <1>3 DEF Old!IsNode
  <2> QED BY <2>1, <2>2, <2>3
<1>5. Replaces(n, api'[n]) BY <1>1, <1>2, <1>4, StoreReplaces
<1>6. /\ api' = [api EXCEPT ![n] = stored]
      /\ watch' = [watch EXCEPT ![n] = Append(watch[n], stored)]
      /\ revision' = revision + 1
  BY <1>4 DEF Store
<1>7. stored.rv = revision + 1 BY <1>3 DEF Old!IsNode
<1>8. Old!Lands(t)
  BY <1>6, <1>7 DEF Old!Lands, Old!Replaces
<1> HIDE DEF stored
<1>9. stored # Gone
  <2>1. DOMAIN Gone = {"exists"} BY DEF Gone
  <2>2. "rv" \in DOMAIN stored BY <1>3 DEF Old!IsNode, stored
  <2> QED BY <2>1, <2>2
<1>10. api'[n] = stored /\ watch'[n] = Append(watch[n], stored)
       /\ \A m \in Nodes \ {n} : api'[m] = api[m] /\ watch'[m] = watch[m]
  BY <1>1, <1>2, <1>6 DEF ServerOK
<1>11. api'[n] # api[n] BY <1>1, <1>2, <1>5, <1>9, <1>10, ReplacesChanges
<1>12. ServerOK' BY <1>1, <1>2, <1>4, StoreType
<1> QED BY <1>5, <1>8, <1>10, <1>11, <1>12 DEF Sees, ServerOK

LEMMA LandsLate ==
    ASSUME HandoverInv, NEW t \in Tasks, LandWrite(t)
    PROVE  HandoverInv'
<1>1. NewInv /\ OldInv BY DEF HandoverInv
<1>2. TypeOK /\ VersionsIdentify /\ UpdatesJustified BY <1>1 DEF NewInv
<1>3. /\ ApiChange
      /\ watch' = [n \in Nodes |-> watch'[n]]
      /\ \A n \in Nodes : (api'[n] = api[n] /\ watch'[n] = watch[n]) \/ Sees(n)
  <2>1. CASE UNCHANGED server
    BY <1>2, <2>1 DEF server, ApiChange, TypeOK, ServerOK
  <2>2. CASE ~UNCHANGED server
    <3>1. /\ Old!Current(t) /\ Store(t[2], oldWorker[t].updated)
          /\ oldWorker[t].pc = "write"
      BY <2>2 DEF LandWrite
    <3> QED BY <3>1, LandedLate, TaskParts DEF ApiChange
  <2> QED BY <2>1, <2>2
<1>4. UNCHANGED <<configMap, configWatch, config, announce, cache, notes, dirty, waiting,
                  queue, worker, flaps, clock, left>>
  BY DEF LandWrite, rules, queue
<1>5. ServerTyped'
  <2>1. ServerOK'
    <3>1. CASE UNCHANGED server BY <1>2, <3>1 DEF server, TypeOK, ServerOK
    <3>2. CASE ~UNCHANGED server
      <4>1. /\ Old!Current(t) /\ Store(t[2], oldWorker[t].updated)
            /\ oldWorker[t].pc = "write"
        BY <3>2 DEF LandWrite
      <4> QED BY <4>1, LandedLate
    <3> QED BY <3>1, <3>2
  <2> QED BY <1>2, <1>4, <2>1 DEF ServerTyped, ServerOK, TypeOK, RulesOK, BoundsOK
<1>6. worker' = [u \in Tasks |-> worker'[u]] BY <1>2, <1>4 DEF TypeOK, WorkersOK
<1>7. TypeOK' /\ VersionsIdentify' /\ UpdatesJustified'
  BY <1>2, <1>3, <1>4, <1>5, <1>6, SeenStep DEF ServerTyped, ApiChange
<1>8. lease = "new" => WakeupInv' BY <1>1, <1>2, <1>3, <1>4, SeenWakeup DEF NewInv
<1>9. NewInv' BY <1>7, <1>8 DEF NewInv, LandWrite, election
<1>10. Old!TypeOK /\ Old!VersionsIdentify /\ Old!UpdatesJustified BY <1>1 DEF OldInv
<1>11. /\ UNCHANGED <<oldWatch, oldConfigWatch, oldCache, oldNotes, oldConfig, oldAnnounce,
                      oldDirty, oldWaiting, oldFlaps>>
       /\ oldWorker' = [oldWorker EXCEPT ![t] = Idle]
  BY DEF LandWrite, informed
<1>12. /\ oldWorker' = [u \in Old!Tasks |-> oldWorker'[u]]
       /\ \A u \in Old!Tasks : oldWorker'[u] = oldWorker[u] \/ oldWorker'[u] = Old!Idle
       /\ oldWatch' = [n \in Nodes |-> oldWatch'[n]]
  BY <1>10, <1>11, SameNames DEF Old!TypeOK, Old!WorkersOK, Old!ServerOK
<1>13. Old!TypeOK' /\ Old!VersionsIdentify' /\ Old!UpdatesJustified'
  BY <1>3, <1>5, <1>10, <1>11, <1>12, Old!SeenStep, OldAssumption, SameNames, SameVersions
  DEF ServerTyped, ApiChange, Old!queue
<1>14. OldInv' BY <1>13 DEF OldInv, LandWrite, election
<1> QED BY <1>9, <1>14 DEF HandoverInv

LEMMA HandoverStep == HandoverInv /\ [HandoverNext]_replicas => HandoverInv'
<1> SUFFICES ASSUME HandoverInv, [HandoverNext]_replicas PROVE HandoverInv'
  OBVIOUS
<1>1. ASSUME NEW t \in Tasks, OldSystem(t) PROVE HandoverInv'
  <2>1. old = "leading" /\ Old!System(t) /\ NewSees /\ UNCHANGED <<memory, old, lease>>
    BY <1>1 DEF OldSystem, OldStarts, OldContinues, OldWorks, Old!System
  <2> QED BY <2>1, OldWorking, SameNames DEF Old!Next
<1>2. ASSUME \/ \E n \in Nodes : OldDelivers(n)
             \/ OldLoads
             \/ \E d \in Domains : OldEnqueues(d)
             \/ OldContinues(Old!EditConfigMap)
      PROVE  HandoverInv'
  BY <1>2, OldWorking
  DEF OldDelivers, OldLoads, OldEnqueues, OldContinues, OldWorks, Old!Next
<1>3. ASSUME \/ \E t \in Tasks : NewSystem(t)
             \/ \E n \in Nodes : NewDelivers(n)
             \/ NewLoads
             \/ \E d \in Domains : NewEnqueues(d)
             \/ old = "stopped" /\ Others(EditConfigMap)
      PROVE  HandoverInv'
  BY <1>3, NewWorking
  DEF NewSystem, NewDelivers, NewLoads, NewEnqueues, NewWorks, Others, Next
<1>4. CASE LoseLease \/ UNCHANGED replicas
  <2>1. /\ UNCHANGED <<vars, informed, oldMemory, old>>
        /\ lease' = "new" => lease = "new"
    BY <1>4 DEF LoseLease, replicas, election
  <2>2. UNCHANGED Old!vars
    BY <2>1 DEF informed, oldMemory, vars, server, rules, queue, Old!vars, Old!server,
                Old!rules, Old!queue
  <2>3. NewInv'
    BY <2>1, TypeStep, VersionsStep, JustifiedStep, WakeupStep DEF HandoverInv, NewInv
  <2>4. OldInv'
    BY <2>1, <2>2, Old!TypeStep, Old!VersionsStep, Old!JustifiedStep, Old!WakeupStep,
       OldAssumption
    DEF HandoverInv, OldInv
  <2> QED BY <2>3, <2>4 DEF HandoverInv
<1> QED BY <1>1, <1>2, <1>3, <1>4, Stops, TakesOver, LandsLate DEF HandoverNext, Edit

-------------------------------------------------------------------------------
LEMMA HandoverStart == HandoverInit => HandoverInv
<1> SUFFICES ASSUME HandoverInit PROVE HandoverInv
  OBVIOUS
<1>1. PICK content \in [Nodes -> Contents] :
        api = [n \in Nodes |-> NewNode(n, content[n], 0)]
  BY DEF HandoverInit
<1>2. \A n \in Nodes : IsNode(n, api[n]) /\ api[n].rv = 0
  <2>1. \A n \in Nodes : NewNode(n, content[n], 0).rv = 0 BY DEF NewNode
  <2> QED BY <1>1, <2>1, NewNodeType
<1>3. ServerTyped
  BY <1>1, <1>2, RuleControllerAssumption
  DEF HandoverInit, ServerTyped, IsVersion, BoundsOK
<1>4. TypeOK
  <2>1. ServerOK
    <3>1. \A n \in Nodes : watch[n] = <<>> BY DEF HandoverInit
    <3> QED BY <1>3, <3>1, NoElements DEF ServerTyped, ServerOK, HandoverInit
  <2>2. RulesOK BY <1>3, SingleElement DEF ServerTyped, RulesOK, HandoverInit, Rulesets
  <2>3. CacheOK BY DEF CacheOK, IsVersion, HandoverInit
  <2>4. QueueOK BY SingleElement DEF QueueOK, HandoverInit, Never
  <2>5. WorkersOK BY DEF WorkersOK, HandoverInit, IsWorker
  <2>6. FlapsOK BY ZeroFlapStateType DEF FlapsOK, HandoverInit
  <2> QED BY <1>3, <2>1, <2>2, <2>3, <2>4, <2>5, <2>6 DEF TypeOK, ServerTyped
<1>5. VersionsIdentify
  <2>1. \A n \in Nodes : \A o \in Copies(n) : o = Gone
    <3>1. \A n \in Nodes : watch[n] = <<>> /\ cache[n] = Gone BY DEF HandoverInit
    <3>2. \A t \in Tasks : worker[t].pc \notin {"reconcile", "write"}
      BY DEF HandoverInit, Idle
    <3> QED BY <3>1, <3>2, NoElements DEF Copies
  <2> QED BY <1>2, <2>1 DEF VersionsIdentify, HandoverInit
<1>6. UpdatesJustified BY DEF UpdatesJustified, HandoverInit, Idle
<1>7. NewInv BY <1>4, <1>5, <1>6 DEF NewInv, HandoverInit
<1>8. Old!TypeOK
  <2>1. Old!ServerOK
    <3>1. \A n \in Nodes : oldWatch[n] = <<>> BY DEF HandoverInit
    <3> QED BY <1>3, <3>1, Old!NoElements, OldAssumption, SameVersions
            DEF ServerTyped, Old!ServerOK, HandoverInit
  <2>2. Old!RulesOK
    BY <1>3, SingleElement DEF ServerTyped, Old!RulesOK, HandoverInit, Old!Rulesets
  <2>3. Old!CacheOK BY <1>3, SameVersions DEF ServerTyped, Old!CacheOK, HandoverInit
  <2>4. Old!QueueOK BY SingleElement, SameNames DEF Old!QueueOK, HandoverInit, Never
  <2>5. Old!WorkersOK BY SameNames DEF Old!WorkersOK, HandoverInit, Old!IsWorker
  <2>6. Old!FlapsOK
    <3>1. Old!IsFlapState(Flap!ZeroFlapState)
      BY ZeroFlapStateType DEF IsFlapState, Old!IsFlapState
    <3> QED BY <3>1, SameNames DEF Old!FlapsOK, HandoverInit
  <2> QED BY <1>3, <2>1, <2>2, <2>3, <2>4, <2>5, <2>6, SameNames
          DEF Old!TypeOK, ServerTyped
<1>9. Old!VersionsIdentify
  <2>1. \A n \in Nodes : \A o \in Old!Copies(n) : o = api[n]
    <3>1. \A n \in Nodes : oldWatch[n] = <<>> /\ oldCache[n] = api[n] BY DEF HandoverInit
    <3>2. \A t \in Old!Tasks : oldWorker[t].pc \notin {"reconcile", "write"}
      BY SameNames DEF HandoverInit, Idle
    <3> QED BY <3>1, <3>2, Old!NoElements, OldAssumption DEF Old!Copies
  <2> QED BY <1>2, <2>1 DEF Old!VersionsIdentify, HandoverInit
<1>10. \A t \in Old!Tasks : oldWorker[t].pc = "idle"
  BY SameNames DEF HandoverInit, Idle
<1>11. Old!UpdatesJustified BY <1>10 DEF Old!UpdatesJustified
<1>12. Old!WakeupInv
  <2>1. Old!WatchCurrent BY DEF Old!WatchCurrent, Old!Newest, HandoverInit
  <2>2. Old!StaleAnnounced BY <1>10 DEF Old!StaleAnnounced, Old!Busy
  <2>3. Old!Unsettled
    BY SameNames DEF Old!Unsettled, Old!Attended, Old!Announced, HandoverInit
  <2> QED BY <2>1, <2>2, <2>3 DEF Old!WakeupInv
<1>13. OldInv BY <1>8, <1>9, <1>11, <1>12 DEF OldInv
<1> QED BY <1>7, <1>13 DEF HandoverInv

\* Through a change of leader both replicas keep their invariants: their state
\* keeps its shape, resourceVersions tell their copies of a Node from later
\* ones, what their workers send is justified, and each, while it leads, has a
\* wake-up for what is left to do (main.go:166-205).
THEOREM HandoverCorrect == HandoverSpec => []HandoverInv
BY HandoverStart, HandoverStep, PTL DEF HandoverSpec

\* Whatever the old leader leaves half done or stores after its end, the new
\* one never rests before the Nodes are as its rules want them; nor does the
\* old one while it leads (main.go:188-205, metadata_controller.go:137-140,
\* initialization_controller.go:84-87).
THEOREM NoWakeupLostInHandover == HandoverSpec => []NoWakeupLostAcross
<1>1. HandoverInv => NoWakeupLostAcross
  <2> SUFFICES ASSUME HandoverInv PROVE NoWakeupLostAcross
    OBVIOUS
  <2>1. lease = "new" => NoLostWakeup BY WakeupMeans DEF HandoverInv, NewInv
  <2>2. old = "leading" => Old!NoLostWakeup
    BY Old!WakeupMeans, OldAssumption DEF HandoverInv, OldInv
  <2> QED BY <2>1, <2>2, SameNames DEF NoLostWakeup, Old!NoLostWakeup, NoWakeupLostAcross
<1> QED BY <1>1, HandoverCorrect, PTL

-------------------------------------------------------------------------------
(***************************************************************************)
(* Updates: each replica's are stored over the very Node they were made    *)
(* from, although the other one writes as well.                            *)
(***************************************************************************)
LEMMA NewStores ==
    ASSUME HandoverInv, [HandoverNext]_replicas, NEW t \in Tasks, Stores(t)
    PROVE  Lands(t)
<1>1. ~UNCHANGED worker /\ ~UNCHANGED api BY DEF Stores
<1>2. Next
  <2>1. \A u \in Tasks : ~OldSystem(u) /\ ~LandWrite(u)
    BY <1>1 DEF OldSystem, OldStarts, OldContinues, OldWorks, memory, LandWrite
  <2>2. /\ \A n \in Nodes : ~OldDelivers(n)
        /\ ~OldLoads
        /\ \A d \in Domains : ~OldEnqueues(d)
        /\ ~OldContinues(Old!EditConfigMap)
    BY <1>1 DEF OldDelivers, OldLoads, OldEnqueues, OldContinues, OldWorks, memory
  <2>3. ~LoseLease /\ ~Stop /\ ~TakeOver /\ ~UNCHANGED replicas
    BY <1>1 DEF LoseLease, Stop, TakeOver, vars, server, replicas
  <2> QED BY <2>1, <2>2, <2>3
          DEF HandoverNext, Edit, Others, NewSystem, NewDelivers, NewLoads, NewEnqueues,
              NewWorks, Next
<1> QED BY <1>2, StoresLands DEF HandoverInv, NewInv

LEMMA OldStores ==
    ASSUME HandoverInv, [HandoverNext]_replicas, NEW t \in Tasks, Old!Stores(t)
    PROVE  Old!Lands(t)
<1>1. oldWorker'[t] # oldWorker[t] /\ ~UNCHANGED oldWorker /\ ~UNCHANGED api
  BY DEF Old!Stores
<1>2. CASE Old!Next
  BY <1>2, Old!StoresLands, OldAssumption, SameNames DEF HandoverInv, OldInv
<1>3. ASSUME NEW u \in Tasks, LandWrite(u) PROVE Old!Lands(t)
  <2>1. u = t
    <3>1. oldWorker' = [oldWorker EXCEPT ![u] = Idle] BY <1>3 DEF LandWrite
    <3>2. oldWorker = [v \in Tasks |-> oldWorker[v]]
      BY SameNames DEF HandoverInv, OldInv, Old!TypeOK, Old!WorkersOK
    <3> QED BY <1>1, <3>1, <3>2
  <2>2. /\ oldWorker[t].pc = "write"
        /\ Old!Current(t) /\ Store(t[2], oldWorker[t].updated)
    BY <1>1, <1>3, <2>1 DEF LandWrite, server
  <2> QED BY <2>2, LandedLate
<1>4. Old!Next \/ \E u \in Tasks : LandWrite(u)
  <2>1. /\ \A u \in Tasks : ~NewSystem(u)
        /\ \A n \in Nodes : ~NewDelivers(n)
        /\ ~NewLoads
        /\ \A d \in Domains : ~NewEnqueues(d)
        /\ ~Others(EditConfigMap)
    BY <1>1 DEF NewSystem, NewDelivers, NewLoads, NewEnqueues, NewWorks, Others, oldMemory
  <2>2. ~LoseLease /\ ~Stop /\ ~TakeOver /\ ~UNCHANGED replicas
    BY <1>1 DEF LoseLease, Stop, TakeOver, vars, server, replicas
  <2> QED BY <2>1, <2>2, SameNames
          DEF HandoverNext, Edit, OldSystem, OldStarts, OldDelivers, OldLoads, OldEnqueues,
              OldContinues, OldWorks, Old!Next, Old!System
<1> QED BY <1>2, <1>3, <1>4

LEMMA ReplicasStep ==
    ASSUME HandoverInv, [HandoverNext]_replicas, NEW t \in Tasks
    PROVE  /\ Stores(t) =>
                /\ KeepsOthers(t)
                /\ SaysTruth(t)
                /\ worker[t].kind = "initialize" => InitializesProperly(t)
           /\ Old!Stores(t) =>
                /\ Old!KeepsOthers(t)
                /\ Old!SaysTruth(t)
                /\ oldWorker[t].kind = "initialize" => Old!InitializesProperly(t)
<1>1. ASSUME Stores(t)
      PROVE  /\ KeepsOthers(t) /\ SaysTruth(t)
             /\ worker[t].kind = "initialize" => InitializesProperly(t)
  BY <1>1, NewStores, LandsUpdate, LandsTruth, LandsInitialized DEF HandoverInv, NewInv
<1>2. ASSUME Old!Stores(t)
      PROVE  /\ Old!KeepsOthers(t) /\ Old!SaysTruth(t)
             /\ oldWorker[t].kind = "initialize" => Old!InitializesProperly(t)
  BY <1>2, OldStores, Old!LandsUpdate, Old!LandsTruth, Old!LandsInitialized, OldAssumption,
     SameNames
  DEF HandoverInv, OldInv
<1> QED BY <1>1, <1>2

\* Two leaders at a time, and requests that land after their sender's end,
\* overwrite nothing of each other or of anybody else
\* (metadata_controller.go:135-142, main.go:188-205).
THEOREM HandoverKeepsOthers == HandoverSpec => ReplicasKeepOthers
<1>1. HandoverInv /\ [HandoverNext]_replicas =>
        /\ \A t \in Tasks : Stores(t) => KeepsOthers(t)
        /\ \A t \in Old!Tasks : Old!Stores(t) => Old!KeepsOthers(t)
  BY ReplicasStep, SameNames
<1>2. HandoverSpec => NoLostUpdate
  BY <1>1, HandoverCorrect, PTL DEF HandoverSpec, NoLostUpdate, KeepsOthers
<1>3. HandoverSpec => Old!NoLostUpdate
  BY <1>1, HandoverCorrect, PTL DEF HandoverSpec, Old!NoLostUpdate, Old!KeepsOthers
<1> QED BY <1>2, <1>3 DEF ReplicasKeepOthers

\* What either replica's conditions say is true when they are stored, although
\* the other replica writes values and conditions of its own (drift.go:151-186,
\* conditions.go:123-155).
THEOREM HandoverIsTruthful == HandoverSpec => ReplicasTruthful
<1>1. HandoverInv /\ [HandoverNext]_replicas =>
        /\ \A t \in Tasks : Stores(t) => SaysTruth(t)
        /\ \A t \in Old!Tasks : Old!Stores(t) => Old!SaysTruth(t)
  BY ReplicasStep, SameNames
<1>2. HandoverSpec => TruthfulCondition
  BY <1>1, HandoverCorrect, PTL DEF HandoverSpec, TruthfulCondition, SaysTruth
<1>3. HandoverSpec => Old!TruthfulCondition
  BY <1>1, HandoverCorrect, PTL DEF HandoverSpec, Old!TruthfulCondition, Old!SaysTruth
<1> QED BY <1>2, <1>3 DEF ReplicasTruthful

\* Two leaders initialize a Node no worse than one: neither replaces a
\* providerID the other has stamped, or leaves a Node without the one its rules
\* ask for (initialization_controller.go:63-92).
THEOREM HandoverInitializes == HandoverSpec => ProperlyInitialized /\ Old!ProperlyInitialized
<1>1. HandoverInv /\ [HandoverNext]_replicas =>
        /\ \A t \in Tasks : Stores(t) /\ worker[t].kind = "initialize"
                => InitializesProperly(t)
        /\ \A t \in Old!Tasks : Old!Stores(t) /\ oldWorker[t].kind = "initialize"
                => Old!InitializesProperly(t)
  BY ReplicasStep, SameNames
<1>2. HandoverSpec => ProperlyInitialized
  BY <1>1, HandoverCorrect, PTL DEF HandoverSpec, ProperlyInitialized, InitializesProperly
<1>3. HandoverSpec => Old!ProperlyInitialized
  BY <1>1, HandoverCorrect, PTL DEF HandoverSpec, Old!ProperlyInitialized,
                                    Old!InitializesProperly
<1> QED BY <1>2, <1>3

-------------------------------------------------------------------------------
(***************************************************************************)
(* Two replicas implement NodeContract as well as one does.  Rules mean    *)
(* the same to both, and so does the contract.                             *)
(***************************************************************************)
LEMMA SameRules ==
    /\ \A n, R : Old!MatchingIDs(n, R) = MatchingIDs(n, R)
    /\ \A d, m, R : Old!Desired(d, m, R) = Desired(d, m, R)
    /\ \A d, f, v : Old!WithDesired(d, f, v) = WithDesired(d, f, v)
    /\ \A n, m, R : Old!MayInitialize(n, m, R) <=> MayInitialize(n, m, R)
    /\ \A n, v : Old!Initialized(n, v) = Initialized(n, v)
<1>1. \A n, R : Old!MatchingIDs(n, R) = MatchingIDs(n, R)
  BY DEF Old!MatchingIDs, MatchingIDs, Old!Matches, Matches, Old!SelectorTermMatches,
         SelectorTermMatches, Old!Meets, Meets, Old!NameField, NameField
<1>2. \A s, I : Old!Pick(s, I) = Pick(s, I)
  BY Zenon DEF Old!Pick, Pick
<1>3. \A m, R : Old!UnionIPs(m, R) = UnionIPs(m, R)
  BY Zenon
  DEF Old!UnionIPs, UnionIPs, Old!SetToSortSeq, SetToSortSeq, Old!SetToSeq, SetToSeq,
      Old!IsInjective, IsInjective, Old!Cardinality, Cardinality, Old!FoldLeft, FoldLeft,
      Old!MapThenFoldSet, MapThenFoldSet, Old!Max, Max
<1>4. \A a, i : Old!MergeExternalIPs(a, i) = MergeExternalIPs(a, i)
  <2>1. \A s : Old!Distinct(s) = Distinct(s)
    BY <1>2, Zenon DEF Old!Distinct, Distinct, Old!FirstOfEach, FirstOfEach
  <2>2. \A s : Old!IPv6First(s) = IPv6First(s)
    BY <1>2, Zenon DEF Old!IPv6First, IPv6First, Old!IsIPv6, IsIPv6
  <2>3. \A s : Old!ExternalAt(s) = ExternalAt(s)
    BY Zenon DEF Old!ExternalAt, ExternalAt, Old!IsExternal, IsExternal
  <2>4. \A s : Old!OtherAddresses(s) = OtherAddresses(s)
    BY <1>2, <2>3, Zenon DEF Old!OtherAddresses, OtherAddresses
  <2>5. \A s : Old!ExternalIPsIn(s) = ExternalIPsIn(s)
    BY <1>2, <2>3, Zenon DEF Old!ExternalIPsIn, ExternalIPsIn
  <2>6. \A s : Old!AsExternal(s) = AsExternal(s)
    BY Zenon DEF Old!AsExternal, AsExternal
  <2> QED
    BY <2>1, <2>2, <2>4, <2>5, <2>6, Zenon DEF Old!MergeExternalIPs, MergeExternalIPs
<1>5. \A m, R : Old!ResolveValues(m, R) = ResolveValues(m, R)
  BY DEF Old!ResolveValues, ResolveValues, Old!Agreed, Agreed, Old!SettersOf, SettersOf
<1>6. \A e, v : Old!ApplyOverwrite(e, v) = ApplyOverwrite(e, v)
  BY DEF Old!ApplyOverwrite, ApplyOverwrite
<1>7. \A m, R : Old!Schemes(m, R) = Schemes(m, R)
  BY DEF Old!Schemes, Schemes, Old!NoScheme, NoScheme
<1>8. \A d, m, R : Old!Desired(d, m, R) = Desired(d, m, R)
  BY <1>3, <1>5, <1>7 DEF Old!Desired, Desired
<1>9. \A d, f, v : Old!WithDesired(d, f, v) = WithDesired(d, f, v)
  BY <1>4, <1>6 DEF Old!WithDesired, WithDesired
<1>10. \A n, m, R : Old!MayInitialize(n, m, R) <=> MayInitialize(n, m, R)
  BY <1>7 DEF Old!MayInitialize, MayInitialize, Old!SchemesAgree, SchemesAgree,
              Old!NoProviderID, NoProviderID
<1>11. \A n, v : Old!Initialized(n, v) = Initialized(n, v)
  BY <1>6 DEF Old!Initialized, Initialized, Old!InitialProviderID, InitialProviderID,
              Old!NoProviderID, NoProviderID
<1> QED BY <1>1, <1>8, <1>9, <1>10, <1>11

LEMMA SamePublic == Old!PublicNodes = PublicNodes /\ Old!PublicNodes' = PublicNodes'
<1>1. \A o : Old!Public(o) = Public(o)
  BY DEF Old!Public, Public, Old!Gone, Gone, Old!NoCondition, NoCondition
<1> QED BY <1>1 DEF Old!PublicNodes, PublicNodes

\* Both replicas promise the same.
LEMMA SameContract == Old!Contract!Next => Contract!Next
<1> DEFINE seen == [n \in Nodes |-> Old!Public(api[n])]
<1>1. seen = PublicNodes /\ seen' = PublicNodes' BY SamePublic DEF Old!PublicNodes
<1>2. Old!NoCondition = NoCondition /\ Old!Gone = Gone /\ Old!Rulesets = Rulesets
  BY SameNames DEF Old!NoCondition, NoCondition, Old!Rulesets, Rulesets
<1>3. ASSUME NEW n \in Nodes, NEW d \in Domains, NEW c \in Rulesets
      PROVE  /\ Old!Contract!Matching(n, d, c) = Contract!Matching(n, d, c)
             /\ Old!Contract!WantedBy(n, d, c) = Contract!WantedBy(n, d, c)
             /\ Old!Contract!HasValues(n, d, c) <=> Contract!HasValues(n, d, c)
             /\ Old!Contract!Claims(n, d) = Contract!Claims(n, d)
             /\ \A claim : Old!Contract!Claim(n, d, claim) <=> Contract!Claim(n, d, claim)
  BY <1>1, SameRules
  DEF Old!Contract!Matching, Contract!Matching, Old!Contract!WantedBy, Contract!WantedBy,
      Old!Contract!HasValues, Contract!HasValues, Old!Contract!Claims, Contract!Claims,
      Old!Contract!Claim, Contract!Claim, PublicNodes
<1>4. ASSUME NEW n \in Nodes PROVE Old!Contract!Rules(n) => Contract!Rules(n)
  <2>1. ASSUME NEW d \in Domains, NEW c \in Rulesets
        PROVE  /\ Old!Contract!Clear(n, d, c) => Contract!Clear(n, d, c)
               /\ Old!Contract!Pend(n, d, c) => Contract!Pend(n, d, c)
               /\ Old!Contract!Drift(n, d, c) => Contract!Drift(n, d, c)
               /\ Old!Contract!Confirm(n, d, c) => Contract!Confirm(n, d, c)
    BY <1>2, <1>3
    DEF Old!Contract!Clear, Contract!Clear, Old!Contract!Pend, Contract!Pend,
        Old!Contract!Drift, Contract!Drift, Old!Contract!Confirm, Contract!Confirm
  <2>2. ASSUME NEW d \in Domains, NEW c \in Rulesets
        PROVE  Old!Contract!Apply(n, d, c) => Contract!Apply(n, d, c)
    BY <1>1, <1>2, <1>3, SameRules DEF Old!Contract!Apply, Contract!Apply, PublicNodes
  <2>3. ASSUME NEW d \in Domains, NEW c \in Rulesets
        PROVE  Old!Contract!Initialize(n, d, c) => Contract!Initialize(n, d, c)
    <3> DEFINE wanted == Contract!WantedBy(n, d, c)
               matched == Contract!Matching(n, d, c)
    <3>1. /\ Old!Contract!Matching(n, d, c) = matched
          /\ Old!Contract!WantedBy(n, d, c) = wanted
      BY <1>3
    <3> HIDE DEF wanted, matched
    <3>2. \A o : Old!Initialized(o, wanted) = Initialized(o, wanted) BY SameRules
    <3>3. \A o : Old!MayInitialize(o, matched, c[d]) <=> MayInitialize(o, matched, c[d])
      BY SameRules
    <3> QED BY <1>1, <3>1, <3>2, <3>3
            DEF Old!Contract!Initialize, Contract!Initialize, PublicNodes, wanted, matched
  <2> QED BY <1>1, <1>2, <2>1, <2>2, <2>3 DEF Old!Contract!Rules, Contract!Rules, PublicNodes
<1>5. ASSUME NEW n \in Nodes PROVE Old!Contract!Others(n) => Contract!Others(n)
  <2>1. ASSUME NEW f, NEW v
        PROVE  Old!Contract!Change(n, f, v) => Contract!Change(n, f, v)
    BY <1>1, <1>2 DEF Old!Contract!Change, Contract!Change, PublicNodes
  <2>2. Old!Contract!Leave(n) => Contract!Leave(n)
    BY <1>1, <1>2 DEF Old!Contract!Leave, Contract!Leave, PublicNodes
  <2>3. ASSUME NEW content
        PROVE  Old!Contract!Join(n, content) => Contract!Join(n, content)
    BY <1>1, <1>2
    DEF Old!Contract!Join, Contract!Join, Old!Contract!NewNode, Contract!NewNode, PublicNodes
  <2> QED BY <2>1, <2>2, <2>3 DEF Old!Contract!Others, Contract!Others
<1> QED BY <1>4, <1>5 DEF Old!Contract!Next, Contract!Next

-------------------------------------------------------------------------------
\* Every update either replica has on its way was decided on its snapshot, by
\* rules there may be.
ReplicasDecided == Decided /\ Old!Decided

LEMMA ReplicasDecidedStep ==
    ASSUME HandoverInv, ReplicasDecided, [HandoverNext]_replicas
    PROVE  ReplicasDecided'
<1>1. TypeOK /\ Old!TypeOK /\ Decided /\ Old!Decided
  BY DEF HandoverInv, NewInv, OldInv, ReplicasDecided
<1>2. Decided'
  <2>1. CASE Next BY <1>1, <2>1, DecidedStep
  <2>2. CASE ~Next
    <3>1. UNCHANGED worker \/ TakeOver
      BY <2>2
      DEF HandoverNext, OldSystem, OldStarts, OldDelivers, OldLoads, OldEnqueues,
          OldContinues, OldWorks, memory, NewSystem, NewDelivers, NewLoads, NewEnqueues,
          NewWorks, Others, Next, Edit, LandWrite, LoseLease, Stop, vars, replicas
    <3> QED BY <1>1, <3>1, DecisionKept DEF TakeOver, Fresh
  <2> QED BY <2>1, <2>2
<1>3. Old!Decided'
  <2>1. CASE Old!Next BY <1>1, <2>1, Old!DecidedStep, OldAssumption
  <2>2. CASE ~Old!Next
    <3>1. UNCHANGED oldWorker \/ Stop \/ \E t \in Tasks : LandWrite(t)
      BY <2>2, SameNames
      DEF HandoverNext, OldSystem, OldStarts, OldDelivers, OldLoads, OldEnqueues,
          OldContinues, OldWorks, Old!Next, Old!System, NewSystem, NewDelivers, NewLoads,
          NewEnqueues, NewWorks, Others, oldMemory, Edit, LoseLease, TakeOver, replicas
    <3>2. \A t \in Tasks : oldWorker'[t] = oldWorker[t] \/ oldWorker'[t] = Idle
      BY <1>1, <3>1, SameNames DEF Stop, LandWrite, Old!TypeOK, Old!WorkersOK
    <3> QED BY <1>1, <3>2, Old!DecisionKept, OldAssumption, SameNames
  <2> QED BY <2>1, <2>2
<1> QED BY <1>2, <1>3 DEF ReplicasDecided

LEMMA ReplicasContractStep ==
    ASSUME HandoverInv, ReplicasDecided, [HandoverNext]_replicas
    PROVE  Contract!Next \/ UNCHANGED PublicNodes
<1>1. NewInv /\ OldInv /\ Decided /\ Old!Decided BY DEF HandoverInv, ReplicasDecided
<1>2. UNCHANGED api => UNCHANGED PublicNodes BY DEF PublicNodes
<1>3. CASE Next BY <1>1, <1>3, ContractStep DEF NewInv
<1>4. CASE Old!Next
  <2>1. Old!Contract!Next \/ UNCHANGED Old!PublicNodes
    BY <1>1, <1>4, Old!ContractStep, OldAssumption DEF OldInv
  <2>2. UNCHANGED Old!PublicNodes => UNCHANGED PublicNodes
    BY SamePublic
  <2> QED BY <2>1, <2>2, SameContract
<1>5. ASSUME NEW t \in Tasks, LandWrite(t) PROVE Contract!Next \/ UNCHANGED PublicNodes
  <2>1. CASE UNCHANGED server BY <1>2, <2>1 DEF server
  <2>2. CASE ~UNCHANGED server
    <3>1. /\ oldWorker[t].pc = "write"
          /\ Old!Current(t) /\ Store(t[2], oldWorker[t].updated)
      BY <1>5, <2>2 DEF LandWrite
    <3>2. Old!Lands(t) BY <3>1, LandedLate
    <3>3. Old!Contract!Next
      BY <1>1, <3>2, Old!LandsByContract, OldAssumption, SameNames DEF OldInv
    <3> QED BY <3>3, SameContract
  <2> QED BY <2>1, <2>2
<1>6. Next \/ Old!Next \/ (\E t \in Tasks : LandWrite(t)) \/ UNCHANGED api
  BY SameNames
  DEF HandoverNext, OldSystem, OldStarts, OldDelivers, OldLoads, OldEnqueues, OldContinues,
      OldWorks, Old!Next, Old!System, NewSystem, NewDelivers, NewLoads, NewEnqueues,
      NewWorks, Others, Next, Edit, LoseLease, Stop, TakeOver, vars, server, replicas
<1> QED BY <1>2, <1>3, <1>4, <1>5, <1>6

\* Seen from the API server, two leaders at a time and what one of them leaves
\* on its way change a Node like one controller that acts at once on the Node
\* as it is: a change of leader breaks none of what the README says of a
\* condition's life (README.md:310-348, main.go:188-205).
THEOREM HandoverImplements == HandoverSpec => ImplementsContract
<1>1. HandoverInit => ReplicasDecided
  BY SameNames DEF HandoverInit, ReplicasDecided, Decided, Old!Decided, Idle
<1>2. HandoverInit => Contract!Init
  <2> SUFFICES ASSUME HandoverInit PROVE Contract!Init
    OBVIOUS
  <2>1. PICK content \in [Nodes -> Contents] :
          api = [n \in Nodes |-> NewNode(n, content[n], 0)]
    BY DEF HandoverInit
  <2>2. \A n \in Nodes : Public(api[n]) = Contract!NewNode(n, content[n])
    BY <2>1, PublicNewNode
  <2> QED BY <2>2 DEF Contract!Init
<1>3. HandoverSpec => []ReplicasDecided
  BY <1>1, ReplicasDecidedStep, HandoverCorrect, PTL DEF HandoverSpec
<1> QED BY <1>2, <1>3, ReplicasContractStep, HandoverCorrect, PTL
        DEF HandoverSpec, ImplementsContract, Contract!Spec, PublicNodes
================================================================================
