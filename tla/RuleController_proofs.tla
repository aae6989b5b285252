------------------------- MODULE RuleController_proofs -------------------------
(***************************************************************************)
(* Proofs about RuleController for any number of Nodes, any rules and any  *)
(* bounds.                                                                 *)
(***************************************************************************)
EXTENDS RuleController, SequenceTheorems, TLAPS

(***************************************************************************)
(* Sequences.                                                              *)
(***************************************************************************)
\* A sequence is a sequence of its own elements.
LEMMA OwnElements ==
    ASSUME NEW S, NEW s \in Seq(S)
    PROVE  s \in Seq(ToSet(s))
<1>1. Len(s) \in Nat /\ s \in [1 .. Len(s) -> S] /\ DOMAIN s = 1 .. Len(s)
  BY LenProperties
<1>2. s \in [1 .. Len(s) -> ToSet(s)] BY <1>1 DEF ToSet
<1> QED BY <1>1, <1>2, SeqDef

LEMMA AppendElements ==
    ASSUME NEW S, NEW s \in Seq(S), NEW e
    PROVE  /\ ToSet(Append(s, e)) = ToSet(s) \cup {e}
           /\ Append(s, e) \in Seq(ToSet(Append(s, e)))
<1>1. ToSet(Append(s, e)) = ToSet(s) \cup {e}
  <2> DEFINE r == Append(s, e)
  <2>1. /\ DOMAIN r = 1 .. Len(s) + 1
        /\ DOMAIN s = 1 .. Len(s)
        /\ Len(s) \in Nat
        /\ \A i \in 1 .. Len(s) : r[i] = s[i]
        /\ r[Len(s) + 1] = e
    OBVIOUS
  <2> HIDE DEF r
  <2>2. \A x \in ToSet(r) : x \in ToSet(s) \cup {e} BY <2>1 DEF ToSet
  <2>3. \A x \in ToSet(s) \cup {e} : x \in ToSet(r) BY <2>1 DEF ToSet
  <2> QED BY <2>2, <2>3 DEF r
<1>2. Append(s, e) \in Seq(S \cup {e})
  <2>1. s \in Seq(S \cup {e}) BY SeqMonotonic
  <2> QED BY <2>1, AppendProperties
<1> QED BY <1>1, <1>2, OwnElements

LEMMA TailElements ==
    ASSUME NEW S, NEW s \in Seq(S), s # <<>>
    PROVE  /\ Head(s) \in ToSet(s)
           /\ ToSet(Tail(s)) \subseteq ToSet(s)
           /\ Tail(s) \in Seq(ToSet(Tail(s)))
<1>1. Len(s) \in Nat \ {0} /\ DOMAIN s = 1 .. Len(s)
  BY LenProperties, EmptySeq
<1>2. Head(s) \in ToSet(s) BY <1>1 DEF ToSet
<1>3. /\ Tail(s) \in Seq(S)
      /\ Len(Tail(s)) = Len(s) - 1
      /\ \A i \in 1 .. Len(Tail(s)) : Tail(s)[i] = s[i + 1]
  BY HeadTailProperties
<1>4. DOMAIN Tail(s) = 1 .. Len(Tail(s)) BY <1>3, LenProperties
<1>5. ToSet(Tail(s)) \subseteq ToSet(s)
  <2> SUFFICES ASSUME NEW i \in DOMAIN Tail(s) PROVE Tail(s)[i] \in ToSet(s)
    BY DEF ToSet
  <2>1. i + 1 \in DOMAIN s /\ Tail(s)[i] = s[i + 1] BY <1>1, <1>3, <1>4
  <2> QED BY <2>1 DEF ToSet
<1> QED BY <1>2, <1>3, <1>5, OwnElements

LEMMA NoElements == <<>> \in Seq(ToSet(<<>>)) /\ ToSet(<<>>) = {}
<1>1. ToSet(<<>>) = {} BY DEF ToSet
<1> QED BY <1>1, EmptySeq

-------------------------------------------------------------------------------
(***************************************************************************)
(* The operators keep the types.                                           *)
(***************************************************************************)
LEMMA TaskParts == \A t \in Tasks : t[1] \in Domains /\ t[2] \in Nodes
BY DEF Tasks

LEMMA ZeroFlapStateType == IsFlapState(Flap!ZeroFlapState)
BY RuleControllerAssumption
DEF IsFlapState, Flap!ZeroFlapState, Flap!ZeroTime, Flap!FlapWindow

LEMMA AppliedType ==
    ASSUME NEW s, IsFlapState(s), NEW desired, NEW now \in Nat
    PROVE  IsFlapState(Flap!Applied(s, desired, now))
<1> DEFINE r == [s EXCEPT !.appliedAt = now]
<1>1. r = [flaps |-> s.flaps, appliedAt |-> now, until |-> s.until,
           desired |-> s.desired]
  BY DEF IsFlapState
<1>2. Flap!Applied(s, desired, now) = [r EXCEPT !.desired = desired]
  BY DEF Flap!Applied
<1> HIDE DEF r
<1>3. [r EXCEPT !.desired = desired]
        = [flaps |-> s.flaps, appliedAt |-> now, until |-> s.until,
           desired |-> desired]
  BY <1>1
<1> QED BY <1>2, <1>3 DEF IsFlapState

LEMMA CooldownType == \A n \in Nat \ {0} : Flap!Cooldown(n) \in Nat
<1> SUFFICES ASSUME NEW n \in Nat \ {0} PROVE Flap!Cooldown(n) \in Nat
  OBVIOUS
<1>1. CASE n - 1 < 16
  <2>1. n \in 1 .. 16 BY <1>1
  <2>2. Flap!PowerOfTwo[n] \in Nat BY <2>1 DEF Flap!PowerOfTwo
  <2>3. MinCooldown * Flap!PowerOfTwo[n] \in Nat
    BY <2>2, RuleControllerAssumption
  <2> QED BY <2>3, RuleControllerAssumption DEF Flap!Cooldown
<1>2. CASE ~(n - 1 < 16)
  BY <1>2, RuleControllerAssumption DEF Flap!Cooldown
<1> QED BY <1>1, <1>2

LEMMA DriftedType ==
    ASSUME NEW s, IsFlapState(s), NEW confirmedAt \in Int, NEW now \in Nat
    PROVE  /\ IsFlapState(Flap!Drifted(s, confirmedAt, now))
           /\ Flap!DriftedWait(s, confirmedAt, now) \in Int
<1>1. s.flaps + 1 \in Nat \ {0} BY DEF IsFlapState
<1>2. Flap!Cooldown(s.flaps + 1) \in Nat BY <1>1, CooldownType
<1>3. now + Flap!Cooldown(s.flaps + 1) \in Int BY <1>2
<1>4. IsFlapState(Flap!Drifted(s, confirmedAt, now))
  <2> DEFINE r == now + Flap!Cooldown(s.flaps + 1)
  <2>1. r \in Int BY <1>3
  <2> HIDE DEF r
  <2>2. IsFlapState([s EXCEPT !.flaps = s.flaps + 1, !.until = r])
    <3> DEFINE q == [s EXCEPT !.flaps = s.flaps + 1]
    <3>1. q = [flaps |-> s.flaps + 1, appliedAt |-> s.appliedAt,
               until |-> s.until, desired |-> s.desired]
      BY DEF IsFlapState
    <3> HIDE DEF q
    <3>2. [q EXCEPT !.until = r]
            = [flaps |-> s.flaps + 1, appliedAt |-> s.appliedAt, until |-> r,
               desired |-> s.desired]
      BY <3>1
    <3>3. IsFlapState([q EXCEPT !.until = r])
      BY <1>1, <2>1, <3>2 DEF IsFlapState
    <3> QED BY <3>3 DEF q
  <2>4. [s EXCEPT !.flaps = 0]
          = [flaps |-> 0, appliedAt |-> s.appliedAt, until |-> s.until,
             desired |-> s.desired]
    BY DEF IsFlapState
  <2>5. IsFlapState([s EXCEPT !.flaps = 0]) BY <2>4 DEF IsFlapState
  <2> QED BY <2>2, <2>5 DEF Flap!Drifted, r
<1>5. Flap!Drifted(s, confirmedAt, now).until \in Int BY <1>4 DEF IsFlapState
<1> QED BY <1>4, <1>5 DEF Flap!DriftedWait

LEMMA RemainingType ==
    ASSUME NEW s, IsFlapState(s), NEW now \in Nat
    PROVE  Flap!Remaining(s, now) \in Int
BY DEF IsFlapState, Flap!Remaining

\* Rules that match are rules of the configuration.
LEMMA MatchedType ==
    ASSUME RulesOK, NEW t \in Tasks
    PROVE  Matched(t) \subseteq RuleIDs
<1>1. Matched(t) \subseteq DOMAIN config[t[1]] BY DEF Matched, MatchingIDs
<1>2. config \in Rulesets /\ t[1] \in Domains BY TaskParts DEF RulesOK
<1>3. DOMAIN config[t[1]] \subseteq RuleIDs BY <1>2 DEF RuleIDs
<1> QED BY <1>1, <1>3

(***************************************************************************)
(* Updated Nodes are Nodes.                                                *)
(***************************************************************************)
LEMMA FieldUpdateType ==
    ASSUME NEW n, NEW o, IsNode(n, o), NEW f, NEW v
    PROVE  IsNode(n, [o EXCEPT !.fields[f] = v])
<1> DEFINE g == [o.fields EXCEPT ![f] = v]
<1>1. [o EXCEPT !.fields[f] = v]
        = [name |-> n, rv |-> o.rv, conditions |-> o.conditions, fields |-> g]
  BY DEF IsNode
<1>2. IsFields(g) BY DEF IsNode, IsFields
<1> HIDE DEF g
<1> QED BY <1>1, <1>2 DEF IsNode

LEMMA ConditionUpdateType ==
    ASSUME NEW n, NEW o, IsNode(n, o), NEW d, NEW c \in Conditions
    PROVE  IsNode(n, [o EXCEPT !.conditions[d] = c])
<1> DEFINE g == [o.conditions EXCEPT ![d] = c]
<1>1. [o EXCEPT !.conditions[d] = c]
        = [name |-> n, rv |-> o.rv, conditions |-> g, fields |-> o.fields]
  BY DEF IsNode
<1>2. g \in [Domains -> Conditions] BY DEF IsNode
<1> HIDE DEF g
<1> QED BY <1>1, <1>2 DEF IsNode

LEMMA VersionUpdateType ==
    ASSUME NEW n, NEW o, IsNode(n, o), NEW rv \in Nat
    PROVE  IsNode(n, [o EXCEPT !.rv = rv])
<1>1. [o EXCEPT !.rv = rv]
        = [name |-> n, rv |-> rv, conditions |-> o.conditions, fields |-> o.fields]
  BY DEF IsNode
<1> QED BY <1>1 DEF IsNode

\* What an initialized Node looks like.
LEMMA InitializedParts ==
    ASSUME NEW n, NEW o, IsNode(n, o), NEW schemes
    PROVE  LET i == Initialized(o, schemes)
           IN  /\ i = [name |-> n, rv |-> o.rv, conditions |-> o.conditions,
                       fields |-> i.fields]
               /\ IsFields(i.fields)
               /\ i.fields.providerID = InitialProviderID(o, schemes)
               /\ i.fields.taints = o.fields.taints \ {"uninitialized"}
               /\ \A f \in NodeFields \ {"providerID", "taints"} :
                    i.fields[f] = o.fields[f]
<1> DEFINE p == InitialProviderID(o, schemes)
           taints == o.fields.taints \ {"uninitialized"}
           changes == [providerID |-> p, taints |-> taints]
           g == ApplyOverwrite(o.fields, changes)
<1>1. Initialized(o, schemes) = [o EXCEPT !.fields = g] BY DEF Initialized
<1>2. DOMAIN o.fields = NodeFields BY DEF IsNode, IsFields
<1>3. DOMAIN o.fields \cup DOMAIN changes = NodeFields BY <1>2 DEF NodeFields
<1>4. /\ DOMAIN changes = {"providerID", "taints"}
      /\ changes["providerID"] = p
      /\ changes["taints"] = taints
  OBVIOUS
<1> HIDE DEF p, taints, changes
<1>5. g = [f \in NodeFields |-> IF f \in {"providerID", "taints"} THEN changes[f]
                               ELSE o.fields[f]]
  BY <1>3, <1>4 DEF ApplyOverwrite
<1>6. "taints" \in NodeFields /\ "providerID" \in NodeFields BY DEF NodeFields
<1> HIDE DEF g
<1>7. /\ IsFields(g)
      /\ g["providerID"] = p
      /\ g["taints"] = taints
      /\ \A f \in NodeFields \ {"providerID", "taints"} : g[f] = o.fields[f]
  BY <1>4, <1>5, <1>6 DEF IsFields
<1>8. [o EXCEPT !.fields = g]
        = [name |-> n, rv |-> o.rv, conditions |-> o.conditions, fields |-> g]
  BY DEF IsNode
<1> DEFINE i == Initialized(o, schemes)
<1>9. i = [name |-> n, rv |-> o.rv, conditions |-> o.conditions, fields |-> g]
  BY <1>1, <1>8
<1> HIDE DEF i
<1>10. i.fields = g BY <1>9
<1> QED BY <1>7, <1>9, <1>10 DEF p, taints, i

LEMMA InitializedType ==
    ASSUME NEW n, NEW o, IsNode(n, o), NEW schemes
    PROVE  IsNode(n, Initialized(o, schemes))
<1> DEFINE i == Initialized(o, schemes)
<1>1. /\ i = [name |-> n, rv |-> o.rv, conditions |-> o.conditions,
              fields |-> i.fields]
      /\ IsFields(i.fields)
  BY InitializedParts
<1> HIDE DEF i
<1>2. i.rv = o.rv /\ i.conditions = o.conditions BY <1>1
<1>3. IsNode(n, i) BY <1>1, <1>2 DEF IsNode
<1> QED BY <1>3 DEF i

LEMMA NewNodeType ==
    ASSUME NEW n, NEW c \in Contents
    PROVE  IsNode(n, NewNode(n, c, 0))
<1>1. IsFields(c) BY RuleControllerAssumption
<1>2. [d \in Domains |-> NoCondition] \in [Domains -> Conditions] BY DEF Conditions
<1> QED BY <1>1, <1>2 DEF IsNode, NewNode

LEMMA StoreType ==
    ASSUME ServerOK, NEW n \in Nodes, NEW o, IsVersion(n, o), Store(n, o)
    PROVE  ServerOK'
<1> DEFINE stored == IF o = Gone THEN Gone ELSE [o EXCEPT !.rv = revision + 1]
<1>1. /\ revision \in Nat
      /\ revision' = revision + 1
      /\ api' = [api EXCEPT ![n] = stored]
      /\ watch' = [watch EXCEPT ![n] = Append(@, stored)]
  BY DEF ServerOK, Store
<1>2. IsVersion(n, stored)
  <2>1. CASE o = Gone BY <2>1 DEF IsVersion
  <2>2. CASE o # Gone
    <3>1. IsNode(n, o) /\ revision + 1 \in Nat BY <1>1, <2>2 DEF IsVersion
    <3>2. IsNode(n, [o EXCEPT !.rv = revision + 1]) BY <3>1, VersionUpdateType
    <3> QED BY <2>2, <3>2 DEF IsVersion
  <2> QED BY <2>1, <2>2
<1> HIDE DEF stored
<1>3. \A m \in Nodes : IsVersion(m, api'[m])
  BY <1>1, <1>2 DEF ServerOK
<1>4. ASSUME NEW m \in Nodes
      PROVE  /\ watch'[m] \in Seq(ToSet(watch'[m]))
             /\ \A q \in ToSet(watch'[m]) : IsVersion(m, q)
  <2>1. CASE m = n
    <3>1. watch[n] \in Seq(ToSet(watch[n])) BY DEF ServerOK
    <3>2. watch'[m] = Append(watch[n], stored) BY <1>1, <2>1 DEF ServerOK
    <3>3. /\ ToSet(watch'[m]) = ToSet(watch[n]) \cup {stored}
          /\ watch'[m] \in Seq(ToSet(watch'[m]))
      BY <3>1, <3>2, AppendElements
    <3> QED BY <1>2, <2>1, <3>3 DEF ServerOK
  <2>2. CASE m # n BY <1>1, <2>2 DEF ServerOK
  <2> QED BY <2>1, <2>2
<1>5. /\ api' = [m \in Nodes |-> api'[m]]
      /\ watch' = [m \in Nodes |-> watch'[m]]
  BY <1>1 DEF ServerOK
<1>6. revision' \in Nat BY <1>1
<1> QED BY <1>3, <1>4, <1>5, <1>6 DEF ServerOK

LEMMA NotifyType ==
    ASSUME QueueOK, NEW n \in Nodes, NEW before, NEW after,
           Notify(n, before, after), UNCHANGED queue
    PROVE  QueueOK'
<1> DEFINE note == IF after = Gone THEN "delete" ELSE "update"
<1>1. \A q \in Seq({"update", "delete"}) : Append(q, note) \in Seq({"update", "delete"})
  <2>1. note \in {"update", "delete"} OBVIOUS
  <2> HIDE DEF note
  <2> QED BY <2>1, AppendProperties
<1>2. \A t \in Tasks : notes[t] \in Seq({"update", "delete"}) BY DEF QueueOK
<1>3. notes' \in [Tasks -> Seq({"update", "delete"})]
  BY <1>1, <1>2 DEF Notify
<1> QED BY <1>3 DEF QueueOK, queue

(***************************************************************************)
(* The parts of a reconcile.                                               *)
(***************************************************************************)
LEMMA ScheduleType ==
    ASSUME waiting \in [Tasks -> Int], NEW t \in Tasks, NEW at \in Int, Schedule(t, at)
    PROVE  waiting' \in [Tasks -> Int]
BY DEF Schedule

LEMMA DoneType ==
    ASSUME WorkersOK, NEW t \in Tasks, Done(t)
    PROVE  WorkersOK'
BY DEF WorkersOK, Done, IsWorker

LEMMA SendType ==
    ASSUME WorkersOK, NEW t \in Tasks, NEW o,
           NEW kind \in {"values", "condition", "initialize"},
           worker[t].pc = "reconcile", IsNode(t[2], o), Send(t, kind, o)
    PROVE  WorkersOK'
<1> DEFINE w == [pc |-> "write", kind |-> kind, node |-> worker[t].node,
                 updated |-> o, desired |-> Wanted(t)]
<1>1. IsNode(t[2], worker[t].node) BY DEF WorkersOK, IsWorker, Idle
<1>2. IsWorker(t[2], w)
  <2>1. /\ w.pc = "write" /\ w.kind = kind /\ w.node = worker[t].node
        /\ w.updated = o /\ w.desired = Wanted(t)
    OBVIOUS
  <2>2. w = [pc |-> "write", kind |-> w.kind, node |-> w.node,
             updated |-> w.updated, desired |-> w.desired]
    OBVIOUS
  <2> HIDE DEF w
  <2> QED BY <1>1, <2>1, <2>2 DEF IsWorker
<1>3. worker' = [worker EXCEPT ![t] = w] BY DEF Send
<1> HIDE DEF w
<1> QED BY <1>2, <1>3 DEF WorkersOK

LEMMA SendValuesType ==
    ASSUME WorkersOK, NEW t \in Tasks, worker[t].pc = "reconcile", SendValues(t)
    PROVE  WorkersOK'
<1>1. IsNode(t[2], worker[t].node) BY DEF WorkersOK, IsWorker, Idle
<1>2. PICK v : Send(t, "values", [worker[t].node EXCEPT !.fields[t[1]] = v])
  BY DEF SendValues
<1>3. IsNode(t[2], [worker[t].node EXCEPT !.fields[t[1]] = v])
  BY <1>1, FieldUpdateType
<1> QED BY <1>2, <1>3, SendType

LEMMA EnsureConditionType ==
    ASSUME WorkersOK, RulesOK, BoundsOK, NEW t \in Tasks,
           worker[t].pc = "reconcile",
           NEW reason \in {"none", "Pending", "Applied", "Drifted"},
           EnsureCondition(t, reason)
    PROVE  WorkersOK'
<1>1. IsNode(t[2], worker[t].node) BY DEF WorkersOK, IsWorker, Idle
<1>2. ConditionOf(t, reason) \in Conditions
  <2>1. clock - (clock % HeartbeatGrain) \in Int
    BY RuleControllerAssumption DEF BoundsOK
  <2> QED BY <2>1, MatchedType DEF ConditionOf, Conditions
<1>3. IsNode(t[2], [worker[t].node EXCEPT !.conditions[t[1]] = ConditionOf(t, reason)])
  BY <1>1, <1>2, ConditionUpdateType
<1> QED BY <1>3, DoneType, SendType DEF EnsureCondition

\* A condition that is True has a heartbeat.
LEMMA HeartbeatType ==
    ASSUME WorkersOK, NEW t \in Tasks, Reconciling(t), IsTrue(Condition(t))
    PROVE  Condition(t).heartbeat \in Int
<1>1. IsNode(t[2], worker[t].node)
  BY DEF Reconciling, WorkersOK, IsWorker, Idle
<1>2. Condition(t) \in Conditions BY <1>1, TaskParts DEF Condition, IsNode
<1>3. Condition(t) # NoCondition BY DEF IsTrue, NoCondition
<1> QED BY <1>2, <1>3 DEF Conditions

LEMMA ReconcileType ==
    ASSUME TypeOK, NEW t \in Tasks, Reconcile(t)
    PROVE  WorkersOK' /\ FlapsOK' /\ waiting' \in [Tasks -> Int]
<1> USE DEF TypeOK
<1>1. worker[t].pc = "reconcile"
  BY DEF Reconcile, Unmatched, Confirm, Initialize, StartOver, HandleDrift, AwaitCooldown,
         BeginPending, ApplyValues, Unapplied, Reconciling
<1>2. /\ IsFlapState(flaps[t])
      /\ waiting \in [Tasks -> Int]
      /\ clock \in Nat
  BY DEF FlapsOK, QueueOK, BoundsOK
<1>3. \A s : IsFlapState(s) /\ flaps' = [flaps EXCEPT ![t] = s] => FlapsOK'
  BY DEF FlapsOK
<1>4. UNCHANGED flaps => FlapsOK' BY DEF FlapsOK
<1>5. CASE Unmatched(t)
  BY <1>1, <1>2, <1>3, <1>5, ZeroFlapStateType, EnsureConditionType DEF Unmatched
<1>6. CASE Confirm(t)
  BY <1>1, <1>2, <1>4, <1>6, EnsureConditionType DEF Confirm
<1>7. CASE StartOver(t)
  BY <1>1, <1>2, <1>3, <1>7, ZeroFlapStateType, EnsureConditionType DEF StartOver
<1>8. CASE HandleDrift(t)
  <2>1. Condition(t).heartbeat \in Int
    BY <1>8, HeartbeatType DEF HandleDrift, Unapplied
  <2> DEFINE at == Condition(t).heartbeat
             wait == Flap!DriftedWait(flaps[t], at, clock)
  <2>2. IsFlapState(Flap!Drifted(flaps[t], at, clock)) /\ clock + wait \in Int
    BY <1>2, <2>1, DriftedType
  <2>3. flaps' = [flaps EXCEPT ![t] = Flap!Drifted(flaps[t], at, clock)]
    BY <1>8 DEF HandleDrift, FlapsOK
  <2>4. FlapsOK' BY <1>3, <2>2, <2>3
  <2>5. \/ SendValues(t) /\ UNCHANGED waiting
        \/ Schedule(t, clock + wait) /\ EnsureCondition(t, "Drifted")
    BY <1>8 DEF HandleDrift
  <2> HIDE DEF at, wait
  <2> QED BY <1>1, <1>2, <2>2, <2>4, <2>5, SendValuesType, ScheduleType,
             EnsureConditionType
<1>9. CASE AwaitCooldown(t)
  <2>1. clock + Flap!Remaining(flaps[t], clock) \in Int BY <1>2, RemainingType
  <2>2. /\ Schedule(t, clock + Flap!Remaining(flaps[t], clock))
        /\ Done(t)
        /\ UNCHANGED flaps
    BY <1>9 DEF AwaitCooldown
  <2> QED BY <1>2, <1>4, <2>1, <2>2, ScheduleType, DoneType
<1>10. CASE BeginPending(t)
  BY <1>1, <1>2, <1>4, <1>10, EnsureConditionType DEF BeginPending
<1>11. CASE ApplyValues(t)
  BY <1>1, <1>2, <1>4, <1>11, SendValuesType DEF ApplyValues
<1>12. CASE Initialize(t)
  <2>1. Done(t) \/ Send(t, "initialize", Initialized(worker[t].node, Wanted(t)))
    BY <1>12 DEF Initialize
  <2>2. IsNode(t[2], worker[t].node) BY <1>1 DEF WorkersOK, IsWorker, Idle
  <2>3. IsNode(t[2], Initialized(worker[t].node, Wanted(t)))
    BY <2>2, InitializedType
  <2>4. WorkersOK' BY <1>1, <2>1, <2>3, DoneType, SendType
  <2> QED BY <1>2, <1>4, <1>12, <2>4 DEF Initialize
<1> QED BY <1>5, <1>6, <1>7, <1>8, <1>9, <1>10, <1>11, <1>12 DEF Reconcile

LEMMA WriteType ==
    ASSUME TypeOK, NEW t \in Tasks, Write(t)
    PROVE  TypeOK'
<1> USE DEF TypeOK
<1>1. /\ worker[t].pc = "write"
      /\ UNCHANGED <<rules, cache, notes, dirty, flaps, clock>>
  BY DEF Write, WriteSucceeds, WriteConflicts, WriteFails, Writing
<1>2. /\ worker[t].kind \in {"values", "condition", "initialize"}
      /\ IsNode(t[2], worker[t].updated)
      /\ t[2] \in Nodes
  BY <1>1, TaskParts DEF WorkersOK, IsWorker, Idle
<1>3. RulesOK' /\ CacheOK' /\ FlapsOK'
  BY <1>1 DEF RulesOK, CacheOK, FlapsOK, rules
<1>4. BoundsOK'
  <2>1. left' \in [Bounds -> Nat]
    BY DEF Write, WriteSucceeds, WriteConflicts, WriteFails, Spend, BoundsOK, Bounds
  <2> QED BY <1>1, <2>1 DEF BoundsOK
<1>5. ServerOK'
  <2>1. Store(t[2], worker[t].updated) \/ UNCHANGED server
    BY DEF Write, WriteSucceeds, WriteConflicts, WriteFails
  <2>2. CASE Store(t[2], worker[t].updated)
    BY <1>2, <2>2, StoreType DEF IsVersion
  <2>3. CASE UNCHANGED server
    BY <2>3 DEF ServerOK, server
  <2> QED BY <2>1, <2>2, <2>3
<1>6. QueueOK'
  <2>1. waiting' \in [Tasks -> Int]
    <3>1. clock \in Int /\ waiting \in [Tasks -> Int] BY DEF BoundsOK, QueueOK
    <3> QED BY <3>1, ScheduleType
            DEF Write, WriteSucceeds, WriteConflicts, WriteFails
  <2> QED BY <1>1, <2>1 DEF QueueOK
<1>7. WorkersOK'
  <2>1. CASE Done(t) BY <2>1, DoneType
  <2>2. CASE worker' = [worker EXCEPT ![t] =
                          [pc |-> "record", desired |-> worker[t].desired]]
    BY <2>2 DEF WorkersOK, IsWorker
  <2> QED BY <2>1, <2>2 DEF Write, WriteSucceeds, WriteConflicts, WriteFails
<1> QED BY <1>3, <1>4, <1>5, <1>6, <1>7

LEMMA SystemType ==
    ASSUME TypeOK, NEW t \in Tasks, System(t)
    PROVE  TypeOK'
<1> USE DEF TypeOK
<1>1. /\ notes[t] \in Seq({"update", "delete"})
      /\ IsVersion(t[2], cache[t[2]])
      /\ IsFlapState(flaps[t])
      /\ clock \in Nat
  BY TaskParts DEF QueueOK, CacheOK, FlapsOK, BoundsOK
<1>2. \A s : IsFlapState(s) /\ flaps' = [flaps EXCEPT ![t] = s] => FlapsOK'
  BY DEF FlapsOK
<1>3. UNCHANGED flaps => FlapsOK' BY DEF FlapsOK
<1>4. UNCHANGED worker => WorkersOK' BY DEF WorkersOK
<1>5. CASE Handle(t)
  <2>1. QueueOK'
    <3>1. notes' = [notes EXCEPT ![t] = Tail(notes[t])] /\ notes[t] # <<>>
      BY <1>5 DEF Handle
    <3>2. Tail(notes[t]) \in Seq({"update", "delete"}) BY <1>1, <3>1, HeadTailProperties
    <3> QED BY <1>5, <3>1, <3>2 DEF Handle, QueueOK
  <2>2. FlapsOK' BY <1>2, <1>3, <1>5, ZeroFlapStateType DEF Handle
  <2> QED BY <1>4, <1>5, <2>1, <2>2
          DEF Handle, ServerOK, RulesOK, CacheOK, BoundsOK, server, rules
<1>6. CASE Start(t)
  <2>1. QueueOK' BY <1>6 DEF Start, QueueOK
  <2>2. FlapsOK' BY <1>2, <1>3, <1>6, ZeroFlapStateType DEF Start
  <2>3. WorkersOK'
    <3>1. CASE UNCHANGED worker BY <1>4, <3>1
    <3>2. CASE ~UNCHANGED worker
      <4> DEFINE w == [pc |-> "reconcile", node |-> cache[t[2]]]
      <4>1. cache[t[2]] # Gone /\ worker' = [worker EXCEPT ![t] = w]
        BY <1>6, <3>2 DEF Start
      <4>2. IsWorker(t[2], w) BY <1>1, <4>1 DEF IsWorker, IsVersion
      <4> HIDE DEF w
      <4> QED BY <4>1, <4>2 DEF WorkersOK
    <3> QED BY <3>1, <3>2
  <2> QED BY <1>6, <2>1, <2>2, <2>3
          DEF Start, ServerOK, RulesOK, CacheOK, BoundsOK, server, rules
<1>7. CASE Reconcile(t)
  <2>1. UNCHANGED <<server, rules, cache, notes, dirty, clock, left>>
    BY <1>7 DEF Reconcile, Unmatched, Confirm, Initialize, StartOver, HandleDrift, AwaitCooldown,
                BeginPending, ApplyValues, Unapplied, Reconciling
  <2> QED BY <1>7, <2>1, ReconcileType
          DEF ServerOK, RulesOK, CacheOK, QueueOK, BoundsOK, server, rules
<1>8. CASE Write(t) BY <1>8, WriteType
<1>9. CASE Record(t)
  <2>1. IsFlapState(Flap!Applied(flaps[t], Fingerprint(t[1], worker[t].desired), clock))
    BY <1>1, AppliedType
  <2>2. FlapsOK' BY <1>2, <1>9, <2>1 DEF Record
  <2>3. WorkersOK' BY <1>9, DoneType DEF Record
  <2> QED BY <1>9, <2>2, <2>3
          DEF Record, ServerOK, RulesOK, CacheOK, QueueOK, BoundsOK, server, rules, queue
<1>10. CASE Wake(t)
  <2>1. QueueOK' BY <1>10 DEF Wake, QueueOK, Never
  <2> QED BY <1>3, <1>4, <1>10, <2>1
          DEF Wake, ServerOK, RulesOK, CacheOK, BoundsOK, server, rules
<1> QED BY <1>5, <1>6, <1>7, <1>8, <1>9, <1>10 DEF System

-------------------------------------------------------------------------------
(***************************************************************************)
(* Type correctness.                                                       *)
(***************************************************************************)
LEMMA SingleElement == \A S : <<>> \in Seq(S) /\ \A x \in S : <<x>> \in Seq(S)
OBVIOUS

\* A process that starts, after a crash or because it is elected.
LEMMA FreshType ==
    ASSUME ServerOK, RulesOK, BoundsOK', UNCHANGED <<api, revision, configMap>>, Fresh
    PROVE  TypeOK'
<1>1. ServerOK'
  <2>1. \A n \in Nodes : watch'[n] = <<>> BY DEF Fresh
  <2> QED BY <2>1, NoElements DEF ServerOK, Fresh
<1>2. RulesOK'
  <2>1. configWatch' \in Seq(Configs \cup {Missing, Invalid})
    <3>1. configWatch' = <<>> \/ configWatch' = <<configMap>> BY DEF Fresh, FirstSeen
    <3>2. configMap \in Configs \cup {Missing, Invalid} BY DEF RulesOK
    <3> QED BY <3>1, <3>2, SingleElement
  <2> QED BY <2>1 DEF RulesOK, Fresh, Rulesets
<1>3. CacheOK' BY DEF ServerOK, CacheOK, Fresh
<1>4. QueueOK'
  <2>1. <<>> \in Seq({"update", "delete"}) /\ <<"update">> \in Seq({"update", "delete"})
    OBVIOUS
  <2>2. notes' \in [Tasks -> Seq({"update", "delete"})] BY <2>1 DEF Fresh
  <2> QED BY <2>2 DEF QueueOK, Fresh, Never
<1>5. WorkersOK' BY DEF WorkersOK, Fresh, IsWorker
<1>6. FlapsOK' BY ZeroFlapStateType DEF FlapsOK, Fresh
<1> QED BY <1>1, <1>2, <1>3, <1>4, <1>5, <1>6 DEF TypeOK

LEMMA TypeInit == Init => TypeOK
<1> SUFFICES ASSUME Init PROVE TypeOK
  OBVIOUS
<1>1. PICK content \in [Nodes -> Contents] :
        api = [n \in Nodes |-> NewNode(n, content[n], 0)]
  BY DEF Init
<1>2. \A n \in Nodes : IsVersion(n, api[n]) BY <1>1, NewNodeType DEF IsVersion
<1>3. ServerOK
  <2>1. \A n \in Nodes : watch[n] = <<>> BY DEF Init
  <2> QED BY <1>1, <1>2, <2>1, NoElements DEF ServerOK, Init
<1>4. RulesOK
  <2>1. configWatch \in Seq(Configs \cup {Missing, Invalid})
    <3>1. configWatch = <<>> \/ configWatch = <<configMap>> BY DEF Init, FirstSeen
    <3>2. configMap \in Configs \cup {Missing, Invalid} BY DEF Init
    <3> QED BY <3>1, <3>2, SingleElement
  <2> QED BY <2>1 DEF RulesOK, Init, Rulesets
<1>5. CacheOK BY <1>1, <1>2 DEF CacheOK, Init
<1>6. QueueOK
  <2>1. <<"update">> \in Seq({"update", "delete"}) OBVIOUS
  <2> QED BY <2>1 DEF QueueOK, Init, Never
<1>7. WorkersOK BY DEF WorkersOK, Init, IsWorker
<1>8. FlapsOK BY ZeroFlapStateType DEF FlapsOK, Init
<1>9. BoundsOK BY RuleControllerAssumption DEF BoundsOK, Init
<1> QED BY <1>3, <1>4, <1>5, <1>6, <1>7, <1>8, <1>9 DEF TypeOK

LEMMA TypeStep == TypeOK /\ [Next]_vars => TypeOK'
<1> SUFFICES ASSUME TypeOK, [Next]_vars PROVE TypeOK'
  OBVIOUS
<1> USE DEF TypeOK
<1>1. ASSUME NEW t \in Tasks, System(t) PROVE TypeOK' BY <1>1, SystemType
<1>2. ASSUME NEW n \in Nodes, Deliver(n) PROVE TypeOK'
  <2>1. /\ watch[n] # <<>>
        /\ watch[n] \in Seq(ToSet(watch[n]))
        /\ \A o \in ToSet(watch[n]) : IsVersion(n, o)
    BY <1>2 DEF ServerOK, Deliver
  <2>2. /\ IsVersion(n, Head(watch[n]))
        /\ Tail(watch[n]) \in Seq(ToSet(Tail(watch[n])))
        /\ \A o \in ToSet(Tail(watch[n])) : IsVersion(n, o)
    BY <2>1, TailElements
  <2>3. watch' = [watch EXCEPT ![n] = Tail(watch[n])] BY <1>2 DEF Deliver, ServerOK
  <2>4. ServerOK'
    <3>1. \A m \in Nodes : watch'[m] = IF m = n THEN Tail(watch[n]) ELSE watch[m]
      BY <2>3 DEF ServerOK
    <3> QED BY <1>2, <2>2, <2>3, <3>1 DEF ServerOK, Deliver
  <2>5. CacheOK' BY <1>2, <2>2 DEF CacheOK, Deliver
  <2>6. QueueOK' BY <1>2, NotifyType DEF Deliver
  <2> QED BY <1>2, <2>4, <2>5, <2>6
          DEF Deliver, RulesOK, WorkersOK, FlapsOK, BoundsOK, rules
<1>3. ASSUME NEW n \in Nodes, Relist(n) PROVE TypeOK'
  <2>1. ServerOK'
    <3>1. \A m \in Nodes : watch'[m] = IF m = n THEN <<>> ELSE watch[m]
      BY <1>3 DEF Relist, ServerOK
    <3> QED BY <1>3, <3>1, NoElements DEF ServerOK, Relist
  <2>2. CacheOK' BY <1>3 DEF CacheOK, ServerOK, Relist
  <2>3. QueueOK' BY <1>3, NotifyType DEF Relist
  <2>4. BoundsOK' BY <1>3 DEF Relist, BoundsOK, Spend, Bounds
  <2> QED BY <1>3, <2>1, <2>2, <2>3, <2>4
          DEF Relist, RulesOK, WorkersOK, FlapsOK, rules
<1>4. ASSUME NEW n \in Nodes, Resync(n) PROVE TypeOK'
  <2>1. QueueOK' BY <1>4, NotifyType DEF Resync
  <2>2. BoundsOK' BY <1>4 DEF Resync, BoundsOK, Spend, Bounds
  <2> QED BY <1>4, <2>1, <2>2
          DEF Resync, ServerOK, CacheOK, RulesOK, WorkersOK, FlapsOK, rules, server
<1>5. CASE LoadConfig
  <2>1. RulesOK'
    <3>1. /\ configWatch \in Seq(Configs \cup {Missing, Invalid})
          /\ configWatch # <<>>
      BY <1>5 DEF LoadConfig, RulesOK
    <3>2. /\ Head(configWatch) \in Configs \cup {Missing, Invalid}
          /\ Tail(configWatch) \in Seq(Configs \cup {Missing, Invalid})
      BY <3>1, HeadTailProperties
    <3> QED BY <1>5, <3>2 DEF LoadConfig, RulesOK, Rulesets
  <2> QED BY <1>5, <2>1
          DEF LoadConfig, ServerOK, CacheOK, QueueOK, WorkersOK, FlapsOK, BoundsOK,
              server, queue
<1>6. ASSUME NEW d \in Domains, EnqueueAll(d) PROVE TypeOK'
  BY <1>6
  DEF EnqueueAll, ServerOK, RulesOK, CacheOK, QueueOK, WorkersOK, FlapsOK, BoundsOK, server
<1>7. ASSUME NEW n \in Nodes, NEW o, IsVersion(n, o), Store(n, o),
             NEW budget \in {"writes", "lifecycles"}, Spend(budget),
             UNCHANGED <<rules, cache, notes, queue, worker, flaps, clock>>
      PROVE  TypeOK'
  <2>1. ServerOK' BY <1>7, StoreType
  <2>2. BoundsOK' BY <1>7 DEF BoundsOK, Spend, Bounds
  <2> QED BY <1>7, <2>1, <2>2
          DEF CacheOK, RulesOK, QueueOK, WorkersOK, FlapsOK, rules, queue
<1>8. ASSUME NEW n \in Nodes, ForeignWrite(n) PROVE TypeOK'
  <2>1. PICK f, v : Store(n, [api[n] EXCEPT !.fields[f] = v])
    BY <1>8 DEF ForeignWrite
  <2>2. IsNode(n, api[n]) BY <1>8 DEF ForeignWrite, ServerOK, IsVersion
  <2>3. IsVersion(n, [api[n] EXCEPT !.fields[f] = v])
    BY <2>2, FieldUpdateType DEF IsVersion
  <2>4. Spend("writes") /\ UNCHANGED <<rules, cache, notes, queue, worker, flaps, clock>>
    BY <1>8 DEF ForeignWrite
  <2> QED BY <1>7, <2>1, <2>3, <2>4
<1>9. ASSUME NEW n \in Nodes, DeleteNode(n) PROVE TypeOK'
  <2>1. /\ Store(n, Gone)
        /\ Spend("lifecycles")
        /\ UNCHANGED <<rules, cache, notes, queue, worker, flaps, clock>>
    BY <1>9 DEF DeleteNode
  <2> QED BY <1>7, <2>1 DEF IsVersion
<1>10. ASSUME NEW n \in Nodes, CreateNode(n) PROVE TypeOK'
  <2>1. PICK c \in Contents : Store(n, NewNode(n, c, 0)) BY <1>10 DEF CreateNode
  <2>2. IsVersion(n, NewNode(n, c, 0)) BY NewNodeType DEF IsVersion
  <2>3. Spend("lifecycles") /\ UNCHANGED <<rules, cache, notes, queue, worker, flaps, clock>>
    BY <1>10 DEF CreateNode
  <2> QED BY <1>7, <2>1, <2>2, <2>3
<1>11. CASE EditConfigMap
  <2>1. RulesOK'
    <3>1. PICK c \in Configs \cup {Missing, Invalid} :
            configMap' = c /\ configWatch' = Append(configWatch, c)
      BY <1>11 DEF EditConfigMap
    <3>2. configWatch' \in Seq(Configs \cup {Missing, Invalid})
      BY <3>1, AppendProperties DEF RulesOK
    <3> QED BY <1>11, <3>1, <3>2 DEF EditConfigMap, RulesOK
  <2>2. BoundsOK' BY <1>11 DEF EditConfigMap, BoundsOK, Spend, Bounds
  <2> QED BY <1>11, <2>1, <2>2
          DEF EditConfigMap, ServerOK, CacheOK, QueueOK, WorkersOK, FlapsOK, server, queue
<1>15. CASE ResyncConfig
  <2>1. RulesOK'
    <3>1. configMap \in Configs \cup {Missing, Invalid} BY DEF RulesOK
    <3>2. configWatch' \in Seq(Configs \cup {Missing, Invalid})
      BY <1>15, <3>1, SingleElement DEF ResyncConfig
    <3> QED BY <1>15, <3>2 DEF ResyncConfig, RulesOK
  <2>2. BoundsOK' BY <1>15 DEF ResyncConfig, BoundsOK, Spend, Bounds
  <2> QED BY <1>15, <2>1, <2>2
          DEF ResyncConfig, ServerOK, CacheOK, QueueOK, WorkersOK, FlapsOK, server, queue
<1>12. CASE Crash
  <2>1. BoundsOK' BY <1>12 DEF Crash, BoundsOK, Spend, Bounds
  <2> QED BY <1>12, <2>1, FreshType DEF Crash
<1>13. CASE Tick
  <2>1. BoundsOK' BY <1>13 DEF Tick, BoundsOK
  <2> QED BY <1>13, <2>1
          DEF Tick, ServerOK, RulesOK, CacheOK, QueueOK, WorkersOK, FlapsOK,
              server, rules, queue
<1>14. CASE UNCHANGED vars
  BY <1>14 DEF vars, ServerOK, RulesOK, CacheOK, QueueOK, WorkersOK, FlapsOK, BoundsOK,
               server, rules, queue
<1> QED BY <1>1, <1>2, <1>3, <1>4, <1>5, <1>6, <1>8, <1>9, <1>10, <1>11, <1>12, <1>13,
           <1>14, <1>15 DEF Next

\* The controllers' state keeps its shape: what the informers deliver, the
\* workers hold and the API server stores are Nodes of the right name, every
\* condition names configured rules, and every wait handed to AddAfter is a
\* time (drift.go:151-186, conditions.go:26-59, controller.go:46-69).
THEOREM TypeCorrect == Spec => []TypeOK
BY TypeInit, TypeStep, PTL DEF Spec

-------------------------------------------------------------------------------
(***************************************************************************)
(* Versions.  A stored Node gets a resourceVersion no copy has yet, and    *)
(* every other step only hands on copies there are, or the server's Node.  *)
(***************************************************************************)
LEMMA CopyMeans ==
    ASSUME NEW n, NEW o
    PROVE  o \in Copies(n) <=>
             \/ o = cache[n]
             \/ o \in ToSet(watch[n])
             \/ \E t \in Tasks : /\ t[2] = n
                                /\ worker[t].pc \in {"reconcile", "write"}
                                /\ o = worker[t].node
BY DEF Copies

LEMMA VersionsKept ==
    ASSUME VersionsIdentify, UNCHANGED <<api, revision>>,
           \A n \in Nodes : \A o \in Copies(n)' : o \in Copies(n) \/ o = api[n]
    PROVE  VersionsIdentify'
BY DEF VersionsIdentify

\* The API server has o as Node n's next version, whoever sees it.
Replaces(n, o) ==
    /\ revision' = revision + 1
    /\ api' = [api EXCEPT ![n] = o]
    /\ o # Gone => o.rv = revision + 1

LEMMA StoreReplaces ==
    ASSUME ServerOK, NEW n \in Nodes, NEW node, IsVersion(n, node), Store(n, node)
    PROVE  Replaces(n, api'[n])
<1> DEFINE stored == IF node = Gone THEN Gone ELSE [node EXCEPT !.rv = revision + 1]
<1>1. revision' = revision + 1 /\ api' = [api EXCEPT ![n] = stored]
  BY DEF Store
<1>2. stored # Gone => stored.rv = revision + 1
  BY DEF IsVersion, IsNode
<1> HIDE DEF stored
<1>3. api'[n] = stored BY <1>1 DEF ServerOK
<1> QED BY <1>1, <1>2, <1>3 DEF Replaces

LEMMA VersionsStored ==
    ASSUME TypeOK, VersionsIdentify,
           NEW n \in Nodes, NEW stored, Replaces(n, stored),
           \A m \in Nodes : \A o \in Copies(m)' :
                o \in Copies(m) \/ (m = n /\ o = api'[n])
    PROVE  VersionsIdentify'
<1>1. /\ revision \in Nat
      /\ revision' = revision + 1
      /\ api'[n] # Gone => api'[n].rv = revision + 1
      /\ \A m \in Nodes \ {n} : api'[m] = api[m]
  BY DEF Replaces, TypeOK, ServerOK
<1>2. ASSUME NEW m \in Nodes, NEW o \in Copies(m)
      PROVE  o # Gone => o.rv \in Nat /\ o.rv <= revision
  <2>1. IsVersion(m, o)
    <3>1. ASSUME NEW t \in Tasks, t[2] = m, worker[t].pc \in {"reconcile", "write"}
          PROVE  IsNode(m, worker[t].node)
      BY <3>1 DEF TypeOK, WorkersOK, IsWorker, Idle
    <3>2. \/ o = cache[m]
          \/ o \in ToSet(watch[m])
          \/ \E t \in Tasks : /\ t[2] = m
                             /\ worker[t].pc \in {"reconcile", "write"}
                             /\ o = worker[t].node
      BY CopyMeans
    <3>3. CASE o = cache[m] BY <3>3 DEF TypeOK, CacheOK
    <3>4. CASE o \in ToSet(watch[m]) BY <3>4 DEF TypeOK, ServerOK
    <3> QED BY <3>1, <3>2, <3>3, <3>4 DEF IsVersion
  <2> QED BY <2>1 DEF VersionsIdentify, IsVersion, IsNode
<1>3. ASSUME NEW m \in Nodes
      PROVE  /\ api'[m] # Gone => api'[m].rv <= revision'
             /\ \A o \in Copies(m)' \ {Gone} :
                  /\ o.rv <= revision'
                  /\ api'[m] # Gone /\ api'[m].rv = o.rv => api'[m] = o
  <2>1. CASE m = n
    <3>1. api'[m] # Gone => api'[m].rv <= revision' BY <1>1, <2>1
    <3>2. ASSUME NEW o \in Copies(m)', o # Gone
          PROVE  /\ o.rv <= revision'
                 /\ api'[m] # Gone /\ api'[m].rv = o.rv => api'[m] = o
      <4>1. CASE o = api'[n] BY <1>1, <2>1, <3>2, <4>1
      <4>2. CASE o \in Copies(m)
        <5>1. o.rv \in Nat /\ o.rv <= revision BY <1>2, <3>2, <4>2
        <5> QED BY <1>1, <2>1, <5>1
      <4> QED BY <3>2, <4>1, <4>2
    <3> QED BY <3>1, <3>2
  <2>2. CASE m # n
    <3>1. api'[m] = api[m] BY <1>1, <2>2
    <3>2. api[m] # Gone => api[m].rv \in Nat
      BY DEF TypeOK, ServerOK, IsVersion, IsNode
    <3>3. api'[m] # Gone => api'[m].rv <= revision'
      BY <1>1, <3>1, <3>2 DEF VersionsIdentify
    <3>4. ASSUME NEW o \in Copies(m)', o # Gone
          PROVE  /\ o.rv <= revision'
                 /\ api'[m] # Gone /\ api'[m].rv = o.rv => api'[m] = o
      <4>1. o \in Copies(m) BY <2>2, <3>4
      <4>2. o.rv \in Nat /\ o.rv <= revision BY <1>2, <3>4, <4>1
      <4> QED BY <1>1, <3>1, <3>4, <4>1, <4>2 DEF VersionsIdentify
    <3> QED BY <3>3, <3>4
  <2> QED BY <2>1, <2>2
<1> QED BY <1>3 DEF VersionsIdentify

\* The copies a step of one task's worker leaves.
LEMMA WorkerCopies ==
    ASSUME UNCHANGED cache, NEW t \in Tasks, NEW w,
           worker = [u \in Tasks |-> worker[u]],
           worker' = [worker EXCEPT ![t] = w],
           w.pc \in {"reconcile", "write"} =>
                \/ w.node = cache[t[2]]
                \/ worker[t].pc \in {"reconcile", "write"} /\ w.node = worker[t].node
    PROVE  \A n \in Nodes : \A o \in Copies(n)' :
                o \in Copies(n) \/ o \in ToSet(watch'[n])
<1> SUFFICES ASSUME NEW n \in Nodes, NEW o \in Copies(n)'
             PROVE  o \in Copies(n) \/ o \in ToSet(watch'[n])
  OBVIOUS
<1>1. CASE o = cache'[n]
  BY <1>1, CopyMeans
<1>2. ASSUME NEW u \in Tasks, u[2] = n, worker'[u].pc \in {"reconcile", "write"},
             o = worker'[u].node
      PROVE  o \in Copies(n)
  <2>1. CASE u = t
    <3>1. worker'[u] = w BY <2>1
    <3> QED BY <1>2, <2>1, <3>1, CopyMeans
  <2>2. CASE u # t
    <3>1. worker'[u] = worker[u] BY <2>2
    <3> QED BY <1>2, <3>1, CopyMeans
  <2> QED BY <2>1, <2>2
<1>3. \/ o = cache'[n] \/ o \in ToSet(watch'[n])
      \/ \E u \in Tasks : /\ u[2] = n
                         /\ worker'[u].pc \in {"reconcile", "write"}
                         /\ o = worker'[u].node
  BY DEF Copies
<1> QED BY <1>1, <1>2, <1>3

LEMMA DoneCopies ==
    ASSUME WorkersOK, UNCHANGED cache, NEW t \in Tasks, Done(t)
    PROVE  \A n \in Nodes : \A o \in Copies(n)' :
                o \in Copies(n) \/ o \in ToSet(watch'[n])
<1>1. Idle.pc \notin {"reconcile", "write"} BY DEF Idle
<1> QED BY <1>1, WorkerCopies DEF Done, WorkersOK

LEMMA WatchedCopies ==
    ASSUME UNCHANGED watch,
           \A n \in Nodes : \A o \in Copies(n)' :
                o \in Copies(n) \/ o \in ToSet(watch'[n])
    PROVE  \A n \in Nodes : \A o \in Copies(n)' : o \in Copies(n)
BY CopyMeans

LEMMA StoreWatch ==
    ASSUME ServerOK, NEW n \in Nodes, NEW node, Store(n, node)
    PROVE  \A m \in Nodes : \A o \in ToSet(watch'[m]) :
                o \in ToSet(watch[m]) \/ (m = n /\ o = api'[n])
<1> DEFINE stored == IF node = Gone THEN Gone ELSE [node EXCEPT !.rv = revision + 1]
<1>1. /\ api'[n] = stored
      /\ \A m \in Nodes : watch'[m] = IF m = n THEN Append(watch[n], stored) ELSE watch[m]
  BY DEF Store, ServerOK
<1> HIDE DEF stored
<1>2. ToSet(Append(watch[n], stored)) = ToSet(watch[n]) \cup {stored}
  <2>1. watch[n] \in Seq(ToSet(watch[n])) BY DEF ServerOK
  <2> QED BY <2>1, AppendElements
<1> QED BY <1>1, <1>2

LEMMA ReconcileCopies ==
    ASSUME TypeOK, NEW t \in Tasks, Reconcile(t)
    PROVE  /\ UNCHANGED <<api, revision>>
           /\ \A n \in Nodes : \A o \in Copies(n)' : o \in Copies(n)
<1>1. /\ worker[t].pc = "reconcile"
      /\ UNCHANGED <<api, revision, watch, cache>>
  BY DEF Reconcile, Unmatched, Confirm, Initialize, StartOver, HandleDrift, AwaitCooldown,
         BeginPending, ApplyValues, Unapplied, Reconciling, server
<1>2. WorkersOK BY DEF TypeOK
<1>3. Done(t) \/ \E kind, o : Send(t, kind, o)
  BY DEF Reconcile, Unmatched, Confirm, Initialize, StartOver, HandleDrift, AwaitCooldown,
         BeginPending, ApplyValues, EnsureCondition, SendValues
<1>4. CASE Done(t) BY <1>1, <1>2, <1>4, DoneCopies, WatchedCopies
<1>5. ASSUME NEW kind, NEW o, Send(t, kind, o)
      PROVE  \A n \in Nodes : \A c \in Copies(n)' : c \in Copies(n)
  <2> DEFINE w == [pc |-> "write", kind |-> kind, node |-> worker[t].node,
                   updated |-> o, desired |-> Wanted(t)]
  <2>1. worker' = [worker EXCEPT ![t] = w] BY <1>5 DEF Send
  <2>2. w.node = worker[t].node OBVIOUS
  <2> HIDE DEF w
  <2>3. \A n \in Nodes : \A c \in Copies(n)' : c \in Copies(n) \/ c \in ToSet(watch'[n])
    BY <1>1, <1>2, <2>1, <2>2, WorkerCopies DEF WorkersOK
  <2> QED BY <1>1, <2>3, WatchedCopies
<1> QED BY <1>1, <1>3, <1>4, <1>5

LEMMA WriteVersions ==
    ASSUME TypeOK, VersionsIdentify, NEW t \in Tasks, Write(t)
    PROVE  VersionsIdentify'
<1>1. /\ worker[t].pc = "write"
      /\ UNCHANGED cache
      /\ WorkersOK
      /\ ServerOK
      /\ t[2] \in Nodes
  BY TaskParts
  DEF Write, WriteSucceeds, WriteConflicts, WriteFails, Writing, TypeOK
<1>2. IsVersion(t[2], worker[t].updated)
  BY <1>1 DEF WorkersOK, IsWorker, Idle, IsVersion
<1>3. \A n \in Nodes : \A o \in Copies(n)' : o \in Copies(n) \/ o \in ToSet(watch'[n])
  <2>1. CASE Done(t) BY <1>1, <2>1, DoneCopies
  <2>2. CASE worker' = [worker EXCEPT ![t] =
                            [pc |-> "record", desired |-> worker[t].desired]]
    <3> DEFINE w == [pc |-> "record", desired |-> worker[t].desired]
    <3>1. w.pc \notin {"reconcile", "write"} /\ worker' = [worker EXCEPT ![t] = w]
      BY <2>2
    <3> HIDE DEF w
    <3> QED BY <1>1, <3>1, WorkerCopies DEF WorkersOK
  <2> QED BY <2>1, <2>2 DEF Write, WriteSucceeds, WriteConflicts, WriteFails
<1>4. Store(t[2], worker[t].updated) \/ UNCHANGED server
  BY DEF Write, WriteSucceeds, WriteConflicts, WriteFails
<1>5. CASE Store(t[2], worker[t].updated)
  <2>1. \A m \in Nodes : \A o \in Copies(m)' :
            o \in Copies(m) \/ (m = t[2] /\ o = api'[t[2]])
    BY <1>1, <1>3, <1>5, StoreWatch, CopyMeans
  <2> QED BY <1>1, <1>2, <1>5, <2>1, StoreReplaces, VersionsStored
<1>6. CASE UNCHANGED server
  BY <1>3, <1>6, WatchedCopies, VersionsKept DEF server
<1> QED BY <1>4, <1>5, <1>6

LEMMA SystemVersions ==
    ASSUME TypeOK, VersionsIdentify, NEW t \in Tasks, System(t)
    PROVE  VersionsIdentify'
<1>1. CASE Handle(t) \/ Wake(t)
  <2>1. UNCHANGED <<api, revision, cache, watch, worker>>
    BY <1>1 DEF Handle, Wake, server
  <2>2. \A n \in Nodes : Copies(n)' = Copies(n) BY <2>1 DEF Copies
  <2> QED BY <2>1, <2>2, VersionsKept
<1>2. CASE Start(t)
  <2>1. UNCHANGED <<api, revision, cache, watch>> /\ WorkersOK
    BY <1>2 DEF Start, server, TypeOK
  <2>2. CASE UNCHANGED worker
    <3>1. \A n \in Nodes : Copies(n)' = Copies(n) BY <2>1, <2>2 DEF Copies
    <3> QED BY <2>1, <3>1, VersionsKept
  <2>3. CASE ~UNCHANGED worker
    <3> DEFINE w == [pc |-> "reconcile", node |-> cache[t[2]]]
    <3>1. worker' = [worker EXCEPT ![t] = w] /\ w.node = cache[t[2]]
      BY <1>2, <2>3 DEF Start
    <3> HIDE DEF w
    <3>2. \A n \in Nodes : \A o \in Copies(n)' : o \in Copies(n) \/ o \in ToSet(watch'[n])
      BY <2>1, <3>1, WorkerCopies DEF WorkersOK
    <3> QED BY <2>1, <3>2, WatchedCopies, VersionsKept
  <2> QED BY <2>2, <2>3
<1>3. CASE Reconcile(t) BY <1>3, ReconcileCopies, VersionsKept
<1>4. CASE Write(t) BY <1>4, WriteVersions
<1>5. CASE Record(t)
  <2>1. UNCHANGED <<api, revision, cache, watch>> /\ WorkersOK /\ Done(t)
    BY <1>5 DEF Record, server, TypeOK
  <2> QED BY <2>1, DoneCopies, WatchedCopies, VersionsKept
<1> QED BY <1>1, <1>2, <1>3, <1>4, <1>5 DEF System

LEMMA VersionsInit == Init => VersionsIdentify
<1> SUFFICES ASSUME Init PROVE VersionsIdentify
  OBVIOUS
<1>1. PICK content \in [Nodes -> Contents] :
        api = [n \in Nodes |-> NewNode(n, content[n], 0)]
  BY DEF Init
<1>2. \A n \in Nodes : api[n].rv = 0 BY <1>1 DEF NewNode
<1>3. ASSUME NEW n \in Nodes, NEW o \in Copies(n) PROVE o = api[n]
  <2>1. ToSet(watch[n]) = {} BY NoElements DEF Init
  <2>2. \A t \in Tasks : worker[t].pc \notin {"reconcile", "write"} BY DEF Init, Idle
  <2> QED BY <2>1, <2>2 DEF Copies, Init
<1>4. revision = 0 BY DEF Init
<1> QED BY <1>2, <1>3, <1>4 DEF VersionsIdentify

LEMMA FreshVersions ==
    ASSUME VersionsIdentify, UNCHANGED <<api, revision>>, Fresh
    PROVE  VersionsIdentify'
<1>1. \A n \in Nodes : cache'[n] = api[n] /\ ToSet(watch'[n]) = {}
  BY NoElements DEF Fresh
<1>2. \A t \in Tasks : worker'[t].pc \notin {"reconcile", "write"}
  BY DEF Fresh, Idle
<1>3. \A n \in Nodes : \A o \in Copies(n)' : o = api[n]
  BY <1>1, <1>2 DEF Copies
<1> QED BY <1>3, VersionsKept

LEMMA VersionsStep == TypeOK /\ VersionsIdentify /\ [Next]_vars => VersionsIdentify'
<1> SUFFICES ASSUME TypeOK, VersionsIdentify, [Next]_vars PROVE VersionsIdentify'
  OBVIOUS
<1>1. ASSUME NEW t \in Tasks, System(t) PROVE VersionsIdentify'
  BY <1>1, SystemVersions
<1>2. ASSUME NEW n \in Nodes, Deliver(n) PROVE VersionsIdentify'
  <2>1. /\ watch[n] # <<>>
        /\ watch[n] \in Seq(ToSet(watch[n]))
        /\ cache' = [cache EXCEPT ![n] = Head(watch[n])]
        /\ watch' = [watch EXCEPT ![n] = Tail(watch[n])]
        /\ UNCHANGED <<api, revision, worker>>
    BY <1>2 DEF Deliver, TypeOK, ServerOK
  <2>2. Head(watch[n]) \in ToSet(watch[n]) /\ ToSet(Tail(watch[n])) \subseteq ToSet(watch[n])
    BY <2>1, TailElements
  <2>3. ASSUME NEW m \in Nodes
        PROVE  /\ cache'[m] \in {cache[m]} \cup ToSet(watch[m])
               /\ ToSet(watch'[m]) \subseteq ToSet(watch[m])
    <3>1. CASE m = n BY <2>1, <2>2, <3>1 DEF TypeOK, CacheOK, ServerOK
    <3>2. CASE m # n BY <2>1, <3>2 DEF TypeOK, CacheOK, ServerOK
    <3> QED BY <3>1, <3>2
  <2>4. \A m \in Nodes : \A o \in Copies(m)' : o \in Copies(m)
    BY <2>1, <2>3 DEF Copies
  <2> QED BY <2>1, <2>4, VersionsKept
<1>3. ASSUME NEW n \in Nodes, Relist(n) PROVE VersionsIdentify'
  <2>1. /\ cache' = [cache EXCEPT ![n] = api[n]]
        /\ watch' = [watch EXCEPT ![n] = <<>>]
        /\ UNCHANGED <<api, revision, worker>>
    BY <1>3 DEF Relist
  <2>2. ASSUME NEW m \in Nodes
        PROVE  /\ cache'[m] \in {cache[m], api[m]}
               /\ ToSet(watch'[m]) \subseteq ToSet(watch[m])
    <3>1. CASE m = n BY <2>1, <3>1, NoElements DEF TypeOK, CacheOK, ServerOK
    <3>2. CASE m # n BY <2>1, <3>2 DEF TypeOK, CacheOK, ServerOK
    <3> QED BY <3>1, <3>2
  <2>3. \A m \in Nodes : \A o \in Copies(m)' : o \in Copies(m) \/ o = api[m]
    BY <2>1, <2>2 DEF Copies
  <2> QED BY <2>1, <2>3, VersionsKept
<1>4. CASE Crash BY <1>4, FreshVersions DEF Crash
<1>5. ASSUME NEW n \in Nodes, NEW node, IsVersion(n, node), Store(n, node),
             UNCHANGED <<cache, worker>>
      PROVE  VersionsIdentify'
  <2>1. \A m \in Nodes : \A o \in Copies(m)' : o \in Copies(m) \/ o \in ToSet(watch'[m])
    BY <1>5 DEF Copies
  <2>2. \A m \in Nodes : \A o \in Copies(m)' :
            o \in Copies(m) \/ (m = n /\ o = api'[n])
    BY <1>5, <2>1, StoreWatch, CopyMeans DEF TypeOK
  <2> QED BY <1>5, <2>2, StoreReplaces, VersionsStored DEF TypeOK
<1>6. ASSUME NEW n \in Nodes, ForeignWrite(n) \/ DeleteNode(n) \/ CreateNode(n)
      PROVE  VersionsIdentify'
  <2>1. CASE ForeignWrite(n)
    <3>1. PICK f, v : Store(n, [api[n] EXCEPT !.fields[f] = v])
      BY <2>1 DEF ForeignWrite
    <3>2. IsNode(n, api[n]) BY <2>1 DEF ForeignWrite, TypeOK, ServerOK, IsVersion
    <3>3. IsVersion(n, [api[n] EXCEPT !.fields[f] = v])
      BY <3>2, FieldUpdateType DEF IsVersion
    <3>4. UNCHANGED <<cache, worker>> BY <2>1 DEF ForeignWrite
    <3> QED BY <1>5, <3>1, <3>3, <3>4
  <2>2. CASE DeleteNode(n)
    <3>1. Store(n, Gone) /\ UNCHANGED <<cache, worker>> BY <2>2 DEF DeleteNode
    <3> QED BY <1>5, <3>1 DEF IsVersion
  <2>3. CASE CreateNode(n)
    <3>1. PICK c \in Contents : Store(n, NewNode(n, c, 0)) BY <2>3 DEF CreateNode
    <3>2. IsVersion(n, NewNode(n, c, 0)) BY NewNodeType DEF IsVersion
    <3>3. UNCHANGED <<cache, worker>> BY <2>3 DEF CreateNode
    <3> QED BY <1>5, <3>1, <3>2, <3>3
  <2> QED BY <1>6, <2>1, <2>2, <2>3
<1>7. ASSUME UNCHANGED <<api, revision, cache, watch, worker>> PROVE VersionsIdentify'
  <2>1. \A n \in Nodes : Copies(n)' = Copies(n) BY <1>7 DEF Copies
  <2> QED BY <1>7, <2>1, VersionsKept
<1>8. ASSUME \/ \E n \in Nodes : Resync(n)
             \/ LoadConfig
             \/ ResyncConfig
             \/ \E d \in Domains : EnqueueAll(d)
             \/ EditConfigMap
             \/ Tick
             \/ UNCHANGED vars
      PROVE  VersionsIdentify'
  <2>1. UNCHANGED <<api, revision, cache, watch, worker>>
    BY <1>8 DEF Resync, LoadConfig, ResyncConfig, EnqueueAll, EditConfigMap, Tick, vars, server
  <2> QED BY <1>7, <2>1
<1> QED BY <1>1, <1>2, <1>3, <1>4, <1>6, <1>8 DEF Next

\* The resourceVersion an Update carries tells exactly whether the Node it
\* was made from is still the server's (metadata_controller.go:135-142): for
\* any number of Nodes and controllers, across conflicts, lost answers,
\* relists, deletions, re-creations and restarts.
THEOREM VersionsCorrect == Spec => []VersionsIdentify
BY TypeCorrect, VersionsInit, VersionsStep, PTL DEF Spec

-------------------------------------------------------------------------------
(***************************************************************************)
(* Updates.                                                                *)
(***************************************************************************)
LEMMA SendValuesJustified ==
    ASSUME WorkersOK, NEW t \in Tasks, t[1] # "initialization",
           Unapplied(t), SendValues(t)
    PROVE  \E w : /\ worker' = [worker EXCEPT ![t] = w]
                 /\ Justified(t[1], w)
<1> DEFINE node == worker[t].node
           desired == Wanted(t)
           updated == [node EXCEPT !.fields[t[1]] =
                        WithDesired(t[1], node.fields[t[1]], desired)]
           w == [pc |-> "write", kind |-> "values", node |-> node,
                 updated |-> updated, desired |-> desired]
<1>1. worker' = [worker EXCEPT ![t] = w]
  <2>1. IsNode(t[2], node) BY DEF Unapplied, Reconciling, WorkersOK, IsWorker, Idle
  <2>2. [node EXCEPT !.fields[t[1]] = WithDesired(t[1], @, desired)] = updated
    BY <2>1 DEF IsNode
  <2> QED BY <2>2 DEF SendValues, Send
<1>2. ~InPlace(t[1], node, desired) BY DEF Unapplied
<1>3. /\ w.kind = "values" /\ w.node = node /\ w.desired = desired
      /\ w.updated = updated
  OBVIOUS
<1>4. Justified(t[1], w)
  <2> DEFINE v == w
  <2> SUFFICES Justified(t[1], v) OBVIOUS
  <2>1. /\ t[1] # "initialization" /\ v.kind = "values" /\ ~InPlace(t[1], v.node, v.desired)
        /\ v.updated = [v.node EXCEPT
              !.fields[t[1]] = WithDesired(t[1], v.node.fields[t[1]], v.desired)]
    BY <1>2, <1>3
  <2> HIDE DEF v
  <2> QED BY <2>1 DEF Justified
<1> HIDE DEF w
<1> QED BY <1>1, <1>4

LEMMA EnsureConditionJustified ==
    ASSUME WorkersOK, NEW t \in Tasks, NEW reason \in {"none", "Pending", "Applied", "Drifted"},
           worker[t].pc = "reconcile", t[1] # "initialization",
           reason = "Applied" => InPlace(t[1], worker[t].node, Wanted(t)),
           reason \in {"Pending", "Drifted"} => ~InPlace(t[1], worker[t].node, Wanted(t)),
           EnsureCondition(t, reason)
    PROVE  \/ Done(t)
           \/ \E w : /\ worker' = [worker EXCEPT ![t] = w]
                    /\ Justified(t[1], w)
<1> DEFINE node == worker[t].node
           claim == ConditionOf(t, reason)
           updated == [node EXCEPT !.conditions[t[1]] = claim]
           w == [pc |-> "write", kind |-> "condition", node |-> node,
                 updated |-> updated, desired |-> Wanted(t)]
<1>1. IsNode(t[2], node) BY DEF WorkersOK, IsWorker, Idle
<1>2. updated.conditions[t[1]] = claim BY <1>1, TaskParts DEF IsNode
<1>3. claim.reason = reason BY DEF ConditionOf, NoCondition
<1>4. /\ w.kind = "condition" /\ w.node = node /\ w.desired = Wanted(t)
      /\ w.updated = updated
  OBVIOUS
<1>5. CASE UpToDate(t, reason) BY <1>5 DEF EnsureCondition
<1>6. CASE ~UpToDate(t, reason)
  <2>1. worker' = [worker EXCEPT ![t] = w] BY <1>6 DEF EnsureCondition, Send
  <2>2. claim.reason = Condition(t).reason => reason # "none" /\ claim.ids # Condition(t).ids
    BY <1>3, <1>6 DEF UpToDate, ConditionOf
  <2>3. Justified(t[1], w)
    <3> DEFINE v == w
    <3> SUFFICES Justified(t[1], v) OBVIOUS
    <3>1. v.updated.conditions[t[1]] = claim /\ v.node.conditions[t[1]] = Condition(t)
      BY <1>2, <1>4 DEF Condition
    <3>2. /\ t[1] # "initialization"
          /\ v.kind = "condition"
          /\ reason = "Applied" => InPlace(t[1], v.node, v.desired)
          /\ reason \in {"Pending", "Drifted"} => ~InPlace(t[1], v.node, v.desired)
          /\ v.updated = [v.node EXCEPT !.conditions[t[1]] = v.updated.conditions[t[1]]]
      BY <1>2, <1>4
    <3> HIDE DEF v, claim
    <3> QED BY <1>3, <2>2, <3>1, <3>2 DEF Justified
  <2> HIDE DEF w
  <2> QED BY <2>1, <2>3
<1> QED BY <1>5, <1>6

LEMMA InitializeJustified ==
    ASSUME WorkersOK, NEW t \in Tasks, t[1] = "initialization", Initialize(t)
    PROVE  \/ Done(t)
           \/ \E w : /\ worker' = [worker EXCEPT ![t] = w]
                    /\ Justified(t[1], w)
<1> DEFINE node == worker[t].node
           updated == Initialized(node, Wanted(t))
           w == [pc |-> "write", kind |-> "initialize", node |-> node,
                 updated |-> updated, desired |-> Wanted(t)]
<1>1. CASE Done(t) BY <1>1
<1>2. CASE ~Done(t)
  <2>1. /\ MayInitialize(node, Matched(t), config[t[1]])
        /\ updated # node
        /\ Send(t, "initialize", updated)
    BY <1>2 DEF Initialize
  <2>2. Wanted(t) = Schemes(Matched(t), config[t[1]]) BY DEF Wanted, Desired
  <2>3. node.fields.providerID = NoProviderID => SchemesAgree(Wanted(t))
    BY <2>1, <2>2 DEF MayInitialize
  <2>4. worker' = [worker EXCEPT ![t] = w] BY <2>1 DEF Send
  <2>5. Justified(t[1], w)
    <3> DEFINE v == w
    <3> SUFFICES Justified(t[1], v) OBVIOUS
    <3>1. /\ v.kind = "initialize"
          /\ v.updated = Initialized(v.node, v.desired)
          /\ v.updated # v.node
          /\ v.node.fields.providerID = NoProviderID => SchemesAgree(v.desired)
      BY <2>1, <2>3
    <3> HIDE DEF v
    <3> QED BY <3>1 DEF Justified
  <2> HIDE DEF w
  <2> QED BY <2>4, <2>5
<1> QED BY <1>1, <1>2

LEMMA ReconcileJustified ==
    ASSUME WorkersOK, NEW t \in Tasks, Reconcile(t)
    PROVE  \/ Done(t)
           \/ \E w : /\ worker' = [worker EXCEPT ![t] = w]
                    /\ Justified(t[1], w)
<1>1. worker[t].pc = "reconcile"
  BY DEF Reconcile, Unmatched, Confirm, Initialize, StartOver, HandleDrift, AwaitCooldown,
         BeginPending, ApplyValues, Unapplied, Reconciling
<1>2. CASE t[1] = "initialization"
  BY <1>2, InitializeJustified DEF Reconcile
<1>3. CASE t[1] # "initialization"
  <2>1. CASE Unmatched(t)
    BY <1>1, <1>3, <2>1, EnsureConditionJustified DEF Unmatched
  <2>2. CASE Confirm(t)
    BY <1>1, <1>3, <2>2, EnsureConditionJustified DEF Confirm
  <2>3. CASE StartOver(t) \/ BeginPending(t)
    BY <1>1, <1>3, <2>3, EnsureConditionJustified DEF StartOver, BeginPending, Unapplied
  <2>4. CASE HandleDrift(t)
    <3>1. Unapplied(t) /\ (SendValues(t) \/ EnsureCondition(t, "Drifted"))
      BY <2>4 DEF HandleDrift
    <3> QED BY <1>1, <1>3, <3>1, EnsureConditionJustified, SendValuesJustified
            DEF Unapplied
  <2>5. CASE AwaitCooldown(t) BY <2>5 DEF AwaitCooldown
  <2>6. CASE ApplyValues(t)
    BY <1>3, <2>6, SendValuesJustified DEF ApplyValues
  <2> QED BY <1>3, <2>1, <2>2, <2>3, <2>4, <2>5, <2>6 DEF Reconcile
<1> QED BY <1>2, <1>3

\* What a step does to a task's worker.
LEMMA WorkerStep ==
    ASSUME TypeOK, [Next]_vars, NEW t \in Tasks
    PROVE  \/ worker'[t] = worker[t]
           \/ Crash /\ worker'[t] = Idle /\ UNCHANGED api
           \/ System(t)
<1> USE DEF TypeOK
<1>1. ASSUME NEW u \in Tasks, System(u), u # t PROVE worker'[t] = worker[t]
  <2>1. UNCHANGED worker \/ \E w : worker' = [worker EXCEPT ![u] = w]
    BY <1>1
    DEF System, Handle, Start, Reconcile, Unmatched, Confirm, Initialize, StartOver, HandleDrift,
        AwaitCooldown, BeginPending, ApplyValues, EnsureCondition, SendValues, Send,
        Done, Write, WriteSucceeds, WriteConflicts, WriteFails, Record, Wake
  <2> QED BY <1>1, <2>1 DEF WorkersOK
<1>2. CASE \E n \in Nodes : \/ Deliver(n) \/ Relist(n) \/ Resync(n)
                            \/ ForeignWrite(n) \/ DeleteNode(n) \/ CreateNode(n)
  BY <1>2 DEF Deliver, Relist, Resync, ForeignWrite, DeleteNode, CreateNode
<1>3. CASE \/ LoadConfig \/ ResyncConfig \/ \E d \in Domains : EnqueueAll(d)
           \/ EditConfigMap \/ Tick \/ UNCHANGED vars
  BY <1>3 DEF LoadConfig, ResyncConfig, EnqueueAll, EditConfigMap, Tick, vars
<1>4. CASE Crash BY <1>4 DEF Crash, Fresh
<1> QED BY <1>1, <1>2, <1>3, <1>4 DEF Next

LEMMA JustifiedStep ==
    TypeOK /\ UpdatesJustified /\ [Next]_vars => UpdatesJustified'
<1> SUFFICES ASSUME TypeOK, UpdatesJustified, [Next]_vars,
                    NEW t \in Tasks, worker'[t].pc = "write"
             PROVE  Justified(t[1], worker'[t])
  BY DEF UpdatesJustified, Justified
<1>1. worker'[t] # Idle BY DEF Idle
<1>2. WorkersOK BY DEF TypeOK
<1>3. CASE worker'[t] = worker[t] BY <1>3 DEF UpdatesJustified
<1>4. CASE Reconcile(t)
  <2>1. Done(t) => worker'[t] = Idle BY <1>2 DEF Done, WorkersOK
  <2> QED BY <1>1, <1>2, <1>4, <2>1, ReconcileJustified DEF WorkersOK
<1>5. CASE Handle(t) \/ Wake(t)
  <2>1. worker'[t] = worker[t] BY <1>5 DEF Handle, Wake
  <2> QED BY <1>3, <2>1
<1>6. CASE Start(t)
  <2>1. UNCHANGED worker \/ worker'[t] = [pc |-> "reconcile", node |-> cache[t[2]]]
    BY <1>2, <1>6 DEF Start, WorkersOK
  <2> QED BY <1>3, <2>1
<1>7. CASE Write(t) \/ Record(t)
  <2>1. worker'[t] = Idle
        \/ worker'[t] = [pc |-> "record", desired |-> worker[t].desired]
    BY <1>2, <1>7
    DEF Write, WriteSucceeds, WriteConflicts, WriteFails, Record, Done, WorkersOK
  <2> QED BY <1>1, <2>1
<1> QED BY <1>1, <1>3, <1>4, <1>5, <1>6, <1>7, WorkerStep DEF System

\* Every update in flight differs from the snapshot it was made from in nothing
\* but its controller's own values or condition, and for the reason given
\* (metadata_controller.go:135-139, externalip_controller.go:93-97,
\* conditions.go:77-103).
THEOREM JustifiedUpdates == Spec => []UpdatesJustified
<1>1. Init => UpdatesJustified BY DEF Init, UpdatesJustified, Idle
<1> QED BY <1>1, TypeCorrect, JustifiedStep, PTL DEF Spec

\* The API server takes task t's update.
Lands(t) ==
    /\ worker[t].pc = "write"
    /\ Current(t)
    /\ Replaces(t[2], [worker[t].updated EXCEPT !.rv = revision + 1])

\* An update is only ever stored over the very Node it was made from.
LEMMA LandsOverSnapshot ==
    ASSUME TypeOK, VersionsIdentify, UpdatesJustified, NEW t \in Tasks, Lands(t)
    PROVE  /\ api[t[2]] # Gone
           /\ api[t[2]] = worker[t].node
           /\ IsNode(t[2], worker[t].node)
           /\ IsNode(t[2], worker[t].updated)
           /\ Justified(t[1], worker[t])
           /\ api'[t[2]].fields = worker[t].updated.fields
           /\ api'[t[2]].conditions = worker[t].updated.conditions
<1> USE DEF TypeOK
<1>1. IsNode(t[2], worker[t].node) /\ IsNode(t[2], worker[t].updated)
  BY DEF Lands, WorkersOK, IsWorker, Idle
<1>2. worker[t].node # Gone
  <2>1. DOMAIN Gone = {"exists"} BY DEF Gone
  <2>2. "rv" \in DOMAIN worker[t].node BY <1>1 DEF IsNode
  <2> QED BY <2>1, <2>2
<1>3. t[2] \in Nodes BY TaskParts
<1>4. api[t[2]] = worker[t].node
  <2>1. worker[t].node \in Copies(t[2]) BY CopyMeans DEF Lands
  <2> QED BY <1>2, <1>3, <2>1 DEF VersionsIdentify, Lands, Current
<1>5. Justified(t[1], worker[t]) BY DEF Lands, UpdatesJustified
<1>6. api'[t[2]] = [worker[t].updated EXCEPT !.rv = revision + 1]
  BY <1>3 DEF Lands, Replaces, ServerOK
<1>7. /\ api'[t[2]].fields = worker[t].updated.fields
      /\ api'[t[2]].conditions = worker[t].updated.conditions
  BY <1>1, <1>6 DEF IsNode
<1> QED BY <1>1, <1>4, <1>5, <1>7 DEF Lands, Current

LEMMA StoresLands ==
    ASSUME TypeOK, [Next]_vars, NEW t \in Tasks, Stores(t)
    PROVE  Store(t[2], worker[t].updated) /\ Lands(t)
<1> USE DEF TypeOK
<1>1. worker[t].pc = "write" /\ worker'[t].pc # "write" /\ api'[t[2]] # api[t[2]]
  BY DEF Stores
<1>2. Store(t[2], worker[t].updated) /\ Current(t)
  <2>1. CASE Write(t)
    BY <1>1, <2>1 DEF Write, WriteSucceeds, WriteConflicts, WriteFails, server
  <2>2. CASE Handle(t) \/ Wake(t) BY <1>1, <2>2 DEF Handle, Wake
  <2>3. CASE Start(t) BY <1>1, <2>3 DEF Start, Idle
  <2>4. CASE Reconcile(t) \/ Record(t)
    BY <1>1, <2>4
    DEF Reconcile, Unmatched, Confirm, Initialize, StartOver, HandleDrift, AwaitCooldown,
        BeginPending, ApplyValues, Unapplied, Reconciling, Record
  <2>5. System(t) BY <1>1, WorkerStep
  <2> QED BY <2>1, <2>2, <2>3, <2>4, <2>5 DEF System
<1>3. IsNode(t[2], worker[t].updated) BY <1>1 DEF WorkersOK, IsWorker, Idle
<1>4. worker[t].updated # Gone
  <2>1. DOMAIN Gone = {"exists"} BY DEF Gone
  <2>2. "rv" \in DOMAIN worker[t].updated BY <1>3 DEF IsNode
  <2> QED BY <2>1, <2>2
<1>5. [worker[t].updated EXCEPT !.rv = revision + 1].rv = revision + 1
  BY <1>3 DEF IsNode
<1> QED BY <1>1, <1>2, <1>4, <1>5 DEF Lands, Replaces, Store

LEMMA StoredOverSnapshot ==
    ASSUME TypeOK, VersionsIdentify, UpdatesJustified, [Next]_vars,
           NEW t \in Tasks, Stores(t)
    PROVE  /\ Store(t[2], worker[t].updated)
           /\ api[t[2]] # Gone
           /\ api[t[2]] = worker[t].node
           /\ IsNode(t[2], worker[t].node)
           /\ IsNode(t[2], worker[t].updated)
           /\ Justified(t[1], worker[t])
BY StoresLands, LandsOverSnapshot

\* What NoLostUpdate and TruthfulCondition say of an update that is stored.
KeepsOthers(t) ==
    LET d   == t[1]
        old == api[t[2]]
        new == api'[t[2]]
    IN  /\ \A f \in NodeFields \ OwnFields(d) : new.fields[f] = old.fields[f]
        /\ \A e \in Domains \ {d} : new.conditions[e] = old.conditions[e]
        /\ d # "initialization" =>
             \/ /\ new.fields[d] = WithDesired(d, old.fields[d], worker[t].desired)
                /\ new.conditions[d] = old.conditions[d]
             \/ new.fields[d] = old.fields[d]

SaysTruth(t) ==
    LET d       == t[1]
        applied == InPlace(d, api[t[2]], worker[t].desired)
        old     == api[t[2]].conditions[d]
        new     == api'[t[2]].conditions[d]
    IN  /\ IsTrue(new) /\ new # old => applied
        /\ IsTrue(old) /\ new.reason \in {"Pending", "Drifted"} => ~applied

LEMMA LandsUpdate ==
    ASSUME TypeOK, VersionsIdentify, UpdatesJustified, NEW t \in Tasks, Lands(t)
    PROVE  KeepsOthers(t)
<1> DEFINE d == t[1]
           old == api[t[2]]
           new == api'[t[2]]
           updated == worker[t].updated
<1>1. /\ old = worker[t].node
      /\ IsNode(t[2], old)
      /\ IsNode(t[2], updated)
      /\ Justified(d, worker[t])
  BY LandsOverSnapshot
<1>2. new.fields = updated.fields /\ new.conditions = updated.conditions
  BY LandsOverSnapshot
<1>3. d \in Domains BY TaskParts
<1>4. CASE /\ d # "initialization"
           /\ updated = [old EXCEPT !.fields[d] = WithDesired(d, old.fields[d], worker[t].desired)]
  <2> DEFINE v == WithDesired(d, old.fields[d], worker[t].desired)
  <2>1. updated = [old EXCEPT !.fields[d] = v] BY <1>4
  <2>5. d \in NodeFields /\ OwnFields(d) = {d}
    BY <1>3, <1>4, RuleControllerAssumption
    DEF NodeFields, AllDomains, OwnFields
  <2> HIDE DEF v
  <2>2. updated.fields = [old.fields EXCEPT ![d] = v] /\ updated.conditions = old.conditions
    BY <1>1, <2>1 DEF IsNode
  <2>3. \A f \in NodeFields : updated.fields[f] = IF f = d THEN v ELSE old.fields[f]
    BY <1>1, <2>2 DEF IsNode, IsFields
  <2> HIDE DEF old, new, updated, d
  <2>4. /\ \A f \in NodeFields \ OwnFields(d) : new.fields[f] = old.fields[f]
        /\ new.conditions = old.conditions
        /\ new.fields[d] = v
    BY <1>2, <2>5, <2>2, <2>3
  <2> QED BY <2>4 DEF KeepsOthers, old, new, d, v
<1>5. CASE updated = [old EXCEPT !.conditions[d] = updated.conditions[d]]
  <2> DEFINE c == updated.conditions[d]
  <2>1. updated = [old EXCEPT !.conditions[d] = c] BY <1>5
  <2> HIDE DEF c
  <2>2. updated.conditions = [old.conditions EXCEPT ![d] = c] /\ updated.fields = old.fields
    BY <1>1, <2>1 DEF IsNode
  <2>3. \A e \in Domains \ {d} : updated.conditions[e] = old.conditions[e]
    BY <1>1, <2>2 DEF IsNode
  <2> QED BY <1>2, <2>2, <2>3 DEF KeepsOthers
<1>6. CASE /\ d = "initialization"
           /\ updated = Initialized(old, worker[t].desired)
  <2>1. /\ updated = [name |-> t[2], rv |-> old.rv, conditions |-> old.conditions,
                      fields |-> updated.fields]
        /\ \A f \in NodeFields \ {"providerID", "taints"} : updated.fields[f] = old.fields[f]
    BY <1>1, <1>6, InitializedParts
  <2>2. OwnFields(d) = {"providerID", "taints"} BY <1>6 DEF OwnFields
  <2> HIDE DEF old, new, updated, d
  <2>3. updated.conditions = old.conditions BY <2>1
  <2>4. /\ \A f \in NodeFields \ OwnFields(d) : new.fields[f] = old.fields[f]
        /\ new.conditions = old.conditions
    BY <1>2, <2>1, <2>2, <2>3
  <2> QED BY <1>6, <2>4 DEF KeepsOthers, old, new, d
<1> QED BY <1>1, <1>4, <1>5, <1>6 DEF Justified, KeepsOthers

\* No controller ever overwrites another writer's change, nor touches anything
\* that is not its own, although an Update replaces the whole Node
\* (metadata_controller.go:135-142, externalip_controller.go:93-100,
\* conditions.go:85-92).
THEOREM UpdatesKeepOthers == Spec => NoLostUpdate
<1>1. TypeOK /\ VersionsIdentify /\ UpdatesJustified /\ [Next]_vars =>
        \A t \in Tasks : Stores(t) => KeepsOthers(t)
  BY StoresLands, LandsUpdate
<1> QED BY <1>1, TypeCorrect, VersionsCorrect, JustifiedUpdates, PTL
        DEF Spec, NoLostUpdate, KeepsOthers

LEMMA LandsTruth ==
    ASSUME TypeOK, VersionsIdentify, UpdatesJustified, NEW t \in Tasks, Lands(t)
    PROVE  SaysTruth(t)
<1> DEFINE d == t[1]
           node == api[t[2]]
           updated == worker[t].updated
           new == api'[t[2]].conditions[d]
<1>1. /\ node = worker[t].node
      /\ IsNode(t[2], node)
      /\ IsNode(t[2], updated)
      /\ Justified(d, worker[t])
  BY LandsOverSnapshot
<1>2. new = updated.conditions[d] BY LandsOverSnapshot
<1>3. CASE /\ worker[t].kind = "values"
           /\ ~InPlace(d, node, worker[t].desired)
           /\ updated = [node EXCEPT !.fields[d] = WithDesired(d, node.fields[d], worker[t].desired)]
  <2>1. new = node.conditions[d] BY <1>1, <1>2, <1>3 DEF IsNode
  <2> QED BY <1>3, <2>1 DEF SaysTruth
<1>4. CASE /\ worker[t].kind = "condition"
           /\ new.reason = "Applied" => InPlace(d, node, worker[t].desired)
           /\ new.reason \in {"Pending", "Drifted"} => ~InPlace(d, node, worker[t].desired)
  BY <1>4 DEF IsTrue, SaysTruth
<1>5. CASE updated = Initialized(node, worker[t].desired)
  <2>1. updated = [name |-> t[2], rv |-> node.rv, conditions |-> node.conditions,
                   fields |-> updated.fields]
    BY <1>1, <1>5, InitializedParts
  <2>2. updated.conditions = node.conditions
    <3> HIDE DEF updated, node
    <3> QED BY <2>1
  <2>3. new = node.conditions[d] BY <1>2, <2>2
  <2> QED BY <2>3 DEF IsTrue, SaysTruth
<1> QED BY <1>1, <1>2, <1>3, <1>4, <1>5 DEF Justified, SaysTruth

\* A condition turns True only on a Node that has the values, and leaves True
\* only on one that lacks them (drift.go:151-186, conditions.go:123-155): what
\* the pass saw in its cache is what the API server has when it is stored.
THEOREM ConditionsTruthful == Spec => TruthfulCondition
<1>1. TypeOK /\ VersionsIdentify /\ UpdatesJustified /\ [Next]_vars =>
        \A t \in Tasks : Stores(t) => SaysTruth(t)
  BY StoresLands, LandsTruth
<1> QED BY <1>1, TypeCorrect, VersionsCorrect, JustifiedUpdates, PTL
        DEF Spec, TruthfulCondition, SaysTruth

\* What ProperlyInitialized says of an update that is stored.
InitializesProperly(t) ==
    LET old     == api[t[2]].fields
        new     == api'[t[2]].fields
        schemes == worker[t].desired
    IN  /\ new.taints = old.taints \ {"uninitialized"}
        /\ old.providerID # NoProviderID => new.providerID = old.providerID
        /\ old.providerID = NoProviderID /\ schemes # {} => schemes = {new.providerID[1]}

LEMMA LandsInitialized ==
    ASSUME TypeOK, VersionsIdentify, UpdatesJustified,
           NEW t \in Tasks, Lands(t), worker[t].kind = "initialize"
    PROVE  InitializesProperly(t)
<1> DEFINE node == api[t[2]]
           new == api'[t[2]]
           schemes == worker[t].desired
<1>1. /\ node = worker[t].node
      /\ IsNode(t[2], node)
      /\ IsNode(t[2], worker[t].updated)
      /\ Justified(t[1], worker[t])
      /\ new.fields = worker[t].updated.fields
  BY LandsOverSnapshot
<1>2. /\ worker[t].updated = Initialized(node, schemes)
      /\ node.fields.providerID = NoProviderID => SchemesAgree(schemes)
  BY <1>1 DEF Justified
<1>3. new.fields = Initialized(node, schemes).fields
  BY <1>1, <1>2
<1>4. /\ new.fields.taints = node.fields.taints \ {"uninitialized"}
      /\ new.fields.providerID = InitialProviderID(node, schemes)
  BY <1>1, <1>3, InitializedParts
<1> HIDE DEF node, new, schemes
<1>5. ASSUME node.fields.providerID = NoProviderID, schemes # {}
      PROVE  schemes = {new.fields.providerID[1]}
  <2> DEFINE scheme == CHOOSE x \in schemes : TRUE
  <2>1. scheme \in schemes BY <1>5
  <2>2. schemes = {scheme} BY <1>2, <1>5, <2>1 DEF SchemesAgree
  <2>3. new.fields.providerID = <<scheme, node.name>>
    BY <1>4, <1>5 DEF InitialProviderID
  <2> HIDE DEF scheme
  <2>4. new.fields.providerID[1] = scheme BY <2>3
  <2> QED BY <2>2, <2>4
<1>6. node.fields.providerID # NoProviderID
        => new.fields.providerID = node.fields.providerID
  BY <1>4 DEF InitialProviderID
<1> QED BY <1>4, <1>5, <1>6 DEF node, new, schemes, InitializesProperly

\* A Node is never initialized without the providerID its rules ask for, and
\* the providerID that a cloud-controller-manager has set since the Node was
\* read is never replaced (initialization_controller.go:63-92).
THEOREM InitializedProperly == Spec => ProperlyInitialized
<1>1. TypeOK /\ VersionsIdentify /\ UpdatesJustified /\ [Next]_vars =>
        \A t \in Tasks : Stores(t) /\ worker[t].kind = "initialize" => InitializesProperly(t)
  BY StoresLands, LandsInitialized
<1> QED BY <1>1, TypeCorrect, VersionsCorrect, JustifiedUpdates, PTL
        DEF Spec, ProperlyInitialized, InitializesProperly

-------------------------------------------------------------------------------
(***************************************************************************)
(* Cooldowns.  Once values are on their way, no cooldown starts before the *)
(* API server has answered: only their own task changes a Node's flapState *)
(* (its drift handling needs the worker), except for the delete handler,   *)
(* which clears it.                                                        *)
(***************************************************************************)
SentWhenCool ==
    \A t \in Tasks :
        worker[t].pc = "write" /\ worker[t].kind = "values"
            => ~Flap!CoolingDown(flaps[t], clock)

LEMMA ZeroIsCool == \A now \in Nat : ~Flap!CoolingDown(Flap!ZeroFlapState, now)
BY RuleControllerAssumption
DEF Flap!CoolingDown, Flap!ZeroFlapState, Flap!ZeroTime, Flap!FlapWindow

LEMMA NoWaitIsCool ==
    ASSUME NEW s, IsFlapState(s), NEW confirmedAt \in Int, NEW now \in Nat,
           Flap!DriftedWait(s, confirmedAt, now) = 0
    PROVE  ~Flap!CoolingDown(Flap!Drifted(s, confirmedAt, now), now)
<1>1. CASE ~Flap!CoolingDown(s, now) /\ Flap!HeldPastWindow(s, confirmedAt, now)
  <2>1. Flap!Drifted(s, confirmedAt, now) = [s EXCEPT !.flaps = 0]
    BY <1>1 DEF Flap!Drifted
  <2>2. Flap!Drifted(s, confirmedAt, now).until = s.until
    BY <2>1 DEF IsFlapState
  <2> QED BY <1>1, <2>2 DEF Flap!CoolingDown
<1>2. CASE ~(~Flap!CoolingDown(s, now) /\ Flap!HeldPastWindow(s, confirmedAt, now))
  <2>1. Flap!Drifted(s, confirmedAt, now).until - now = 0
    BY <1>2 DEF Flap!DriftedWait
  <2>2. Flap!Drifted(s, confirmedAt, now).until \in Int
    BY DriftedType DEF IsFlapState
  <2> QED BY <2>1, <2>2 DEF Flap!CoolingDown
<1> QED BY <1>1, <1>2

LEMMA NoRemainingIsCool ==
    ASSUME NEW s, IsFlapState(s), NEW now \in Nat, Flap!Remaining(s, now) = 0
    PROVE  ~Flap!CoolingDown(s, now)
BY DEF IsFlapState, Flap!Remaining, Flap!CoolingDown

\* Who changes a Node's flapState.
LEMMA FlapsStep ==
    ASSUME TypeOK, [Next]_vars, NEW t \in Tasks
    PROVE  \/ flaps'[t] = flaps[t]
           \/ flaps'[t] = Flap!ZeroFlapState
           \/ Reconcile(t)
           \/ Record(t)
<1>1. flaps = [u \in Tasks |-> flaps[u]] BY DEF TypeOK, FlapsOK
<1>2. ASSUME NEW u \in Tasks, System(u), u # t PROVE flaps'[t] = flaps[t]
  <2>1. UNCHANGED flaps \/ \E s : flaps' = [flaps EXCEPT ![u] = s]
    BY <1>2
    DEF System, Handle, Start, Reconcile, Unmatched, Confirm, Initialize, StartOver, HandleDrift,
        AwaitCooldown, BeginPending, ApplyValues, Write, WriteSucceeds, WriteConflicts,
        WriteFails, Writing, Record, Wake
  <2> QED BY <1>1, <1>2, <2>1
<1>3. CASE Handle(t) \/ Start(t)
  BY <1>1, <1>3 DEF Handle, Start
<1>4. CASE Write(t) \/ Wake(t)
  BY <1>4 DEF Write, WriteSucceeds, WriteConflicts, WriteFails, Writing, Wake
<1>5. CASE \E n \in Nodes : \/ Deliver(n) \/ Relist(n) \/ Resync(n)
                            \/ ForeignWrite(n) \/ DeleteNode(n) \/ CreateNode(n)
  BY <1>5 DEF Deliver, Relist, Resync, ForeignWrite, DeleteNode, CreateNode
<1>6. CASE \/ LoadConfig \/ ResyncConfig \/ \E d \in Domains : EnqueueAll(d)
           \/ EditConfigMap \/ Tick \/ UNCHANGED vars
  BY <1>6 DEF LoadConfig, ResyncConfig, EnqueueAll, EditConfigMap, Tick, vars
<1>7. CASE Crash BY <1>7 DEF Crash, Fresh
<1> QED BY <1>2, <1>3, <1>4, <1>5, <1>6, <1>7 DEF Next, System

\* A pass only sends values when the Node does not cool down, counting the
\* cooldown the pass itself may have started.
LEMMA ReconcileCool ==
    ASSUME TypeOK, NEW t \in Tasks, Reconcile(t), worker'[t].kind = "values",
           worker'[t].pc = "write"
    PROVE  ~Flap!CoolingDown(flaps'[t], clock)
<1> USE DEF TypeOK
<1>1. /\ IsFlapState(flaps[t])
      /\ clock \in Nat
      /\ flaps = [u \in Tasks |-> flaps[u]]
      /\ worker = [u \in Tasks |-> worker[u]]
  BY DEF FlapsOK, BoundsOK, WorkersOK
<1>2. ASSUME NEW kind, NEW o, Send(t, kind, o) PROVE kind = "values"
  <2> DEFINE w == [pc |-> "write", kind |-> kind, node |-> worker[t].node,
                   updated |-> o, desired |-> Wanted(t)]
  <2>1. worker' = [worker EXCEPT ![t] = w] /\ w.kind = kind BY <1>2 DEF Send
  <2> HIDE DEF w
  <2> QED BY <1>1, <2>1
<1>3. ~Done(t)
  <2>1. Done(t) => worker'[t] = Idle BY <1>1 DEF Done
  <2> QED BY <2>1 DEF Idle
<1>4. \A reason : ~EnsureCondition(t, reason)
  BY <1>2, <1>3 DEF EnsureCondition
<1>5. ApplyValues(t) \/ HandleDrift(t)
  BY <1>2, <1>3, <1>4 DEF Reconcile, Unmatched, Confirm, Initialize, StartOver, AwaitCooldown, BeginPending
<1>6. CASE ApplyValues(t) BY <1>1, <1>6, NoRemainingIsCool DEF ApplyValues
<1>7. CASE HandleDrift(t)
  <2> DEFINE at == Condition(t).heartbeat
  <2>1. at \in Int BY <1>7, HeartbeatType DEF HandleDrift, Unapplied
  <2>2. /\ Flap!DriftedWait(flaps[t], at, clock) = 0
        /\ flaps'[t] = Flap!Drifted(flaps[t], at, clock)
    BY <1>1, <1>4, <1>7 DEF HandleDrift
  <2> HIDE DEF at
  <2> QED BY <1>1, <2>1, <2>2, NoWaitIsCool
<1> QED BY <1>5, <1>6, <1>7

LEMMA CoolStep ==
    TypeOK /\ SentWhenCool /\ [Next]_vars => SentWhenCool'
<1> SUFFICES ASSUME TypeOK, SentWhenCool, [Next]_vars,
                    NEW t \in Tasks, worker'[t].pc = "write", worker'[t].kind = "values"
             PROVE  ~Flap!CoolingDown(flaps'[t], clock')
  BY DEF SentWhenCool, Flap!CoolingDown
<1> USE DEF TypeOK
<1>1. /\ IsFlapState(flaps[t])
      /\ clock \in Nat
      /\ worker = [u \in Tasks |-> worker[u]]
  BY DEF FlapsOK, BoundsOK, WorkersOK
<1>2. clock' \in Nat /\ clock' >= clock
  <2>1. UNCHANGED clock \/ clock' = clock + 1
    BY DEF Next, System, Handle, Start, Reconcile, Unmatched, Confirm, Initialize, StartOver, HandleDrift,
        AwaitCooldown, BeginPending, ApplyValues, Unapplied, Reconciling, Write,
        WriteSucceeds, WriteConflicts, WriteFails, Writing, Record, Wake, Deliver, Relist,
        Resync, LoadConfig, ResyncConfig, EnqueueAll, ForeignWrite, DeleteNode, CreateNode,
        EditConfigMap, Crash, Tick, vars
  <2> QED BY <1>1, <2>1
<1>3. CASE Reconcile(t)
  <2>1. UNCHANGED clock
    BY <1>3 DEF Reconcile, Unmatched, Confirm, Initialize, StartOver, HandleDrift, AwaitCooldown,
                BeginPending, ApplyValues, Unapplied, Reconciling
  <2> QED BY <1>3, <2>1, ReconcileCool
<1>4. CASE ~Reconcile(t)
  <2>1. worker'[t] # Idle BY DEF Idle
  <2>2. ~Record(t) BY <1>1, <2>1 DEF Record, Done
  <2>3. worker'[t] = worker[t]
    <3>1. CASE Handle(t) \/ Wake(t) BY <3>1 DEF Handle, Wake
    <3>2. CASE Start(t)
      <4>1. UNCHANGED worker \/ worker'[t] = [pc |-> "reconcile", node |-> cache[t[2]]]
        BY <1>1, <3>2 DEF Start
      <4> QED BY <4>1
    <3>3. CASE Write(t)
      <4>1. worker'[t] = Idle
            \/ worker'[t] = [pc |-> "record", desired |-> worker[t].desired]
        BY <1>1, <3>3 DEF Write, WriteSucceeds, WriteConflicts, WriteFails, Done
      <4> QED BY <2>1, <4>1
    <3> QED BY <1>4, <2>1, <2>2, <3>1, <3>2, <3>3, WorkerStep DEF System
  <2>4. ~Flap!CoolingDown(flaps[t], clock) BY <2>3 DEF SentWhenCool
  <2>5. flaps'[t] = flaps[t] \/ flaps'[t] = Flap!ZeroFlapState
    BY <1>4, <2>2, FlapsStep
  <2>6. CASE flaps'[t] = flaps[t]
    BY <1>1, <1>2, <2>4, <2>6 DEF Flap!CoolingDown, IsFlapState
  <2>7. CASE flaps'[t] = Flap!ZeroFlapState BY <1>2, <2>7, ZeroIsCool
  <2> QED BY <2>5, <2>6, <2>7
<1> QED BY <1>3, <1>4

\* Restoring values waits for the cooldown, although the Drifted condition
\* that starts it wakes the controller up at once, and although the delete
\* handler and rule edits reset flapStates meanwhile (drift.go:158-185,
\* flaps.go:77-113): for every cooldown and every interleaving.
THEOREM CooldownsServed == Spec => CooldownServed
<1> DEFINE Served ==
        \A t \in Tasks :
            /\ t[1] # "initialization"
            /\ Stores(t)
            /\ api'[t[2]].fields[t[1]] # api[t[2]].fields[t[1]]
            => ~Flap!CoolingDown(flaps[t], clock)
<1>1. Init => SentWhenCool BY DEF Init, SentWhenCool, Idle
<1>2. TypeOK /\ VersionsIdentify /\ UpdatesJustified /\ SentWhenCool /\ [Next]_vars => Served
  <2> SUFFICES ASSUME TypeOK, VersionsIdentify, UpdatesJustified, SentWhenCool, [Next]_vars,
                      NEW t \in Tasks, t[1] # "initialization", Stores(t),
                      api'[t[2]].fields[t[1]] # api[t[2]].fields[t[1]]
               PROVE  ~Flap!CoolingDown(flaps[t], clock)
    OBVIOUS
  <2> DEFINE old == api[t[2]]
             updated == worker[t].updated
             c == updated.conditions[t[1]]
  <2>1. /\ old = worker[t].node
        /\ IsNode(t[2], old)
        /\ Justified(t[1], worker[t])
    BY StoresLands, LandsOverSnapshot
  <2>2. api'[t[2]].fields = updated.fields BY StoresLands, LandsOverSnapshot
  <2>3. updated # [old EXCEPT !.conditions[t[1]] = c]
    <3> HIDE DEF c
    <3>1. [old EXCEPT !.conditions[t[1]] = c].fields = old.fields BY <2>1 DEF IsNode
    <3> QED BY <2>2, <3>1
  <2>4. worker[t].kind = "values" BY <2>1, <2>3 DEF Justified
  <2> QED BY <2>4 DEF SentWhenCool, Stores
<1>3. Spec => [][Served]_vars
  BY <1>1, <1>2, CoolStep, TypeCorrect, VersionsCorrect, JustifiedUpdates, PTL DEF Spec
<1> QED BY <1>3 DEF CooldownServed

-------------------------------------------------------------------------------
(***************************************************************************)
(* What others do: a step of another client leaves the process as it is,   *)
(* or some of its workers gone, and its watches get the version that is    *)
(* stored, or have been closed.                                            *)
(***************************************************************************)
Sees(n) == api'[n] # api[n] /\ watch'[n] = Append(watch[n], api'[n])

LEMMA SeenType ==
    ASSUME ServerOK,
           revision' \in Nat,
           api' = [n \in Nodes |-> api'[n]],
           \A n \in Nodes : IsVersion(n, api'[n]),
           watch' = [n \in Nodes |-> watch'[n]],
           \A n \in Nodes : watch'[n] = watch[n] \/ Sees(n)
    PROVE  ServerOK'
<1>1. ASSUME NEW n \in Nodes
      PROVE  /\ watch'[n] \in Seq(ToSet(watch'[n]))
             /\ \A o \in ToSet(watch'[n]) : IsVersion(n, o)
  <2>1. watch[n] \in Seq(ToSet(watch[n])) /\ \A o \in ToSet(watch[n]) : IsVersion(n, o)
    BY DEF ServerOK
  <2>2. CASE watch'[n] = watch[n] BY <2>1, <2>2
  <2>3. CASE watch'[n] = Append(watch[n], api'[n])
    <3>1. /\ ToSet(watch'[n]) = ToSet(watch[n]) \cup {api'[n]}
          /\ watch'[n] \in Seq(ToSet(watch'[n]))
      BY <2>1, <2>3, AppendElements
    <3> QED BY <2>1, <3>1
  <2> QED BY <2>2, <2>3 DEF Sees
<1> QED BY <1>1 DEF ServerOK

LEMMA SeenVersions ==
    ASSUME TypeOK, VersionsIdentify,
           UNCHANGED <<api, revision>> \/ \E n \in Nodes : Replaces(n, api'[n]),
           UNCHANGED cache,
           \A t \in Tasks : worker'[t] = worker[t] \/ worker'[t] = Idle,
           \A n \in Nodes : watch'[n] = watch[n] \/ Sees(n)
    PROVE  VersionsIdentify'
<1>1. ASSUME NEW m \in Nodes, NEW o \in Copies(m)'
      PROVE  o \in Copies(m) \/ (api'[m] # api[m] /\ o = api'[m])
  <2>1. CASE o = cache'[m] BY <2>1, CopyMeans
  <2>2. CASE o \in ToSet(watch'[m])
    <3>1. CASE watch'[m] = watch[m] BY <2>2, <3>1, CopyMeans
    <3>2. CASE Sees(m)
      <4>1. watch[m] \in Seq(ToSet(watch[m])) BY DEF TypeOK, ServerOK
      <4>2. ToSet(watch'[m]) = ToSet(watch[m]) \cup {api'[m]}
        BY <3>2, <4>1, AppendElements DEF Sees
      <4> QED BY <2>2, <3>2, <4>2, CopyMeans DEF Sees
    <3> QED BY <3>1, <3>2
  <2>3. ASSUME NEW t \in Tasks, t[2] = m, worker'[t].pc \in {"reconcile", "write"},
               o = worker'[t].node
        PROVE  o \in Copies(m)
    <3>1. worker'[t] = worker[t] BY <2>3 DEF Idle
    <3> QED BY <2>3, <3>1, CopyMeans
  <2> QED BY <2>1, <2>2, <2>3 DEF Copies
<1>2. CASE UNCHANGED <<api, revision>> BY <1>1, <1>2, VersionsKept
<1>3. ASSUME NEW n \in Nodes, Replaces(n, api'[n]) PROVE VersionsIdentify'
  <2>1. \A m \in Nodes : api'[m] # api[m] => m = n
    BY <1>3 DEF Replaces, TypeOK, ServerOK
  <2> QED BY <1>1, <1>3, <2>1, VersionsStored
<1> QED BY <1>2, <1>3

LEMMA SeenJustified ==
    ASSUME UpdatesJustified, \A t \in Tasks : worker'[t] = worker[t] \/ worker'[t] = Idle
    PROVE  UpdatesJustified'
<1> SUFFICES ASSUME NEW t \in Tasks, worker'[t].pc = "write"
             PROVE  Justified(t[1], worker'[t])
  BY DEF UpdatesJustified, Justified
<1>1. worker'[t] = worker[t] BY DEF Idle
<1> QED BY <1>1 DEF UpdatesJustified

\* A version that is stored is another than the one before.
LEMMA ReplacesChanges ==
    ASSUME TypeOK, VersionsIdentify, NEW n \in Nodes, NEW o, Replaces(n, o), o # Gone
    PROVE  api'[n] # api[n]
<1>1. api'[n] = o /\ o.rv = revision + 1 /\ revision \in Nat
  BY DEF Replaces, TypeOK, ServerOK
<1>2. api[n] # Gone => api[n].rv \in Nat /\ api[n].rv <= revision
  BY DEF VersionsIdentify, TypeOK, ServerOK, IsVersion, IsNode
<1> QED BY <1>1, <1>2

LEMMA SeenStep ==
    ASSUME TypeOK, VersionsIdentify, UpdatesJustified,
           revision' \in Nat,
           api' = [n \in Nodes |-> api'[n]],
           \A n \in Nodes : IsVersion(n, api'[n]),
           BoundsOK',
           configMap' \in Configs \cup {Missing, Invalid},
           UNCHANGED <<api, revision>> \/ \E n \in Nodes : Replaces(n, api'[n]),
           watch' = [n \in Nodes |-> watch'[n]],
           \A n \in Nodes : watch'[n] = watch[n] \/ Sees(n),
           configWatch' = configWatch \/ configWatch' = Append(configWatch, configMap'),
           UNCHANGED <<cache, notes, config, announce, queue, flaps>>,
           worker' = [t \in Tasks |-> worker'[t]],
           \A t \in Tasks : worker'[t] = worker[t] \/ worker'[t] = Idle
    PROVE  TypeOK' /\ VersionsIdentify' /\ UpdatesJustified'
<1>1. ServerOK' BY SeenType DEF TypeOK
<1>2. RulesOK'
  <2>1. configWatch' \in Seq(Configs \cup {Missing, Invalid})
    BY AppendProperties DEF TypeOK, RulesOK
  <2> QED BY <2>1 DEF TypeOK, RulesOK
<1>3. WorkersOK' BY DEF TypeOK, WorkersOK, IsWorker
<1>4. CacheOK' /\ QueueOK' /\ FlapsOK'
  BY DEF TypeOK, CacheOK, QueueOK, FlapsOK, queue
<1>5. TypeOK' BY <1>1, <1>2, <1>3, <1>4 DEF TypeOK
<1> QED BY <1>5, SeenVersions, SeenJustified
================================================================================
