----------------------- MODULE RuleController_refinement -----------------------
(***************************************************************************)
(* The controllers implement NodeContract.  The contract decides and acts  *)
(* at once, on the Node as it is; the controllers decide on a cached       *)
(* snapshot and by the rules loaded at that time, and act when the API     *)
(* server gets to it.  What bridges the two is Decided: a worker's update  *)
(* is a step the contract allows on the snapshot, by some configuration    *)
(* there may be.  VersionsIdentify then says that the update is only       *)
(* stored if the snapshot still is the Node.                               *)
(***************************************************************************)
EXTENDS RuleController_wakeup

\* Worker w of domain d follows rules c.
Decision(d, w, c) ==
    LET matched == MatchingIDs(w.node, c[d])
        wanted  == Desired(d, matched, c[d])
        applied == InPlace(d, w.node, wanted)
        old     == w.node.conditions[d]
        claim   == w.updated.conditions[d]
    IN  \/ /\ d = "initialization"
           /\ MayInitialize(w.node, matched, c[d])
           /\ w.updated = Initialized(w.node, wanted)
        \/ /\ d # "initialization"
           /\ w.updated = [w.node EXCEPT !.conditions[d] = claim]
           /\ \/ matched = {} /\ old # NoCondition /\ claim = NoCondition
              \/ /\ matched # {}
                 /\ claim.ids = matched
                 /\ \/ claim.reason = "Pending" /\ ~applied
                       /\ (old = NoCondition \/ IsTrue(old))
                    \/ claim.reason = "Drifted" /\ ~applied /\ IsTrue(old)
                    \/ claim.reason = "Applied" /\ applied
        \/ /\ d # "initialization"
           /\ w.updated = [w.node EXCEPT
                !.fields[d] = WithDesired(d, w.node.fields[d], wanted)]
           /\ matched # {}
           /\ ~applied
           /\ old # NoCondition

Decided ==
    \A t \in Tasks : worker[t].pc = "write" =>
        \E c \in Rulesets : Decision(t[1], worker[t], c)

LEMMA SendValuesDecided ==
    ASSUME WorkersOK, RulesOK, NEW t \in Tasks, t[1] # "initialization",
           Unapplied(t), Condition(t) # NoCondition, SendValues(t)
    PROVE  /\ worker'[t].pc = "write"
           /\ Decision(t[1], worker'[t], config)
<1> DEFINE node == worker[t].node
           desired == Wanted(t)
           updated == [node EXCEPT !.fields[t[1]] =
                        WithDesired(t[1], node.fields[t[1]], desired)]
           w == [pc |-> "write", kind |-> "values", node |-> node,
                 updated |-> updated, desired |-> desired]
<1>1. worker'[t] = w
  <2>1. IsNode(t[2], node) BY DEF Unapplied, Reconciling, WorkersOK, IsWorker, Idle
  <2>2. [node EXCEPT !.fields[t[1]] = WithDesired(t[1], @, desired)] = updated
    BY <2>1 DEF IsNode
  <2>3. worker' = [worker EXCEPT ![t] = w] BY <2>2 DEF SendValues, Send
  <2> HIDE DEF w
  <2> QED BY <2>3 DEF WorkersOK
<1>2. w.pc = "write" /\ w.node = node /\ w.updated = updated
  OBVIOUS
<1>3. /\ MatchingIDs(node, config[t[1]]) # {}
      /\ desired = Desired(t[1], MatchingIDs(node, config[t[1]]), config[t[1]])
      /\ ~InPlace(t[1], node, desired)
      /\ node.conditions[t[1]] # NoCondition
  BY DEF Unapplied, Matched, Wanted, Condition
<1>4. Decision(t[1], w, config)
  <2> HIDE DEF w, node, desired
  <2> QED BY <1>2, <1>3 DEF Decision
<1> HIDE DEF w
<1> QED BY <1>1, <1>2, <1>4

LEMMA EnsureConditionDecided ==
    ASSUME WorkersOK, RulesOK, NEW t \in Tasks, t[1] # "initialization",
           worker[t].pc = "reconcile",
           NEW reason \in {"none", "Pending", "Applied", "Drifted"},
           reason = "none" <=> Matched(t) = {},
           reason = "Applied" => InPlace(t[1], worker[t].node, Wanted(t)),
           reason \in {"Pending", "Drifted"} => ~InPlace(t[1], worker[t].node, Wanted(t)),
           reason = "Pending" => Condition(t) = NoCondition \/ IsTrue(Condition(t)),
           reason = "Drifted" => IsTrue(Condition(t)),
           EnsureCondition(t, reason)
    PROVE  \/ worker'[t] = Idle
           \/ worker'[t].pc = "write" /\ Decision(t[1], worker'[t], config)
<1> DEFINE node == worker[t].node
           claim == ConditionOf(t, reason)
           updated == [node EXCEPT !.conditions[t[1]] = claim]
           w == [pc |-> "write", kind |-> "condition", node |-> node,
                 updated |-> updated, desired |-> Wanted(t)]
<1>1. IsNode(t[2], node) BY DEF WorkersOK, IsWorker, Idle
<1>2. updated.conditions[t[1]] = claim BY <1>1, TaskParts DEF IsNode
<1>3. /\ reason = "none" => claim = NoCondition
      /\ reason # "none" => claim.reason = reason /\ claim.ids = Matched(t)
  BY DEF ConditionOf
<1>4. w.pc = "write" /\ w.node = node /\ w.updated = updated
  OBVIOUS
<1>5. CASE UpToDate(t, reason)
  BY <1>5 DEF EnsureCondition, Done, WorkersOK
<1>6. CASE ~UpToDate(t, reason)
  <2>1. worker'[t] = w
    <3>1. worker' = [worker EXCEPT ![t] = w] BY <1>6 DEF EnsureCondition, Send
    <3> HIDE DEF w
    <3> QED BY <3>1 DEF WorkersOK
  <2>2. reason = "none" => Condition(t) # NoCondition
    BY <1>6 DEF UpToDate, NoCondition
  <2>3. /\ MatchingIDs(node, config[t[1]]) = Matched(t)
        /\ Desired(t[1], Matched(t), config[t[1]]) = Wanted(t)
        /\ node.conditions[t[1]] = Condition(t)
        /\ reason = "Applied" => InPlace(t[1], node, Wanted(t))
        /\ reason \in {"Pending", "Drifted"} => ~InPlace(t[1], node, Wanted(t))
    BY DEF Matched, Wanted, Condition
  <2>4. Decision(t[1], w, config)
    <3>1. w.updated = [w.node EXCEPT !.conditions[t[1]] = w.updated.conditions[t[1]]]
      BY <1>2, <1>4
    <3>2. w.updated.conditions[t[1]] = claim BY <1>2, <1>4
    <3> HIDE DEF w, node, claim
    <3> QED BY <1>3, <1>4, <2>2, <2>3, <3>1, <3>2 DEF Decision
  <2> HIDE DEF w
  <2> QED BY <1>4, <2>1, <2>4
<1> QED BY <1>5, <1>6

LEMMA InitializeDecided ==
    ASSUME WorkersOK, RulesOK, NEW t \in Tasks, t[1] = "initialization", Initialize(t)
    PROVE  \/ worker'[t] = Idle
           \/ worker'[t].pc = "write" /\ Decision(t[1], worker'[t], config)
<1> DEFINE node == worker[t].node
           updated == Initialized(node, Wanted(t))
           w == [pc |-> "write", kind |-> "initialize", node |-> node,
                 updated |-> updated, desired |-> Wanted(t)]
<1>1. CASE Done(t) BY <1>1 DEF Done, WorkersOK
<1>2. CASE ~Done(t)
  <2>1. MayInitialize(node, Matched(t), config[t[1]]) /\ Send(t, "initialize", updated)
    BY <1>2 DEF Initialize
  <2>2. worker' = [worker EXCEPT ![t] = w] BY <2>1 DEF Send
  <2>3. w.pc = "write" /\ w.node = node /\ w.updated = updated OBVIOUS
  <2>4. /\ MatchingIDs(node, config[t[1]]) = Matched(t)
        /\ Desired(t[1], Matched(t), config[t[1]]) = Wanted(t)
    BY DEF Matched, Wanted
  <2>5. Decision(t[1], w, config)
    <3> HIDE DEF w, node
    <3> QED BY <2>1, <2>3, <2>4 DEF Decision
  <2> HIDE DEF w
  <2> QED BY <2>2, <2>3, <2>5 DEF WorkersOK
<1> QED BY <1>1, <1>2

LEMMA ReconcileDecided ==
    ASSUME WorkersOK, RulesOK, NEW t \in Tasks, Reconcile(t)
    PROVE  \/ worker'[t] = Idle
           \/ worker'[t].pc = "write" /\ Decision(t[1], worker'[t], config)
<1>1. worker[t].pc = "reconcile"
  BY DEF Reconcile, Unmatched, Confirm, Initialize, StartOver, HandleDrift, AwaitCooldown,
         BeginPending, ApplyValues, Unapplied, Reconciling
<1>2. CASE t[1] = "initialization"
  BY <1>2, InitializeDecided DEF Reconcile
<1>3. CASE t[1] # "initialization"
  <2>1. CASE Unmatched(t)
    BY <1>1, <1>3, <2>1, EnsureConditionDecided DEF Unmatched
  <2>2. CASE Confirm(t)
    BY <1>1, <1>3, <2>2, EnsureConditionDecided DEF Confirm
  <2>3. CASE StartOver(t) \/ BeginPending(t)
    BY <1>1, <1>3, <2>3, EnsureConditionDecided DEF StartOver, BeginPending, Unapplied
  <2>4. CASE HandleDrift(t)
    <3>1. Unapplied(t) /\ IsTrue(Condition(t)) BY <2>4 DEF HandleDrift
    <3>2. Condition(t) # NoCondition BY <3>1 DEF IsTrue, NoCondition
    <3>3. CASE SendValues(t) BY <1>3, <3>1, <3>2, <3>3, SendValuesDecided
    <3>4. CASE EnsureCondition(t, "Drifted")
      BY <1>1, <1>3, <3>1, <3>4, EnsureConditionDecided DEF Unapplied
    <3> QED BY <2>4, <3>3, <3>4 DEF HandleDrift
  <2>5. CASE AwaitCooldown(t) BY <2>5 DEF AwaitCooldown, Done, WorkersOK
  <2>6. CASE ApplyValues(t)
    BY <1>3, <2>6, SendValuesDecided DEF ApplyValues
  <2> QED BY <1>3, <2>1, <2>2, <2>3, <2>4, <2>5, <2>6 DEF Reconcile
<1> QED BY <1>2, <1>3

\* Nor is anything decided anew while a worker rests or is stopped.
LEMMA DecisionKept ==
    ASSUME Decided, \A t \in Tasks : worker'[t] = worker[t] \/ worker'[t] = Idle
    PROVE  Decided'
<1> SUFFICES ASSUME NEW t \in Tasks, worker'[t].pc = "write"
             PROVE  \E c \in Rulesets : Decision(t[1], worker'[t], c)
  BY DEF Decided, Decision
<1>1. worker'[t] = worker[t] BY DEF Idle
<1> QED BY <1>1 DEF Decided

LEMMA DecidedStep == TypeOK /\ Decided /\ [Next]_vars => Decided'
<1> SUFFICES ASSUME TypeOK, Decided, [Next]_vars,
                    NEW t \in Tasks, worker'[t].pc = "write"
             PROVE  \E c \in Rulesets : Decision(t[1], worker'[t], c)
  BY DEF Decided, Decision
<1>1. worker'[t] # Idle BY DEF Idle
<1>2. WorkersOK /\ RulesOK BY DEF TypeOK
<1>3. CASE worker'[t] = worker[t] BY <1>3 DEF Decided
<1>4. CASE Reconcile(t)
  <2>1. config \in Rulesets BY <1>2 DEF RulesOK
  <2> QED BY <1>1, <1>2, <1>4, <2>1, ReconcileDecided
<1>5. CASE Handle(t) \/ Wake(t)
  <2>1. worker'[t] = worker[t] BY <1>5 DEF Handle, Wake
  <2> QED BY <1>3, <2>1
<1>6. CASE Start(t)
  <2>1. UNCHANGED worker \/ worker'[t] = [pc |-> "reconcile", node |-> cache[t[2]]]
    BY <1>2, <1>6 DEF Start, WorkersOK
  <2> QED BY <1>3, <2>1
<1>7. CASE Write(t) \/ Record(t)
  <2>1. worker'[t] = Idle
        \/ worker'[t] = [pc |-> "record", desired |-> worker[t].desired]
    BY <1>2, <1>7
    DEF Write, WriteSucceeds, WriteConflicts, WriteFails, Record, Done, WorkersOK
  <2> QED BY <1>1, <2>1
<1> QED BY <1>1, <1>3, <1>4, <1>5, <1>6, <1>7, WorkerStep DEF System

-------------------------------------------------------------------------------
(***************************************************************************)
(* What the contract sees.                                                 *)
(***************************************************************************)
PublicNodes == [n \in Nodes |-> Public(api[n])]

PublicClaim(condition) ==
    IF condition = NoCondition THEN NoCondition
    ELSE [reason |-> condition.reason, ids |-> condition.ids]

LEMMA NodeIsNotGone ==
    ASSUME NEW n, NEW o, IsNode(n, o)
    PROVE  o # Gone
<1>1. DOMAIN Gone = {"exists"} BY DEF Gone
<1>2. "rv" \in DOMAIN o BY DEF IsNode
<1> QED BY <1>1, <1>2

LEMMA PublicParts ==
    ASSUME NEW n, NEW o, IsNode(n, o)
    PROVE  /\ Public(o) = [name |-> n, fields |-> o.fields,
                          conditions |-> [d \in Domains |-> PublicClaim(o.conditions[d])]]
           /\ Public(o) # Gone
<1>1. o # Gone /\ o.name = n BY NodeIsNotGone DEF IsNode
<1>2. Public(o) = [name |-> n, fields |-> o.fields,
                   conditions |-> [d \in Domains |-> PublicClaim(o.conditions[d])]]
  BY <1>1 DEF Public, PublicClaim
<1>3. DOMAIN Gone = {"exists"} BY DEF Gone
<1>4. "fields" \in DOMAIN Public(o) BY <1>2
<1> QED BY <1>2, <1>3, <1>4

\* A version number is not public.
LEMMA PublicVersion ==
    ASSUME NEW n, NEW o, IsNode(n, o), NEW rv \in Nat
    PROVE  Public([o EXCEPT !.rv = rv]) = Public(o)
<1> DEFINE p == [o EXCEPT !.rv = rv]
<1>1. IsNode(n, p) BY VersionUpdateType
<1>2. p.fields = o.fields /\ p.conditions = o.conditions BY DEF IsNode
<1> HIDE DEF p
<1>3. Public(p) = Public(o) BY <1>1, <1>2, PublicParts
<1> QED BY <1>3 DEF p

LEMMA PublicField ==
    ASSUME NEW n, NEW o, IsNode(n, o), NEW f, NEW v
    PROVE  Public([o EXCEPT !.fields[f] = v]) = [Public(o) EXCEPT !.fields[f] = v]
<1> DEFINE p == [o EXCEPT !.fields[f] = v]
           g == [o.fields EXCEPT ![f] = v]
           claims == [d \in Domains |-> PublicClaim(o.conditions[d])]
<1>1. IsNode(n, p) BY FieldUpdateType
<1>2. p.fields = g /\ p.conditions = o.conditions BY DEF IsNode
<1> HIDE DEF p
<1>3. Public(p) = [name |-> n, fields |-> g, conditions |-> claims]
  BY <1>1, <1>2, PublicParts
<1>4. Public(o) = [name |-> n, fields |-> o.fields, conditions |-> claims]
  BY PublicParts
<1> HIDE DEF claims
<1>5. [Public(o) EXCEPT !.fields[f] = v] = [name |-> n, fields |-> g, conditions |-> claims]
  BY <1>4
<1> QED BY <1>3, <1>5 DEF p

LEMMA PublicCondition ==
    ASSUME NEW n, NEW o, IsNode(n, o), NEW d \in Domains, NEW c \in Conditions
    PROVE  Public([o EXCEPT !.conditions[d] = c])
                = [Public(o) EXCEPT !.conditions[d] = PublicClaim(c)]
<1> DEFINE p == [o EXCEPT !.conditions[d] = c]
           claims == [e \in Domains |-> PublicClaim(o.conditions[e])]
           changed == [claims EXCEPT ![d] = PublicClaim(c)]
<1>1. IsNode(n, p) BY ConditionUpdateType
<1>2. p.fields = o.fields /\ p.conditions = [o.conditions EXCEPT ![d] = c] BY DEF IsNode
<1> HIDE DEF p
<1> DEFINE q == [e \in Domains |-> PublicClaim(p.conditions[e])]
<1>3. q = changed
  BY <1>2 DEF IsNode
<1>4. Public(p) = [name |-> n, fields |-> o.fields, conditions |-> changed]
  <2>1. Public(p) = [name |-> n, fields |-> p.fields, conditions |-> q]
    BY <1>1, PublicParts
  <2> HIDE DEF q, changed
  <2> QED BY <1>2, <1>3, <2>1
<1>5. Public(o) = [name |-> n, fields |-> o.fields, conditions |-> claims]
  BY PublicParts
<1> HIDE DEF claims, changed
<1>6. [Public(o) EXCEPT !.conditions[d] = PublicClaim(c)]
        = [name |-> n, fields |-> o.fields, conditions |-> changed]
  BY <1>5 DEF changed
<1> QED BY <1>4, <1>6 DEF p

\* Rules match the public part of a Node.
LEMMA PublicMatching ==
    ASSUME NEW n, NEW o, IsNode(n, o), NEW theRules
    PROVE  MatchingIDs(Public(o), theRules) = MatchingIDs(o, theRules)
<1> DEFINE p == Public(o)
<1>1. p.fields = o.fields /\ p.name = o.name
  BY PublicParts DEF IsNode
<1> HIDE DEF p
<1>2. NameField(p) = NameField(o) BY <1>1 DEF NameField
<1>3. \A term : SelectorTermMatches(p, term) <=> SelectorTermMatches(o, term)
  BY <1>1, <1>2 DEF SelectorTermMatches
<1>4. \A m : Matches(p, m) <=> Matches(o, m)
  BY <1>1, <1>3 DEF Matches
<1>5. MatchingIDs(p, theRules) = MatchingIDs(o, theRules)
  BY <1>4 DEF MatchingIDs
<1> QED BY <1>5 DEF p

LEMMA PublicInitialized ==
    ASSUME NEW n, NEW o, IsNode(n, o), NEW schemes
    PROVE  Public(Initialized(o, schemes)) = Initialized(Public(o), schemes)
<1> DEFINE p == Public(o)
           i == Initialized(o, schemes)
           claims == [d \in Domains |-> PublicClaim(o.conditions[d])]
           changes(x) == [providerID |-> InitialProviderID(x, schemes),
                          taints |-> x.fields.taints \ {"uninitialized"}]
           g == ApplyOverwrite(o.fields, changes(o))
<1>1. p = [name |-> n, fields |-> o.fields, conditions |-> claims] BY PublicParts
<1>2. o.name = n BY DEF IsNode
<1> HIDE DEF p, claims
<1>3. p.name = o.name /\ p.fields = o.fields BY <1>1, <1>2
<1>4. InitialProviderID(p, schemes) = InitialProviderID(o, schemes)
  BY <1>3 DEF InitialProviderID
<1>5. ApplyOverwrite(p.fields, changes(p)) = g BY <1>3, <1>4
<1>6. Initialized(p, schemes) = [p EXCEPT !.fields = g]
  BY <1>5 DEF Initialized
<1>7. [p EXCEPT !.fields = g] = [name |-> n, fields |-> g, conditions |-> claims]
  <2> HIDE DEF g
  <2> QED BY <1>1
<1>8. i = [o EXCEPT !.fields = g] BY DEF Initialized
<1>9. i.fields = g /\ i.conditions = o.conditions
  <2> HIDE DEF g, i
  <2> QED BY <1>8 DEF IsNode
<1>10. IsNode(n, i) BY InitializedType
<1> HIDE DEF g, i
<1>11. Public(i) = [name |-> n, fields |-> g, conditions |-> claims]
  BY <1>9, <1>10, PublicParts DEF claims
<1>12. Public(i) = Initialized(p, schemes) BY <1>6, <1>7, <1>11
<1> QED BY <1>12 DEF p, i

LEMMA PublicNewNode ==
    ASSUME NEW n, NEW content \in Contents
    PROVE  Public(NewNode(n, content, 0)) = Contract!NewNode(n, content)
<1> DEFINE o == NewNode(n, content, 0)
<1>1. IsNode(n, o) BY NewNodeType
<1>2. /\ o.fields = content
      /\ o.conditions = [d \in Domains |-> NoCondition]
  BY DEF NewNode
<1> HIDE DEF o
<1>3. [d \in Domains |-> PublicClaim(o.conditions[d])] = [d \in Domains |-> NoCondition]
  BY <1>2 DEF PublicClaim
<1>4. Public(o) = [name |-> n, conditions |-> [d \in Domains |-> NoCondition],
                   fields |-> content]
  BY <1>1, <1>2, <1>3, PublicParts
<1> QED BY <1>4 DEF Contract!NewNode, o

\* What the contract sees of an update that is stored.
LEMMA LandsPublic ==
    ASSUME TypeOK, NEW n \in Nodes, NEW o, IsNode(n, o),
           Replaces(n, [o EXCEPT !.rv = revision + 1])
    PROVE  PublicNodes' = [PublicNodes EXCEPT ![n] = Public(o)]
<1>1. revision + 1 \in Nat BY DEF TypeOK, ServerOK
<1>2. \A m \in Nodes : api'[m] = IF m = n THEN [o EXCEPT !.rv = revision + 1] ELSE api[m]
  BY DEF Replaces, TypeOK, ServerOK
<1>3. Public(api'[n]) = Public(o) BY <1>1, <1>2, PublicVersion
<1>4. \A m \in Nodes : Public(api'[m]) = IF m = n THEN Public(o) ELSE Public(api[m])
  BY <1>2, <1>3
<1> QED BY <1>4 DEF PublicNodes

LEMMA StorePublic ==
    ASSUME TypeOK, NEW n \in Nodes, NEW o, IsNode(n, o), Store(n, o)
    PROVE  PublicNodes' = [PublicNodes EXCEPT ![n] = Public(o)]
<1>1. Replaces(n, [o EXCEPT !.rv = revision + 1])
  BY NodeIsNotGone DEF Store, Replaces, IsNode
<1> QED BY <1>1, LandsPublic

\* What was decided on the Node as it is is a step of the contract.
LEMMA DecisionByContract ==
    ASSUME NEW t \in Tasks, NEW c \in Rulesets,
           api[t[2]] # Gone, api[t[2]] = worker[t].node,
           IsNode(t[2], worker[t].node), IsNode(t[2], worker[t].updated),
           Decision(t[1], worker[t], c),
           PublicNodes' = [PublicNodes EXCEPT ![t[2]] = Public(worker[t].updated)]
    PROVE  Contract!Next
<1> DEFINE d == t[1]
           n == t[2]
           node == worker[t].node
           updated == worker[t].updated
           public == Public(node)
           matched == MatchingIDs(node, c[d])
           wanted == Desired(d, matched, c[d])
           old == node.conditions[d]
           claim == updated.conditions[d]
<1>1. d \in Domains /\ n \in Nodes BY TaskParts
<1>2. PublicNodes[n] = public BY <1>1 DEF PublicNodes
<1>3. /\ public # Gone
      /\ public.fields = node.fields
      /\ public.conditions[d] = PublicClaim(old)
  BY <1>1, PublicParts
<1>4. /\ Contract!Matching(n, d, c) = matched
      /\ Contract!WantedBy(n, d, c) = wanted
      /\ Contract!HasValues(n, d, c) <=> InPlace(d, node, wanted)
      /\ Contract!Claims(n, d) = PublicClaim(old)
  <2>1. MatchingIDs(public, c[d]) = matched BY PublicMatching
  <2>2. Contract!Matching(n, d, c) = matched
    BY <1>2, <2>1 DEF Contract!Matching, PublicNodes
  <2>3. Contract!WantedBy(n, d, c) = wanted
    BY <2>2 DEF Contract!WantedBy
  <2>4. Contract!HasValues(n, d, c) <=> InPlace(d, node, wanted)
    BY <1>2, <1>3, <2>3 DEF Contract!HasValues, PublicNodes, InPlace
  <2>5. Contract!Claims(n, d) = PublicClaim(old)
    BY <1>2, <1>3 DEF Contract!Claims, PublicNodes
  <2> QED BY <2>2, <2>3, <2>4, <2>5
<1>5. PublicNodes' = [PublicNodes EXCEPT ![n] = Public(updated)]
  OBVIOUS
<1>8. CASE /\ d = "initialization"
           /\ MayInitialize(node, matched, c[d])
           /\ updated = Initialized(node, wanted)
  <2>1. MayInitialize(public, matched, c[d])
    BY <1>3, <1>8 DEF MayInitialize
  <2>2. Public(updated) = Initialized(public, wanted)
    BY <1>1, <1>8, PublicInitialized
  <2>3. PublicNodes' = [PublicNodes EXCEPT ![n] = Initialized(PublicNodes[n], wanted)]
    BY <1>2, <1>5, <2>2
  <2>4. MayInitialize(PublicNodes[n], Contract!Matching(n, d, c), c[d])
    BY <1>2, <1>4, <2>1
  <2> HIDE DEF wanted, matched, node, updated, public
  <2>5. Contract!Initialize(n, d, c)
    BY <1>1, <1>4, <2>3, <2>4 DEF Contract!Initialize, PublicNodes
  <2> QED BY <1>1, <1>2, <1>3, <1>8, <2>5 DEF Contract!Next, Contract!Rules, PublicNodes
<1>6. CASE /\ d # "initialization"
           /\ updated = [node EXCEPT !.conditions[d] = claim]
           /\ \/ matched = {} /\ old # NoCondition /\ claim = NoCondition
              \/ /\ matched # {}
                 /\ claim.ids = matched
                 /\ \/ /\ claim.reason = "Pending" /\ ~InPlace(d, node, wanted)
                       /\ (old = NoCondition \/ IsTrue(old))
                    \/ claim.reason = "Drifted" /\ ~InPlace(d, node, wanted) /\ IsTrue(old)
                    \/ claim.reason = "Applied" /\ InPlace(d, node, wanted)
  <2>1. claim \in Conditions BY <1>1 DEF IsNode
  <2>2. Public(updated) = [public EXCEPT !.conditions[d] = PublicClaim(claim)]
    <3> HIDE DEF claim
    <3> QED BY <1>1, <1>6, <2>1, PublicCondition
  <2>3. Contract!Claim(n, d, PublicClaim(claim))
    <3> HIDE DEF claim, updated
    <3> QED BY <1>2, <1>5, <2>2 DEF Contract!Claim, PublicNodes
  <2>4. CASE matched = {} /\ old # NoCondition /\ claim = NoCondition
    <3>1. PublicClaim(old) # NoCondition
      <4>1. old \in Conditions BY <1>1 DEF IsNode
      <4> QED BY <2>4, <4>1 DEF PublicClaim, Conditions, NoCondition
    <3>2. PublicClaim(claim) = NoCondition BY <2>4 DEF PublicClaim
    <3>3. Contract!Clear(n, d, c)
      BY <1>4, <2>3, <2>4, <3>1, <3>2 DEF Contract!Clear
    <3> QED BY <1>1, <1>2, <1>3, <1>6, <3>3 DEF Contract!Next, Contract!Rules, PublicNodes
  <2>5. CASE /\ matched # {}
             /\ claim.ids = matched
             /\ \/ /\ claim.reason = "Pending" /\ ~InPlace(d, node, wanted)
                   /\ (old = NoCondition \/ IsTrue(old))
                \/ claim.reason = "Drifted" /\ ~InPlace(d, node, wanted) /\ IsTrue(old)
                \/ claim.reason = "Applied" /\ InPlace(d, node, wanted)
    <3>1. PublicClaim(claim) = [reason |-> claim.reason, ids |-> matched]
      BY <2>5 DEF PublicClaim, NoCondition
    <3>2. old = NoCondition => PublicClaim(old) = NoCondition
      BY DEF PublicClaim
    <3>3. IsTrue(old) => PublicClaim(old).reason = "Applied" /\ PublicClaim(old) # NoCondition
      BY DEF PublicClaim, IsTrue, NoCondition
    <3>4. \/ Contract!Pend(n, d, c)
          \/ Contract!Drift(n, d, c)
          \/ Contract!Confirm(n, d, c)
      BY <1>4, <2>3, <2>5, <3>1, <3>2, <3>3
      DEF Contract!Pend, Contract!Drift, Contract!Confirm
    <3> QED BY <1>1, <1>2, <1>3, <1>6, <3>4 DEF Contract!Next, Contract!Rules, PublicNodes
  <2> QED BY <1>6, <2>4, <2>5
<1>7. CASE /\ d # "initialization"
           /\ updated = [node EXCEPT !.fields[d] = WithDesired(d, node.fields[d], wanted)]
           /\ matched # {}
           /\ ~InPlace(d, node, wanted)
           /\ old # NoCondition
  <2>1. PublicClaim(old) # NoCondition
    <3>1. old \in Conditions BY <1>1 DEF IsNode
    <3> QED BY <1>7, <3>1 DEF PublicClaim, Conditions, NoCondition
  <2> DEFINE v == WithDesired(d, node.fields[d], wanted)
  <2>2. Public(updated) = [public EXCEPT !.fields[d] = v]
    <3> HIDE DEF v
    <3> QED BY <1>7, PublicField DEF v
  <2>3. PublicNodes' = [PublicNodes EXCEPT ![n].fields[d] = v]
    <3> HIDE DEF v, updated
    <3> QED BY <1>2, <1>5, <2>2 DEF PublicNodes
  <2>4. Contract!Apply(n, d, c)
    BY <1>2, <1>3, <1>4, <1>7, <2>1, <2>3 DEF Contract!Apply, PublicNodes
  <2> QED BY <1>1, <1>2, <1>3, <1>7, <2>4 DEF Contract!Next, Contract!Rules, PublicNodes
<1> QED BY <1>6, <1>7, <1>8 DEF Decision

\* An update that is stored is a step of the contract.
LEMMA LandsByContract ==
    ASSUME TypeOK, VersionsIdentify, UpdatesJustified, Decided, NEW t \in Tasks, Lands(t)
    PROVE  Contract!Next
<1>1. PICK c \in Rulesets : Decision(t[1], worker[t], c) BY DEF Decided, Lands
<1>2. /\ api[t[2]] # Gone /\ api[t[2]] = worker[t].node
      /\ IsNode(t[2], worker[t].node) /\ IsNode(t[2], worker[t].updated)
  BY LandsOverSnapshot
<1>3. PublicNodes' = [PublicNodes EXCEPT ![t[2]] = Public(worker[t].updated)]
  BY <1>2, LandsPublic, TaskParts DEF Lands
<1> QED BY <1>1, <1>2, <1>3, DecisionByContract

LEMMA ContractStep ==
    TypeOK /\ VersionsIdentify /\ UpdatesJustified /\ Decided /\ [Next]_vars
        => Contract!Next \/ UNCHANGED PublicNodes
<1> SUFFICES ASSUME TypeOK, VersionsIdentify, UpdatesJustified, Decided, [Next]_vars
             PROVE  Contract!Next \/ UNCHANGED PublicNodes
  OBVIOUS
<1>1. UNCHANGED api => UNCHANGED PublicNodes BY DEF PublicNodes
<1>2. ASSUME NEW t \in Tasks, Write(t) PROVE Contract!Next \/ UNCHANGED PublicNodes
  <2>1. t[2] \in Nodes /\ api = [n \in Nodes |-> api[n]]
    BY TaskParts DEF TypeOK, ServerOK
  <2>2. UNCHANGED api \/ Store(t[2], worker[t].updated)
    BY <1>2 DEF Write, WriteSucceeds, WriteConflicts, WriteFails, server
  <2>3. CASE Stores(t)
    BY <2>3, StoresLands, LandsByContract
  <2>4. CASE ~Stores(t)
    <3>1. worker[t].pc = "write" /\ worker'[t].pc # "write"
      <4>1. worker'[t] = Idle
            \/ worker'[t] = [pc |-> "record", desired |-> worker[t].desired]
        BY <1>2 DEF Write, WriteSucceeds, WriteConflicts, WriteFails, Done, TypeOK, WorkersOK
      <4>2. worker[t].pc = "write"
        BY <1>2 DEF Write, WriteSucceeds, WriteConflicts, WriteFails, Writing
      <4> QED BY <4>1, <4>2 DEF Idle
    <3>2. api'[t[2]] = api[t[2]] BY <2>4, <3>1 DEF Stores
    <3>3. UNCHANGED api BY <2>1, <2>2, <3>2 DEF Store
    <3> QED BY <1>1, <3>3
  <2> QED BY <2>3, <2>4
<1>3. ASSUME NEW t \in Tasks, System(t), ~Write(t) PROVE UNCHANGED api
  BY <1>3
  DEF System, Handle, Start, Reconcile, Unmatched, Confirm, Initialize, StartOver, HandleDrift,
      AwaitCooldown, BeginPending, ApplyValues, Unapplied, Reconciling, Record, Wake, server
<1>4. ASSUME NEW n \in Nodes, ForeignWrite(n) PROVE Contract!Next
  <2>1. PICK f \in ForeignFields : \E v \in FieldValues[f] :
            Store(n, [api[n] EXCEPT !.fields[f] = v])
    BY <1>4 DEF ForeignWrite
  <2>2. PICK v \in FieldValues[f] : Store(n, [api[n] EXCEPT !.fields[f] = v])
    BY <2>1
  <2>3. IsNode(n, api[n]) BY <1>4 DEF ForeignWrite, TypeOK, ServerOK, IsVersion
  <2> DEFINE o == [api[n] EXCEPT !.fields[f] = v]
  <2>4. PublicNodes' = [PublicNodes EXCEPT ![n] = [Public(api[n]) EXCEPT !.fields[f] = v]]
    <3>1. IsNode(n, o) BY <2>3, FieldUpdateType
    <3>2. Public(o) = [Public(api[n]) EXCEPT !.fields[f] = v]
      <4> DEFINE node == api[n]
      <4>1. IsNode(n, node) BY <2>3
      <4> HIDE DEF node
      <4>2. Public([node EXCEPT !.fields[f] = v]) = [Public(node) EXCEPT !.fields[f] = v]
        BY <4>1, PublicField
      <4> QED BY <4>2 DEF node
    <3>3. Store(n, o) BY <2>2
    <3> HIDE DEF o
    <3>4. PublicNodes' = [PublicNodes EXCEPT ![n] = Public(o)] BY <3>1, <3>3, StorePublic
    <3> QED BY <3>2, <3>4
  <2>5. PublicNodes[n] = Public(api[n]) BY DEF PublicNodes
  <2>6. PublicNodes' = [PublicNodes EXCEPT ![n].fields[f] = v] BY <2>4, <2>5
  <2>7. PublicNodes[n] # Gone BY <2>3, <2>5, PublicParts
  <2>8. Contract!Change(n, f, v) BY <2>6, <2>7 DEF Contract!Change, PublicNodes
  <2> QED BY <2>8 DEF Contract!Next, Contract!Others
<1>5. ASSUME NEW n \in Nodes, DeleteNode(n) PROVE Contract!Next
  <2>1. IsNode(n, api[n]) /\ Store(n, Gone)
    BY <1>5 DEF DeleteNode, TypeOK, ServerOK, IsVersion
  <2>2. PublicNodes[n] # Gone BY <2>1, PublicParts DEF PublicNodes
  <2>3. PublicNodes' = [PublicNodes EXCEPT ![n] = Gone]
    BY <2>1 DEF Store, PublicNodes, Public, TypeOK, ServerOK
  <2>4. Contract!Leave(n) BY <2>2, <2>3 DEF Contract!Leave, PublicNodes
  <2> QED BY <2>4 DEF Contract!Next, Contract!Others
<1>6. ASSUME NEW n \in Nodes, CreateNode(n) PROVE Contract!Next
  <2>1. PICK content \in Contents : Store(n, NewNode(n, content, 0))
    BY <1>6 DEF CreateNode
  <2>2. PublicNodes[n] = Gone BY <1>6 DEF CreateNode, PublicNodes, Public
  <2>3. PublicNodes' = [PublicNodes EXCEPT ![n] = Public(NewNode(n, content, 0))]
    BY <2>1, NewNodeType, StorePublic
  <2>4. Public(NewNode(n, content, 0)) = Contract!NewNode(n, content) BY PublicNewNode
  <2>5. Contract!Join(n, content)
    BY <2>2, <2>3, <2>4 DEF Contract!Join, PublicNodes
  <2> QED BY <2>5 DEF Contract!Next, Contract!Others
<1>7. ASSUME \/ \E n \in Nodes : Deliver(n) \/ Relist(n) \/ Resync(n)
             \/ LoadConfig
             \/ ResyncConfig
             \/ \E d \in Domains : EnqueueAll(d)
             \/ EditConfigMap
             \/ Crash
             \/ Tick
             \/ UNCHANGED vars
      PROVE  UNCHANGED api
  BY <1>7 DEF Deliver, Relist, Resync, LoadConfig, ResyncConfig, EnqueueAll, EditConfigMap, Crash,
              Tick, vars, server
<1> QED BY <1>1, <1>2, <1>3, <1>4, <1>5, <1>6, <1>7 DEF Next

\* The whole machinery of cache, queue, versions, retries and restarts is,
\* from the outside, atomic and justified: a condition goes from none through
\* Pending and Applied to Drifted, values are only written under a condition,
\* and only what the rules call for is ever changed (drift.go:151-186,
\* conditions.go:77-155, metadata_controller.go:100-146,
\* externalip_controller.go:54-104).
THEOREM Implementation == Spec => ImplementsContract
<1>1. Init => Decided BY DEF Init, Decided, Idle
<1>2. Init => Contract!Init
  <2> SUFFICES ASSUME Init PROVE Contract!Init
    OBVIOUS
  <2>1. PICK content \in [Nodes -> Contents] :
          api = [n \in Nodes |-> NewNode(n, content[n], 0)]
    BY DEF Init
  <2>2. \A n \in Nodes : Public(api[n]) = Contract!NewNode(n, content[n])
    BY <2>1, PublicNewNode
  <2> QED BY <2>2 DEF Contract!Init
<1>3. Spec => [](TypeOK /\ VersionsIdentify /\ UpdatesJustified /\ Decided)
  BY <1>1, DecidedStep, TypeCorrect, VersionsCorrect, JustifiedUpdates, PTL DEF Spec
<1> QED BY <1>2, <1>3, ContractStep, PTL
        DEF Spec, ImplementsContract, Contract!Spec, PublicNodes
================================================================================
