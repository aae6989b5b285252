----------------------------- MODULE NodeContract -----------------------------
(***************************************************************************)
(* What the rule controllers promise about every Node, as atomic steps on  *)
(* the Node itself: no cache, no queue, no versions.  Each step looks at   *)
(* the Node as it is, decides by one configuration the ConfigMap may hold  *)
(* (or by the empty one) and changes a single thing.  This is the life of  *)
(* a condition the README describes:                                       *)
(*                                                                         *)
(*   none -> Pending -> (values) -> Applied -> Drifted -> (values) -> ...  *)
(*                                                                         *)
(* with none again once no rule matches.  The claim a condition makes is   *)
(* its reason and the rules it names; times are left out.                  *)
(*                                                                         *)
(* Which rules match a Node, what they want and what a field looks like    *)
(* with it are parameters: the contract is about when, not about what.     *)
(***************************************************************************)
CONSTANTS
    MatchingIDs(_, _),      \* of a Node and a domain's rules
    Desired(_, _, _),       \* of a domain, matched rules and the domain's rules
    WithDesired(_, _, _),   \* of a domain, a field and what is desired
    MayInitialize(_, _, _), \* of a Node, matched rules and the domain's rules
    Initialized(_, _),      \* of a Node and what is desired
    Nodes, Domains,
    Rulesets,               \* the configurations there may be
    Gone, NoCondition,
    FieldValues, ForeignFields, Contents

VARIABLE nodes

Claims(n, d) == nodes[n].conditions[d]
Matching(n, d, c) == MatchingIDs(nodes[n], c[d])
WantedBy(n, d, c) == Desired(d, Matching(n, d, c), c[d])
HasValues(n, d, c) ==
    WithDesired(d, nodes[n].fields[d], WantedBy(n, d, c)) = nodes[n].fields[d]

Claim(n, d, claim) == nodes' = [nodes EXCEPT ![n].conditions[d] = claim]

NewNode(n, content) ==
    [name |-> n, conditions |-> [d \in Domains |-> NoCondition], fields |-> content]

Init == \E content \in [Nodes -> Contents] :
            nodes = [n \in Nodes |-> NewNode(n, content[n])]

\* No rule matches the Node any more.
Clear(n, d, c) ==
    /\ Matching(n, d, c) = {}
    /\ Claims(n, d) # NoCondition
    /\ Claim(n, d, NoCondition)

\* The Node lacks values: it is new to the rules, or they have changed.
Pend(n, d, c) ==
    /\ Matching(n, d, c) # {}
    /\ ~HasValues(n, d, c)
    /\ Claims(n, d) = NoCondition \/ Claims(n, d).reason = "Applied"
    /\ Claim(n, d, [reason |-> "Pending", ids |-> Matching(n, d, c)])

\* The values were there and are gone again.
Drift(n, d, c) ==
    /\ Matching(n, d, c) # {}
    /\ ~HasValues(n, d, c)
    /\ Claims(n, d) # NoCondition /\ Claims(n, d).reason = "Applied"
    /\ Claim(n, d, [reason |-> "Drifted", ids |-> Matching(n, d, c)])

\* The values are written, never before the condition is there.
Apply(n, d, c) ==
    /\ Matching(n, d, c) # {}
    /\ ~HasValues(n, d, c)
    /\ Claims(n, d) # NoCondition
    /\ nodes' = [nodes EXCEPT ![n].fields[d] = WithDesired(d, @, WantedBy(n, d, c))]

\* The values are there.
Confirm(n, d, c) ==
    /\ Matching(n, d, c) # {}
    /\ HasValues(n, d, c)
    /\ Claim(n, d, [reason |-> "Applied", ids |-> Matching(n, d, c)])

\* The Node is initialized, if its rules allow it.
Initialize(n, d, c) ==
    /\ MayInitialize(nodes[n], Matching(n, d, c), c[d])
    /\ nodes' = [nodes EXCEPT ![n] = Initialized(@, WantedBy(n, d, c))]

Rules(n) ==
    /\ nodes[n] # Gone
    /\ \E d \in Domains, c \in Rulesets :
        \/ /\ d = "initialization"
           /\ Initialize(n, d, c)
        \/ /\ d # "initialization"
           /\ \/ Clear(n, d, c)
              \/ Pend(n, d, c)
              \/ Drift(n, d, c)
              \/ Apply(n, d, c)
              \/ Confirm(n, d, c)

\* Everybody else: they leave the conditions alone.
Change(n, f, v) ==
    /\ nodes[n] # Gone
    /\ nodes' = [nodes EXCEPT ![n].fields[f] = v]

Leave(n) ==
    /\ nodes[n] # Gone
    /\ nodes' = [nodes EXCEPT ![n] = Gone]

Join(n, content) ==
    /\ nodes[n] = Gone
    /\ nodes' = [nodes EXCEPT ![n] = NewNode(n, content)]

Others(n) ==
    \/ \E f \in ForeignFields : \E v \in FieldValues[f] : Change(n, f, v)
    \/ Leave(n)
    \/ \E content \in Contents : Join(n, content)

Next == \E n \in Nodes : Rules(n) \/ Others(n)

Spec == Init /\ [][Next]_nodes
===============================================================================
