---- MODULE MCRuleController ----
(***************************************************************************)
(* Values for the constants of RuleController.  Metadata rules set one     *)
(* key.  Unless a configuration says otherwise, its rules match the Nodes  *)
(* with the pattern ^(metal)?$.                                            *)
(***************************************************************************)
EXTENDS RuleController

Role(v) == [k \in {"role"} |-> v]
NoKeys == [k \in {} |-> ""]

Metal == [nodeSelector |-> NoKeys, selectorTerms |-> {},
          providerIDs |-> {NoProviderID, <<"metal">>}]
Rules(values) == [d \in Domains |-> [id \in {1} |-> [match |-> Metal, values |-> values]]]

\* One rule, or two versions of it.
OneConfig  == {Rules(Role("a"))}
TwoConfigs == {Rules(Role("a")), Rules(Role("b"))}

\* What may happen to the Nodes besides, and up to when.
Budget(writes, lifecycles, edits, faults, horizon) ==
    [writes |-> writes, lifecycles |-> lifecycles, edits |-> edits,
     faults |-> faults, horizon |-> horizon]
Nothing               == {Budget(0, 0, 0, 0, 0)}
OneWrite              == {Budget(1, 0, 0, 0, 0)}
OneFault              == {Budget(0, 0, 0, 1, 0)}
OneWriteOneEdit       == {Budget(1, 0, 1, 0, 0)}
WritesOrAFault        == {Budget(1, 0, 0, 0, 3), Budget(2, 0, 0, 0, 2), Budget(1, 0, 0, 1, 2)}
OneWriteTwoLifecycles == {Budget(1, 2, 0, 0, 1)}
TwoWritesEditAndFault == {Budget(2, 0, 1, 1, 1)}

\* Addresses: the rules add an IPv6 address to Nodes with an IPv4 one.
External(family) == [type |-> "ExternalIP", ip |-> [family |-> family, host |-> 1]]
Internal == [type |-> "InternalIP", ip |-> [family |-> 4, host |-> 2]]
IPConfig == {Rules(<<External(6).ip>>)}

MCFieldValues ==
    [f \in NodeFields |->
        CASE f = "labels"      -> {NoKeys, Role("x")}
          [] f = "annotations" -> {NoKeys, Role("x")}
          [] f = "externalIPs" -> {<<Internal, External(4)>>,
                                   <<External(4), External(6), Internal>>}
          [] f = "providerID"  -> {<<"other">>}
          [] f = "taints"      -> {{"kept"}, {"uninitialized", "kept"}}]

\* A Node that joins the cluster bare, with addresses and taints.
Bare == [f \in NodeFields |->
            CASE f = "externalIPs" -> <<Internal, External(4)>>
              [] f = "providerID"  -> NoProviderID
              [] f = "taints"      -> {"uninitialized", "kept"}
              [] OTHER             -> NoKeys]
MCContents == {Bare}

\* Initialization rules: a scheme for every Node, a conflicting one for Nodes
\* with a label, and a rule for these that only wants the taint removed, which
\* is all that is left of them in the second configuration.  All match a Node
\* that another controller has given a providerID, too.
Every == [nodeSelector |-> NoKeys, selectorTerms |-> {},
          providerIDs |-> {NoProviderID, <<"other">>}]
Labelled == [nodeSelector |-> Role("x"), selectorTerms |-> {},
             providerIDs |-> {NoProviderID, <<"other">>}]
InitRule(id) ==
    CASE id = 1 -> [match |-> Every, values |-> "custom"]
      [] id = 2 -> [match |-> Labelled, values |-> "cloud"]
      [] id = 3 -> [match |-> Labelled, values |-> NoScheme]
InitConfigs ==
    {[d \in Domains |-> [id \in ids |-> InitRule(id)]] : ids \in {{1, 2, 3}, {3}}}

\* Chained rules: a Node without a providerID is given one, which makes it
\* match a label rule for Nodes that lack the label it sets.
NoRole == [key |-> "role", operator |-> "DoesNotExist", values |-> {}]
Named  == [key |-> "metadata.name", operator |-> "NotIn", values |-> {"other"}]
Unlabelled ==
    [nodeSelector |-> NoKeys, providerIDs |-> {<<"custom", n>> : n \in Nodes},
     selectorTerms |-> {[matchExpressions |-> {NoRole}, matchFields |-> {Named}]}]
Uninitialized ==
    [nodeSelector |-> NoKeys, selectorTerms |-> {}, providerIDs |-> {NoProviderID}]
ChainedConfig ==
    {[d \in Domains |-> [id \in {1} |->
        IF d = "labels" THEN [match |-> Unlabelled, values |-> Role("a")]
        ELSE [match |-> Uninitialized, values |-> "custom"]]]}
====
