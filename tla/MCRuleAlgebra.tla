---- MODULE MCRuleAlgebra ----
(***************************************************************************)
(* Two IPv6 and two IPv4 addresses; Nodes report up to three addresses,    *)
(* rules add up to three.  Terms of at most one requirement on a label and *)
(* one on a field, of any operator and number of values, and pairs of      *)
(* simple terms.  Two other managers and Kubeling write labels; one of     *)
(* them also writes everything that recentWriters has to pass over.        *)
(***************************************************************************)
EXTENDS RuleAlgebra

IP(family, host) == [family |-> family, host |-> host]
MCIPs == {IP(6, 1), IP(6, 2), IP(4, 1), IP(4, 2)}
MCAddresses ==
    [type : {"ExternalIP"}, ip : MCIPs] \cup [type : {"InternalIP"}, ip : {IP(4, 1)}]

Operators == {"In", "NotIn", "Exists", "DoesNotExist", "Like"}
ValueSets == SUBSET {"a", "b"}
Requirements(keys) == [key : keys, operator : Operators, values : ValueSets]
UpToOne(S) == {{}} \cup {{e} : e \in S}

Terms == [matchExpressions : UpToOne(Requirements({"k1"})),
          matchFields : UpToOne(Requirements({"metadata.name", "spec.unschedulable"}))]
SimpleTerms == {term \in Terms : term.matchFields = {}}

MCMatchValues ==
    [nodeSelector  : {<<>>},
     selectorTerms : UpToOne(Terms) \cup {{a, b} : a, b \in SimpleTerms},
     providerIDs   : {Malformed, {<<>>}}]

Write(manager, subresource, fields, at) ==
    [manager |-> manager, subresource |-> subresource, fields |-> fields, at |-> at]
MCWrites ==
    {Write(m, "", {"labels"}, at) : m \in {"m1", "m2"}, at \in Times}
        \cup {Write("m1", "", fields, 3) :
                fields \in {NoFields, Broken, {"annotations"}, {"labels", "annotations"}}}
        \cup {Write("m2", "status", {d}, 3) : d \in {"labels", "externalIPs"}}
        \cup {Write("kubeling", "", {"labels"}, 3), Write("m2", "", {"labels"}, NoTime)}
====
