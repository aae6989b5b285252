----------------------------- MODULE RuleAlgebra -----------------------------
(***************************************************************************)
(* The pure functions of NodeRules, DriftReport and RuleValidation over    *)
(* every small input.  There is no program here; a behaviour picks inputs  *)
(* for one of them: a Node's addresses and the rules' IPs, its labels and  *)
(* a set of rules, who wrote it when, or a configuration.                  *)
(***************************************************************************)
EXTENDS DriftReport, RuleValidation

CONSTANTS
    Addresses,      \* addresses a Node may report
    IPs,            \* addresses rules may add
    MaxAddresses,   \* bound: addresses on a Node
    MaxIPs,         \* bound: addresses of a rule
    Keys, Values,   \* label keys and values
    RuleIDs,        \* of the rules that match
    Names,          \* of Nodes
    Writes,         \* what field managers may have written
    MaxWrites,      \* bound: entries in managedFields
    Times,          \* at which values may have been applied
    MatchValues     \* the Matches rules may have; providerIDs may be Malformed

\* An address is its type and its IP (v1.NodeAddress).
ASSUME AddressesAssumption ==
    \A address \in Addresses : address = [type |-> address.type, ip |-> address.ip]

ASSUME BoundsAssumption == {MaxAddresses, MaxIPs, MaxWrites} \subseteq Nat

ASSUME WritesAssumption ==
    /\ Times \subseteq Nat /\ NoTime \notin Nat
    /\ \A w \in Writes : w.at \in Nat \cup {NoTime}

\* Nodes may have the labels and the names that rules ask for.
ASSUME MatchAssumption ==
    /\ \A m \in MatchValues : \A term \in m.selectorTerms :
        /\ \A r \in term.matchExpressions : r.key \in Keys /\ r.values \subseteq Values
        /\ \A r \in term.matchFields : r.values \subseteq Names
    /\ Values # {}
    /\ \E n, other \in Names : n # other

VARIABLES addresses, ips, labels, rules, writes, since, configuration

vars == <<addresses, ips, labels, rules, writes, since, configuration>>

SeqsUpTo(S, n) == UNION {[1 .. k -> S] : k \in 0 .. n}
Maps == UNION {[K -> Values] : K \in SUBSET Keys}

SomeNodes ==
    {[name |-> n, fields |-> [labels |-> l, providerID |-> NoProviderID]] :
        n \in Names, l \in Maps}

LabelRules == [match : {"any"}, values : Maps]
NoMatch == [nodeSelector |-> <<>>, selectorTerms |-> {}, providerIDs |-> {}]

NoMerge   == addresses = <<>> /\ ips = <<>>
NoResolve == labels = <<>> /\ rules = [id \in {} |-> {}]
NoReport  == writes = <<>> /\ since = 0
NoRules == [d \in AllDomains |-> <<>>]
NoMatching == configuration = NoRules

\* Configurations with a rule of domain d behind another one.
Configurations ==
    {[NoRules EXCEPT ![d] = <<[match |-> NoMatch, values |-> NoScheme],
                              [match |-> m, values |-> NoScheme]>>] :
        d \in AllDomains, m \in MatchValues}

InitMerge ==
    /\ addresses \in SeqsUpTo(Addresses, MaxAddresses)
    /\ ips \in SeqsUpTo(IPs, MaxIPs)
    /\ NoResolve /\ NoReport /\ NoMatching

InitResolve ==
    /\ labels \in Maps
    /\ rules \in [RuleIDs -> LabelRules]
    /\ NoMerge /\ NoReport /\ NoMatching

InitReport ==
    /\ writes \in SeqsUpTo(Writes, MaxWrites)
    /\ since \in Times
    /\ NoMerge /\ NoResolve /\ NoMatching

InitMatching ==
    /\ configuration \in Configurations
    /\ NoMerge /\ NoResolve /\ NoReport

Init == InitMerge \/ InitResolve \/ InitReport \/ InitMatching

Unchanged == UNCHANGED vars

Spec == Init /\ [][Unchanged]_vars
-------------------------------------------------------------------------------
Merged == MergeExternalIPs(addresses, ips)
ExternalIPsOf(s) == {s[i].ip : i \in {j \in DOMAIN s : IsExternal(s[j])}}

\* Merging what is merged changes nothing, even if the rules that want these
\* IPs list them in another order or repeat them.  Otherwise the controller
\* would take its own write for a drift, forever (externalip_controller.go:162).
MergeSettles ==
    /\ MergeExternalIPs(Merged, ips) = Merged
    /\ MergeExternalIPs(Merged, Reverse(ips) \o ips) = Merged

\* README.md:282-290: nothing is removed, nothing but the rules' IPs is added,
\* other addresses keep their order, and IPv6 comes before IPv4 once each.
MergeIsOrderedUnion ==
    /\ OtherAddresses(Merged) = OtherAddresses(addresses)
    /\ ExternalIPsOf(Merged) = ExternalIPsOf(addresses) \cup ToSet(ips)
    /\ ips # <<>> =>
        \A i, j \in DOMAIN Merged :
            i < j /\ IsExternal(Merged[i]) =>
                /\ IsExternal(Merged[j])
                /\ Merged[i].ip # Merged[j].ip
                /\ IsIPv6(Merged[j].ip) => IsIPv6(Merged[i].ip)

\* Stable within each family: IPs keep the order they had on the Node.
MergeIsStable ==
    ips # <<>> =>
    \A i, j \in DOMAIN addresses : \A k, l \in DOMAIN Merged :
        /\ i < j /\ IsExternal(addresses[i]) /\ IsExternal(addresses[j])
        /\ addresses[i].ip.family = addresses[j].ip.family
        /\ Merged[k] = addresses[i] /\ Merged[l] = addresses[j]
        /\ \A m \in 1 .. j - 1 : addresses[m] # addresses[j]
        => k < l

Matched == DOMAIN rules
Resolved == ResolveValues(Matched, rules)

\* metadata_controller.go:148-152: whatever rule is asked, a resolved key has
\* the value it sets, and a key is only left out if two rules disagree on it.
ResolvedByConsent ==
    /\ \A id \in Matched : \A k \in DOMAIN rules[id].values \cap DOMAIN Resolved :
        Resolved[k] = rules[id].values[k]
    /\ \A id \in Matched : \A k \in DOMAIN rules[id].values \ DOMAIN Resolved :
        \E other \in Matched :
            /\ k \in DOMAIN rules[other].values
            /\ rules[other].values[k] # rules[id].values[k]

\* What beforeApply reports is what the write that follows changes, although
\* it is computed apart (drift.go:57-85): the labels that are added and those
\* that are replaced, and the addresses that are added, also if the Node has
\* them as InternalIP.
DriftIsWhatIsApplied ==
    LET drift   == MetadataDrift(labels, Resolved)
        applied == ApplyOverwrite(labels, Resolved)
    IN  /\ drift.missing = DOMAIN applied \ DOMAIN labels
        /\ drift.changed = {k \in DOMAIN labels : labels[k] # applied[k]}
        /\ ExternalIPDrift(addresses, ips) = ExternalIPsOf(Merged) \ ExternalIPsOf(addresses)

\* w changed domain d's values through the API that its controller uses, and
\* managedFields say so.
WroteValues(w, d) ==
    /\ w.manager # Kubeling
    /\ w.subresource = SubresourceOf(d)
    /\ w.fields \notin {NoFields, Broken} /\ d \in w.fields
    /\ w.at # NoTime

\* Those who wrote a domain's values in the second in which these had been
\* applied, or later.
SuspectsOf(d) ==
    {w \in ToSet(writes) : WroteValues(w, d) /\ Truncated(w.at) >= Truncated(since)}

\* Whoever wrote a domain's values at or after they were applied is named, also
\* within the same second, once and the most recent first; Kubeling itself is
\* not, nor anybody who wrote something else, through another subresource or in
\* an earlier second (drift.go:87-131, drift_test.go:58-87).
CulpritsNamed ==
    \A d \in ValueDomains :
        LET named == RecentWriters(EntriesOf(writes), SubresourceOf(d), since, d)
        IN  /\ \A w \in ToSet(writes) :
                WroteValues(w, d) /\ w.at >= since => Contains(named, w.manager)
            /\ \A i \in DOMAIN named : \E w \in SuspectsOf(d) :
                /\ w.manager = named[i]
                /\ \A j \in i + 1 .. Len(named) :
                    /\ named[j] # named[i]
                    /\ \A x \in SuspectsOf(d) :
                        x.manager = named[j] => Truncated(x.at) <= Truncated(w.at)

\* Every accepted term that asks for one thing is matched by some Node: none
\* is there that silently never applies (types.go:115-118).
NoDeadTerms ==
    Accepted(configuration) =>
        \A d \in AllDomains : \A id \in DOMAIN configuration[d] :
            \A term \in configuration[d][id].match.selectorTerms :
                (\A r, q \in term.matchExpressions \cup term.matchFields : r = q) =>
                    \E node \in SomeNodes : SelectorTermMatches(node, term)
==============================================================================
