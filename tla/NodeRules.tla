------------------------------ MODULE NodeRules ------------------------------
(***************************************************************************)
(* The pure part of a rule controller: which rules match a Node            *)
(* (pkg/controller/match.go), which values they want on it, and what the   *)
(* Node looks like with those values (metadata_controller.go,              *)
(* externalip_controller.go, initialization_controller.go).                *)
(*                                                                         *)
(* A rule domain is one of the strings below.  A Node's fields are a       *)
(* function from the domains whose rules write values to these values,     *)
(*   labels, annotations   a function from keys to values,                 *)
(*   externalIPs           status.addresses, a sequence of [type, ip],     *)
(* from "providerID" to spec.providerID, a sequence that is empty or a     *)
(* scheme and a name, and from "taints" to the set of its taints' keys.    *)
(* A rule is [match, values], where an initialization rule's values are    *)
(* its providerIDScheme, a domain's rules are a function from rule IDs     *)
(* (numbers, for the code's alphabetical order) to rules, and a            *)
(* configuration is a function from domains to rules.                      *)
(***************************************************************************)
EXTENDS Integers, Sequences, SequencesExt

ValueDomains == {"labels", "annotations", "externalIPs"}
AllDomains == ValueDomains \cup {"initialization"}
NodeFields == ValueDomains \cup {"providerID", "taints"}

NoProviderID == <<>>
NoScheme == ""

(***************************************************************************)
(* match.go.  A node selector requirement on a label or a field is         *)
(* [key, operator, values]; Gt and Lt are In over the values beyond their  *)
(* bound.  A label that is absent satisfies NotIn and DoesNotExist, as in  *)
(* the nodeaffinity package, where an empty term matches no Node.          *)
(* providerIDs is the set of providerIDs a rule's pattern accepts; an      *)
(* unset pattern accepts all.                                              *)
(***************************************************************************)
Meets(map, r) ==
    LET present == r.key \in DOMAIN map
    IN  CASE r.operator = "In"           -> present /\ map[r.key] \in r.values
          [] r.operator = "NotIn"        -> present => map[r.key] \notin r.values
          [] r.operator = "Exists"       -> present
          [] r.operator = "DoesNotExist" -> ~present

NameField(node) == [key \in {"metadata.name"} |-> node.name]

SelectorTermMatches(node, term) ==
    /\ term.matchExpressions \cup term.matchFields # {}
    /\ \A r \in term.matchExpressions : Meets(node.fields.labels, r)
    /\ \A r \in term.matchFields : Meets(NameField(node), r)

Matches(node, m) ==
    /\ \A k \in DOMAIN m.nodeSelector :
        k \in DOMAIN node.fields.labels /\ node.fields.labels[k] = m.nodeSelector[k]
    /\ \/ m.selectorTerms = {}
       \/ \E term \in m.selectorTerms : SelectorTermMatches(node, term)
    /\ node.fields.providerID \in m.providerIDs

MatchingIDs(node, rules) ==
    {id \in DOMAIN rules : Matches(node, rules[id].match)}

(***************************************************************************)
(* Labels and annotations.                                                 *)
(***************************************************************************)
\* The matched rules that set key k.
SettersOf(matched, rules, k) ==
    {id \in matched : k \in DOMAIN rules[id].values}

\* Mutant of Agreed: the last comparison decides.
AgreedAtEnds(matched, rules, k) ==
    LET setters == SettersOf(matched, rules, k)
    IN  \A i, j \in setters :
            (\A id \in setters : i <= id /\ id <= j) => rules[i].values[k] = rules[j].values[k]

Agreed(matched, rules, k) ==
    \A i, j \in SettersOf(matched, rules, k) :
        rules[i].values[k] = rules[j].values[k]

\* Conflicting keys are left out.
ResolveValues(matched, rules) ==
    LET keys == UNION {DOMAIN rules[id].values : id \in matched}
    IN  [k \in {key \in keys : Agreed(matched, rules, key)} |->
            rules[CHOOSE id \in SettersOf(matched, rules, k) : TRUE].values[k]]

ApplyOverwrite(existing, desired) ==
    [k \in DOMAIN existing \cup DOMAIN desired |->
        IF k \in DOMAIN desired THEN desired[k] ELSE existing[k]]

MetadataFingerprint(desired) == {<<k, desired[k]>> : k \in DOMAIN desired}

(***************************************************************************)
(* External IPs.  An IP is [family, host], so isIPv6 is a comparison.      *)
(***************************************************************************)
IsIPv6(ip) == ip.family = 6

IsExternal(address) == address.type = "ExternalIP"

\* The elements of s at the positions in I, in their order: SelectSeq in a form
\* that can be reasoned about.
Pick(s, I) ==
    LET picked[n \in 0 .. Len(s)] ==
            IF n = 0 THEN <<>>
            ELSE IF n \in I THEN Append(picked[n - 1], s[n])
            ELSE picked[n - 1]
    IN  picked[Len(s)]

\* Mutant of FirstOfEach: duplicates stay.
EveryOne(s) == DOMAIN s

FirstOfEach(s) == {i \in DOMAIN s : \A j \in 1 .. i - 1 : s[j] # s[i]}

Distinct(s) == Pick(s, FirstOfEach(s))

\* The matched rules' IPs, in the order of the sorted rule IDs.
UnionIPs(matched, rules) ==
    FoldLeft(LAMBDA ips, id : ips \o rules[id].values, <<>>,
             SetToSortSeq(matched, <))

\* Mutant of IPv6First: IPs stay as they come.
AsTheyCome(ips) == ips

IPv6First(ips) ==
    LET ipv6 == {i \in DOMAIN ips : IsIPv6(ips[i])}
    IN  Pick(ips, ipv6) \o Pick(ips, DOMAIN ips \ ipv6)

ExternalAt(addresses) == {i \in DOMAIN addresses : IsExternal(addresses[i])}
ExternalIPsIn(addresses) ==
    LET external == Pick(addresses, ExternalAt(addresses))
    IN  [i \in DOMAIN external |-> external[i].ip]
OtherAddresses(addresses) == Pick(addresses, DOMAIN addresses \ ExternalAt(addresses))

AsExternal(ips) == [i \in DOMAIN ips |-> [type |-> "ExternalIP", ip |-> ips[i]]]

\* Mutant of MergeExternalIPs: the rules' IPs go before the Node's.
MergeRulesFirst(addresses, ips) ==
    IF ips = <<>> THEN addresses
    ELSE OtherAddresses(addresses)
            \o AsExternal(IPv6First(Distinct(ips \o ExternalIPsIn(addresses))))

MergeExternalIPs(addresses, ips) ==
    IF ips = <<>> THEN addresses
    ELSE OtherAddresses(addresses)
            \o AsExternal(IPv6First(Distinct(ExternalIPsIn(addresses) \o ips)))

ExternalIPFingerprint(ips) == ToSet(ips)

(***************************************************************************)
(* Initialization.  The matched rules' schemes have to agree before a Node *)
(* without a providerID is touched.                                        *)
(***************************************************************************)
Schemes(matched, rules) == {rules[id].values : id \in matched} \ {NoScheme}

SchemesAgree(schemes) == \A a, b \in schemes : a = b

InitialProviderID(node, schemes) ==
    IF node.fields.providerID # NoProviderID \/ schemes = {}
    THEN node.fields.providerID
    ELSE <<CHOOSE scheme \in schemes : TRUE, node.name>>

\* removeTaint and the stamped providerID, in one update.
Initialized(node, schemes) ==
    LET changes == [providerID |-> InitialProviderID(node, schemes),
                    taints     |-> node.fields.taints \ {"uninitialized"}]
    IN  [node EXCEPT !.fields = ApplyOverwrite(node.fields, changes)]

\* Mutant of MayInitialize: rules that disagree stamp no providerID.
MayInitializeAnyhow(node, matched, rules) == matched # {}

MayInitialize(node, matched, rules) ==
    /\ matched # {}
    /\ node.fields.providerID = NoProviderID => SchemesAgree(Schemes(matched, rules))

(***************************************************************************)
(* What a controller does not tell apart by domain.                        *)
(***************************************************************************)
Desired(d, matched, rules) ==
    CASE d = "initialization" -> Schemes(matched, rules)
      [] d = "externalIPs"    -> UnionIPs(matched, rules)
      [] OTHER                -> ResolveValues(matched, rules)

WithDesired(d, existing, desired) ==
    IF d = "externalIPs" THEN MergeExternalIPs(existing, desired)
    ELSE ApplyOverwrite(existing, desired)

Fingerprint(d, desired) ==
    IF d = "externalIPs" THEN ExternalIPFingerprint(desired)
    ELSE MetadataFingerprint(desired)

\* The values are on the Node: writing them would change nothing.
InPlace(d, node, desired) ==
    WithDesired(d, node.fields[d], desired) = node.fields[d]
==============================================================================
