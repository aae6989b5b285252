-------------------------- MODULE RuleAlgebra_proofs --------------------------
(***************************************************************************)
(* The invariants of RuleAlgebra, for any number of keys, values and       *)
(* addresses: what rules agree on is written, merging external IPs is an   *)
(* ordered, stable union that settles, and those who wrote are named.      *)
(***************************************************************************)
EXTENDS RuleAlgebra, NodeRules_proofs

\* A key that resolveValues returns (metadata_controller.go:147-188) has the
\* value that every matched rule setting it gives it.
LEMMA ResolvedValue ==
    ASSUME NEW matched, NEW R, NEW k \in DOMAIN ResolveValues(matched, R),
           NEW id \in matched, k \in DOMAIN R[id].values
    PROVE  ResolveValues(matched, R)[k] = R[id].values[k]
<1> DEFINE keys == UNION {DOMAIN R[i].values : i \in matched}
           setter == CHOOSE i \in SettersOf(matched, R, k) : TRUE
<1>1. k \in {key \in keys : Agreed(matched, R, key)}
  BY DEF ResolveValues
<1>2. ResolveValues(matched, R)[k] = R[setter].values[k]
  BY <1>1 DEF ResolveValues
<1>3. id \in SettersOf(matched, R, k)
  BY DEF SettersOf
<1>4. setter \in SettersOf(matched, R, k)
  BY <1>3
<1> QED
  BY <1>1, <1>2, <1>3, <1>4 DEF Agreed

\* A key that resolveValues leaves out is one two matched rules disagree on.
LEMMA LeftOut ==
    ASSUME NEW matched, NEW R, NEW id \in matched,
           NEW k \in DOMAIN R[id].values \ DOMAIN ResolveValues(matched, R)
    PROVE  \E other \in matched :
               /\ k \in DOMAIN R[other].values
               /\ R[other].values[k] # R[id].values[k]
<1> DEFINE keys == UNION {DOMAIN R[i].values : i \in matched}
<1>1. k \in keys
  OBVIOUS
<1>2. DOMAIN ResolveValues(matched, R) = {key \in keys : Agreed(matched, R, key)}
  BY DEF ResolveValues
<1>3. ~Agreed(matched, R, k)
  BY <1>1, <1>2
<1>4. PICK i \in matched, j \in matched :
        /\ k \in DOMAIN R[i].values /\ k \in DOMAIN R[j].values
        /\ R[i].values[k] # R[j].values[k]
  BY <1>3 DEF Agreed, SettersOf
<1> QED
  BY <1>4

\* Whatever rules match, what resolveValues returns is what they consent to,
\* and it leaves out nothing else: the run's three rules stand for any number.
THEOREM Consent == Spec => []ResolvedByConsent
<1>1. ResolvedByConsent
  BY ResolvedValue, LeftOut DEF ResolvedByConsent, Resolved, Matched
<1> QED
  BY <1>1, PTL

-------------------------------------------------------------------------------
(***************************************************************************)
(* Merging external IPs.                                                   *)
(***************************************************************************)
MergeInputs == addresses \in Seq(Addresses) /\ ips \in Seq(IPs)

LEMMA SeqsAreSequences ==
    ASSUME NEW S, NEW n \in Nat, NEW s \in SeqsUpTo(S, n)
    PROVE  s \in Seq(S)
<1>1. PICK k \in 0 .. n : s \in [1 .. k -> S] BY DEF SeqsUpTo
<1> QED BY <1>1

LEMMA InputsPicked == Spec => []MergeInputs
<1>1. Init => MergeInputs
  <2>1. ASSUME InitMerge PROVE MergeInputs
    BY <2>1, BoundsAssumption, SeqsAreSequences DEF InitMerge, MergeInputs
  <2>2. ASSUME NoMerge PROVE MergeInputs
    BY <2>2 DEF NoMerge, MergeInputs
  <2> QED BY <2>1, <2>2 DEF Init, InitResolve, InitReport, InitMatching
<1>2. MergeInputs /\ [Unchanged]_vars => MergeInputs'
  BY DEF MergeInputs, Unchanged, vars
<1> QED BY <1>1, <1>2, PTL DEF Spec

\* A second merge of the same IPs, however they are ordered or repeated,
\* writes nothing (externalip_controller.go:128-169), whatever the addresses.
THEOREM MergeAlwaysSettles == Spec => []MergeSettles
<1>1. MergeInputs => MergeSettles
  <2> SUFFICES ASSUME MergeInputs PROVE MergeSettles
    OBVIOUS
  <2> DEFINE again == Reverse(ips) \o ips
  <2>1. addresses \in Seq(Addresses) /\ ips \in Seq(IPs) BY DEF MergeInputs
  <2>2. /\ Reverse(ips) \in Seq(IPs) /\ Len(Reverse(ips)) = Len(ips)
        /\ \A i \in 1 .. Len(ips) : Reverse(ips)[i] = ips[(Len(ips) - i) + 1]
    BY <2>1 DEF Reverse
  <2>3. CASE ips = <<>>
    <3>1. Reverse(ips) = <<>> BY <2>2, <2>3
    <3>2. again = <<>> BY <2>3, <3>1
    <3> QED BY <2>3, <3>2 DEF MergeSettles, Merged, MergeExternalIPs
  <2>4. CASE ips # <<>>
    <3>1. again \in Seq(IPs) BY <2>1, <2>2
    <3>2. Len(again) = Len(ips) + Len(ips) /\ Len(ips) \in Nat /\ Len(ips) # 0
      <4>1. Len(ips) \in Nat /\ Len(ips) # 0 BY <2>1, <2>4, EmptySeq
      <4>2. Len(again) = Len(Reverse(ips)) + Len(ips) BY <2>1, <2>2, ConcatProperties
      <4> QED BY <2>2, <4>1, <4>2
    <3>3. again # <<>> BY <3>1, <3>2
    <3>4. ToSet(again) \subseteq ToSet(ips)
      <4>1. DOMAIN again = 1 .. Len(ips) + Len(ips) BY <3>1, <3>2
      <4>2. \A i \in 1 .. Len(ips) : again[i] = ips[(Len(ips) - i) + 1]
        BY <2>1, <2>2
      <4>3. \A i \in 1 .. Len(ips) : again[Len(ips) + i] = ips[i] BY <2>1, <2>2
      <4>4. DOMAIN ips = 1 .. Len(ips) BY <2>1
      <4> HIDE DEF again
      <4>5. ASSUME NEW i \in DOMAIN again PROVE \E j \in DOMAIN ips : again[i] = ips[j]
        <5>1. CASE i \in 1 .. Len(ips)
          <6>1. (Len(ips) - i) + 1 \in 1 .. Len(ips) BY <3>2, <5>1
          <6> QED BY <4>2, <4>4, <5>1, <6>1
        <5>2. CASE i \notin 1 .. Len(ips)
          <6>1. i - Len(ips) \in 1 .. Len(ips) /\ Len(ips) + (i - Len(ips)) = i
            BY <3>2, <4>1, <5>2
          <6> QED BY <4>3, <4>4, <6>1
        <5> QED BY <5>1, <5>2
      <4> QED BY <4>5 DEF ToSet
    <3> HIDE DEF again
    <3>5. MergeExternalIPs(Merged, again) = Merged
      BY <2>1, <2>4, <3>1, <3>3, <3>4, MergeAgain DEF Merged
    <3>6. MergeExternalIPs(Merged, ips) = Merged
      BY <2>1, <2>4, MergeAgain DEF Merged
    <3> QED BY <3>5, <3>6 DEF MergeSettles, again
  <2> QED BY <2>3, <2>4
<1> QED BY <1>1, InputsPicked, PTL

\* The addresses of a merge that merges something: those it keeps, and the
\* IPs it puts behind them.
Kept == OtherAddresses(addresses)
Put == MergedIPs(addresses, ips)
Places == Len(Kept) + 1 .. Len(Kept) + Len(Put)

LEMMA MergedParts ==
    ASSUME MergeInputs, ips # <<>>
    PROVE  /\ Kept \in Seq(Addresses) /\ Put \in Seq(IPsOf(Addresses, IPs))
           /\ \A i \in DOMAIN Kept : ~IsExternal(Kept[i])
           /\ DOMAIN Merged = 1 .. Len(Kept) + Len(Put)
           /\ ExternalAt(Merged) = Places
           /\ \A i \in 1 .. Len(Put) : Merged[Len(Kept) + i].ip = Put[i]
           /\ OtherAddresses(Merged) = Kept
           /\ ExternalIPsIn(Merged) = Put
           /\ Merged \in Seq(Addresses \cup [type : {"ExternalIP"},
                                             ip : IPsOf(Addresses, IPs)])
<1> DEFINE U == IPsOf(Addresses, IPs)
           m == Kept \o AsExternal(Put)
<1>1. HasParts(Addresses, IPs, addresses, ips) BY MergeParts DEF MergeInputs
<1>2. Merged = m /\ Put \in Seq(U) BY <1>1 DEF HasParts, Merged, Put, Kept
<1>3. Kept \in Seq(Addresses) /\ \A i \in DOMAIN Kept : ~IsExternal(Kept[i])
  BY OtherAddressesProperties DEF MergeInputs, Kept
<1> HIDE DEF U
<1>4. /\ m \in Seq(Addresses \cup [type : {"ExternalIP"}, ip : U])
      /\ DOMAIN m = 1 .. Len(Kept) + Len(Put)
      /\ ExternalAt(m) = Places
      /\ \A i \in 1 .. Len(Put) : m[Len(Kept) + i].ip = Put[i]
      /\ OtherAddresses(m) = Kept
      /\ ExternalIPsIn(m) = Put
  BY <1>2, <1>3, TakenApart DEF Places
<1> HIDE DEF m
<1> QED BY <1>2, <1>3, <1>4 DEF U

\* Where an external IP of the merge is.
LEMMA PlaceOf ==
    ASSUME MergeInputs, ips # <<>>, NEW k \in Places
    PROVE  /\ k - Len(Kept) \in DOMAIN Put
           /\ Merged[k].ip = Put[k - Len(Kept)]
           /\ k \in DOMAIN Merged /\ IsExternal(Merged[k])
<1>1. Len(Kept) \in Nat /\ Len(Put) \in Nat /\ DOMAIN Put = 1 .. Len(Put)
  BY MergedParts
<1>2. k - Len(Kept) \in 1 .. Len(Put) /\ Len(Kept) + (k - Len(Kept)) = k
  BY <1>1 DEF Places
<1>3. Merged[k].ip = Put[k - Len(Kept)] BY <1>2, MergedParts
<1>4. k \in ExternalAt(Merged) BY MergedParts
<1> QED BY <1>1, <1>2, <1>3, <1>4 DEF ExternalAt

LEMMA SameExternalIPs ==
    ASSUME NEW S, NEW s \in Seq(S)
    PROVE  ExternalIPsOf(s) = ToSet(ExternalIPsIn(s))
<1>1. ToSet(ExternalIPsIn(s)) = {s[i].ip : i \in ExternalAt(s)}
  BY ExternalIPsProperties
<1> QED BY <1>1 DEF ExternalIPsOf, ExternalAt

\* Nothing is removed and nothing but the rules' IPs is added.
LEMMA UnionOfIPs ==
    ASSUME MergeInputs
    PROVE  ExternalIPsOf(Merged) = ExternalIPsOf(addresses) \cup ToSet(ips)
<1>1. CASE ips = <<>>
  <2>1. Merged = addresses BY <1>1 DEF Merged, MergeExternalIPs
  <2>2. ToSet(ips) = {} BY <1>1 DEF ToSet
  <2> QED BY <2>1, <2>2
<1>2. CASE ips # <<>>
  <2>1. HasParts(Addresses, IPs, addresses, ips) BY <1>2, MergeParts DEF MergeInputs
  <2>2. ToSet(Put) = ToSet(ExternalIPsIn(addresses)) \cup ToSet(ips)
    BY <2>1 DEF HasParts, Put
  <2>3. ExternalIPsIn(Merged) = Put BY <1>2, MergedParts
  <2>4. ExternalIPsOf(Merged) = ToSet(ExternalIPsIn(Merged))
    <3>1. Merged \in Seq(Addresses \cup [type : {"ExternalIP"},
                                         ip : IPsOf(Addresses, IPs)])
      BY <1>2, MergedParts
    <3> QED BY <3>1, SameExternalIPs
  <2>5. ExternalIPsOf(addresses) = ToSet(ExternalIPsIn(addresses))
    BY SameExternalIPs DEF MergeInputs
  <2> QED BY <2>2, <2>3, <2>4, <2>5
<1> QED BY <1>1, <1>2

\* README.md:282-290: nothing is removed, nothing but the rules' IPs is added,
\* other addresses keep their order, and IPv6 comes before IPv4 once each.
THEOREM MergeIsAlwaysOrdered == Spec => []MergeIsOrderedUnion
<1>1. MergeInputs => MergeIsOrderedUnion
  <2> SUFFICES ASSUME MergeInputs PROVE MergeIsOrderedUnion
    OBVIOUS
  <2>1. CASE ips = <<>>
    <3>1. Merged = addresses BY <2>1 DEF Merged, MergeExternalIPs
    <3>2. ToSet(ips) = {} BY <2>1 DEF ToSet
    <3> QED BY <2>1, <3>1, <3>2 DEF MergeIsOrderedUnion
  <2>2. CASE ips # <<>>
    <3>1. HasParts(Addresses, IPs, addresses, ips) BY <2>2, MergeParts DEF MergeInputs
    <3>2. /\ IsInjective(Put)
          /\ \A i, j \in DOMAIN Put : i < j /\ IsIPv6(Put[j]) => IsIPv6(Put[i])
      BY <3>1 DEF HasParts, Put
    <3>3. OtherAddresses(Merged) = Kept BY <2>2, MergedParts
    <3>4. ExternalIPsOf(Merged) = ExternalIPsOf(addresses) \cup ToSet(ips)
      BY UnionOfIPs
    <3>5. ASSUME NEW i \in DOMAIN Merged, NEW j \in DOMAIN Merged,
                 i < j, IsExternal(Merged[i])
          PROVE  /\ IsExternal(Merged[j])
                 /\ Merged[i].ip # Merged[j].ip
                 /\ IsIPv6(Merged[j].ip) => IsIPv6(Merged[i].ip)
      <4>1. /\ Len(Kept) \in Nat /\ Len(Put) \in Nat
            /\ DOMAIN Merged = 1 .. Len(Kept) + Len(Put)
            /\ ExternalAt(Merged) = Places
        BY <2>2, MergedParts
      <4>2. i \in Places BY <3>5, <4>1 DEF ExternalAt
      <4>3. j \in Places BY <3>5, <4>1, <4>2 DEF Places
      <4> DEFINE p == i - Len(Kept)
                 q == j - Len(Kept)
      <4>4. /\ p \in DOMAIN Put /\ Merged[i].ip = Put[p]
            /\ q \in DOMAIN Put /\ Merged[j].ip = Put[q]
            /\ IsExternal(Merged[j])
        BY <2>2, <4>2, <4>3, PlaceOf
      <4>5. p < q /\ p # q BY <3>5, <4>1
      <4> HIDE DEF p, q
      <4>6. Put[p] # Put[q] BY <3>2, <4>4, <4>5 DEF IsInjective
      <4> QED BY <3>2, <4>4, <4>5, <4>6
    <3> QED BY <3>3, <3>4, <3>5 DEF MergeIsOrderedUnion, Kept
  <2> QED BY <2>1, <2>2
<1> QED BY <1>1, InputsPicked, PTL

\* An external address is known by its IP.
LEMMA KnownByIP ==
    ASSUME MergeInputs, NEW i \in DOMAIN addresses, IsExternal(addresses[i])
    PROVE  addresses[i] = [type |-> "ExternalIP", ip |-> addresses[i].ip]
<1>1. addresses[i] \in Addresses BY DEF MergeInputs
<1>2. addresses[i].type = "ExternalIP" BY DEF IsExternal
<1> QED BY <1>1, <1>2, AddressesAssumption

\* Two external addresses of which the later is the first of its kind are put
\* in their order.
LEMMA PutInOrder ==
    ASSUME MergeInputs, ips # <<>>,
           NEW i \in DOMAIN addresses, NEW j \in DOMAIN addresses, i < j,
           IsExternal(addresses[i]), IsExternal(addresses[j]),
           addresses[i].ip.family = addresses[j].ip.family,
           \A m \in 1 .. j - 1 : addresses[m] # addresses[j]
    PROVE  \E k, l \in DOMAIN Put :
                k < l /\ Put[k] = addresses[i].ip /\ Put[l] = addresses[j].ip
<1> DEFINE e == ExternalIPsIn(addresses)
           s == e \o ips
           d == Distinct(s)
           U == IPsOf(Addresses, IPs)
           A == addresses[i].ip
           B == addresses[j].ip
<1>1. e \in Seq(U) /\ ips \in Seq(U)
  BY MergeParts DEF HasParts, MergeInputs
<1>2. PICK at : /\ Lists(at, Len(e), ExternalAt(addresses))
                /\ \A k \in 1 .. Len(e) : e[k] = addresses[at[k]].ip
  BY ExternalIPsProperties DEF MergeInputs
<1>3. Put = IPv6First(d) BY DEF Put, MergedIPs
<1>4. i \in ExternalAt(addresses) /\ j \in ExternalAt(addresses) BY DEF ExternalAt
<1>5. DOMAIN addresses \subseteq Nat BY DEF MergeInputs
<1> HIDE DEF e, U
<1>6. /\ s \in Seq(U) /\ DOMAIN s = 1 .. Len(e) + Len(ips)
      /\ Len(e) \in Nat /\ Len(ips) \in Nat
      /\ \A k \in 1 .. Len(e) : s[k] = e[k]
  BY <1>1
<1> HIDE DEF s
<1>7. PICK p \in 1 .. Len(e) : at[p] = i BY <1>2, <1>4 DEF Lists
<1>8. PICK q \in 1 .. Len(e) : at[q] = j BY <1>2, <1>4 DEF Lists
<1>9. \A k, l \in 1 .. Len(e) : k < l => at[k] < at[l] BY <1>2 DEF Lists
<1>10. p < q
  <2>1. CASE q < p BY <1>5, <1>7, <1>8, <1>9, <2>1
  <2>2. CASE q = p BY <1>5, <1>7, <1>8, <2>2
  <2> QED BY <1>6, <2>1, <2>2
<1>11. s[p] = A /\ s[q] = B BY <1>2, <1>6, <1>7, <1>8
<1>12. q \in FirstOfEach(s)
  <2> SUFFICES ASSUME NEW r \in 1 .. q - 1 PROVE s[r] # s[q]
    BY <1>6 DEF FirstOfEach
  <2>1. r \in 1 .. Len(e) /\ r < q BY <1>6
  <2>2. at[r] < j BY <1>8, <1>9, <2>1
  <2>3. at[r] \in ExternalAt(addresses) BY <1>2, <2>1 DEF Lists
  <2>4. at[r] \in DOMAIN addresses /\ IsExternal(addresses[at[r]])
    BY <2>3 DEF ExternalAt
  <2>5. at[r] \in 1 .. j - 1 BY <1>5, <2>2, <2>4 DEF MergeInputs
  <2>6. addresses[at[r]] # addresses[j] BY <2>5
  <2>7. addresses[at[r]].ip # B BY <2>4, <2>6, KnownByIP
  <2>8. s[r] = addresses[at[r]].ip BY <1>2, <1>6, <2>1
  <2> QED BY <1>11, <2>7, <2>8
<1> DEFINE C == {r \in 1 .. Len(e) : s[r] = A}
<1>13. C \in SUBSET Nat /\ p \in C BY <1>11
<1>14. PICK m \in C : \A r \in C : m <= r
  <2> HIDE DEF C
  <2> QED BY <1>13, Least
<1>15. m \in 1 .. Len(e) /\ s[m] = A /\ m < q BY <1>6, <1>10, <1>13, <1>14
<1>16. m \in FirstOfEach(s)
  <2> SUFFICES ASSUME NEW r \in 1 .. m - 1 PROVE s[r] # s[m]
    BY <1>6, <1>15 DEF FirstOfEach
  <2>1. r \in 1 .. Len(e) /\ ~(m <= r) BY <1>6, <1>15
  <2> QED BY <1>14, <1>15, <2>1
<1>17. /\ d \in Seq(U)
       /\ \E k, l \in DOMAIN d : k < l /\ d[k] = A /\ d[l] = B
  <2>1. \E k, l \in DOMAIN d : k < l /\ d[k] = s[m] /\ d[l] = s[q]
    BY <1>6, <1>12, <1>15, <1>16, DistinctProperties
  <2> QED BY <1>6, <1>11, <1>15, <2>1, DistinctProperties
<1> HIDE DEF d
<1>18. PICK k \in DOMAIN d, l \in DOMAIN d : k < l /\ d[k] = A /\ d[l] = B BY <1>17
<1>19. IsIPv6(d[k]) <=> IsIPv6(d[l]) BY <1>18 DEF IsIPv6
<1> QED BY <1>3, <1>17, <1>18, <1>19, IPv6FirstProperties

\* Stable within each family: IPs keep the order they had on the Node
\* (externalip_controller.go:128-169).
THEOREM MergeIsAlwaysStable == Spec => []MergeIsStable
<1>1. MergeInputs => MergeIsStable
  <2> SUFFICES ASSUME MergeInputs, ips # <<>>,
                      NEW i \in DOMAIN addresses, NEW j \in DOMAIN addresses, i < j,
                      IsExternal(addresses[i]), IsExternal(addresses[j]),
                      addresses[i].ip.family = addresses[j].ip.family,
                      NEW k \in DOMAIN Merged, NEW l \in DOMAIN Merged,
                      Merged[k] = addresses[i], Merged[l] = addresses[j],
                      \A m \in 1 .. j - 1 : addresses[m] # addresses[j]
               PROVE  k < l
    BY DEF MergeIsStable
  <2>1. k \in Places /\ l \in Places
    <3>1. IsExternal(Merged[k]) /\ IsExternal(Merged[l]) BY DEF IsExternal
    <3>2. k \in ExternalAt(Merged) /\ l \in ExternalAt(Merged) BY <3>1 DEF ExternalAt
    <3> QED BY <3>2, MergedParts
  <2> DEFINE p == k - Len(Kept)
             q == l - Len(Kept)
  <2>2. /\ p \in DOMAIN Put /\ Put[p] = addresses[i].ip
        /\ q \in DOMAIN Put /\ Put[q] = addresses[j].ip
    BY <2>1, PlaceOf
  <2>3. PICK x \in DOMAIN Put, y \in DOMAIN Put :
            x < y /\ Put[x] = addresses[i].ip /\ Put[y] = addresses[j].ip
    BY PutInOrder
  <2>4. IsInjective(Put) BY MergeParts DEF HasParts, MergeInputs, Put
  <2>5. p = x /\ q = y
    <3> HIDE DEF p, q
    <3> QED BY <2>2, <2>3, <2>4 DEF IsInjective
  <2>6. Len(Kept) \in Nat /\ DOMAIN Merged \subseteq Nat BY MergedParts
  <2> QED BY <2>3, <2>5, <2>6
<1> QED BY <1>1, InputsPicked, PTL

\* What beforeApply reports is what the write that follows changes
\* (drift.go:57-85), for any labels and any addresses.
THEOREM DriftIsAlwaysApplied == Spec => []DriftIsWhatIsApplied
<1>1. MergeInputs => DriftIsWhatIsApplied
  <2> SUFFICES ASSUME MergeInputs PROVE DriftIsWhatIsApplied
    OBVIOUS
  <2> DEFINE drift == MetadataDrift(labels, Resolved)
             applied == ApplyOverwrite(labels, Resolved)
  <2>1. drift.missing = DOMAIN applied \ DOMAIN labels
    BY DEF MetadataDrift, ApplyOverwrite
  <2>2. drift.changed = {k \in DOMAIN labels : labels[k] # applied[k]}
    BY DEF MetadataDrift, ApplyOverwrite
  <2>3. ExternalIPsOf(Merged) = ExternalIPsOf(addresses) \cup ToSet(ips)
    BY UnionOfIPs
  <2>4. \A ip : [type |-> "ExternalIP", ip |-> ip] \in ToSet(addresses)
                    <=> ip \in ExternalIPsOf(addresses)
    <3> TAKE ip
    <3> DEFINE address == [type |-> "ExternalIP", ip |-> ip]
    <3>1. ASSUME address \in ToSet(addresses) PROVE ip \in ExternalIPsOf(addresses)
      <4>1. PICK i \in DOMAIN addresses : addresses[i] = address BY <3>1 DEF ToSet
      <4>2. IsExternal(addresses[i]) /\ addresses[i].ip = ip BY <4>1 DEF IsExternal
      <4> QED BY <4>2 DEF ExternalIPsOf
    <3>2. ASSUME ip \in ExternalIPsOf(addresses) PROVE address \in ToSet(addresses)
      <4>1. PICK i \in DOMAIN addresses : IsExternal(addresses[i]) /\ addresses[i].ip = ip
        BY <3>2 DEF ExternalIPsOf
      <4>2. addresses[i] = address BY <4>1, KnownByIP
      <4> QED BY <4>2 DEF ToSet
    <3> QED BY <3>1, <3>2
  <2>5. ExternalIPDrift(addresses, ips) = ExternalIPsOf(Merged) \ ExternalIPsOf(addresses)
    BY <2>3, <2>4 DEF ExternalIPDrift
  <2> QED BY <2>1, <2>2, <2>5 DEF DriftIsWhatIsApplied
<1> QED BY <1>1, InputsPicked, PTL

-------------------------------------------------------------------------------
(***************************************************************************)
(* Naming the culprits.                                                    *)
(***************************************************************************)
Descending(s) == \A i, j \in DOMAIN s : i < j => EntryTime(s[i]) >= EntryTime(s[j])

LEMMA InsertedProperties ==
    ASSUME NEW E, \A x \in E : EntryTime(x) \in Int, NEW s \in Seq(E), NEW e \in E
    PROVE  /\ Inserted(s, e) \in Seq(E)
           /\ ToSet(Inserted(s, e)) = ToSet(s) \cup {e}
           /\ Descending(s) => Descending(Inserted(s, e))
<1> DEFINE B == {i \in DOMAIN s : EntryTime(s[i]) < EntryTime(e)}
           A == DOMAIN s \ B
           u == Pick(s, A)
           v == Pick(s, B)
           r == u \o <<e>> \o v
<1>1. Inserted(s, e) = r BY DEF Inserted
<1>2. /\ A \cap DOMAIN s = A /\ B \cap DOMAIN s = B /\ A \cup B = DOMAIN s
      /\ \A i \in A : EntryTime(s[i]) >= EntryTime(e)
      /\ \A i \in B : EntryTime(s[i]) < EntryTime(e)
  <2>1. \A i \in DOMAIN s : EntryTime(s[i]) \in Int OBVIOUS
  <2>2. EntryTime(e) \in Int OBVIOUS
  <2>3. \A i \in A : EntryTime(s[i]) >= EntryTime(e) BY <2>1, <2>2
  <2>4. \A i \in B : EntryTime(s[i]) < EntryTime(e) OBVIOUS
  <2>5. A \subseteq DOMAIN s /\ B \subseteq DOMAIN s /\ A \cup B = DOMAIN s OBVIOUS
  <2> HIDE DEF A, B
  <2> QED BY <2>3, <2>4, <2>5
<1> HIDE DEF A, B
<1>3. /\ u \in Seq(E)
      /\ \A k \in DOMAIN u : \E i \in A : u[k] = s[i]
      /\ \A i \in A : \E k \in DOMAIN u : u[k] = s[i]
      /\ \A k, l \in DOMAIN u : k < l => \E i, j \in A : i < j /\ u[k] = s[i] /\ u[l] = s[j]
  BY <1>2, PickRelates
<1>4. /\ v \in Seq(E)
      /\ \A k \in DOMAIN v : \E i \in B : v[k] = s[i]
      /\ \A i \in B : \E k \in DOMAIN v : v[k] = s[i]
      /\ \A k, l \in DOMAIN v : k < l => \E i, j \in B : i < j /\ v[k] = s[i] /\ v[l] = s[j]
  BY <1>2, PickRelates
<1> HIDE DEF u, v
<1> DEFINE n == Len(u) + 1
<1>5. /\ r \in Seq(E)
      /\ DOMAIN r = 1 .. n + Len(v)
      /\ DOMAIN u = 1 .. Len(u) /\ DOMAIN v = 1 .. Len(v)
      /\ Len(u) \in Nat /\ Len(v) \in Nat
      /\ \A k \in DOMAIN u : r[k] = u[k]
      /\ r[n] = e
      /\ \A k \in DOMAIN v : r[n + k] = v[k]
  <2> DEFINE w == u \o <<e>>
  <2>1. /\ w \in Seq(E) /\ Len(w) = n /\ w[n] = e
        /\ \A k \in 1 .. Len(u) : w[k] = u[k]
    BY <1>3
  <2> HIDE DEF w
  <2>2. /\ w \o v \in Seq(E)
        /\ DOMAIN (w \o v) = 1 .. Len(w) + Len(v)
        /\ \A k \in 1 .. Len(w) : (w \o v)[k] = w[k]
        /\ \A k \in 1 .. Len(v) : (w \o v)[Len(w) + k] = v[k]
    <3>1. v \in Seq(E) /\ w \in Seq(E) BY <1>4, <2>1
    <3> QED BY <3>1
  <2>3. Len(u) \in Nat /\ Len(v) \in Nat /\ DOMAIN u = 1 .. Len(u) /\ DOMAIN v = 1 .. Len(v)
    BY <1>3, <1>4
  <2> QED BY <2>1, <2>2, <2>3 DEF w
<1> HIDE DEF r
<1>6. \A k \in DOMAIN r : \/ k \in DOMAIN u
                          \/ k = n
                          \/ k - n \in DOMAIN v /\ n + (k - n) = k
  BY <1>5
<1>7. ToSet(r) = ToSet(s) \cup {e}
  <2>1. ASSUME NEW k \in DOMAIN r PROVE r[k] \in ToSet(s) \cup {e}
    <3>1. CASE k \in DOMAIN u BY <1>2, <1>3, <1>5, <3>1 DEF ToSet
    <3>2. CASE k = n BY <1>5, <3>2
    <3>3. CASE k - n \in DOMAIN v /\ n + (k - n) = k
      <4>1. r[k] = v[k - n] BY <1>5, <3>3
      <4> QED BY <1>2, <1>4, <3>3, <4>1 DEF ToSet
    <3> QED BY <1>6, <3>1, <3>2, <3>3
  <2>2. ASSUME NEW i \in DOMAIN s PROVE s[i] \in ToSet(r)
    <3>1. CASE i \in A
      <4>1. PICK k \in DOMAIN u : u[k] = s[i] BY <1>3, <3>1
      <4>2. k \in DOMAIN r /\ r[k] = s[i] BY <1>5, <4>1
      <4> QED BY <4>2 DEF ToSet
    <3>2. CASE i \in B
      <4>1. PICK k \in DOMAIN v : v[k] = s[i] BY <1>4, <3>2
      <4>2. k \in 1 .. Len(v) /\ n \in Nat /\ Len(v) \in Nat BY <1>5
      <4>3. n + k \in 1 .. n + Len(v)
        <5> HIDE DEF n
        <5> QED BY <4>2
      <4> HIDE DEF n
      <4>4. r[n + k] = s[i] BY <1>5, <4>1
      <4> QED BY <1>5, <4>3, <4>4 DEF ToSet
    <3> QED BY <1>2, <3>1, <3>2
  <2>3. n \in DOMAIN r BY <1>5
  <2>4. e \in ToSet(r) BY <1>5, <2>3 DEF ToSet
  <2> QED BY <2>1, <2>2, <2>4 DEF ToSet
<1>8. ASSUME Descending(s) PROVE Descending(r)
  <2> SUFFICES ASSUME NEW k \in DOMAIN r, NEW l \in DOMAIN r, k < l
               PROVE  EntryTime(r[k]) >= EntryTime(r[l])
    BY DEF Descending
  <2>1. \A i \in DOMAIN s : EntryTime(s[i]) \in Int OBVIOUS
  <2>2. \A i, j \in DOMAIN s : i < j => EntryTime(s[i]) >= EntryTime(s[j])
    BY <1>8 DEF Descending
  <2>3. CASE k \in DOMAIN u
    <3>1. r[k] = u[k] BY <1>5, <2>3
    <3>2. PICK i \in A : u[k] = s[i] BY <1>3, <2>3
    <3>3. CASE l \in DOMAIN u
      <4>1. PICK x \in A, y \in A : x < y /\ u[k] = s[x] /\ u[l] = s[y]
        BY <1>3, <2>3, <3>3
      <4>2. r[l] = u[l] BY <1>5, <3>3
      <4> QED BY <1>2, <2>2, <3>1, <4>1, <4>2
    <3>4. CASE l = n BY <1>2, <1>5, <3>1, <3>2, <3>4
    <3>5. CASE l - n \in DOMAIN v /\ n + (l - n) = l
      <4>1. r[l] = v[l - n] BY <1>5, <3>5
      <4>2. PICK j \in B : v[l - n] = s[j] BY <1>4, <3>5
      <4>3. EntryTime(s[i]) >= EntryTime(e) /\ EntryTime(s[j]) < EntryTime(e) BY <1>2
      <4>4. EntryTime(s[i]) \in Int /\ EntryTime(s[j]) \in Int /\ EntryTime(e) \in Int BY <1>2, <2>1
      <4> QED BY <3>1, <3>2, <4>1, <4>2, <4>3, <4>4
    <3> QED BY <1>6, <3>3, <3>4, <3>5
  <2>4. CASE k \notin DOMAIN u
    <3>1. l - n \in DOMAIN v /\ n + (l - n) = l BY <1>5, <1>6, <2>4
    <3>2. r[l] = v[l - n] BY <1>5, <3>1
    <3>3. PICK j \in B : v[l - n] = s[j] BY <1>4, <3>1
    <3>4. CASE k = n
      <4>1. EntryTime(s[j]) < EntryTime(e) /\ EntryTime(s[j]) \in Int /\ EntryTime(e) \in Int BY <1>2, <2>1
      <4> QED BY <1>5, <3>2, <3>3, <3>4, <4>1
    <3>5. CASE k - n \in DOMAIN v /\ n + (k - n) = k
      <4>1. r[k] = v[k - n] BY <1>5, <3>5
      <4>2. k - n < l - n BY <1>5
      <4>3. PICK x \in B, y \in B : x < y /\ v[k - n] = s[x] /\ v[l - n] = s[y]
        BY <1>4, <3>1, <3>5, <4>2
      <4> QED BY <1>2, <2>2, <3>2, <4>1, <4>3
    <3> QED BY <1>6, <2>4, <3>4, <3>5
  <2> QED BY <2>3, <2>4
<1> QED BY <1>1, <1>5, <1>7, <1>8

\* SortStableFunc with the most recent first.
LEMMA SortedProperties ==
    ASSUME NEW E, \A x \in E : EntryTime(x) \in Int, NEW s \in Seq(E)
    PROVE  /\ SortedByTime(s) \in Seq(E)
           /\ ToSet(SortedByTime(s)) = ToSet(s)
           /\ Descending(SortedByTime(s))
<1> DEFINE Q == Seq(E)
           F == [n \in 1 .. Len(s) |-> [p \in Q |-> Inserted(p, s[n])]]
           Next(p, n) == IF n = 0 THEN <<>> ELSE Inserted(p[n - 1], s[n])
           sorted[n \in 0 .. Len(s)] ==
                IF n = 0 THEN <<>> ELSE Inserted(sorted[n - 1], s[n])
<1>1. ASSUME NEW n \in 1 .. Len(s), NEW p \in Q PROVE Inserted(p, s[n]) \in Q
  <2>1. s[n] \in E OBVIOUS
  <2> QED BY <2>1, InsertedProperties
<1>2. <<>> \in Q /\ Len(s) \in Nat OBVIOUS
<1> HIDE DEF Q
<1>3. F \in [1 .. Len(s) -> [Q -> Q]] BY <1>1
<1>4. \A n \in 1 .. Len(s) : \A p \in Q : F[n][p] = Inserted(p, s[n]) OBVIOUS
<1> HIDE DEF F
<1>5. PICK f \in [0 .. Len(s) -> Q] : Follows(f, <<>>, F, Len(s))
  BY <1>2, <1>3, Recursion
<1>6. \A n \in 0 .. Len(s) : f[n] = Next(f, n)
  <2> TAKE n \in 0 .. Len(s)
  <2>1. CASE n = 0 BY <1>5, <2>1 DEF Follows
  <2>2. CASE n # 0
    <3>1. n \in 1 .. Len(s) /\ n - 1 \in 0 .. Len(s) BY <1>2, <2>2
    <3>2. f[n - 1] \in Q BY <3>1
    <3>3. f[n] = Inserted(f[n - 1], s[n]) BY <1>4, <1>5, <3>1, <3>2 DEF Follows
    <3> QED BY <2>2, <3>3
  <2> QED BY <2>1, <2>2
<1>7. f = [n \in 0 .. Len(s) |-> Next(f, n)] BY <1>6
<1>8. sorted = [n \in 0 .. Len(s) |-> Next(sorted, n)] BY <1>7
<1>9. SortedByTime(s) = sorted[Len(s)] BY DEF SortedByTime
<1> HIDE DEF sorted
<1>10. /\ sorted[0] = <<>>
       /\ \A n \in 1 .. Len(s) : sorted[n] = Inserted(sorted[n - 1], s[n])
  <2>1. \A n \in 0 .. Len(s) : sorted[n] = Next(sorted, n) BY <1>8
  <2> QED BY <1>2, <2>1
<1> DEFINE Sorts(n) == /\ sorted[n] \in Seq(E)
                       /\ ToSet(sorted[n]) = {s[i] : i \in 1 .. n}
                       /\ Descending(sorted[n])
           N == {n \in Nat : n <= Len(s) => Sorts(n)}
<1>11. Sorts(0) BY <1>10 DEF ToSet, Descending
<1>12. ASSUME NEW n \in Nat, n + 1 <= Len(s), Sorts(n) PROVE Sorts(n + 1)
  <2>1. n + 1 \in 1 .. Len(s) /\ (n + 1) - 1 = n BY <1>12
  <2>2. s[n + 1] \in E BY <2>1
  <2>3. sorted[n + 1] = Inserted(sorted[n], s[n + 1]) BY <1>10, <2>1
  <2>4. /\ sorted[n + 1] \in Seq(E) /\ Descending(sorted[n + 1])
        /\ ToSet(sorted[n + 1]) = ToSet(sorted[n]) \cup {s[n + 1]}
    <3> DEFINE p == sorted[n]
               e == s[n + 1]
    <3>1. p \in Seq(E) /\ Descending(p) BY <1>12
    <3> HIDE DEF p, e
    <3>2. e \in E BY <2>2 DEF e
    <3>3. /\ Inserted(p, e) \in Seq(E) /\ Descending(Inserted(p, e))
          /\ ToSet(Inserted(p, e)) = ToSet(p) \cup {e}
      BY <3>1, <3>2, InsertedProperties
    <3> QED BY <2>3, <3>3 DEF p, e
  <2>5. 1 .. n + 1 = (1 .. n) \cup {n + 1} OBVIOUS
  <2>6. ToSet(sorted[n + 1]) = {s[i] : i \in 1 .. n + 1} BY <1>12, <2>4, <2>5
  <2> QED BY <2>4, <2>6
<1>13. Sorts(Len(s))
  <2> HIDE DEF Sorts
  <2>1. 0 \in N BY <1>11
  <2>2. \A n \in Nat : n \in N => n + 1 \in N
    <3> SUFFICES ASSUME NEW n \in Nat, n \in N, n + 1 <= Len(s) PROVE Sorts(n + 1)
      OBVIOUS
    <3> QED BY <1>12
  <2> HIDE DEF N
  <2>3. \A n \in Nat : n \in N BY <2>1, <2>2, SetInduction
  <2> QED BY <1>2, <2>3 DEF N
<1>14. DOMAIN s = 1 .. Len(s) OBVIOUS
<1> QED BY <1>9, <1>13, <1>14 DEF ToSet

\* Rounding down to the second keeps the order.
LEMMA TruncatedKeepsOrder ==
    ASSUME NEW a \in Nat, NEW b \in Nat, a <= b
    PROVE  Truncated(a) \in Int /\ Truncated(b) \in Int /\ Truncated(a) <= Truncated(b)
<1> DEFINE S == Second
           p == a \div S
           q == b \div S
<1>1. S \in Nat /\ S > 0 BY SecondAssumption
<1>2. /\ a = S * p + (a % S) /\ p \in Int /\ a % S \in 0 .. S - 1
      /\ b = S * q + (b % S) /\ q \in Int /\ b % S \in 0 .. S - 1
  BY <1>1
<1>3. Truncated(a) = S * p /\ Truncated(b) = S * q BY <1>1, <1>2 DEF Truncated
<1> HIDE DEF p, q, S
<1>4. p <= q
  <2> SUFFICES ASSUME q + 1 <= p PROVE FALSE BY <1>2
  <2>1. S * (q + 1) <= S * p BY <1>1, <1>2
  <2>2. S * (q + 1) = S * q + S BY <1>1, <1>2
  <2> DEFINE x == S * p
             y == S * q
  <2>3. x \in Int /\ y \in Int BY <1>1, <1>2
  <2>4. y + S <= x /\ a = x + (a % S) /\ b = y + (b % S) BY <1>2, <2>1, <2>2
  <2> HIDE DEF x, y
  <2> QED BY <1>1, <1>2, <2>3, <2>4
<1>5. S * p <= S * q /\ S * p \in Int /\ S * q \in Int BY <1>1, <1>2, <1>4
<1> QED BY <1>3, <1>5

ReportInputs == writes \in Seq(Writes) /\ since \in Nat

LEMMA ReportPicked == Spec => []ReportInputs
<1>1. Init => ReportInputs
  <2>1. ASSUME InitReport PROVE ReportInputs
    BY <2>1, BoundsAssumption, WritesAssumption, SeqsAreSequences
    DEF InitReport, ReportInputs
  <2>2. ASSUME NoReport PROVE ReportInputs
    BY <2>2 DEF NoReport, ReportInputs
  <2> QED BY <2>1, <2>2 DEF Init, InitMerge, InitResolve, InitMatching
<1>2. ReportInputs /\ [Unchanged]_vars => ReportInputs'
  BY DEF ReportInputs, Unchanged, vars
<1> QED BY <1>1, <1>2, PTL DEF Spec

\* An entry is recent if its write is one of those to look for.
LEMMA EntryOfWrite ==
    ASSUME ReportInputs, NEW i \in DOMAIN writes, NEW d
    PROVE  LET w == writes[i]
               e == EntriesOf(writes)[i]
           IN  /\ e.manager = w.manager
               /\ EntryTime(e) \in Int
               /\ w.at # NoTime => EntryTime(e) = Truncated(w.at)
               /\ IsRecent(e, SubresourceOf(d), Truncated(since), d)
                    <=> WroteValues(w, d) /\ Truncated(w.at) >= Truncated(since)
<1> DEFINE w == writes[i]
           e == EntriesOf(writes)[i]
<1>1. w \in Writes
  <2>1. writes \in Seq(Writes) BY DEF ReportInputs
  <2> QED BY <2>1
<1>2. w.at \in Nat \cup {NoTime} /\ NoTime \notin Nat BY <1>1, WritesAssumption
<1>3. Truncated(since) \in Int /\ Truncated(since) >= 0
  <2>1. 0 \in Nat /\ since \in Nat /\ 0 <= since BY DEF ReportInputs
  <2>2. Truncated(0) <= Truncated(since) /\ Truncated(since) \in Int
    BY <2>1, TruncatedKeepsOrder
  <2>3. Truncated(0) = 0 BY SecondAssumption DEF Truncated
  <2> QED BY <2>2, <2>3
<1>4. /\ e.manager = w.manager /\ e.subresource = w.subresource /\ e.fields = w.fields
      /\ e.time = IF w.at = NoTime THEN NoTime ELSE Truncated(w.at)
  BY DEF EntriesOf
<1> HIDE DEF w, e
<1>5. CASE w.at = NoTime
  <2>1. EntryTime(e) = -1 BY <1>4, <1>5 DEF EntryTime, ZeroTime
  <2>2. ~(EntryTime(e) >= Truncated(since)) BY <1>3, <2>1
  <2> QED BY <1>4, <1>5, <2>1, <2>2 DEF IsRecent, WroteValues, w, e
<1>6. CASE w.at \in Nat
  <2>1. Truncated(w.at) \in Nat
    <3>1. 0 \in Nat /\ 0 <= w.at BY <1>6
    <3>2. Truncated(0) <= Truncated(w.at) /\ Truncated(w.at) \in Int
      BY <1>6, <3>1, TruncatedKeepsOrder
    <3>3. Truncated(0) = 0 BY SecondAssumption DEF Truncated
    <3> QED BY <3>2, <3>3
  <2>2. EntryTime(e) = Truncated(w.at) BY <1>2, <1>4, <1>6, <2>1 DEF EntryTime
  <2>3. OwnsFieldOf(e, d) <=> w.fields \notin {NoFields, Broken} /\ d \in w.fields
    BY <1>4 DEF OwnsFieldOf
  <2>4. w.at # NoTime BY <1>2, <1>6
  <2>5. IsRecent(e, SubresourceOf(d), Truncated(since), d)
            <=> WroteValues(w, d) /\ Truncated(w.at) >= Truncated(since)
    BY <1>4, <2>2, <2>3, <2>4 DEF IsRecent, WroteValues
  <2> QED BY <1>4, <2>1, <2>2, <2>5 DEF w, e
<1> QED BY <1>2, <1>5, <1>6

\* recentWriters names a manager of which an entry is recent, and names them in
\* the order of their latest entries (drift.go:87-113).
NamedRightly(named, s, subresource, T, d) ==
    /\ DOMAIN named \subseteq Nat /\ DOMAIN named = 1 .. Len(named)
    /\ \A e \in ToSet(s) : IsRecent(e, subresource, T, d) =>
        \E i \in DOMAIN named : named[i] = e.manager
    /\ \A i \in DOMAIN named : \E e \in ToSet(s) :
        /\ IsRecent(e, subresource, T, d) /\ e.manager = named[i]
        /\ \A j \in DOMAIN named : i < j =>
            /\ named[j] # named[i]
            /\ \A f \in ToSet(s) : IsRecent(f, subresource, T, d) /\ f.manager = named[j]
                                        => EntryTime(f) <= EntryTime(e)

LEMMA RecentWritersProperties ==
    ASSUME NEW E, \A x \in E : EntryTime(x) \in Int, NEW s \in Seq(E),
           NEW subresource, NEW T, NEW d
    PROVE  NamedRightly(
                Distinct(ManagersOf(RecentOnes(SortedByTime(s), subresource, T, d))),
                s, subresource, T, d)
<1> DEFINE Recent(e) == IsRecent(e, subresource, T, d)
           t == SortedByTime(s)
           R == {z \in DOMAIN t : Recent(t[z])}
           recent == RecentOnes(t, subresource, T, d)
           ms == ManagersOf(recent)
           named == Distinct(ms)
           Managers == {x.manager : x \in E}
<1>1. t \in Seq(E) /\ ToSet(t) = ToSet(s) /\ Descending(t)
  BY SortedProperties
<1> HIDE DEF t
<1>2. recent = Pick(t, R) /\ R \cap DOMAIN t = R BY DEF RecentOnes
<1>3. /\ R \subseteq DOMAIN t /\ \A z \in R : Recent(t[z])
      /\ \A z \in DOMAIN t : Recent(t[z]) => z \in R
  OBVIOUS
<1> HIDE DEF R, recent, Recent
<1>4. recent \in Seq(E) /\ \E at : Enumerates(at, recent, t, R)
  BY <1>1, <1>2, PickOrder
<1>5. PICK at : Enumerates(at, recent, t, R) BY <1>4
<1>6. DOMAIN recent = 1 .. Len(recent) /\ Len(recent) \in Nat BY <1>4
<1>7. /\ \A k \in DOMAIN recent : at[k] \in R /\ recent[k] = t[at[k]]
      /\ \A k, l \in DOMAIN recent : k < l => at[k] < at[l]
      /\ \A z \in R : \E k \in DOMAIN recent : at[k] = z
  BY <1>5, <1>6 DEF Enumerates, Lists
<1>8. /\ ms \in Seq(Managers) /\ DOMAIN ms = DOMAIN recent
      /\ \A k \in DOMAIN recent : ms[k] = recent[k].manager
  <2>1. \A k \in DOMAIN recent : recent[k].manager \in Managers BY <1>4
  <2>2. ms = [k \in 1 .. Len(recent) |-> recent[k].manager] BY <1>6 DEF ManagersOf
  <2> HIDE DEF ms
  <2> QED BY <1>6, <2>1, <2>2
<1> HIDE DEF ms
<1>9. /\ named \in Seq(Managers) /\ ToSet(named) = ToSet(ms) /\ IsInjective(named)
      /\ \A k, l \in DOMAIN named : k < l =>
            \E i, j \in FirstOfEach(ms) : i < j /\ named[k] = ms[i] /\ named[l] = ms[j]
  BY <1>8, DistinctProperties
<1> HIDE DEF named
<1>10. DOMAIN named = 1 .. Len(named) /\ DOMAIN named \subseteq Nat BY <1>9
\* Each position in ms belongs to a recent entry, and each such entry to one.
<1>11. ASSUME NEW p \in DOMAIN ms
       PROVE  /\ at[p] \in DOMAIN t /\ t[at[p]] \in ToSet(s) /\ t[at[p]] \in E
              /\ Recent(t[at[p]]) /\ t[at[p]].manager = ms[p]
  <2>1. at[p] \in R /\ t[at[p]].manager = ms[p] BY <1>7, <1>8
  <2>2. at[p] \in DOMAIN t /\ Recent(t[at[p]]) BY <1>3, <2>1
  <2>3. t[at[p]] \in ToSet(s) BY <1>1, <2>2 DEF ToSet
  <2>4. t[at[p]] \in E BY <1>1, <2>2
  <2> QED BY <2>1, <2>2, <2>3, <2>4
<1>12. ASSUME NEW e \in ToSet(s), Recent(e)
       PROVE  \E k \in DOMAIN ms : t[at[k]] = e /\ ms[k] = e.manager
  <2>1. PICK z \in DOMAIN t : t[z] = e BY <1>1 DEF ToSet
  <2>2. z \in R BY <1>3, <1>12, <2>1
  <2>3. PICK k \in DOMAIN recent : at[k] = z BY <1>7, <2>2
  <2> QED BY <1>7, <1>8, <2>1, <2>3
<1>13. ASSUME NEW e \in ToSet(s), Recent(e)
       PROVE  \E i \in DOMAIN named : named[i] = e.manager
  <2>1. PICK k \in DOMAIN ms : ms[k] = e.manager BY <1>12, <1>13
  <2>2. e.manager \in ToSet(named) BY <1>9, <2>1 DEF ToSet
  <2> QED BY <2>2 DEF ToSet
<1>14. ASSUME NEW i \in DOMAIN named
       PROVE  \E e \in ToSet(s) :
                /\ Recent(e) /\ e.manager = named[i]
                /\ \A j \in DOMAIN named : i < j =>
                    /\ named[j] # named[i]
                    /\ \A f \in ToSet(s) : Recent(f) /\ f.manager = named[j]
                                                => EntryTime(f) <= EntryTime(e)
  <2> DEFINE C == {k \in DOMAIN ms : ms[k] = named[i]}
  <2>1. C \in SUBSET Nat /\ C # {}
    <3>1. named[i] \in ToSet(ms) BY <1>9 DEF ToSet
    <3>2. PICK k \in DOMAIN ms : ms[k] = named[i] BY <3>1 DEF ToSet
    <3>3. DOMAIN ms \subseteq Nat BY <1>6, <1>8
    <3> QED BY <3>2, <3>3
  <2>2. PICK p \in C : \A k \in C : p <= k
    <3> HIDE DEF C
    <3> QED BY <2>1, Least
  <2>3. p \in DOMAIN ms /\ ms[p] = named[i] BY <2>2
  <2>4. ASSUME NEW j \in DOMAIN named, i < j
        PROVE  /\ named[j] # named[i]
               /\ \A f \in ToSet(s) : Recent(f) /\ f.manager = named[j]
                                            => EntryTime(f) <= EntryTime(t[at[p]])
    <3>1. named[j] # named[i] BY <1>9, <1>10, <2>4 DEF IsInjective
    <3>2. PICK k \in FirstOfEach(ms), q \in FirstOfEach(ms) :
              k < q /\ named[i] = ms[k] /\ named[j] = ms[q]
      BY <1>9, <2>4
    <3>3. /\ k \in DOMAIN ms /\ q \in DOMAIN ms
          /\ \A r \in 1 .. q - 1 : ms[r] # ms[q]
      BY DEF FirstOfEach
    <3>4. p <= k BY <2>2, <3>2, <3>3
    <3>5. ASSUME NEW f \in ToSet(s), Recent(f), f.manager = named[j]
          PROVE  EntryTime(f) <= EntryTime(t[at[p]])
      <4>1. PICK r \in DOMAIN ms : t[at[r]] = f /\ ms[r] = f.manager BY <1>12, <3>5
      <4>2. p \in Nat /\ k \in Nat /\ q \in Nat /\ r \in Nat /\ r >= 1
        BY <1>6, <1>8, <2>3, <3>3, <4>1
      <4>3. p < r BY <3>2, <3>3, <3>4, <3>5, <4>1, <4>2
      <4>4. at[p] < at[r] BY <1>7, <1>8, <2>3, <4>1, <4>3
      <4>5. at[p] \in DOMAIN t /\ at[r] \in DOMAIN t /\ t[at[p]] \in E /\ t[at[r]] \in E
        BY <1>11, <2>3, <4>1
      <4>6. EntryTime(t[at[p]]) >= EntryTime(t[at[r]]) BY <1>1, <4>4, <4>5 DEF Descending
      <4>7. EntryTime(t[at[p]]) \in Int /\ EntryTime(t[at[r]]) \in Int BY <4>5
      <4> QED BY <4>1, <4>6, <4>7
    <3> QED BY <3>1, <3>5
  <2> QED BY <1>11, <2>3, <2>4
<1> QED BY <1>10, <1>13, <1>14 DEF NamedRightly, Recent, named, ms, recent, t

\* Whoever wrote a domain's values since they were applied is named, and nobody
\* else, for any writes of any fields, at any times, in seconds of any length
\* (drift.go:87-131).
THEOREM CulpritsAlwaysNamed == Spec => []CulpritsNamed
<1>1. ReportInputs => CulpritsNamed
  <2> SUFFICES ASSUME ReportInputs, NEW d \in ValueDomains
               PROVE  LET named == RecentWriters(EntriesOf(writes), SubresourceOf(d), since, d)
                      IN  /\ \A w \in ToSet(writes) :
                                WroteValues(w, d) /\ w.at >= since => Contains(named, w.manager)
                          /\ \A i \in DOMAIN named : \E w \in SuspectsOf(d) :
                              /\ w.manager = named[i]
                              /\ \A j \in i + 1 .. Len(named) :
                                  /\ named[j] # named[i]
                                  /\ \A x \in SuspectsOf(d) :
                                        x.manager = named[j] => Truncated(x.at) <= Truncated(w.at)
    BY DEF CulpritsNamed
  <2> DEFINE s == EntriesOf(writes)
             sub == SubresourceOf(d)
             T == Truncated(since)
             named == RecentWriters(s, sub, since, d)
             E == ToSet(s)
             Recent(e) == IsRecent(e, sub, T, d)
             Suspect(w) == WroteValues(w, d) /\ Truncated(w.at) >= T
  <2>1. /\ \A i \in DOMAIN writes :
              /\ s[i].manager = writes[i].manager /\ EntryTime(s[i]) \in Int
              /\ writes[i].at # NoTime => EntryTime(s[i]) = Truncated(writes[i].at)
              /\ Recent(s[i]) <=> Suspect(writes[i])
        /\ DOMAIN s = DOMAIN writes
    <3>1. DOMAIN s = DOMAIN writes BY DEF EntriesOf
    <3> QED BY <3>1, EntryOfWrite
  <2>2. SuspectsOf(d) = {w \in ToSet(writes) : Suspect(w)} BY DEF SuspectsOf
  <2>3. s \in Seq(E)
    <3>1. DOMAIN writes = 1 .. Len(writes) /\ Len(writes) \in Nat
      <4>1. writes \in Seq(Writes) BY DEF ReportInputs
      <4> QED BY <4>1
    <3>2. s = [i \in 1 .. Len(writes) |-> s[i]] BY <3>1 DEF EntriesOf
    <3>3. \A i \in 1 .. Len(writes) : s[i] \in E BY <2>1, <3>1 DEF ToSet
    <3> HIDE DEF s, E
    <3> QED BY <3>1, <3>2, <3>3
  <2>4. named = Distinct(ManagersOf(RecentOnes(SortedByTime(s), sub, T, d)))
    BY DEF RecentWriters
  <2>5. \A w \in ToSet(writes) : Suspect(w) => w.at # NoTime BY DEF WroteValues
  <2>6. ASSUME NEW w \in ToSet(writes), WroteValues(w, d), w.at >= since PROVE Suspect(w)
    <3>1. w \in Writes
      <4>1. writes \in Seq(Writes) BY DEF ReportInputs
      <4> QED BY <4>1 DEF ToSet
    <3>2. w.at \in Nat BY <2>6, <3>1, WritesAssumption DEF WroteValues
    <3>3. since \in Nat /\ since <= w.at BY <2>6, <3>2 DEF ReportInputs
    <3>4. Truncated(w.at) >= Truncated(since) BY <3>2, <3>3, TruncatedKeepsOrder
    <3> QED BY <2>6, <3>4
  <2> HIDE DEF s, T, named, Suspect, sub
  <2>7. \A x \in E : EntryTime(x) \in Int BY <2>1 DEF ToSet
  <2> HIDE DEF E
  <2>8. NamedRightly(named, s, sub, T, d) BY <2>3, <2>4, <2>7, RecentWritersProperties
  <2> USE DEF E
  \* Suspects and recent entries are the same.
  <2>9. ASSUME NEW w \in ToSet(writes), Suspect(w)
        PROVE  \E e \in E : /\ Recent(e) /\ e.manager = w.manager
                            /\ EntryTime(e) = Truncated(w.at)
    <3>1. PICK i \in DOMAIN writes : writes[i] = w BY DEF ToSet
    <3>2. s[i] \in E BY <2>1, <3>1 DEF ToSet
    <3> QED BY <2>1, <2>5, <2>9, <3>1, <3>2
  <2>10. ASSUME NEW e \in E, Recent(e)
         PROVE  \E w \in ToSet(writes) : /\ Suspect(w) /\ e.manager = w.manager
                                         /\ EntryTime(e) = Truncated(w.at)
    <3>1. PICK i \in DOMAIN s : s[i] = e BY DEF ToSet
    <3>2. writes[i] \in ToSet(writes) BY <2>1, <3>1 DEF ToSet
    <3> QED BY <2>1, <2>5, <2>10, <3>1, <3>2
  <2> HIDE DEF E, Recent
  <2>11. /\ DOMAIN named \subseteq Nat /\ DOMAIN named = 1 .. Len(named)
         /\ \A e \in E : Recent(e) => \E i \in DOMAIN named : named[i] = e.manager
         /\ \A i \in DOMAIN named : \E e \in E :
              /\ Recent(e) /\ e.manager = named[i]
              /\ \A j \in DOMAIN named : i < j =>
                  /\ named[j] # named[i]
                  /\ \A f \in E : Recent(f) /\ f.manager = named[j]
                                      => EntryTime(f) <= EntryTime(e)
    BY <2>8 DEF NamedRightly, E, Recent
  <2>12. ASSUME NEW w \in ToSet(writes), WroteValues(w, d), w.at >= since
         PROVE  Contains(named, w.manager)
    <3>1. Suspect(w) BY <2>6, <2>12
    <3>2. PICK e \in E : Recent(e) /\ e.manager = w.manager BY <2>9, <3>1
    <3>3. \E i \in 1 .. Len(named) : named[i] = w.manager BY <2>11, <3>2
    <3> QED BY <3>3 DEF Contains
  <2>13. ASSUME NEW i \in DOMAIN named
         PROVE  \E w \in SuspectsOf(d) :
                  /\ w.manager = named[i]
                  /\ \A j \in i + 1 .. Len(named) :
                      /\ named[j] # named[i]
                      /\ \A x \in SuspectsOf(d) :
                            x.manager = named[j] => Truncated(x.at) <= Truncated(w.at)
    <3>1. PICK e \in E :
            /\ Recent(e) /\ e.manager = named[i]
            /\ \A j \in DOMAIN named : i < j =>
                /\ named[j] # named[i]
                /\ \A f \in E : Recent(f) /\ f.manager = named[j]
                                    => EntryTime(f) <= EntryTime(e)
      BY <2>11
    <3>2. PICK w \in ToSet(writes) : /\ Suspect(w) /\ e.manager = w.manager
                                     /\ EntryTime(e) = Truncated(w.at)
      BY <2>10, <3>1
    <3>3. ASSUME NEW j \in i + 1 .. Len(named) PROVE j \in DOMAIN named /\ i < j
      BY <2>11
    <3>4. ASSUME NEW j \in i + 1 .. Len(named), NEW x \in SuspectsOf(d), x.manager = named[j]
          PROVE  Truncated(x.at) <= Truncated(w.at)
      <4>1. x \in ToSet(writes) /\ Suspect(x) BY <2>2
      <4>2. PICK f \in E : /\ Recent(f) /\ f.manager = x.manager
                           /\ EntryTime(f) = Truncated(x.at)
        BY <2>9, <4>1
      <4>3. EntryTime(f) <= EntryTime(e) BY <3>1, <3>3, <3>4, <4>2
      <4> QED BY <3>2, <4>2, <4>3
    <3>5. w \in SuspectsOf(d) /\ w.manager = named[i] BY <2>2, <3>1, <3>2
    <3> QED BY <3>1, <3>3, <3>4, <3>5
  <2> QED BY <2>12, <2>13 DEF s, sub, named
<1> QED BY <1>1, ReportPicked, PTL

-------------------------------------------------------------------------------
(***************************************************************************)
(* Accepted rules.                                                         *)
(***************************************************************************)
LEMMA NoLabels == [k \in {} |-> 0] \in Maps
<1>1. {} \in SUBSET Keys /\ [k \in {} |-> 0] \in [{} -> Values] OBVIOUS
<1> QED BY <1>1 DEF Maps

\* A label requirement that parses is met by some labels.
LEMMA SomeLabelsMeet ==
    ASSUME NEW r, r.key \in Keys, r.values \subseteq Values, ExpressionParses(r)
    PROVE  \E l \in Maps : Meets(l, r)
<1> DEFINE none == [k \in {} |-> 0]
           only(v) == [k \in {r.key} |-> v]
<1>1. none \in Maps /\ r.key \notin DOMAIN none
  BY NoLabels
<1>2. ASSUME NEW v \in Values
      PROVE  only(v) \in Maps /\ r.key \in DOMAIN only(v) /\ only(v)[r.key] = v
  <2>1. {r.key} \in SUBSET Keys /\ only(v) \in [{r.key} -> Values] OBVIOUS
  <2> QED BY <2>1 DEF Maps
<1> HIDE DEF none, only
<1>3. CASE r.operator = "In"
  <2>1. PICK v \in r.values : TRUE BY <1>3 DEF ExpressionParses
  <2>2. Meets(only(v), r) BY <1>2, <1>3, <2>1 DEF Meets
  <2> QED BY <1>2, <2>1, <2>2
<1>4. CASE r.operator = "Exists"
  <2>1. PICK v \in Values : TRUE BY MatchAssumption
  <2>2. Meets(only(v), r) BY <1>2, <1>4 DEF Meets
  <2> QED BY <1>2, <2>2
<1>5. CASE r.operator = "NotIn"
  <2>1. Meets(none, r) BY <1>1, <1>5 DEF Meets
  <2> QED BY <1>1, <2>1
<1>6. CASE r.operator = "DoesNotExist"
  <2>1. Meets(none, r) BY <1>1, <1>6 DEF Meets
  <2> QED BY <1>1, <2>1
<1> QED BY <1>3, <1>4, <1>5, <1>6 DEF ExpressionParses

\* A requirement on a Node's name that parses is met by some name.
LEMMA SomeNameMeets ==
    ASSUME NEW r, r.key = "metadata.name", r.values \subseteq Names, FieldParses(r)
    PROVE  \E n \in Names : Meets([k \in {"metadata.name"} |-> n], r)
<1>1. PICK v \in r.values : r.values = {v} BY DEF FieldParses
<1>2. PICK n \in Names : n # v BY MatchAssumption
<1>3. CASE r.operator = "In"
  <2>1. Meets([k \in {"metadata.name"} |-> v], r) BY <1>1, <1>3 DEF Meets
  <2> QED BY <1>1, <2>1
<1>4. CASE r.operator = "NotIn"
  <2>1. Meets([k \in {"metadata.name"} |-> n], r) BY <1>1, <1>2, <1>4 DEF Meets
  <2> QED BY <2>1
<1> QED BY <1>3, <1>4 DEF FieldParses

\* Every accepted term that asks for one thing is matched by some Node, for any
\* labels and names (types.go:115-118).
THEOREM NoTermIsDead == Spec => []NoDeadTerms
<1> DEFINE Given == configuration \in Configurations \cup {NoRules}
<1>1. Spec => []Given
  <2>1. Init => Given
    BY DEF Init, InitMerge, InitResolve, InitReport, InitMatching, NoMatching
  <2>2. Given /\ [Unchanged]_vars => Given' BY DEF Unchanged, vars
  <2> QED BY <2>1, <2>2, PTL DEF Spec
<1>2. Given => NoDeadTerms
  <2> SUFFICES ASSUME Given, Accepted(configuration), NEW d \in AllDomains,
                      NEW id \in DOMAIN configuration[d],
                      NEW term \in configuration[d][id].match.selectorTerms,
                      \A r, q \in term.matchExpressions \cup term.matchFields : r = q
               PROVE  \E node \in SomeNodes : SelectorTermMatches(node, term)
    BY DEF NoDeadTerms
  <2> DEFINE match == configuration[d][id].match
  <2>1. match \in MatchValues /\ ValidMatch(match)
    <3>1. ValidMatch(match) BY DEF Accepted
    <3>2. configuration # NoRules BY DEF NoRules
    <3>3. PICK c \in AllDomains, m \in MatchValues :
            configuration = [NoRules EXCEPT ![c] = <<[match |-> NoMatch, values |-> NoScheme],
                                                     [match |-> m, values |-> NoScheme]>>]
      BY <3>2 DEF Configurations
    <3>4. d = c /\ id \in {1, 2} BY <3>3 DEF NoRules
    <3>5. match = NoMatch \/ match = m BY <3>3, <3>4 DEF NoRules
    <3>6. match # NoMatch BY DEF NoMatch
    <3> QED BY <3>1, <3>5, <3>6
  <2>2. /\ \A r \in term.matchExpressions : r.key \in Keys /\ r.values \subseteq Values
        /\ \A r \in term.matchFields : r.values \subseteq Names
    BY <2>1, MatchAssumption
  <2>3. /\ term.matchExpressions \cup term.matchFields # {}
        /\ \A r \in term.matchFields : r.key = "metadata.name"
        /\ \A r \in term.matchExpressions : ExpressionParses(r)
        /\ \A r \in term.matchFields : FieldParses(r)
    BY <2>1 DEF ValidMatch, ValidTerms, TermsParse
  <2>4. \E l \in Maps : \A r \in term.matchExpressions : Meets(l, r)
    <3>1. CASE term.matchExpressions = {} BY <3>1, NoLabels
    <3>2. CASE term.matchExpressions # {}
      <4>1. PICK r \in term.matchExpressions : TRUE BY <3>2
      <4>2. PICK l \in Maps : Meets(l, r) BY <2>2, <2>3, <4>1, SomeLabelsMeet
      <4>3. \A q \in term.matchExpressions : q = r BY <4>1
      <4> QED BY <4>2, <4>3
    <3> QED BY <3>1, <3>2
  <2>5. \E n \in Names : \A r \in term.matchFields : Meets([k \in {"metadata.name"} |-> n], r)
    <3>1. CASE term.matchFields = {} BY <3>1, MatchAssumption
    <3>2. CASE term.matchFields # {}
      <4>1. PICK r \in term.matchFields : TRUE BY <3>2
      <4>2. PICK n \in Names : Meets([k \in {"metadata.name"} |-> n], r)
        BY <2>2, <2>3, <4>1, SomeNameMeets
      <4>3. \A q \in term.matchFields : q = r BY <4>1
      <4> QED BY <4>2, <4>3
    <3> QED BY <3>1, <3>2
  <2>6. PICK l \in Maps : \A r \in term.matchExpressions : Meets(l, r) BY <2>4
  <2>7. PICK n \in Names : \A r \in term.matchFields : Meets([k \in {"metadata.name"} |-> n], r)
    BY <2>5
  <2> DEFINE node == [name |-> n, fields |-> [labels |-> l, providerID |-> NoProviderID]]
  <2>8. node \in SomeNodes BY DEF SomeNodes
  <2>9. node.fields.labels = l /\ NameField(node) = [k \in {"metadata.name"} |-> n]
    BY DEF NameField
  <2> HIDE DEF node
  <2>10. SelectorTermMatches(node, term)
    BY <2>3, <2>6, <2>7, <2>9 DEF SelectorTermMatches
  <2> QED BY <2>8, <2>10
<1> QED BY <1>1, <1>2, PTL
===============================================================================
