----------------------------- MODULE DriftReport -----------------------------
(***************************************************************************)
(* Pure: what a controller reports when a Node's values are not what its   *)
(* rules want (drift.go): which keys or addresses are missing or changed,  *)
(* and which field managers wrote them since they were applied.            *)
(***************************************************************************)
EXTENDS NodeRules

CONSTANTS
    Kubeling,       \* its own manager name, fieldManager
    Second,         \* ticks per second
    NoTime,         \* an entry without a Time
    NoFields,       \* one without FieldsV1
    Broken          \* FieldsV1 that are no JSON

ASSUME SecondAssumption == Second \in Nat \ {0}

ZeroTime == -1      \* Go's zero time, before any other

Truncated(time) == time - (time % Second)

MetadataDrift(existing, desired) ==
    [missing |-> DOMAIN desired \ DOMAIN existing,
     changed |-> {k \in DOMAIN desired \cap DOMAIN existing : existing[k] # desired[k]}]

\* Mutant of ExternalIPDrift: an address of any type will do.
AnyAddressDrift(existing, desired) ==
    ToSet(desired) \ {existing[i].ip : i \in DOMAIN existing}

\* The missing addresses.
ExternalIPDrift(existing, desired) ==
    {ip \in ToSet(desired) : [type |-> "ExternalIP", ip |-> ip] \notin ToSet(existing)}

(***************************************************************************)
(* The API server's managedFields: [manager, subresource, fields, time],   *)
(* one per operation and subresource of a manager, in whole seconds and in *)
(* any order.  fields is FieldsV1: the domains whose values the manager    *)
(* owns one of, or NoFields if there is none, or Broken if it is no JSON.  *)
(* An entry may come without a time.  writes are [manager, subresource,    *)
(* fields, at].                                                            *)
(***************************************************************************)
EntriesOf(writes) ==
    [i \in DOMAIN writes |->
        LET w == writes[i]
        IN  [manager |-> w.manager, subresource |-> w.subresource, fields |-> w.fields,
             time |-> IF w.at = NoTime THEN NoTime ELSE Truncated(w.at)]]

EntryTime(e) == IF e.time = NoTime THEN ZeroTime ELSE e.time

\* hasFieldPath, with the path to a domain's values.
OwnsFieldOf(e, d) == e.fields \notin {NoFields, Broken} /\ d \in e.fields

\* Where a domain's controller looks for those who wrote its values.
SubresourceOf(d) == IF d = "externalIPs" THEN "status" ELSE ""

\* The most recent first, and entries of the same second as they come.
Inserted(s, e) ==
    LET older == {i \in DOMAIN s : EntryTime(s[i]) < EntryTime(e)}
    IN  Pick(s, DOMAIN s \ older) \o <<e>> \o Pick(s, older)

SortedByTime(entries) ==
    LET sorted[n \in 0 .. Len(entries)] ==
            IF n = 0 THEN <<>> ELSE Inserted(sorted[n - 1], entries[n])
    IN  sorted[Len(entries)]

\* Mutant of IsRecent: a field that was written through any subresource will do.
IsRecentAnywhere(e, subresource, since, d) ==
    /\ e.manager # Kubeling
    /\ EntryTime(e) >= since
    /\ OwnsFieldOf(e, d)

IsRecent(e, subresource, since, d) ==
    /\ e.subresource = subresource
    /\ e.manager # Kubeling
    /\ EntryTime(e) >= since
    /\ OwnsFieldOf(e, d)

RecentOnes(s, subresource, since, d) ==
    Pick(s, {i \in DOMAIN s : IsRecent(s[i], subresource, since, d)})

ManagersOf(entries) == [i \in DOMAIN entries |-> entries[i].manager]

RecentWriters(entries, subresource, since, d) ==
    Distinct(ManagersOf(
        RecentOnes(SortedByTime(entries), subresource, Truncated(since), d)))
==============================================================================
