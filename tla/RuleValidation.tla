---------------------------- MODULE RuleValidation ----------------------------
(***************************************************************************)
(* Pure: which configurations Config.Validate accepts (config/types.go).   *)
(* It parses the terms exactly as matches does (controller/match.go), so   *)
(* what is accepted parses again there.                                    *)
(***************************************************************************)
EXTENDS NodeRules

CONSTANT Malformed  \* a providerIDPattern that is no regular expression, or a
                    \* providerIDScheme that is no URI scheme

(***************************************************************************)
(* nodeaffinity.NewNodeSelector parses all terms but empty ones.           *)
(***************************************************************************)
ExpressionParses(r) ==
    \/ r.operator \in {"In", "NotIn"} /\ r.values # {}
    \/ r.operator \in {"Exists", "DoesNotExist"} /\ r.values = {}

FieldParses(r) ==
    /\ r.operator \in {"In", "NotIn"}
    /\ \E v \in r.values : r.values = {v}

TermsParse(terms) ==
    \A term \in terms :
        /\ \A r \in term.matchExpressions : ExpressionParses(r)
        /\ \A r \in term.matchFields : FieldParses(r)

\* Mutant of ValidTerms: empty terms and any field key are accepted.
ValidIfParsed(terms) == TermsParse(terms)

ValidTerms(terms) ==
    /\ \A term \in terms :
        /\ term.matchExpressions \cup term.matchFields # {}
        /\ \A r \in term.matchFields : r.key = "metadata.name"
    /\ TermsParse(terms)

ValidMatch(m) ==
    /\ m.providerIDs # Malformed
    /\ ValidTerms(m.selectorTerms)

Accepted(configuration) ==
    \A d \in AllDomains : \A id \in DOMAIN configuration[d] :
        /\ ValidMatch(configuration[d][id].match)
        /\ d = "initialization" => configuration[d][id].values # Malformed
===============================================================================
