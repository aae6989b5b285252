----------------------------- MODULE RuleClaims -----------------------------
(***************************************************************************)
(* What the README and the comments promise about rule controllers beyond  *)
(* the properties of RuleController, each refuted by a run: see "Where the *)
(* code and its documentation disagree" in the README beside this file.    *)
(***************************************************************************)
EXTENDS MCRuleController

\* README.md:347-348, "Editing the rules themselves is no flap": if nobody
\* else ever touches this domain's values, no condition becomes Drifted.
EditIsNoFlap ==
    \A t \in Tasks :
        t[1] \notin ForeignFields /\ api[t[2]] # Gone
            => api[t[2]].conditions[t[1]].reason # "Drifted"

\* README.md:339-346 and flaps.go:22-24, "keeps two controllers that disagree
\* about a Node from updating it in a tight loop": the same values are not
\* written again before minCooldown has passed since they were last written.
NoTightLoop ==
    [][\A t \in Tasks :
         /\ Stores(t)
         /\ worker[t].kind = "values"
         /\ Fingerprint(t[1], worker[t].desired) = flaps[t].desired
         => clock >= flaps[t].appliedAt + MinCooldown]_vars

\* README.md:360, "the condition tracks current applicability" (see also
\* metadata_controller.go:44-46, "absent while no rule matches"): a condition
\* is only removed from a Node that no rule of the ConfigMap matches.
ClearedOnlyIfUnmatched ==
    [][\A t \in Tasks :
         /\ Stores(t)
         /\ api'[t[2]].conditions[t[1]] = NoCondition
         /\ configMap \in Configs
         => MatchingIDs(api[t[2]], configMap[t[1]]) = {}]_vars
=============================================================================
