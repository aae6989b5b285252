------------------------------ MODULE MCHandover ------------------------------
(* Handover with the values of MCRuleController: a quiet cluster, or an edit *)
(* after which, for a while, only one of the two leaders may have rules.     *)
EXTENDS Handover, MCRuleController

NothingOrAnEdit == Nothing \cup {Budget(0, 0, 1, 0, 0)}
MCOverlaps == [b \in Budgets |-> IF b.edits = 0 THEN 2 ELSE 0]
===============================================================================
