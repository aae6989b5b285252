------------------------------ MODULE TaskQueue ------------------------------
(***************************************************************************)
(* What a controller is promised by its workqueue, and all that the module *)
(* RuleController assumes of it: a set of dirty keys, of which any may be  *)
(* next unless a worker has it, and one wake-up per key, the earliest.     *)
(* Wake-ups are ticks from now.  A closed queue takes nothing in.          *)
(***************************************************************************)
EXTENDS Integers

CONSTANTS Keys, Delays

VARIABLES dirty, busy, delay, closed

vars == <<dirty, busy, delay, closed>>

Never == -1

Init ==
    /\ dirty = {}
    /\ busy = {}
    /\ delay = [k \in Keys |-> Never]
    /\ closed = FALSE

Add(k) ==
    /\ ~closed
    /\ dirty' = dirty \cup {k}
    /\ UNCHANGED <<busy, delay, closed>>

Schedule(k, d) ==
    /\ ~closed
    /\ delay' = [delay EXCEPT ![k] = IF @ = Never \/ d < @ THEN d ELSE @]
    /\ UNCHANGED <<dirty, busy, closed>>

Wake(k) ==
    /\ ~closed
    /\ delay[k] = 0
    /\ delay' = [delay EXCEPT ![k] = Never]
    /\ dirty' = dirty \cup {k}
    /\ UNCHANGED <<busy, closed>>

Start(k) ==
    /\ k \in dirty \ busy
    /\ dirty' = dirty \ {k}
    /\ busy' = busy \cup {k}
    /\ UNCHANGED <<delay, closed>>

Done(k) ==
    /\ k \in busy
    /\ busy' = busy \ {k}
    /\ UNCHANGED <<dirty, delay, closed>>

Close ==
    /\ closed' = TRUE
    /\ UNCHANGED <<dirty, busy, delay>>

Tick ==
    /\ delay' = [k \in Keys |-> IF delay[k] > 0 THEN delay[k] - 1 ELSE delay[k]]
    /\ UNCHANGED <<dirty, busy, closed>>

Next ==
    \/ \E k \in Keys : \/ Add(k) \/ Wake(k) \/ Start(k) \/ Done(k)
                       \/ \E d \in Delays : Schedule(k, d)
    \/ Close
    \/ Tick

Spec == Init /\ [][Next]_vars
==============================================================================
