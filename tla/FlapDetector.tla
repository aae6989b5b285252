----------------------------- MODULE FlapDetector -----------------------------
(***************************************************************************)
(* The flapDetector of pkg/controller/flaps.go as an object of its own:    *)
(* one action per exported-to-the-package operation, called in any order,  *)
(* for any Node, with any arguments the controllers can pass.  The wait    *)
(* drifted returns is kept in `granted` unless it is just what is left of  *)
(* a wait granted earlier, so that calls can be related to each other.     *)
(***************************************************************************)
EXTENDS FlapState

CONSTANTS
    Nodes,          \* Node names
    Desireds,       \* fingerprints of desired values, without ""
    MaxSkew,        \* how far other replicas' clocks may be ahead
    MaxClock,       \* bound: the clock stops here
    MaxStreak       \* bound: no drift is recorded after this many flaps

ASSUME DetectorAssumption ==
    /\ NoDesired \notin Desireds
    /\ MaxSkew \in Nat
    /\ MaxClock \in Nat
    /\ MaxStreak \in Nat

VARIABLES
    nodes,          \* flapDetector.nodes: the flapState of every Node
    now,            \* what flapDetector.now returns
    granted         \* the latest wait drifted granted, per Node

vars == <<nodes, now, granted>>

FlapStates ==
    [flaps : Nat, appliedAt : {ZeroTime} \cup Nat, until : {ZeroTime} \cup Nat,
     desired : Desireds \cup {NoDesired}]

TypeOK ==
    /\ nodes \in [Nodes -> FlapStates]
    /\ now \in Nat
    /\ granted \in [Nodes -> Nat]

Init ==
    /\ nodes = [n \in Nodes |-> ZeroFlapState]
    /\ now = 0
    /\ granted = [n \in Nodes |-> 0]

(***************************************************************************)
(* The operations.                                                         *)
(***************************************************************************)
RecordApplied(n, desired) ==
    /\ nodes' = [nodes EXCEPT ![n] = Applied(nodes[n], desired, now)]
    /\ UNCHANGED <<now, granted>>

ResetOnRuleChange(n, desired) ==
    /\ RulesChanged(nodes[n], desired)
    /\ nodes' = [nodes EXCEPT ![n] = ZeroFlapState]
    /\ UNCHANGED <<now, granted>>

\* confirmedAt is a condition's heartbeat, which may be another replica's: it
\* lies in the future if that replica's clock is ahead of this one's.
RecordDrifted(n, confirmedAt) ==
    /\ nodes[n].flaps < MaxStreak
    /\ nodes' = [nodes EXCEPT ![n] = Drifted(nodes[n], confirmedAt, now)]
    /\ granted' = IF CoolingDown(nodes[n], now) THEN granted
                  ELSE [granted EXCEPT ![n] =
                          DriftedWait(nodes[n], confirmedAt, now)]
    /\ UNCHANGED now

Forget(n) ==
    /\ nodes' = [nodes EXCEPT ![n] = ZeroFlapState]
    /\ UNCHANGED <<now, granted>>

Tick ==
    /\ now < MaxClock
    /\ now' = now + 1
    /\ UNCHANGED <<nodes, granted>>

Next ==
    \/ \E n \in Nodes :
        \/ \E d \in Desireds : RecordApplied(n, d)
        \/ \E d \in Desireds \cup {NoDesired} : ResetOnRuleChange(n, d)
        \/ \E at \in 0 .. now + MaxSkew : RecordDrifted(n, at)
        \/ Forget(n)
    \/ Tick

Spec == Init /\ [][Next]_vars
-------------------------------------------------------------------------------
(***************************************************************************)
(* Properties.                                                             *)
(***************************************************************************)

\* No Node ever waits longer than maxCooldown from now, however long its
\* streak and whatever clock its heartbeat comes from: until never lies further
\* ahead (flaps.go:84-101).
CooldownBounded == \A n \in Nodes : nodes[n].until - now <= MaxCooldown

\* A cooldown that is running is never cut short or drawn out by further
\* drifts or writes; only a rule change or forgetting the Node ends it early
\* ("A drift during an ongoing cooldown just reports what is left of it").
RunningCooldownKept ==
    [][\A n \in Nodes :
         CoolingDown(nodes[n], now)
           => \/ nodes'[n].until = nodes[n].until
              \/ nodes'[n] = ZeroFlapState]_vars

\* A flap that continues a streak waits twice as long as the flap before it,
\* capped at maxCooldown; the first one waits minCooldown (README.md:339-341).
\* This is about what callers are told, call after call, not about flaps.
DoublingCooldown ==
    [][\A n \in Nodes :
         nodes'[n].flaps = nodes[n].flaps + 1
           => granted'[n] =
                IF nodes[n].flaps = 0 THEN MinCooldown
                ELSE LET double == 2 * granted[n]
                     IN IF double < MaxCooldown THEN double ELSE MaxCooldown]_vars

\* What makes DoublingCooldown inductive: a streak's last grant is the
\* cooldown of its length.
StreakGranted ==
    \A n \in Nodes :
        nodes[n].flaps > 0 => granted[n] = Cooldown(nodes[n].flaps)
===============================================================================
