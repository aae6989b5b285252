-------------------------- MODULE FlapDetector_proofs --------------------------
(***************************************************************************)
(* The flap detector's guarantees for every cooldown, every number of      *)
(* Nodes and every streak.  TypeOK is inductive as it stands; together     *)
(* with the cap on a single cooldown it makes CooldownBounded inductive,   *)
(* because time only moves towards until.                                  *)
(***************************************************************************)
EXTENDS FlapDetector, TLAPS

\* A cooldown lies between one tick and maxCooldown, whatever the streak.
LEMMA CooldownRange ==
    ASSUME NEW n \in Nat \ {0}
    PROVE  Cooldown(n) \in Nat /\ 0 < Cooldown(n) /\ Cooldown(n) <= MaxCooldown
<1>1. CASE n - 1 < 16 /\ MinCooldown * PowerOfTwo[n] < MaxCooldown
  <2>1. n \in 1 .. 16 BY <1>1
  <2>2. PowerOfTwo[n] \in Nat \ {0} BY <2>1 DEF PowerOfTwo
  <2>3. MinCooldown * PowerOfTwo[n] \in Nat \ {0} BY <2>2, CooldownAssumption
  <2> QED BY <1>1, <2>3, CooldownAssumption DEF Cooldown
<1>2. CASE ~(n - 1 < 16 /\ MinCooldown * PowerOfTwo[n] < MaxCooldown)
  <2>1. Cooldown(n) = MaxCooldown BY <1>2 DEF Cooldown
  <2> QED BY <2>1, CooldownAssumption
<1> QED BY <1>1, <1>2

LEMMA ZeroFlapStateType == ZeroFlapState \in FlapStates
BY DEF ZeroFlapState, FlapStates

LEMMA AppliedType ==
    ASSUME NEW s \in FlapStates, NEW d \in Desireds, NEW at \in Nat
    PROVE  Applied(s, d, at) \in FlapStates
BY DEF Applied, FlapStates

\* drifted keeps a state's type and never puts until out of reach.
LEMMA DriftedType ==
    ASSUME NEW s \in FlapStates, NEW confirmedAt \in Nat, NEW t \in Nat
    PROVE  /\ Drifted(s, confirmedAt, t) \in FlapStates
           /\ DriftedWait(s, confirmedAt, t) \in Nat
           /\ \/ Drifted(s, confirmedAt, t).until = s.until
              \/ Drifted(s, confirmedAt, t).until - t <= MaxCooldown
<1> USE DEF FlapStates
<1>1. CASE CoolingDown(s, t)
  <2>1. Drifted(s, confirmedAt, t) = s BY <1>1 DEF Drifted
  <2>2. DriftedWait(s, confirmedAt, t) = s.until - t
    BY <1>1, <2>1 DEF DriftedWait
  <2>3. s.until \in Nat /\ t < s.until
    BY <1>1, CooldownAssumption DEF CoolingDown, ZeroTime, FlapWindow
  <2> QED BY <2>1, <2>2, <2>3
<1>2. CASE ~CoolingDown(s, t) /\ HeldPastWindow(s, confirmedAt, t)
  <2>1. Drifted(s, confirmedAt, t) = [s EXCEPT !.flaps = 0] BY <1>2 DEF Drifted
  <2>2. DriftedWait(s, confirmedAt, t) = 0 BY <1>2 DEF DriftedWait
  <2> QED BY <2>1, <2>2
<1>3. CASE ~CoolingDown(s, t) /\ ~HeldPastWindow(s, confirmedAt, t)
  <2> DEFINE c == Cooldown(s.flaps + 1)
  <2>1. c \in Nat /\ 0 < c /\ c <= MaxCooldown BY CooldownRange
  <2>2. Drifted(s, confirmedAt, t) = [s EXCEPT !.flaps = s.flaps + 1, !.until = t + c]
    BY <1>3 DEF Drifted
  <2>3. Drifted(s, confirmedAt, t).until = t + c BY <2>2
  <2>4. DriftedWait(s, confirmedAt, t) = c
    BY <1>3, <2>1, <2>3 DEF DriftedWait
  <2> HIDE DEF c
  <2>5. [s EXCEPT !.flaps = s.flaps + 1, !.until = t + c] \in FlapStates
    <3>1. t + c \in Nat /\ s.flaps + 1 \in Nat BY <2>1, CooldownAssumption
    <3> HIDE DEF c
    <3> QED BY <3>1
  <2>6. t + c - t <= MaxCooldown BY <2>1, CooldownAssumption
  <2> QED BY <2>1, <2>2, <2>3, <2>4, <2>5, <2>6
<1> QED BY <1>1, <1>2, <1>3
--------------------------------------------------------------------------------
LEMMA TypeInit == Init => TypeOK
BY ZeroFlapStateType DEF Init, TypeOK

LEMMA TypeStep == TypeOK /\ [Next]_vars => TypeOK'
<1> SUFFICES ASSUME TypeOK, [Next]_vars PROVE TypeOK'
  OBVIOUS
<1> USE DEF TypeOK
<1>1. ASSUME NEW n \in Nodes, NEW d \in Desireds, RecordApplied(n, d)
      PROVE  TypeOK'
  BY <1>1, AppliedType DEF RecordApplied
<1>2. ASSUME NEW n \in Nodes, NEW d \in Desireds \cup {NoDesired},
             ResetOnRuleChange(n, d)
      PROVE  TypeOK'
  BY <1>2, ZeroFlapStateType DEF ResetOnRuleChange
<1>3. ASSUME NEW n \in Nodes, NEW at \in 0 .. now + MaxSkew, RecordDrifted(n, at)
      PROVE  TypeOK'
  <2>1. at \in Nat /\ nodes[n] \in FlapStates OBVIOUS
  <2>2. /\ Drifted(nodes[n], at, now) \in FlapStates
        /\ DriftedWait(nodes[n], at, now) \in Nat
    BY <2>1, DriftedType
  <2> QED BY <1>3, <2>2 DEF RecordDrifted
<1>4. ASSUME NEW n \in Nodes, Forget(n) PROVE TypeOK'
  BY <1>4, ZeroFlapStateType DEF Forget
<1>5. CASE Tick
  BY <1>5 DEF Tick
<1>6. CASE UNCHANGED vars
  BY <1>6 DEF vars
<1> QED BY <1>1, <1>2, <1>3, <1>4, <1>5, <1>6 DEF Next

\* The detector's state keeps its type: flap counts never go negative, and
\* waits handed to AddAfter are durations (flaps.go:31-38, 77-103).
THEOREM TypeCorrect == Spec => []TypeOK
BY TypeInit, TypeStep, PTL DEF Spec

LEMMA BoundStep == TypeOK /\ CooldownBounded /\ [Next]_vars => CooldownBounded'
<1> SUFFICES ASSUME TypeOK, CooldownBounded, [Next]_vars,
                    NEW m \in Nodes
             PROVE  nodes'[m].until - now' <= MaxCooldown
  BY DEF CooldownBounded
<1>1. /\ nodes[m].until - now <= MaxCooldown
      /\ nodes[m] \in FlapStates
      /\ nodes[m].until \in Int
      /\ now \in Nat
  BY CooldownAssumption DEF CooldownBounded, TypeOK, FlapStates, ZeroTime, FlapWindow
<1>2. ZeroFlapState.until - now <= MaxCooldown
  BY <1>1, CooldownAssumption DEF ZeroFlapState, ZeroTime, FlapWindow
<1>3. ASSUME NEW n \in Nodes, NEW d \in Desireds, RecordApplied(n, d)
      PROVE  nodes'[m].until - now' <= MaxCooldown
  <2>1. Applied(nodes[n], d, now).until = nodes[n].until
    BY DEF Applied, TypeOK, FlapStates
  <2> QED BY <1>1, <1>3, <2>1 DEF RecordApplied, TypeOK
<1>4. ASSUME NEW n \in Nodes, NEW d \in Desireds \cup {NoDesired},
             ResetOnRuleChange(n, d)
      PROVE  nodes'[m].until - now' <= MaxCooldown
  BY <1>1, <1>2, <1>4 DEF ResetOnRuleChange, TypeOK
<1>5. ASSUME NEW n \in Nodes, NEW at \in 0 .. now + MaxSkew, RecordDrifted(n, at)
      PROVE  nodes'[m].until - now' <= MaxCooldown
  <2>1. at \in Nat /\ nodes[n] \in FlapStates BY DEF TypeOK
  <2>2. \/ Drifted(nodes[n], at, now).until = nodes[n].until
        \/ Drifted(nodes[n], at, now).until - now <= MaxCooldown
    BY <1>1, <2>1, DriftedType
  <2> QED BY <1>1, <1>5, <2>2 DEF RecordDrifted, TypeOK
<1>6. ASSUME NEW n \in Nodes, Forget(n)
      PROVE  nodes'[m].until - now' <= MaxCooldown
  BY <1>1, <1>2, <1>6 DEF Forget, TypeOK
<1>7. CASE Tick
  BY <1>1, <1>7, CooldownAssumption DEF Tick
<1>8. CASE UNCHANGED vars
  BY <1>1, <1>8 DEF vars
<1> QED BY <1>3, <1>4, <1>5, <1>6, <1>7, <1>8 DEF Next

\* No cooldown ever reaches further than maxCooldown into the future, for
\* every minCooldown and maxCooldown the shift of 15 suffices for.
THEOREM BoundedCooldown == Spec => []CooldownBounded
<1>1. Init => CooldownBounded
  BY CooldownAssumption
  DEF Init, CooldownBounded, ZeroFlapState, ZeroTime, FlapWindow
<1> QED BY <1>1, TypeCorrect, BoundStep, PTL DEF Spec

\* A step of the detector leaves a running cooldown alone or forgets it.
LEMMA RunningStep ==
    ASSUME TypeOK, [Next]_vars, NEW m \in Nodes, CoolingDown(nodes[m], now)
    PROVE  nodes'[m].until = nodes[m].until \/ nodes'[m] = ZeroFlapState
<1>1. ASSUME NEW n \in Nodes, NEW d \in Desireds, RecordApplied(n, d)
      PROVE  nodes'[m].until = nodes[m].until
  <2>1. Applied(nodes[n], d, now).until = nodes[n].until
    BY DEF Applied, TypeOK, FlapStates
  <2> QED BY <1>1, <2>1 DEF RecordApplied, TypeOK
<1>2. ASSUME NEW n \in Nodes, NEW at \in 0 .. now + MaxSkew, RecordDrifted(n, at)
      PROVE  nodes'[m].until = nodes[m].until
  BY <1>2 DEF RecordDrifted, Drifted, TypeOK
<1> QED BY <1>1, <1>2 DEF Next, ResetOnRuleChange, Forget, Tick, vars, TypeOK

\* "A drift during an ongoing cooldown just reports what is left of it"
\* (flaps.go:75-76), for every sequence of calls.
THEOREM CooldownKept == Spec => RunningCooldownKept
<1>1. TypeOK /\ [Next]_vars =>
        [\A n \in Nodes :
            CoolingDown(nodes[n], now)
              => \/ nodes'[n].until = nodes[n].until
                 \/ nodes'[n] = ZeroFlapState]_vars
  BY RunningStep
<1> QED BY <1>1, TypeCorrect, PTL DEF Spec, RunningCooldownKept
--------------------------------------------------------------------------------
(***************************************************************************)
(* The doubling.  The table of powers doubles up to its last entry, where  *)
(* ShiftAssumption says the cap has been reached.                          *)
(***************************************************************************)
LEMMA FirstCooldown == Cooldown(1) = MinCooldown
<1>1. PowerOfTwo[1] = 1 BY DEF PowerOfTwo
<1>2. MinCooldown * PowerOfTwo[1] = MinCooldown BY <1>1, CooldownAssumption
<1> QED BY <1>2, CooldownAssumption DEF Cooldown

LEMMA NextCooldown ==
    ASSUME NEW n \in Nat \ {0}
    PROVE  Cooldown(n + 1) = IF 2 * Cooldown(n) < MaxCooldown
                             THEN 2 * Cooldown(n) ELSE MaxCooldown
<1>1. CASE n \in 1 .. 15
  <2>1. PowerOfTwo[n + 1] = 2 * PowerOfTwo[n] /\ PowerOfTwo[n] \in Nat \ {0}
    BY <1>1 DEF PowerOfTwo
  <2> DEFINE x == MinCooldown * PowerOfTwo[n]
             y == MinCooldown * PowerOfTwo[n + 1]
  <2>2. x \in Nat \ {0} /\ y = 2 * x
    BY <2>1, CooldownAssumption
  <2>3. Cooldown(n) = IF x < MaxCooldown THEN x ELSE MaxCooldown
    BY <1>1 DEF Cooldown
  <2>4. Cooldown(n + 1) = IF y < MaxCooldown THEN y ELSE MaxCooldown
    BY <1>1 DEF Cooldown
  <2> HIDE DEF x, y
  <2> QED BY <2>2, <2>3, <2>4, CooldownAssumption
<1>2. CASE n \notin 1 .. 15
  <2>1. Cooldown(n) = MaxCooldown
    <3>1. CASE n = 16
      <4>1. PowerOfTwo[n] = 32768 BY <3>1 DEF PowerOfTwo
      <4>2. ~(MinCooldown * PowerOfTwo[n] < MaxCooldown)
        BY <4>1, CooldownAssumption, ShiftAssumption
      <4> QED BY <4>2 DEF Cooldown
    <3>2. CASE n > 16
      BY <3>2 DEF Cooldown
    <3> QED BY <1>2, <3>1, <3>2
  <2>2. Cooldown(n + 1) = MaxCooldown BY <1>2 DEF Cooldown
  <2> QED BY <2>1, <2>2, CooldownAssumption
<1> QED BY <1>1, <1>2

\* What drifted does to the streak, and what it grants.
LEMMA DriftedStreak ==
    ASSUME NEW s \in FlapStates, NEW confirmedAt \in Nat, NEW t \in Nat,
           ~CoolingDown(s, t)
    PROVE  \/ Drifted(s, confirmedAt, t).flaps = 0
           \/ /\ Drifted(s, confirmedAt, t).flaps = s.flaps + 1
              /\ DriftedWait(s, confirmedAt, t) = Cooldown(s.flaps + 1)
<1>1. s.flaps \in Nat /\ DOMAIN s = {"flaps", "appliedAt", "until", "desired"}
  BY DEF FlapStates
<1>2. CASE HeldPastWindow(s, confirmedAt, t)
  <2>1. Drifted(s, confirmedAt, t) = [s EXCEPT !.flaps = 0] BY <1>2 DEF Drifted
  <2> QED BY <1>1, <2>1
<1>3. CASE ~HeldPastWindow(s, confirmedAt, t)
  <2> DEFINE c == Cooldown(s.flaps + 1)
  <2>1. c \in Nat BY <1>1, CooldownRange
  <2>2. Drifted(s, confirmedAt, t) = [s EXCEPT !.flaps = s.flaps + 1, !.until = t + c]
    BY <1>3 DEF Drifted
  <2>3. DriftedWait(s, confirmedAt, t) = Drifted(s, confirmedAt, t).until - t
    BY <1>3 DEF DriftedWait
  <2> HIDE DEF c
  <2>4. Drifted(s, confirmedAt, t).until - t = c BY <1>1, <2>1, <2>2
  <2>5. Drifted(s, confirmedAt, t).flaps = s.flaps + 1 BY <1>1, <2>2
  <2> QED BY <2>3, <2>4, <2>5 DEF c
<1> QED BY <1>2, <1>3

LEMMA StreakStep == TypeOK /\ StreakGranted /\ [Next]_vars => StreakGranted'
<1> SUFFICES ASSUME TypeOK, StreakGranted, [Next]_vars, NEW m \in Nodes,
                    nodes'[m].flaps > 0
             PROVE  granted'[m] = Cooldown(nodes'[m].flaps)
  BY DEF StreakGranted
<1>0. nodes[m].flaps > 0 => granted[m] = Cooldown(nodes[m].flaps)
  BY DEF StreakGranted
<1>1. ASSUME NEW n \in Nodes, NEW d \in Desireds, RecordApplied(n, d)
      PROVE  granted'[m] = Cooldown(nodes'[m].flaps)
  <2>1. Applied(nodes[n], d, now).flaps = nodes[n].flaps
    BY DEF Applied, TypeOK, FlapStates
  <2> QED BY <1>0, <1>1, <2>1 DEF RecordApplied, TypeOK
<1>2. ASSUME NEW n \in Nodes, nodes' = [nodes EXCEPT ![n] = ZeroFlapState],
             granted' = granted
      PROVE  granted'[m] = Cooldown(nodes'[m].flaps)
  <2>1. ZeroFlapState.flaps = 0 BY DEF ZeroFlapState
  <2> QED BY <1>0, <1>2, <2>1 DEF TypeOK
<1>3. ASSUME NEW n \in Nodes, NEW at \in 0 .. now + MaxSkew, RecordDrifted(n, at)
      PROVE  granted'[m] = Cooldown(nodes'[m].flaps)
  <2>1. at \in Nat /\ now \in Nat /\ nodes[n] \in FlapStates BY DEF TypeOK
  <2>2. CASE CoolingDown(nodes[n], now)
    BY <1>0, <1>3, <2>2 DEF RecordDrifted, Drifted, TypeOK
  <2>3. CASE ~CoolingDown(nodes[n], now) /\ n = m
    <3>1. /\ nodes'[m] = Drifted(nodes[m], at, now)
          /\ granted'[m] = DriftedWait(nodes[m], at, now)
      BY <1>3, <2>3 DEF RecordDrifted, TypeOK
    <3> QED BY <2>1, <2>3, <3>1, DriftedStreak
  <2>4. CASE ~CoolingDown(nodes[n], now) /\ n # m
    BY <1>0, <1>3, <2>4 DEF RecordDrifted, TypeOK
  <2> QED BY <2>2, <2>3, <2>4
<1>4. CASE Tick \/ UNCHANGED vars
  BY <1>0, <1>4 DEF Tick, vars
<1> QED BY <1>1, <1>2, <1>3, <1>4 DEF Next, ResetOnRuleChange, Forget

\* The latest wait drifted returned that was not the rest of a running one is
\* the cooldown of the streak's length (flaps.go:95-102), in any order of calls
\* by workers, event handlers and writes.
THEOREM StreakInvariant == Spec => []StreakGranted
<1>1. Init => StreakGranted BY DEF Init, StreakGranted, ZeroFlapState
<1> QED BY <1>1, TypeCorrect, StreakStep, PTL DEF Spec

\* "0.5 seconds after the first flap, doubling with every further flap up to
\* 64 seconds" (README.md:340-341): every grant is twice the grant before it,
\* or the cap, for streaks of any length.
LEMMA DoublingStep ==
    ASSUME TypeOK, StreakGranted, [Next]_vars, NEW m \in Nodes,
           nodes'[m].flaps = nodes[m].flaps + 1
    PROVE  granted'[m] =
             IF nodes[m].flaps = 0 THEN MinCooldown
             ELSE LET double == 2 * granted[m]
                  IN IF double < MaxCooldown THEN double ELSE MaxCooldown
<1>1. nodes[m].flaps \in Nat BY DEF TypeOK, FlapStates
<1>2. StreakGranted' BY StreakStep
<1>3. granted'[m] = Cooldown(nodes[m].flaps + 1)
  BY <1>1, <1>2 DEF StreakGranted
<1>4. CASE nodes[m].flaps = 0
  BY <1>3, <1>4, FirstCooldown
<1>5. CASE nodes[m].flaps # 0
  <2>1. granted[m] = Cooldown(nodes[m].flaps) BY <1>1, <1>5 DEF StreakGranted
  <2> QED BY <1>1, <1>3, <1>5, <2>1, NextCooldown
<1> QED BY <1>4, <1>5

\* DoublingCooldown for every cooldown range the shift covers (README.md:340-341).
THEOREM CooldownDoubles == Spec => DoublingCooldown
<1>1. TypeOK /\ StreakGranted /\ [Next]_vars =>
        [\A n \in Nodes :
            nodes'[n].flaps = nodes[n].flaps + 1
              => granted'[n] =
                   IF nodes[n].flaps = 0 THEN MinCooldown
                   ELSE LET double == 2 * granted[n]
                        IN IF double < MaxCooldown THEN double ELSE MaxCooldown]_vars
  BY DoublingStep
<1> QED BY <1>1, TypeCorrect, StreakInvariant, PTL DEF Spec, DoublingCooldown
================================================================================
