------------------------------ MODULE FlapState ------------------------------
(***************************************************************************)
(* What pkg/controller/flaps.go remembers about one Node (type flapState)  *)
(* and how each flapDetector operation changes it, as pure operators.  The *)
(* operations run under the detector's mutex, so each is one atomic step   *)
(* of whoever uses it: FlapDetector on its own, RuleController in place.   *)
(*                                                                         *)
(* Time is a natural number of ticks.  A missing entry of the detector's   *)
(* map is the zero flapState here: every operation treats the two alike.   *)
(* A desired value is abstract; NoDesired stands for the empty string.     *)
(***************************************************************************)
EXTENDS Integers

CONSTANTS
    MinCooldown,    \* minCooldown, in ticks
    MaxCooldown,    \* maxCooldown, in ticks
    NoDesired       \* the empty fingerprint ""

FlapWindow == 2 * MaxCooldown

(***************************************************************************)
(* Go's zero time lies so far back that no time the program meets is       *)
(* within flapWindow of it.                                                *)
(***************************************************************************)
ZeroTime == -(FlapWindow + 1)

(***************************************************************************)
(* 2^(n-1) for the shifts 0..15 the code allows.  The second assumption    *)
(* is what makes that limit harmless: 500ms << 15 is far beyond 64s.       *)
(***************************************************************************)
PowerOfTwo == <<1, 2, 4, 8, 16, 32, 64, 128, 256, 512, 1024, 2048, 4096,
                8192, 16384, 32768>>

ASSUME CooldownAssumption ==
    /\ MinCooldown \in Nat \ {0}
    /\ MaxCooldown \in Nat
    /\ MinCooldown <= MaxCooldown

ASSUME ShiftAssumption == MaxCooldown <= MinCooldown * 32768

LatestOf(a, b) == IF b > a THEN b ELSE a

ZeroFlapState == [flaps |-> 0, appliedAt |-> ZeroTime, until |-> ZeroTime,
                  desired |-> NoDesired]

\* Mutant of Cooldown: shifted by one too many.
CooldownShiftedTwice(n) ==
    LET doubled == 2 * MinCooldown * PowerOfTwo[n]
    IN  IF n - 1 < 16 /\ doubled < MaxCooldown THEN doubled ELSE MaxCooldown

(***************************************************************************)
(* The cooldown after the n-th consecutive flap, n > 0.                    *)
(***************************************************************************)
Cooldown(n) ==
    IF n - 1 < 16 /\ MinCooldown * PowerOfTwo[n] < MaxCooldown
    THEN MinCooldown * PowerOfTwo[n]
    ELSE MaxCooldown

\* applied: the values identified by desired were just written.
Applied(s, desired, now) == [s EXCEPT !.appliedAt = now, !.desired = desired]

\* rulesChanged: what it reports; a state it reports on is reset to zero.
RulesChanged(s, desired) == s.desired # NoDesired /\ s.desired # desired

\* The later of the last recorded write and the last confirmation.
LastApplied(s, confirmedAt) == LatestOf(s.appliedAt, confirmedAt)

CoolingDown(s, now) == now < s.until

HeldPastWindow(s, confirmedAt, now) ==
    now - LastApplied(s, confirmedAt) > FlapWindow

\* Mutant of Drifted: a drift during a cooldown is one more flap.
DriftedAgain(s, confirmedAt, now) ==
    IF HeldPastWindow(s, confirmedAt, now) THEN [s EXCEPT !.flaps = 0]
    ELSE [s EXCEPT !.flaps = s.flaps + 1,
                   !.until = now + Cooldown(s.flaps + 1)]

\* Mutant of Drifted: values that held forgive one flap instead of all.
DriftedForgiven(s, confirmedAt, now) ==
    IF CoolingDown(s, now) THEN s
    ELSE IF HeldPastWindow(s, confirmedAt, now) THEN [s EXCEPT !.flaps = s.flaps - 1]
    ELSE [s EXCEPT !.flaps = s.flaps + 1,
                   !.until = now + Cooldown(s.flaps + 1)]

\* Mutant of Drifted: the cooldown counts from when the values were applied.
DriftedSinceApplied(s, confirmedAt, now) ==
    IF CoolingDown(s, now) THEN s
    ELSE IF HeldPastWindow(s, confirmedAt, now) THEN [s EXCEPT !.flaps = 0]
    ELSE [s EXCEPT !.flaps = s.flaps + 1,
                   !.until = LastApplied(s, confirmedAt) + Cooldown(s.flaps + 1)]

\* drifted: the state it leaves behind and the wait it returns.
Drifted(s, confirmedAt, now) ==
    IF CoolingDown(s, now) THEN s
    ELSE IF HeldPastWindow(s, confirmedAt, now) THEN [s EXCEPT !.flaps = 0]
    ELSE [s EXCEPT !.flaps = s.flaps + 1,
                   !.until = now + Cooldown(s.flaps + 1)]

DriftedWait(s, confirmedAt, now) ==
    IF ~CoolingDown(s, now) /\ HeldPastWindow(s, confirmedAt, now)
    THEN 0
    ELSE Drifted(s, confirmedAt, now).until - now

Remaining(s, now) == IF CoolingDown(s, now) THEN s.until - now ELSE 0
==============================================================================
