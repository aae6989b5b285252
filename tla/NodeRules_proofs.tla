---------------------------- MODULE NodeRules_proofs ----------------------------
(***************************************************************************)
(* What mergeExternalIPs (pkg/controller/externalip_controller.go) does to *)
(* any addresses and any IPs.  It is a loop over sequences, so this is     *)
(* shown by induction, which is stated for sets of numbers: a property of  *)
(* every n is the set of those n that have it.                             *)
(***************************************************************************)
EXTENDS NodeRules, WellFoundedInduction, SequenceTheorems, TLAPS

LEMMA Least ==
    ASSUME NEW B \in SUBSET Nat, B # {}
    PROVE  \E m \in B : \A k \in B : m <= k
<1> DEFINE R == OpToRel(<, Nat)
<1>1. IsWellFoundedOn(R, Nat) BY NatLessThanWellFounded
<1> HIDE DEF R
<1>2. PICK m \in B : \A k \in B : ~(<<k, m>> \in R) BY <1>1, WFMin
<1>3. \A k \in B : ~(k < m)
  BY <1>2 DEF R, OpToRel
<1> QED BY <1>3

LEMMA SetInduction ==
    ASSUME NEW S, 0 \in S, \A n \in Nat : n \in S => n + 1 \in S
    PROVE  \A n \in Nat : n \in S
<1> DEFINE B == {n \in Nat : n \notin S}
<1>1. ASSUME B # {} PROVE FALSE
  <2>1. PICK m \in B : \A k \in B : m <= k BY <1>1, Least
  <2>2. m - 1 \in Nat /\ ~(m - 1 \in B) BY <2>1
  <2>3. (m - 1) + 1 \in S BY <2>2
  <2> QED BY <2>1, <2>3
<1> QED BY <1>1

\* What is said of n and n - 1 defines a function on 0 .. N.
Follows(f, v, F, N) == f[0] = v /\ \A n \in 1 .. N : f[n] = F[n][f[n - 1]]

LEMMA Recursion ==
    ASSUME NEW V, NEW N \in Nat, NEW v \in V, NEW F \in [1 .. N -> [V -> V]]
    PROVE  \E f \in [0 .. N -> V] : Follows(f, v, F, N)
<1> DEFINE Exists(m) == \E f \in [0 .. m -> V] : Follows(f, v, F, m)
           S == {m \in Nat : m <= N => Exists(m)}
<1>1. Exists(0)
  <2>1. [n \in 0 .. 0 |-> v] \in [0 .. 0 -> V] /\ Follows([n \in 0 .. 0 |-> v], v, F, 0)
    BY DEF Follows
  <2> QED BY <2>1
<1>2. ASSUME NEW m \in Nat, m + 1 <= N, Exists(m) PROVE Exists(m + 1)
  <2>1. PICK f \in [0 .. m -> V] : Follows(f, v, F, m) BY <1>2
  <2> DEFINE g == [n \in 0 .. m + 1 |-> IF n = m + 1 THEN F[m + 1][f[m]] ELSE f[n]]
  <2>2. m + 1 \in 1 .. N /\ f[m] \in V BY <1>2
  <2>3. F[m + 1][f[m]] \in V BY <2>2
  <2>4. g \in [0 .. m + 1 -> V] BY <2>3
  <2>5. g[m + 1] = F[m + 1][f[m]] /\ \A n \in 0 .. m : g[n] = f[n] OBVIOUS
  <2> HIDE DEF g
  <2>6. ASSUME NEW n \in 1 .. m + 1 PROVE g[n] = F[n][g[n - 1]]
    <3>1. CASE n = m + 1
      <4>1. n - 1 = m /\ g[m] = f[m] BY <2>5, <3>1
      <4> QED BY <2>5, <3>1, <4>1
    <3>2. CASE n # m + 1
      <4>1. n \in 1 .. m /\ n \in 0 .. m /\ n - 1 \in 0 .. m BY <3>2
      <4>2. f[n] = F[n][f[n - 1]] BY <2>1, <4>1 DEF Follows
      <4>3. g[n] = f[n] /\ g[n - 1] = f[n - 1] BY <2>5, <4>1
      <4> QED BY <4>2, <4>3
    <3> QED BY <3>1, <3>2
  <2>7. g[0] = v BY <2>1, <2>5 DEF Follows
  <2>8. Follows(g, v, F, m + 1) BY <2>6, <2>7 DEF Follows
  <2> QED BY <2>4, <2>8
<1>3. Exists(N)
  <2> HIDE DEF Exists
  <2>1. 0 \in S BY <1>1
  <2>2. \A m \in Nat : m \in S => m + 1 \in S
    <3> SUFFICES ASSUME NEW m \in Nat, m \in S, m + 1 <= N PROVE Exists(m + 1)
      OBVIOUS
    <3> QED BY <1>2
  <2> HIDE DEF S
  <2>3. \A m \in Nat : m \in S BY <2>1, <2>2, SetInduction
  <2> QED BY <2>3 DEF S
<1> QED BY <1>3

-------------------------------------------------------------------------------
(***************************************************************************)
(* Pick.                                                                   *)
(***************************************************************************)
\* What Pick(s, I) has collected after each element.
Collects(picked, s, I) ==
    /\ picked[0] = <<>>
    /\ \A n \in 1 .. Len(s) :
        picked[n] = IF n \in I THEN Append(picked[n - 1], s[n]) ELSE picked[n - 1]

LEMMA Picking ==
    ASSUME NEW S, NEW s \in Seq(S), NEW I
    PROVE  \E picked : Collects(picked, s, I) /\ Pick(s, I) = picked[Len(s)]
<1> DEFINE Q == Seq(S)
           step(n, p) == IF n \in I THEN Append(p, s[n]) ELSE p
           F == [n \in 1 .. Len(s) |-> [p \in Q |-> step(n, p)]]
           Next(p, n) == IF n = 0 THEN <<>>
                         ELSE IF n \in I THEN Append(p[n - 1], s[n])
                         ELSE p[n - 1]
           picked[n \in 0 .. Len(s)] ==
                IF n = 0 THEN <<>>
                ELSE IF n \in I THEN Append(picked[n - 1], s[n])
                ELSE picked[n - 1]
<1>1. ASSUME NEW n \in 1 .. Len(s), NEW p \in Q PROVE step(n, p) \in Q
  <2>1. s[n] \in S OBVIOUS
  <2> QED BY <2>1
<1>2. <<>> \in Q /\ Len(s) \in Nat OBVIOUS
<1> HIDE DEF Q, step
<1>3. F \in [1 .. Len(s) -> [Q -> Q]] BY <1>1
<1>4. \A n \in 1 .. Len(s) : \A p \in Q : F[n][p] = step(n, p) OBVIOUS
<1> HIDE DEF F
<1>5. PICK f \in [0 .. Len(s) -> Q] : Follows(f, <<>>, F, Len(s))
  BY <1>2, <1>3, Recursion
<1>6. \A n \in 0 .. Len(s) : f[n] = Next(f, n)
  <2> TAKE n \in 0 .. Len(s)
  <2>1. CASE n = 0 BY <1>5, <2>1 DEF Follows
  <2>2. CASE n # 0
    <3>1. n \in 1 .. Len(s) /\ n - 1 \in 0 .. Len(s) BY <1>2, <2>2
    <3>2. f[n - 1] \in Q BY <3>1
    <3>3. f[n] = step(n, f[n - 1]) BY <1>4, <1>5, <3>1, <3>2 DEF Follows
    <3> QED BY <2>2, <3>3 DEF step
  <2> QED BY <2>1, <2>2
<1>7. f = [n \in 0 .. Len(s) |-> Next(f, n)] BY <1>6
<1>8. picked = [n \in 0 .. Len(s) |-> Next(picked, n)] BY <1>7
<1>9. Collects(picked, s, I)
  <2> HIDE DEF picked
  <2>1. \A n \in 0 .. Len(s) : picked[n] = Next(picked, n) BY <1>8
  <2> QED BY <1>2, <2>1 DEF Collects
<1>10. Pick(s, I) = picked[Len(s)] BY DEF Pick
<1> HIDE DEF picked
<1> QED BY <1>9, <1>10

\* at lists the n numbers in J in their order.
Lists(at, n, J) ==
    /\ at \in [1 .. n -> J]
    /\ \A i, j \in 1 .. n : i < j => at[i] < at[j]
    /\ \A k \in J : \E i \in 1 .. n : at[i] = k

\* p are the elements of s at the positions in J, in their order, and at says
\* which element of p comes from where.
Enumerates(at, p, s, J) ==
    /\ Lists(at, Len(p), J)
    /\ \A i \in 1 .. Len(p) : p[i] = s[at[i]]

\* One more element of s, at n, extends what is enumerated so far.
LEMMA OneMore ==
    ASSUME NEW S, NEW s \in Seq(S), NEW p \in Seq(S), NEW J, NEW at,
           NEW n \in 1 .. Len(s), J \subseteq 1 .. n - 1, Enumerates(at, p, s, J)
    PROVE  LET at1 == [i \in 1 .. Len(p) + 1 |-> IF i = Len(p) + 1 THEN n ELSE at[i]]
           IN  Enumerates(at1, Append(p, s[n]), s, J \cup {n})
<1> DEFINE at1 == [i \in 1 .. Len(p) + 1 |-> IF i = Len(p) + 1 THEN n ELSE at[i]]
           q == Append(p, s[n])
<1>1. /\ Len(p) \in Nat
      /\ Len(q) = Len(p) + 1
      /\ \A i \in 1 .. Len(p) : q[i] = p[i]
      /\ q[Len(p) + 1] = s[n]
  OBVIOUS
<1>2. /\ \A i \in 1 .. Len(p) : at1[i] = at[i] /\ at[i] \in J
      /\ at1[Len(p) + 1] = n
  <2>1. \A i \in 1 .. Len(p) : i \in 1 .. Len(p) + 1 /\ i # Len(p) + 1 BY <1>1
  <2>2. Len(p) + 1 \in 1 .. Len(p) + 1 BY <1>1
  <2>3. \A i \in 1 .. Len(p) : at[i] \in J BY DEF Enumerates, Lists
  <2> QED BY <2>1, <2>2, <2>3
<1>3. at1 \in [1 .. Len(q) -> J \cup {n}]
  BY <1>1 DEF Enumerates, Lists
<1> HIDE DEF at1, q
<1>4. \A i, j \in 1 .. Len(q) : i < j => at1[i] < at1[j]
  <2> SUFFICES ASSUME NEW i \in 1 .. Len(q), NEW j \in 1 .. Len(q), i < j
               PROVE  at1[i] < at1[j]
    OBVIOUS
  <2>1. i \in 1 .. Len(p) BY <1>1
  <2>2. CASE j = Len(p) + 1
    <3>1. at1[i] \in 1 .. n - 1 BY <1>2, <2>1
    <3> QED BY <1>2, <2>2, <3>1
  <2>3. CASE j # Len(p) + 1
    <3>1. j \in 1 .. Len(p) BY <1>1, <2>3
    <3> QED BY <1>2, <2>1, <3>1 DEF Enumerates, Lists
  <2> QED BY <2>2, <2>3
<1>5. \A k \in J \cup {n} : \E i \in 1 .. Len(q) : at1[i] = k
  <2>1. Len(p) + 1 \in 1 .. Len(q) /\ 1 .. Len(p) \subseteq 1 .. Len(q) BY <1>1
  <2> QED BY <1>2, <2>1 DEF Enumerates, Lists
<1>6. \A i \in 1 .. Len(q) : q[i] = s[at1[i]]
  <2>1. \A i \in 1 .. Len(q) : i = Len(p) + 1 \/ i \in 1 .. Len(p) BY <1>1
  <2> QED BY <1>1, <1>2, <2>1 DEF Enumerates, Lists
<1> QED BY <1>3, <1>4, <1>5, <1>6 DEF Enumerates, Lists, at1, q

\* Pick returns the elements at the positions it is asked for, in their order.
LEMMA PickOrder ==
    ASSUME NEW S, NEW s \in Seq(S), NEW I
    PROVE  /\ Pick(s, I) \in Seq(S)
           /\ \E at : Enumerates(at, Pick(s, I), s, I \cap DOMAIN s)
<1>1. PICK picked : Collects(picked, s, I) /\ Pick(s, I) = picked[Len(s)]
  BY Picking
<1> DEFINE Ordered(n) == /\ picked[n] \in Seq(S)
                         /\ \E at : Enumerates(at, picked[n], s, I \cap 1 .. n)
           N == {n \in Nat : n <= Len(s) => Ordered(n)}
<1>2. Ordered(0)
  <2>1. Enumerates(<<>>, <<>>, s, {}) BY DEF Enumerates, Lists
  <2>2. I \cap 1 .. 0 = {} OBVIOUS
  <2>3. picked[0] = <<>> BY <1>1 DEF Collects
  <2>4. Enumerates(<<>>, picked[0], s, I \cap 1 .. 0) BY <2>1, <2>2, <2>3
  <2>5. picked[0] \in Seq(S) BY <2>3
  <2> QED BY <2>4, <2>5
<1>3. ASSUME NEW n \in Nat, n + 1 <= Len(s), Ordered(n) PROVE Ordered(n + 1)
  <2>1. n + 1 \in 1 .. Len(s) /\ (n + 1) - 1 = n BY <1>3
  <2>2. PICK at : Enumerates(at, picked[n], s, I \cap 1 .. n) BY <1>3
  <2>3. picked[n] \in Seq(S) BY <1>3
  <2>4. CASE n + 1 \in I
    <3>1. picked[n + 1] = Append(picked[n], s[n + 1])
      BY <1>1, <2>1, <2>4 DEF Collects
    <3>2. I \cap 1 .. n + 1 = (I \cap 1 .. n) \cup {n + 1} BY <2>4
    <3>3. I \cap 1 .. n \subseteq 1 .. (n + 1) - 1 OBVIOUS
    <3>4. \E at1 : Enumerates(at1, Append(picked[n], s[n + 1]), s, (I \cap 1 .. n) \cup {n + 1})
      BY <2>1, <2>2, <2>3, <3>3, OneMore, Zenon
    <3>5. \E at1 : Enumerates(at1, picked[n + 1], s, I \cap 1 .. n + 1)
      BY <3>1, <3>2, <3>4
    <3>6. s[n + 1] \in S BY <2>1
    <3>7. picked[n + 1] \in Seq(S) BY <2>3, <3>1, <3>6
    <3> QED BY <3>5, <3>7
  <2>5. CASE n + 1 \notin I
    <3>1. picked[n + 1] = picked[n]
      BY <1>1, <2>1, <2>5 DEF Collects
    <3>2. I \cap 1 .. n + 1 = I \cap 1 .. n BY <2>5
    <3>3. Enumerates(at, picked[n + 1], s, I \cap 1 .. n + 1) BY <2>2, <3>1, <3>2
    <3>4. picked[n + 1] \in Seq(S) BY <2>3, <3>1
    <3> QED BY <3>3, <3>4
  <2> QED BY <2>4, <2>5
<1>4. Ordered(Len(s))
  <2> HIDE DEF Ordered
  <2>1. 0 \in N BY <1>2
  <2>2. \A n \in Nat : n \in N => n + 1 \in N
    <3> SUFFICES ASSUME NEW n \in Nat, n \in N, n + 1 <= Len(s) PROVE Ordered(n + 1)
      OBVIOUS
    <3> QED BY <1>3
  <2> HIDE DEF N
  <2>3. \A n \in Nat : n \in N BY <2>1, <2>2, SetInduction
  <2> QED BY <2>3 DEF N
<1>5. 1 .. Len(s) = DOMAIN s OBVIOUS
<1>6. PICK at : Enumerates(at, picked[Len(s)], s, I \cap 1 .. Len(s)) BY <1>4
<1>7. Enumerates(at, Pick(s, I), s, I \cap DOMAIN s) BY <1>1, <1>5, <1>6
<1>8. Pick(s, I) \in Seq(S) BY <1>1, <1>4
<1> QED BY <1>7, <1>8

\* There is only one such enumeration.
LEMMA OneBehindTheOther ==
    ASSUME NEW m \in Nat, NEW n \in Nat, NEW J \in SUBSET Nat, NEW a, NEW b,
           Lists(a, m, J), Lists(b, n, J)
    PROVE  \A i \in 1 .. m : i <= n /\ a[i] = b[i]
<1> USE DEF Lists
<1> DEFINE B == {i \in 1 .. m : ~(i <= n /\ a[i] = b[i])}
<1>1. ASSUME B # {} PROVE FALSE
  <2>1. B \in SUBSET Nat OBVIOUS
  <2>2. PICK i \in B : \A k \in B : i <= k
    <3> HIDE DEF B
    <3> QED BY <1>1, <2>1, Least
  <2>3. i \in 1 .. m /\ ~(i <= n /\ a[i] = b[i]) OBVIOUS
  <2>4. \A k \in 1 .. m : k < i => k <= n /\ a[k] = b[k] BY <2>2, <2>3
  <2>5. a[i] \in J BY <2>3
  <2>6. PICK k \in 1 .. n : b[k] = a[i] BY <2>5
  <2>7. ~(k < i)
    <3> SUFFICES ASSUME k < i PROVE FALSE OBVIOUS
    <3>1. k \in 1 .. m BY <2>3
    <3>2. a[k] = a[i] /\ a[k] < a[i] BY <2>3, <2>4, <2>6, <3>1
    <3>3. a[k] \in Nat /\ a[i] \in Nat BY <2>3, <3>1
    <3> QED BY <3>2, <3>3
  <2>8. i < k /\ i \in 1 .. n BY <2>3, <2>6, <2>7
  <2>9. PICK l \in 1 .. m : a[l] = b[i] BY <2>8
  <2>10. ~(l < i)
    <3> SUFFICES ASSUME l < i PROVE FALSE OBVIOUS
    <3>1. l <= n /\ a[l] = b[l] BY <2>4
    <3>2. l \in 1 .. n BY <3>1
    <3>3. b[l] < b[i] BY <2>8, <3>2
    <3>4. b[l] \in Nat /\ b[i] \in Nat BY <2>8, <3>2
    <3> QED BY <2>9, <3>1, <3>3, <3>4
  <2>11. l # i BY <2>3, <2>8, <2>9
  <2>12. i < l BY <2>3, <2>10, <2>11
  <2>13. a[i] < a[l] /\ b[i] < b[k] BY <2>3, <2>8, <2>12
  <2>14. a[i] \in Nat /\ b[i] \in Nat BY <2>3, <2>8
  <2> QED BY <2>6, <2>9, <2>13, <2>14
<1> QED BY <1>1

\* What enumerates the elements Pick is asked for is what Pick returns.
LEMMA PickIs ==
    ASSUME NEW S, NEW s \in Seq(S), NEW I, NEW p \in Seq(S), NEW at,
           Enumerates(at, p, s, I \cap DOMAIN s)
    PROVE  Pick(s, I) = p
<1> DEFINE q == Pick(s, I)
           J == I \cap DOMAIN s
<1>1. q \in Seq(S) BY PickOrder
<1>2. PICK bt : Enumerates(bt, q, s, J) BY PickOrder
<1>3. J \in SUBSET Nat OBVIOUS
<1>4. Len(p) \in Nat /\ Len(q) \in Nat BY <1>1
<1> HIDE DEF q, J
<1>5. Enumerates(at, p, s, J) BY DEF J
<1>6. Lists(at, Len(p), J) /\ Lists(bt, Len(q), J) BY <1>2, <1>5 DEF Enumerates
<1>7. \A i \in 1 .. Len(p) : i <= Len(q) /\ at[i] = bt[i]
  BY <1>3, <1>4, <1>6, OneBehindTheOther
<1>8. \A i \in 1 .. Len(q) : i <= Len(p) /\ bt[i] = at[i]
  BY <1>3, <1>4, <1>6, OneBehindTheOther
<1>9. Len(p) = Len(q)
  <2>1. Len(p) <= Len(q)
    <3>1. CASE Len(p) = 0 BY <1>4, <3>1
    <3>2. CASE Len(p) # 0 BY <1>4, <1>7, <3>2
    <3> QED BY <3>1, <3>2
  <2>2. Len(q) <= Len(p)
    <3>1. CASE Len(q) = 0 BY <1>4, <3>1
    <3>2. CASE Len(q) # 0 BY <1>4, <1>8, <3>2
    <3> QED BY <3>1, <3>2
  <2> QED BY <1>4, <2>1, <2>2
<1>10. \A i \in 1 .. Len(p) : p[i] = q[i]
  BY <1>2, <1>5, <1>7, <1>9 DEF Enumerates, Lists
<1> QED BY <1>1, <1>9, <1>10, SeqEqual DEF q

\* The positions of one part of a sequence: Pick returns that part.
LEMMA PickPart ==
    ASSUME NEW S, NEW p \in Seq(S), NEW q \in Seq(S), NEW I
    PROVE  /\ I \cap DOMAIN (p \o q) = 1 .. Len(p) => Pick(p \o q, I) = p
           /\ I \cap DOMAIN (p \o q) = Len(p) + 1 .. Len(p) + Len(q) => Pick(p \o q, I) = q
<1> DEFINE s == p \o q
<1>1. /\ s \in Seq(S)
      /\ \A i \in 1 .. Len(p) : s[i] = p[i]
      /\ \A i \in 1 .. Len(q) : s[Len(p) + i] = q[i]
  OBVIOUS
<1>2. Len(p) \in Nat /\ Len(q) \in Nat OBVIOUS
<1> HIDE DEF s
<1>3. ASSUME I \cap DOMAIN s = 1 .. Len(p) PROVE Pick(s, I) = p
  <2>1. Enumerates([i \in 1 .. Len(p) |-> i], p, s, 1 .. Len(p))
    BY <1>1, <1>2 DEF Enumerates, Lists
  <2>2. Enumerates([i \in 1 .. Len(p) |-> i], p, s, I \cap DOMAIN s) BY <1>3, <2>1
  <2> QED BY <1>1, <2>2, PickIs, Zenon
<1>4. ASSUME I \cap DOMAIN s = Len(p) + 1 .. Len(p) + Len(q) PROVE Pick(s, I) = q
  <2> DEFINE at == [i \in 1 .. Len(q) |-> Len(p) + i]
  <2>1. \A i \in 1 .. Len(q) : at[i] = Len(p) + i OBVIOUS
  <2>2. at \in [1 .. Len(q) -> Len(p) + 1 .. Len(p) + Len(q)] BY <1>2
  <2> HIDE DEF at
  <2>3. \A k \in Len(p) + 1 .. Len(p) + Len(q) : \E i \in 1 .. Len(q) : at[i] = k
    <3> TAKE k \in Len(p) + 1 .. Len(p) + Len(q)
    <3>1. k - Len(p) \in 1 .. Len(q) /\ Len(p) + (k - Len(p)) = k BY <1>2
    <3> QED BY <2>1, <3>1
  <2>4. Enumerates(at, q, s, Len(p) + 1 .. Len(p) + Len(q))
    BY <1>1, <1>2, <2>1, <2>2, <2>3 DEF Enumerates, Lists
  <2>5. Enumerates(at, q, s, I \cap DOMAIN s) BY <1>4, <2>4
  <2> QED BY <1>1, <2>5, PickIs, Zenon
<1> QED BY <1>3, <1>4 DEF s

\* The elements that Pick returns are those at the positions in I, and two of
\* them are in the order of their positions.
LEMMA PickRelates ==
    ASSUME NEW S, NEW s \in Seq(S), NEW I
    PROVE  LET p == Pick(s, I)
               J == I \cap DOMAIN s
           IN  /\ p \in Seq(S)
               /\ \A k \in DOMAIN p : \E i \in J : p[k] = s[i]
               /\ \A i \in J : \E k \in DOMAIN p : p[k] = s[i]
               /\ \A k, l \in DOMAIN p : k < l =>
                    \E i, j \in J : i < j /\ p[k] = s[i] /\ p[l] = s[j]
               /\ \A i, j \in J : i < j =>
                    \E k, l \in DOMAIN p : k < l /\ p[k] = s[i] /\ p[l] = s[j]
<1> DEFINE p == Pick(s, I)
           J == I \cap DOMAIN s
<1>1. p \in Seq(S) BY PickOrder
<1>2. PICK at : Enumerates(at, p, s, J) BY PickOrder
<1>3. J \in SUBSET Nat OBVIOUS
<1> HIDE DEF p, J
<1>4. DOMAIN p = 1 .. Len(p) BY <1>1
<1>5. /\ \A k \in DOMAIN p : at[k] \in J /\ at[k] \in Nat /\ p[k] = s[at[k]]
      /\ \A k, l \in DOMAIN p : k < l => at[k] < at[l]
      /\ \A i \in J : \E k \in DOMAIN p : at[k] = i
  BY <1>2, <1>3, <1>4 DEF Enumerates, Lists
<1>6. \A i, j \in J : i < j =>
          \E k, l \in DOMAIN p : k < l /\ p[k] = s[i] /\ p[l] = s[j]
  <2> SUFFICES ASSUME NEW i \in J, NEW j \in J, i < j
               PROVE  \E k, l \in DOMAIN p : k < l /\ p[k] = s[i] /\ p[l] = s[j]
    OBVIOUS
  <2>1. PICK k \in DOMAIN p : at[k] = i BY <1>5
  <2>2. PICK l \in DOMAIN p : at[l] = j BY <1>5
  <2>3. k \in Nat /\ l \in Nat BY <1>1, <1>4
  <2>4. i \in Nat /\ j \in Nat BY <1>3
  <2>5. k < l
    <3>1. CASE l < k BY <1>5, <2>1, <2>2, <2>4, <3>1
    <3>2. CASE l = k BY <2>1, <2>2, <2>4, <3>2
    <3> QED BY <2>3, <3>1, <3>2
  <2> QED BY <1>5, <2>1, <2>2, <2>5
<1>7. \A k, l \in DOMAIN p : k < l =>
          \E i, j \in J : i < j /\ p[k] = s[i] /\ p[l] = s[j]
  BY <1>5
<1>8. \A k \in DOMAIN p : \E i \in J : p[k] = s[i] BY <1>5
<1>9. \A i \in J : \E k \in DOMAIN p : p[k] = s[i] BY <1>5
<1> QED BY <1>1, <1>6, <1>7, <1>8, <1>9 DEF p, J

-------------------------------------------------------------------------------
(***************************************************************************)
(* Distinct and IPv6First.                                                 *)
(***************************************************************************)
\* Distinct keeps one of each element, in the order in which they first occur.
LEMMA DistinctProperties ==
    ASSUME NEW S, NEW s \in Seq(S)
    PROVE  /\ Distinct(s) \in Seq(S)
           /\ ToSet(Distinct(s)) = ToSet(s)
           /\ IsInjective(Distinct(s))
           /\ \A i, j \in FirstOfEach(s) : i < j =>
                \E k, l \in DOMAIN Distinct(s) :
                    k < l /\ Distinct(s)[k] = s[i] /\ Distinct(s)[l] = s[j]
           /\ \A k, l \in DOMAIN Distinct(s) : k < l =>
                \E i, j \in FirstOfEach(s) :
                    i < j /\ Distinct(s)[k] = s[i] /\ Distinct(s)[l] = s[j]
<1> DEFINE d == Distinct(s)
           J == FirstOfEach(s)
<1>1. J \cap DOMAIN s = J BY DEF FirstOfEach
<1>2. /\ d \in Seq(S)
      /\ \A k \in DOMAIN d : \E i \in J : d[k] = s[i]
      /\ \A i \in J : \E k \in DOMAIN d : d[k] = s[i]
      /\ \A k, l \in DOMAIN d : k < l =>
            \E i, j \in J : i < j /\ d[k] = s[i] /\ d[l] = s[j]
      /\ \A i, j \in J : i < j =>
            \E k, l \in DOMAIN d : k < l /\ d[k] = s[i] /\ d[l] = s[j]
  BY <1>1, PickRelates DEF Distinct
<1>3. J \subseteq DOMAIN s BY <1>1
<1> HIDE DEF d
<1>4. \A i \in DOMAIN s : \E j \in J : s[j] = s[i]
  <2> TAKE i \in DOMAIN s
  <2> DEFINE B == {j \in DOMAIN s : s[j] = s[i]}
  <2>1. B \in SUBSET Nat /\ i \in B OBVIOUS
  <2>2. PICK m \in B : \A k \in B : m <= k
    <3> HIDE DEF B
    <3> QED BY <2>1, Least
  <2>3. \A j \in 1 .. m - 1 : j \in DOMAIN s /\ ~(m <= j) OBVIOUS
  <2>4. \A j \in 1 .. m - 1 : s[j] # s[m] BY <2>2, <2>3
  <2>5. m \in J BY <2>4 DEF FirstOfEach
  <2> QED BY <2>5
<1>5. ToSet(d) = ToSet(s) BY <1>2, <1>3, <1>4 DEF ToSet
<1>6. IsInjective(d)
  <2>1. \A i, j \in J : i < j => s[i] # s[j]
    <3> SUFFICES ASSUME NEW i \in J, NEW j \in J, i < j PROVE s[i] # s[j]
      OBVIOUS
    <3>1. i \in 1 .. j - 1 BY <1>3
    <3> QED BY <3>1 DEF FirstOfEach
  <2> HIDE DEF J
  <2>2. ASSUME NEW k \in DOMAIN d, NEW l \in DOMAIN d, k < l PROVE d[k] # d[l]
    <3>1. PICK i \in J, j \in J : i < j /\ d[k] = s[i] /\ d[l] = s[j] BY <1>2, <2>2
    <3> QED BY <2>1, <3>1
  <2>3. DOMAIN d \subseteq Nat BY <1>2
  <2>4. \A k, l \in DOMAIN d : k = l \/ k < l \/ l < k BY <2>3
  <2> QED BY <2>2, <2>4 DEF IsInjective
<1> QED BY <1>2, <1>5, <1>6 DEF d

\* More of what is there already changes nothing.
LEMMA DistinctKeeps ==
    ASSUME NEW S, NEW s \in Seq(S), NEW more \in Seq(S),
           IsInjective(s), ToSet(more) \subseteq ToSet(s)
    PROVE  Distinct(s \o more) = s
<1> DEFINE t == s \o more
<1>1. /\ t \in Seq(S)
      /\ Len(s) \in Nat /\ Len(more) \in Nat
      /\ DOMAIN t = 1 .. Len(s) + Len(more)
      /\ \A i \in 1 .. Len(s) : t[i] = s[i]
      /\ \A i \in 1 .. Len(more) : t[Len(s) + i] = more[i]
  OBVIOUS
<1> HIDE DEF t
<1>2. ASSUME NEW i \in 1 .. Len(s) PROVE i \in FirstOfEach(t)
  <2>1. \A j \in 1 .. i - 1 : j \in 1 .. Len(s) /\ j # i BY <1>1
  <2>2. \A j \in 1 .. i - 1 : t[j] # t[i] BY <1>1, <2>1 DEF IsInjective
  <2> QED BY <1>1, <2>2 DEF FirstOfEach
<1>3. ASSUME NEW i \in DOMAIN t, i \notin 1 .. Len(s) PROVE i \notin FirstOfEach(t)
  <2>1. i - Len(s) \in 1 .. Len(more) /\ Len(s) + (i - Len(s)) = i BY <1>1, <1>3
  <2>2. t[i] = more[i - Len(s)] BY <1>1, <2>1
  <2>3. t[i] \in ToSet(more) BY <2>1, <2>2 DEF ToSet
  <2>4. PICK j \in DOMAIN s : s[j] = t[i] BY <2>3 DEF ToSet
  <2>5. j \in 1 .. i - 1 /\ t[j] = t[i] BY <1>1, <1>3, <2>4
  <2> QED BY <2>5 DEF FirstOfEach
<1>4. FirstOfEach(t) \cap DOMAIN t = 1 .. Len(s)
  <2>1. 1 .. Len(s) \subseteq DOMAIN t BY <1>1
  <2> QED BY <1>2, <1>3, <2>1
<1> QED BY <1>4, PickPart DEF Distinct, t

IPv6At(ips) == {i \in DOMAIN ips : IsIPv6(ips[i])}

LEMMA IPv6FirstParts ==
    ASSUME NEW S, NEW s \in Seq(S)
    PROVE  \E u, v \in Seq(S) :
            /\ IPv6First(s) = u \o v
            /\ u = Pick(s, IPv6At(s)) /\ v = Pick(s, DOMAIN s \ IPv6At(s))
            /\ \A k \in DOMAIN u : IsIPv6(u[k])
            /\ \A k \in DOMAIN v : ~IsIPv6(v[k])
<1> DEFINE A == IPv6At(s)
           B == DOMAIN s \ IPv6At(s)
           u == Pick(s, A)
           v == Pick(s, B)
<1>1. IPv6First(s) = u \o v BY DEF IPv6First, IPv6At
<1>2. (\A i \in A : IsIPv6(s[i])) /\ (\A i \in B : ~IsIPv6(s[i])) BY DEF IPv6At
<1> HIDE DEF A, B
<1>3. u \in Seq(S) /\ \A k \in DOMAIN u : \E i \in A \cap DOMAIN s : u[k] = s[i]
  BY PickRelates
<1>4. v \in Seq(S) /\ \A k \in DOMAIN v : \E i \in B \cap DOMAIN s : v[k] = s[i]
  BY PickRelates
<1> HIDE DEF u, v
<1>5. \A k \in DOMAIN u : IsIPv6(u[k]) BY <1>2, <1>3 DEF IsIPv6
<1>6. \A k \in DOMAIN v : ~IsIPv6(v[k]) BY <1>2, <1>4 DEF IsIPv6
<1> QED BY <1>1, <1>3, <1>4, <1>5, <1>6 DEF u, v, A, B

\* IPv6First keeps the elements and puts IPv6 first; it is stable in a family.
LEMMA IPv6FirstProperties ==
    ASSUME NEW S, NEW s \in Seq(S)
    PROVE  LET f == IPv6First(s)
           IN  /\ f \in Seq(S)
               /\ ToSet(f) = ToSet(s)
               /\ IsInjective(s) => IsInjective(f)
               /\ \A k, l \in DOMAIN f : k < l /\ IsIPv6(f[l]) => IsIPv6(f[k])
               /\ \A i, j \in DOMAIN s : i < j /\ (IsIPv6(s[i]) <=> IsIPv6(s[j])) =>
                    \E k, l \in DOMAIN f : k < l /\ f[k] = s[i] /\ f[l] = s[j]
<1>1. PICK u \in Seq(S), v \in Seq(S) :
            /\ IPv6First(s) = u \o v
            /\ u = Pick(s, IPv6At(s)) /\ v = Pick(s, DOMAIN s \ IPv6At(s))
            /\ \A k \in DOMAIN u : IsIPv6(u[k])
            /\ \A k \in DOMAIN v : ~IsIPv6(v[k])
  BY IPv6FirstParts
<1> DEFINE f == u \o v
           A == IPv6At(s)
           B == DOMAIN s \ IPv6At(s)
<1>2. /\ f \in Seq(S) /\ DOMAIN f = 1 .. Len(u) + Len(v)
      /\ DOMAIN u = 1 .. Len(u) /\ DOMAIN v = 1 .. Len(v)
      /\ Len(u) \in Nat /\ Len(v) \in Nat
      /\ \A k \in DOMAIN u : f[k] = u[k]
      /\ \A k \in DOMAIN v : f[Len(u) + k] = v[k]
  OBVIOUS
<1>3. A \cap DOMAIN s = A /\ B \cap DOMAIN s = B BY DEF IPv6At
<1>4. A \cup B = DOMAIN s /\ DOMAIN s \subseteq Nat
  <2>1. DOMAIN s \subseteq Nat OBVIOUS
  <2> QED BY <2>1 DEF IPv6At
<1>5. u = Pick(s, A) /\ v = Pick(s, B) BY <1>1
<1> HIDE DEF f, A, B
<1>6. /\ \A k \in DOMAIN u : \E i \in A : u[k] = s[i]
      /\ \A i \in A : \E k \in DOMAIN u : u[k] = s[i]
      /\ \A k, l \in DOMAIN u : k < l => \E i, j \in A : i < j /\ u[k] = s[i] /\ u[l] = s[j]
      /\ \A i, j \in A : i < j => \E k, l \in DOMAIN u : k < l /\ u[k] = s[i] /\ u[l] = s[j]
  BY <1>3, <1>5, PickRelates
<1>7. /\ \A k \in DOMAIN v : \E i \in B : v[k] = s[i]
      /\ \A i \in B : \E k \in DOMAIN v : v[k] = s[i]
      /\ \A k, l \in DOMAIN v : k < l => \E i, j \in B : i < j /\ v[k] = s[i] /\ v[l] = s[j]
      /\ \A i, j \in B : i < j => \E k, l \in DOMAIN v : k < l /\ v[k] = s[i] /\ v[l] = s[j]
  BY <1>3, <1>5, PickRelates
<1>8. /\ \A k \in DOMAIN u : k \in DOMAIN f
      /\ \A k \in DOMAIN v : Len(u) + k \in DOMAIN f
      /\ \A k \in DOMAIN f : k \in DOMAIN u \/ \E m \in DOMAIN v : k = Len(u) + m
  <2>1. \A k \in DOMAIN f : k \in DOMAIN u \/ k - Len(u) \in DOMAIN v BY <1>2
  <2>2. \A k \in DOMAIN f : k = Len(u) + (k - Len(u)) BY <1>2
  <2> QED BY <1>2, <2>1, <2>2
<1>9. ToSet(f) = ToSet(s)
  <2>1. ASSUME NEW k \in DOMAIN f PROVE f[k] \in ToSet(s)
    <3>1. CASE k \in DOMAIN u BY <1>2, <1>6, <1>4, <3>1 DEF ToSet
    <3>2. CASE k \notin DOMAIN u
      <4>1. PICK m \in DOMAIN v : k = Len(u) + m BY <1>8, <3>2
      <4> QED BY <1>2, <1>7, <1>4, <4>1 DEF ToSet
    <3> QED BY <3>1, <3>2
  <2>2. ASSUME NEW i \in DOMAIN s PROVE s[i] \in ToSet(f)
    <3>1. CASE i \in A
      <4>1. PICK k \in DOMAIN u : u[k] = s[i] BY <1>6, <3>1
      <4> QED BY <1>2, <1>8, <4>1 DEF ToSet
    <3>2. CASE i \in B
      <4>1. PICK k \in DOMAIN v : v[k] = s[i] BY <1>7, <3>2
      <4> QED BY <1>2, <1>8, <4>1 DEF ToSet
    <3> QED BY <1>4, <3>1, <3>2
  <2> QED BY <2>1, <2>2 DEF ToSet
\* Two positions in f are both in u, both in v, or the earlier is in u.
<1>10. ASSUME NEW k \in DOMAIN f, NEW l \in DOMAIN f, k < l
      PROVE  \/ k \in DOMAIN u /\ l \in DOMAIN u
             \/ k \in DOMAIN u /\ \E m \in DOMAIN v : l = Len(u) + m
             \/ \E m, n \in DOMAIN v : m < n /\ k = Len(u) + m /\ l = Len(u) + n
  <2>1. CASE l \in DOMAIN u BY <1>2, <1>10, <2>1
  <2>2. CASE l \notin DOMAIN u
    <3>1. PICK n \in DOMAIN v : l = Len(u) + n BY <1>8, <2>2
    <3>2. CASE k \in DOMAIN u BY <3>1, <3>2
    <3>3. CASE k \notin DOMAIN u
      <4>1. PICK m \in DOMAIN v : k = Len(u) + m BY <1>8, <3>3
      <4>2. m < n BY <1>2, <1>10, <3>1, <4>1
      <4> QED BY <3>1, <4>1, <4>2
    <3> QED BY <3>2, <3>3
  <2> QED BY <2>1, <2>2
<1>11. \A k, l \in DOMAIN f : k < l /\ IsIPv6(f[l]) => IsIPv6(f[k])
  <2> SUFFICES ASSUME NEW k \in DOMAIN f, NEW l \in DOMAIN f, k < l, IsIPv6(f[l])
               PROVE  IsIPv6(f[k])
    OBVIOUS
  <2>1. CASE k \in DOMAIN u BY <1>1, <1>2, <2>1
  <2>2. CASE \E m, n \in DOMAIN v : m < n /\ k = Len(u) + m /\ l = Len(u) + n
    BY <1>1, <1>2, <2>2
  <2> QED BY <1>10, <2>1, <2>2
<1>12. ASSUME NEW i \in DOMAIN s, NEW j \in DOMAIN s, i < j, IsIPv6(s[i]) <=> IsIPv6(s[j])
       PROVE  \E k, l \in DOMAIN f : k < l /\ f[k] = s[i] /\ f[l] = s[j]
  <2>1. CASE i \in A
    <3>1. j \in A BY <1>12, <2>1 DEF A, IPv6At
    <3>2. PICK k \in DOMAIN u, l \in DOMAIN u : k < l /\ u[k] = s[i] /\ u[l] = s[j]
      BY <1>6, <1>12, <2>1, <3>1
    <3> QED BY <1>2, <1>8, <3>2
  <2>2. CASE i \in B
    <3>1. j \in B BY <1>12, <2>2 DEF B, IPv6At
    <3>2. PICK k \in DOMAIN v, l \in DOMAIN v : k < l /\ v[k] = s[i] /\ v[l] = s[j]
      BY <1>7, <1>12, <2>2, <3>1
    <3>3. Len(u) + k < Len(u) + l BY <1>2, <3>2
    <3> QED BY <1>2, <1>8, <3>2, <3>3
  <2> QED BY <1>4, <2>1, <2>2
<1>13. ASSUME IsInjective(s) PROVE IsInjective(f)
  <2>1. \A i, j \in DOMAIN s : i < j => s[i] # s[j]
    BY <1>4, <1>13 DEF IsInjective
  <2>2. ASSUME NEW k \in DOMAIN f, NEW l \in DOMAIN f, k < l PROVE f[k] # f[l]
    <3>1. CASE k \in DOMAIN u /\ l \in DOMAIN u
      <4>1. PICK i \in A, j \in A : i < j /\ u[k] = s[i] /\ u[l] = s[j]
        BY <1>6, <2>2, <3>1
      <4> QED BY <1>2, <1>4, <2>1, <3>1, <4>1
    <3>2. CASE k \in DOMAIN u /\ \E m \in DOMAIN v : l = Len(u) + m
      <4>1. IsIPv6(f[k]) BY <1>1, <1>2, <3>2 DEF IsIPv6
      <4>2. PICK m \in DOMAIN v : l = Len(u) + m BY <3>2
      <4>3. f[l] = v[m] BY <1>2, <4>2
      <4>4. ~IsIPv6(f[l]) BY <1>1, <4>3 DEF IsIPv6
      <4> QED BY <4>1, <4>4 DEF IsIPv6
    <3>3. CASE \E m, n \in DOMAIN v : m < n /\ k = Len(u) + m /\ l = Len(u) + n
      <4>1. PICK m \in DOMAIN v, n \in DOMAIN v :
                m < n /\ k = Len(u) + m /\ l = Len(u) + n
        BY <3>3
      <4>2. PICK i \in B, j \in B : i < j /\ v[m] = s[i] /\ v[n] = s[j]
        BY <1>7, <4>1
      <4> QED BY <1>2, <1>4, <2>1, <4>1, <4>2
    <3> QED BY <1>10, <2>2, <3>1, <3>2, <3>3
  <2>3. \A k, l \in DOMAIN f : k = l \/ k < l \/ l < k BY <1>2
  <2> QED BY <2>2, <2>3 DEF IsInjective
<1>14. \A i, j \in DOMAIN s : i < j /\ (IsIPv6(s[i]) <=> IsIPv6(s[j])) =>
          \E k, l \in DOMAIN f : k < l /\ f[k] = s[i] /\ f[l] = s[j]
  BY <1>12
<1>15. IPv6First(s) = f BY <1>1 DEF f
<1> QED BY <1>2, <1>9, <1>11, <1>13, <1>14, <1>15

\* What has IPv6 first stays as it is.
LEMMA IPv6FirstKeeps ==
    ASSUME NEW S, NEW s \in Seq(S)
    PROVE  IPv6First(IPv6First(s)) = IPv6First(s)
<1>1. PICK u \in Seq(S), v \in Seq(S) :
            /\ IPv6First(s) = u \o v
            /\ \A k \in DOMAIN u : IsIPv6(u[k])
            /\ \A k \in DOMAIN v : ~IsIPv6(v[k])
  BY IPv6FirstParts
<1> DEFINE f == u \o v
<1>2. /\ DOMAIN f = 1 .. Len(u) + Len(v)
      /\ DOMAIN u = 1 .. Len(u) /\ DOMAIN v = 1 .. Len(v)
      /\ Len(u) \in Nat /\ Len(v) \in Nat
      /\ \A k \in DOMAIN u : f[k] = u[k]
      /\ \A k \in DOMAIN v : f[Len(u) + k] = v[k]
  OBVIOUS
<1> HIDE DEF f
<1>3. IPv6At(f) = 1 .. Len(u)
  <2>1. ASSUME NEW k \in DOMAIN f, k \notin 1 .. Len(u) PROVE ~IsIPv6(f[k])
    <3>1. k - Len(u) \in DOMAIN v /\ Len(u) + (k - Len(u)) = k BY <1>2, <2>1
    <3> QED BY <1>1, <1>2, <3>1
  <2>2. ASSUME NEW k \in 1 .. Len(u) PROVE k \in DOMAIN f /\ IsIPv6(f[k])
    BY <1>1, <1>2
  <2> QED BY <2>1, <2>2 DEF IPv6At
<1>4. (DOMAIN f \ IPv6At(f)) \cap DOMAIN f = Len(u) + 1 .. Len(u) + Len(v)
  BY <1>2, <1>3
<1>5. IPv6At(f) \cap DOMAIN f = 1 .. Len(u) BY <1>2, <1>3
<1>6. Pick(f, IPv6At(f)) = u BY <1>5, PickPart DEF f
<1>7. Pick(f, DOMAIN f \ IPv6At(f)) = v BY <1>4, PickPart DEF f
<1>8. IPv6First(f) = u \o v BY <1>6, <1>7 DEF IPv6First, IPv6At
<1> QED BY <1>1, <1>8 DEF f

-------------------------------------------------------------------------------
(***************************************************************************)
(* The addresses.                                                          *)
(***************************************************************************)
\* The external IPs of addresses: the same IPs in the same order.
LEMMA ExternalIPsProperties ==
    ASSUME NEW S, NEW s \in Seq(S)
    PROVE  LET e == ExternalIPsIn(s)
           IN  /\ e \in Seq({a.ip : a \in S})
               /\ ToSet(e) = {s[i].ip : i \in ExternalAt(s)}
               /\ \E at : /\ Lists(at, Len(e), ExternalAt(s))
                          /\ \A k \in 1 .. Len(e) : e[k] = s[at[k]].ip
<1> DEFINE J == ExternalAt(s)
           p == Pick(s, J)
           T == {a.ip : a \in S}
           e == ExternalIPsIn(s)
<1>1. J \cap DOMAIN s = J BY DEF ExternalAt
<1>2. e = [k \in DOMAIN p |-> p[k].ip] BY DEF ExternalIPsIn
<1> HIDE DEF J, e
<1>3. p \in Seq(S) /\ \E at : Enumerates(at, p, s, J) BY <1>1, PickOrder
<1> HIDE DEF p
<1>4. PICK at : Enumerates(at, p, s, J) BY <1>3
<1>5. DOMAIN p = 1 .. Len(p) /\ Len(p) \in Nat BY <1>3
<1>6. e \in Seq(T)
  <2>1. \A k \in DOMAIN p : p[k] \in S BY <1>3
  <2>2. \A k \in DOMAIN p : p[k].ip \in T BY <2>1
  <2> HIDE DEF T
  <2> QED BY <1>2, <1>5, <2>2
<1>7. Len(e) = Len(p) /\ DOMAIN e = 1 .. Len(e) BY <1>2, <1>5, <1>6
<1>8. Lists(at, Len(e), J) BY <1>4, <1>7 DEF Enumerates
<1>9. \A k \in 1 .. Len(e) : e[k] = s[at[k]].ip
  <2>1. \A k \in 1 .. Len(p) : p[k] = s[at[k]] BY <1>4 DEF Enumerates
  <2> QED BY <1>2, <1>5, <1>7, <2>1
<1>10. ToSet(e) = {s[i].ip : i \in J}
  <2>1. /\ \A k \in 1 .. Len(e) : at[k] \in J
        /\ \A i \in J : \E k \in 1 .. Len(e) : at[k] = i
    BY <1>8 DEF Lists
  <2>2. ASSUME NEW i \in J PROVE \E k \in 1 .. Len(e) : e[k] = s[i].ip
    <3>1. PICK k \in 1 .. Len(e) : at[k] = i BY <2>1
    <3> QED BY <1>9, <3>1
  <2>3. \A k \in 1 .. Len(e) : \E i \in J : e[k] = s[i].ip BY <1>9, <2>1
  <2>4. ToSet(e) = {e[k] : k \in 1 .. Len(e)} BY <1>7 DEF ToSet
  <2>5. \A x \in ToSet(e) : \E i \in J : x = s[i].ip BY <2>3, <2>4
  <2>6. \A i \in J : s[i].ip \in ToSet(e) BY <2>2, <2>4
  <2> QED BY <2>5, <2>6
<1> QED BY <1>6, <1>8, <1>9, <1>10 DEF J, e, T

\* The other addresses are none of them external.
LEMMA OtherAddressesProperties ==
    ASSUME NEW S, NEW s \in Seq(S)
    PROVE  /\ OtherAddresses(s) \in Seq(S)
           /\ \A i \in DOMAIN OtherAddresses(s) : ~IsExternal(OtherAddresses(s)[i])
<1> DEFINE B == DOMAIN s \ ExternalAt(s)
           o == Pick(s, B)
<1>1. OtherAddresses(s) = o BY DEF OtherAddresses
<1>2. \A i \in B : ~IsExternal(s[i]) BY DEF ExternalAt
<1> HIDE DEF B
<1>3. o \in Seq(S) /\ \A k \in DOMAIN o : \E i \in B \cap DOMAIN s : o[k] = s[i]
  BY PickRelates
<1> HIDE DEF o
<1>4. \A k \in DOMAIN o : ~IsExternal(o[k]) BY <1>2, <1>3 DEF IsExternal
<1> QED BY <1>1, <1>3, <1>4

\* What mergeExternalIPs puts together can be taken apart again.
LEMMA TakenApart ==
    ASSUME NEW S, NEW o \in Seq(S), \A i \in DOMAIN o : ~IsExternal(o[i]),
           NEW T, NEW l \in Seq(T)
    PROVE  LET m == o \o AsExternal(l)
           IN  /\ m \in Seq(S \cup [type : {"ExternalIP"}, ip : T])
               /\ DOMAIN m = 1 .. Len(o) + Len(l)
               /\ ExternalAt(m) = Len(o) + 1 .. Len(o) + Len(l)
               /\ \A i \in 1 .. Len(l) : m[Len(o) + i].ip = l[i]
               /\ OtherAddresses(m) = o
               /\ ExternalIPsIn(m) = l
<1> DEFINE x == AsExternal(l)
           m == o \o x
           A == S \cup [type : {"ExternalIP"}, ip : T]
<1>1. Len(o) \in Nat /\ Len(l) \in Nat /\ DOMAIN l = 1 .. Len(l) /\ DOMAIN o = 1 .. Len(o)
  OBVIOUS
<1>2. /\ x \in Seq([type : {"ExternalIP"}, ip : T])
      /\ Len(x) = Len(l)
      /\ \A i \in 1 .. Len(l) : x[i].type = "ExternalIP" /\ x[i].ip = l[i]
  BY <1>1 DEF AsExternal
<1>3. \A i \in 1 .. Len(x) : x[i] \in [type : {"ExternalIP"}, ip : T]
  <2>1. \A i \in 1 .. Len(l) : x[i] = [type |-> "ExternalIP", ip |-> l[i]] /\ l[i] \in T
    BY <1>1 DEF AsExternal
  <2>2. Len(x) = Len(l) BY <1>2
  <2> HIDE DEF x
  <2> SUFFICES ASSUME NEW i \in 1 .. Len(l)
               PROVE  x[i] \in [type : {"ExternalIP"}, ip : T]
    BY <2>2
  <2>3. x[i] = [type |-> "ExternalIP", ip |-> l[i]] /\ l[i] \in T BY <2>1
  <2> QED BY <2>3
<1> HIDE DEF x, m
<1>4. x \in Seq(A) /\ o \in Seq(A)
  <2>1. \A i \in 1 .. Len(o) : o[i] \in A OBVIOUS
  <2>2. \A i \in 1 .. Len(x) : x[i] \in A BY <1>3
  <2> HIDE DEF A
  <2>3. o = [i \in 1 .. Len(o) |-> o[i]] /\ x = [i \in 1 .. Len(x) |-> x[i]] BY <1>2
  <2> QED BY <1>1, <1>2, <2>1, <2>2, <2>3
<1> HIDE DEF A
<1>5. /\ m \in Seq(A)
      /\ DOMAIN m = 1 .. Len(o) + Len(l)
      /\ \A i \in 1 .. Len(o) : m[i] = o[i]
      /\ \A i \in 1 .. Len(l) : m[Len(o) + i] = x[i]
  <2>1. m \in Seq(A) BY <1>4 DEF m
  <2>2. DOMAIN m = 1 .. Len(o) + Len(x) BY <1>4 DEF m
  <2>3. \A i \in 1 .. Len(o) : m[i] = o[i] BY <1>4 DEF m
  <2>4. \A i \in 1 .. Len(x) : m[Len(o) + i] = x[i] BY <1>4 DEF m
  <2> QED BY <1>2, <2>1, <2>2, <2>3, <2>4
<1>6. ExternalAt(m) = Len(o) + 1 .. Len(o) + Len(l)
  <2>1. ASSUME NEW i \in 1 .. Len(o) PROVE i \in DOMAIN m /\ ~IsExternal(m[i])
    BY <1>1, <1>5
  <2>2. ASSUME NEW i \in Len(o) + 1 .. Len(o) + Len(l)
        PROVE  i \in DOMAIN m /\ IsExternal(m[i])
    <3>1. i - Len(o) \in 1 .. Len(l) /\ Len(o) + (i - Len(o)) = i BY <1>1
    <3>2. m[i] = x[i - Len(o)] BY <1>5, <3>1
    <3> QED BY <1>1, <1>2, <1>5, <3>1, <3>2 DEF IsExternal
  <2>3. DOMAIN m = (1 .. Len(o)) \cup (Len(o) + 1 .. Len(o) + Len(l)) BY <1>1, <1>5
  <2> QED BY <2>1, <2>2, <2>3 DEF ExternalAt
<1>7. OtherAddresses(m) = o
  <2>1. (DOMAIN m \ ExternalAt(m)) \cap DOMAIN m = 1 .. Len(o) BY <1>1, <1>5, <1>6
  <2> QED BY <1>4, <2>1, PickPart DEF OtherAddresses, m
<1>8. Pick(m, ExternalAt(m)) = x
  <2>1. ExternalAt(m) \cap DOMAIN m = Len(o) + 1 .. Len(o) + Len(x)
    BY <1>1, <1>2, <1>5, <1>6
  <2> QED BY <1>4, <2>1, PickPart DEF m
<1>9. ExternalIPsIn(m) = l
  <2>1. ExternalIPsIn(m) = [i \in DOMAIN x |-> x[i].ip] BY <1>8 DEF ExternalIPsIn
  <2>2. DOMAIN x = 1 .. Len(l) BY <1>2
  <2>3. ExternalIPsIn(m) = [i \in 1 .. Len(l) |-> l[i]] BY <1>2, <2>1, <2>2
  <2> QED BY <2>3
<1>10. \A i \in 1 .. Len(l) : m[Len(o) + i].ip = l[i] BY <1>2, <1>5
<1> QED BY <1>5, <1>6, <1>7, <1>9, <1>10 DEF m, x, A

-------------------------------------------------------------------------------
(***************************************************************************)
(* The merge.                                                              *)
(***************************************************************************)
MergedIPs(a, ips) == IPv6First(Distinct(ExternalIPsIn(a) \o ips))

\* All IPs a merge of addresses of S with IPs of T can meet.
IPsOf(S, T) == {a.ip : a \in S} \cup T

LEMMA SeqOfMore ==
    ASSUME NEW S, NEW T, NEW s \in Seq(S), S \subseteq T
    PROVE  s \in Seq(T)
<1>1. s = [i \in 1 .. Len(s) |-> s[i]] /\ Len(s) \in Nat OBVIOUS
<1>2. \A i \in 1 .. Len(s) : s[i] \in T OBVIOUS
<1> QED BY <1>1, <1>2

\* What a merge returns, in its parts.
HasParts(S, T, a, ips) ==
    LET e == ExternalIPsIn(a)
        l == MergedIPs(a, ips)
    IN  /\ MergeExternalIPs(a, ips) = OtherAddresses(a) \o AsExternal(l)
        /\ e \in Seq(IPsOf(S, T)) /\ ips \in Seq(IPsOf(S, T))
        /\ l \in Seq(IPsOf(S, T))
        /\ ToSet(l) = ToSet(e) \cup ToSet(ips)
        /\ IsInjective(l)
        /\ \A i, j \in DOMAIN l : i < j /\ IsIPv6(l[j]) => IsIPv6(l[i])

LEMMA MergeParts ==
    ASSUME NEW S, NEW T, NEW a \in Seq(S), NEW ips \in Seq(T), ips # <<>>
    PROVE  HasParts(S, T, a, ips)
<1> DEFINE U == IPsOf(S, T)
           e == ExternalIPsIn(a)
           d == Distinct(e \o ips)
           l == IPv6First(d)
<1>1. MergeExternalIPs(a, ips) = OtherAddresses(a) \o AsExternal(l)
  BY DEF MergeExternalIPs
<1>2. e \in Seq({x.ip : x \in S}) BY ExternalIPsProperties
<1>3. {x.ip : x \in S} \subseteq U /\ T \subseteq U BY DEF IPsOf
<1>4. MergedIPs(a, ips) = l BY DEF MergedIPs
<1> HIDE DEF U, e
<1>5. e \in Seq(U) BY <1>2, <1>3, SeqOfMore
<1>6. ips \in Seq(U) BY <1>3, SeqOfMore
<1>7. e \o ips \in Seq(U) BY <1>5, <1>6
<1>8. ToSet(e \o ips) = ToSet(e) \cup ToSet(ips)
  <2> DEFINE s == e \o ips
  <2>1. /\ DOMAIN s = 1 .. Len(e) + Len(ips)
        /\ DOMAIN e = 1 .. Len(e) /\ DOMAIN ips = 1 .. Len(ips)
        /\ Len(e) \in Nat /\ Len(ips) \in Nat
        /\ \A i \in 1 .. Len(e) : s[i] = e[i]
        /\ \A i \in 1 .. Len(ips) : s[Len(e) + i] = ips[i]
    BY <1>5, <1>6
  <2> HIDE DEF s
  <2>2. ASSUME NEW i \in DOMAIN s PROVE s[i] \in ToSet(e) \cup ToSet(ips)
    <3>1. CASE i \in 1 .. Len(e) BY <2>1, <3>1 DEF ToSet
    <3>2. CASE i \notin 1 .. Len(e)
      <4>1. i - Len(e) \in DOMAIN ips /\ Len(e) + (i - Len(e)) = i BY <2>1, <3>2
      <4>2. s[i] = ips[i - Len(e)] BY <2>1, <4>1
      <4> QED BY <4>1, <4>2 DEF ToSet
    <3> QED BY <3>1, <3>2
  <2>3. ASSUME NEW i \in DOMAIN e PROVE e[i] \in ToSet(s)
    <3>1. i \in DOMAIN s BY <2>1
    <3> QED BY <2>1, <3>1 DEF ToSet
  <2>4. ASSUME NEW i \in DOMAIN ips PROVE ips[i] \in ToSet(s)
    <3>1. Len(e) + i \in DOMAIN s BY <2>1
    <3> QED BY <2>1, <3>1 DEF ToSet
  <2>5. ToSet(s) = ToSet(e) \cup ToSet(ips) BY <2>2, <2>3, <2>4 DEF ToSet
  <2> QED BY <2>5 DEF s
<1>9. d \in Seq(U) /\ ToSet(d) = ToSet(e \o ips) /\ IsInjective(d)
  BY <1>7, DistinctProperties
<1> HIDE DEF d
<1>10. /\ l \in Seq(U) /\ ToSet(l) = ToSet(d) /\ IsInjective(l)
       /\ \A i, j \in DOMAIN l : i < j /\ IsIPv6(l[j]) => IsIPv6(l[i])
  BY <1>9, IPv6FirstProperties
<1> QED BY <1>1, <1>4, <1>5, <1>6, <1>8, <1>9, <1>10 DEF HasParts, U, e

\* Merging more of what is merged already changes nothing.
LEMMA MergeAgain ==
    ASSUME NEW S, NEW T, NEW a \in Seq(S), NEW ips \in Seq(T), ips # <<>>,
           NEW more \in Seq(T), more # <<>>, ToSet(more) \subseteq ToSet(ips)
    PROVE  MergeExternalIPs(MergeExternalIPs(a, ips), more) = MergeExternalIPs(a, ips)
<1> DEFINE U == IPsOf(S, T)
           o == OtherAddresses(a)
           d == Distinct(ExternalIPsIn(a) \o ips)
           l == MergedIPs(a, ips)
           m == MergeExternalIPs(a, ips)
<1>1. /\ m = o \o AsExternal(l) /\ l \in Seq(U)
      /\ ExternalIPsIn(a) \in Seq(U) /\ ips \in Seq(U)
      /\ ToSet(l) = ToSet(ExternalIPsIn(a)) \cup ToSet(ips) /\ IsInjective(l)
  <2>1. HasParts(S, T, a, ips) BY MergeParts
  <2> QED BY <2>1 DEF HasParts
<1>2. more \in Seq(U)
  <2>1. T \subseteq U BY DEF IPsOf
  <2> QED BY <2>1, SeqOfMore
<1>3. o \in Seq(S) /\ \A i \in DOMAIN o : ~IsExternal(o[i])
  BY OtherAddressesProperties
<1>4. IPv6First(l) = l
  <2>1. d \in Seq(U)
    <3>1. ExternalIPsIn(a) \o ips \in Seq(U) BY <1>1
    <3> QED BY <3>1, DistinctProperties
  <2>2. l = IPv6First(d) BY DEF MergedIPs
  <2> HIDE DEF d, l
  <2> QED BY <2>1, <2>2, IPv6FirstKeeps
<1> HIDE DEF U, o, l, m
<1>5. OtherAddresses(m) = o /\ ExternalIPsIn(m) = l BY <1>1, <1>3, TakenApart
<1>6. Distinct(l \o more) = l BY <1>1, <1>2, DistinctKeeps
<1>7. MergeExternalIPs(m, more) = o \o AsExternal(l)
  BY <1>4, <1>5, <1>6 DEF MergeExternalIPs
<1> QED BY <1>1, <1>7 DEF m
===============================================================================
