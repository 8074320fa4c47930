--------------------------- MODULE SharedProofs -----------------------------
(***************************************************************************)
(* Facts that the proofs of several components rest on: induction and      *)
(* recursion over an interval, what a loop keeps of a list, and what a     *)
(* critical section of execution.HealthTracker does to the state of one    *)
(* key, for any policy and any observation.                                *)
(***************************************************************************)
EXTENDS Health, Subsequences, Integers, FiniteSetTheorems, WellFoundedInduction, TLAPS

----------------------------------------------------------------------------
(* Lists and recursion.                                                    *)

\* Induction over an interval, with the set of the numbers for which it holds:
\* the smallest number outside would have a predecessor inside.
LEMMA UpTo ==
    ASSUME NEW n \in Nat, NEW T, 0 \in T, \A i \in 1..n : i - 1 \in T => i \in T
    PROVE  0..n \subseteq T
<1> DEFINE Bad == (0..n) \ T
<1> SUFFICES ASSUME Bad # {} PROVE FALSE OBVIOUS
<1>1. OpToRel(<, Nat) = {pair \in Nat \X Nat : pair[1] < pair[2]} BY DEF OpToRel
<1>2. PICK Less : IsWellFoundedOn(Less, Nat) /\ \A x, y \in Nat : x < y => <<x, y>> \in Less
  <2>1. \A x, y \in Nat : x < y => <<x, y>> \in OpToRel(<, Nat) BY <1>1
  <2> QED BY <2>1, NatLessThanWellFounded, Zenon
<1>3. Bad \subseteq Nat OBVIOUS
<1>4. PICK x \in Bad : \A y \in Bad : ~(<<y, x>> \in Less)
  <2> HIDE DEF Bad
  <2>1. IsWellFoundedOn(Less, Nat) BY <1>2
  <2> QED BY <1>3, <2>1, WFMin, Zenon
<1>5. x # 0 /\ x - 1 \in 0..n OBVIOUS
<1>6. x - 1 \in T
  <2>1. <<x - 1, x>> \in Less BY <1>2, <1>5
  <2> QED BY <2>1, <1>4, <1>5
<1> QED BY <1>5, <1>6

\* What f, from 0..n, is for a recursion over that interval.
Solves(f, n, base, step) == f[0] = base /\ \A i \in 1..n : f[i] = step[<<i, f[i - 1]>>]

\* A recursion over an interval has a solution.
LEMMA Recursion ==
    ASSUME NEW n \in Nat, NEW S, NEW base \in S, NEW step \in [(1..n) \X S -> S]
    PROVE  \E f \in [0..n -> S] : Solves(f, n, base, step)
<1> DEFINE T == {k \in 0..n : \E f \in [0..k -> S] : Solves(f, k, base, step)}
<1>1. 0 \in T
  <2> DEFINE f == [i \in 0..0 |-> base]
  <2>1. f \in [0..0 -> S] /\ Solves(f, 0, base, step) BY DEF Solves
  <2>2. \E h \in [0..0 -> S] : Solves(h, 0, base, step)
    <3> HIDE DEF f
    <3> QED BY <2>1
  <2> QED BY <2>2
<1>2. ASSUME NEW k \in 1..n, k - 1 \in T PROVE k \in T
  <2>1. PICK f \in [0..(k - 1) -> S] : Solves(f, k - 1, base, step) BY <1>2
  <2> DEFINE g == [i \in 0..k |-> IF i = k THEN step[<<k, f[k - 1]>>] ELSE f[i]]
  <2>2. <<k, f[k - 1]>> \in (1..n) \X S BY <2>1
  <2>3. g \in [0..k -> S] BY <2>1, <2>2
  <2>4. \A i \in 0..(k - 1) : g[i] = f[i] OBVIOUS
  <2>5. g[k] = step[<<k, g[k - 1]>>]
    <3>1. k \in 0..k /\ k - 1 \in 0..(k - 1) OBVIOUS
    <3>2. g[k] = step[<<k, f[k - 1]>>] BY <3>1
    <3>3. g[k - 1] = f[k - 1] BY <2>4, <3>1
    <3> QED BY <3>2, <3>3, Zenon
  <2>6. Solves(g, k, base, step)
    <3>1. g[0] = base BY <2>1, <2>4 DEF Solves
    <3>2. ASSUME NEW i \in 1..k PROVE g[i] = step[<<i, g[i - 1]>>]
      <4>1. CASE i = k BY <4>1, <2>5
      <4>2. CASE i # k BY <4>2, <2>1, <2>4 DEF Solves
      <4> QED BY <4>1, <4>2
    <3> QED BY <3>1, <3>2 DEF Solves
  <2> QED
    <3> HIDE DEF g
    <3> QED BY <2>3, <2>6
<1>3. 0..n \subseteq T
  <2> HIDE DEF T
  <2>1. \A i \in 1..n : i - 1 \in T => i \in T BY <1>2
  <2> QED BY <1>1, <2>1, UpTo, Zenon
<1>4. n \in T BY <1>3
<1> QED BY <1>4

\* The equation of Kept.
LEMMA KeptUnfolds ==
    ASSUME NEW S, NEW list \in Seq(S), NEW places
    PROVE  /\ Kept(list, places) \in [0..Len(list) -> Seq(S)]
           /\ Kept(list, places)[0] = <<>>
           /\ \A i \in 1..Len(list) :
                Kept(list, places)[i] = IF i \in places THEN Append(Kept(list, places)[i - 1], list[i])
                                        ELSE Kept(list, places)[i - 1]
<1> DEFINE n == Len(list)
           Def(f) == [i \in 0..n |-> IF i = 0 THEN <<>>
                                     ELSE IF i \in places THEN Append(f[i - 1], list[i])
                                     ELSE f[i - 1]]
           step == [p \in (1..n) \X Seq(S) |-> IF p[1] \in places THEN Append(p[2], list[p[1]]) ELSE p[2]]
<1>1. n \in Nat /\ <<>> \in Seq(S) OBVIOUS
<1>2. step \in [(1..n) \X Seq(S) -> Seq(S)]
  <2>1. ASSUME NEW p \in (1..n) \X Seq(S)
        PROVE  (IF p[1] \in places THEN Append(p[2], list[p[1]]) ELSE p[2]) \in Seq(S)
    <3>1. list[p[1]] \in S /\ p[2] \in Seq(S) OBVIOUS
    <3> QED BY <3>1
  <2> QED BY <2>1
<1>3. PICK f \in [0..n -> Seq(S)] : Solves(f, n, <<>>, step)
  <2> HIDE DEF step, n
  <2> QED BY <1>1, <1>2, Recursion, Zenon
<1>4. \A i \in 1..n : f[i] = IF i \in places THEN Append(f[i - 1], list[i]) ELSE f[i - 1]
  <2>1. ASSUME NEW i \in 1..n PROVE f[i] = IF i \in places THEN Append(f[i - 1], list[i]) ELSE f[i - 1]
    <3>0. i - 1 \in 0..n BY <1>1
    <3>1. f[i - 1] \in Seq(S) BY <1>3, <3>0
    <3>2. f[i] = step[<<i, f[i - 1]>>] BY <1>3 DEF Solves
    <3> QED BY <3>1, <3>2
  <2> QED BY <2>1
<1>5. f = Def(f)
  <2>1. ASSUME NEW i \in 0..n PROVE f[i] = Def(f)[i]
    <3>1. CASE i = 0 BY <3>1, <1>3 DEF Solves
    <3>2. CASE i # 0
      <4>1. i \in 1..n BY <3>2
      <4> QED BY <4>1, <3>2, <1>4
    <3> QED BY <3>1, <3>2
  <2> QED BY <2>1, <1>3
<1>6. Kept(list, places) = CHOOSE g : g = Def(g) BY DEF Kept
<1>7. PICK g : g = Kept(list, places) OBVIOUS
<1>8. g = Def(g)
  <2>1. g = CHOOSE h : h = Def(h) BY <1>6, <1>7
  <2> QED BY <2>1, <1>5
<1>9. DOMAIN g = 0..n /\ g[0] = <<>> BY <1>8
<1>10. \A i \in 1..n : g[i] = IF i \in places THEN Append(g[i - 1], list[i]) ELSE g[i - 1]
  <2>1. ASSUME NEW i \in 1..n PROVE g[i] = IF i \in places THEN Append(g[i - 1], list[i]) ELSE g[i - 1]
    <3>1. i \in 0..n /\ i # 0 OBVIOUS
    <3>2. g[i] = Def(g)[i] BY <1>8
    <3> HIDE <1>8
    <3> QED BY <3>1, <3>2
  <2> QED BY <2>1
<1>11. g \in [0..n -> Seq(S)]
  <2> DEFINE T == {i \in 0..n : g[i] \in Seq(S)}
  <2>1. 0 \in T
    <3>1. <<>> \in Seq(S) OBVIOUS
    <3>2. 0 \in 0..n BY <1>1
    <3> QED BY <1>9, <3>1, <3>2
  <2>2. ASSUME NEW i \in 1..n, i - 1 \in T PROVE i \in T
    <3>1. list[i] \in S /\ g[i - 1] \in Seq(S) BY <2>2
    <3>2. Append(g[i - 1], list[i]) \in Seq(S) BY <3>1
    <3>3. g[i] = Append(g[i - 1], list[i]) \/ g[i] = g[i - 1] BY <1>10
    <3>4. g[i] \in Seq(S) BY <3>1, <3>2, <3>3
    <3> QED BY <3>4
  <2>3. 0..n \subseteq T
    <3> HIDE DEF T
    <3>1. \A i \in 1..n : i - 1 \in T => i \in T BY <2>2
    <3> QED BY <2>1, <3>1, <1>1, UpTo, Zenon
  <2>4. \A i \in 0..n : g[i] \in Seq(S) BY <2>3
  <2>5. g = [i \in 0..n |-> g[i]] BY <1>8
  <2> QED BY <2>4, <2>5
<1> QED BY <1>7, <1>9, <1>10, <1>11

\* The places up to k, in order, and what is kept of them.
Picks(at, list, places, k, kept) ==
    /\ at \in Seq(Nat) /\ Len(at) <= k /\ Len(kept) = Len(at)
    /\ \A i, j \in 1..Len(at) : i < j => at[i] < at[j]
    /\ \A i \in 1..Len(at) : at[i] \in 1..k /\ at[i] \in places /\ kept[i] = list[at[i]]
    /\ \A p \in 1..k : p \in places => \E i \in 1..Len(at) : at[i] = p

\* What Kept holds after k elements is the elements at the places up to k.
LEMMA KeptPicks ==
    ASSUME NEW S, NEW list \in Seq(S), NEW places, NEW k \in 0..Len(list)
    PROVE  \E at : Picks(at, list, places, k, Kept(list, places)[k])
<1> DEFINE n == Len(list)
           T == {i \in 0..n : \E at : Picks(at, list, places, i, Kept(list, places)[i])}
<1>0. PICK kept : kept = Kept(list, places) OBVIOUS
<1>1. /\ n \in Nat /\ kept \in [0..n -> Seq(S)] /\ kept[0] = <<>>
      /\ \A i \in 1..n : kept[i] = IF i \in places THEN Append(kept[i - 1], list[i]) ELSE kept[i - 1]
    BY <1>0, KeptUnfolds
<1>2. 0 \in T
  <2>1. Picks(<<>>, list, places, 0, <<>>) BY DEF Picks
  <2> QED BY <1>0, <1>1, <2>1
<1>3. ASSUME NEW i \in 1..n, i - 1 \in T PROVE i \in T
  <2>1. PICK at : Picks(at, list, places, i - 1, kept[i - 1]) BY <1>0, <1>3
  <2>2. i - 1 \in 0..n /\ i \in 0..n BY <1>1
  <2>3. PICK old \in Seq(S) : old = kept[i - 1] BY <1>1, <2>2
  <2>4. CASE i \notin places
    <3>1. kept[i] = old BY <1>1, <2>3, <2>4
    <3>2. Picks(at, list, places, i, old) BY <2>1, <2>3, <2>4 DEF Picks
    <3> QED BY <3>1, <3>2, <2>2, <1>0
  <2>5. CASE i \in places
    <3>1. kept[i] = Append(old, list[i]) BY <1>1, <2>3, <2>5
    <3>2. PICK new : new = Append(old, list[i]) OBVIOUS
    <3>3. /\ Len(new) = Len(old) + 1 /\ new[Len(old) + 1] = list[i]
          /\ \A j \in 1..Len(old) : new[j] = old[j]
      <4>1. list[i] \in S OBVIOUS
      <4> QED BY <4>1, <3>2
    <3>4. PICK longer : longer = Append(at, i) OBVIOUS
    <3>5. at \in Seq(Nat) /\ Len(at) = Len(old) /\ Len(at) <= i - 1 BY <2>1, <2>3 DEF Picks
    <3>6. /\ longer \in Seq(Nat) /\ Len(longer) = Len(at) + 1 /\ longer[Len(at) + 1] = i
          /\ \A j \in 1..Len(at) : longer[j] = at[j]
      BY <3>4, <3>5
    <3>7. \A a, b \in 1..Len(longer) : a < b => longer[a] < longer[b]
      <4>1. ASSUME NEW a \in 1..Len(longer), NEW b \in 1..Len(longer), a < b PROVE longer[a] < longer[b]
        <5>0. Len(at) \in Nat /\ Len(longer) = Len(at) + 1
          <6>1. Len(at) \in Nat BY <3>5
          <6> QED BY <6>1, <3>6
        <5>1. a \in 1..Len(at) /\ longer[a] = at[a] /\ Len(at) \in Nat
          <6>1. a \in 1..Len(at) BY <4>1, <5>0
          <6> QED BY <5>0, <6>1, <3>6
        <5>2. at[a] \in 1..(i - 1) BY <5>1, <2>1 DEF Picks
        <5>3. CASE b = Len(at) + 1 BY <5>1, <5>2, <5>3, <3>6
        <5>4. CASE b # Len(at) + 1
          <6>0. b \in 1..Len(at)
            <7>1. Len(longer) = Len(at) + 1 BY <3>6
            <7> QED BY <7>1, <5>1, <5>4
          <6>1. b \in 1..Len(at) /\ longer[b] = at[b] BY <6>0, <3>6
          <6> QED BY <6>1, <5>1, <4>1, <2>1 DEF Picks
        <5> QED BY <5>3, <5>4
      <4> QED BY <4>1
    <3>8. \A j \in 1..Len(longer) : longer[j] \in 1..i /\ longer[j] \in places /\ new[j] = list[longer[j]]
      <4>1. ASSUME NEW j \in 1..Len(longer)
            PROVE  longer[j] \in 1..i /\ longer[j] \in places /\ new[j] = list[longer[j]]
        <5>1. CASE j = Len(at) + 1 BY <5>1, <2>5, <3>3, <3>5, <3>6
        <5>2. CASE j # Len(at) + 1
          <6>1. j \in 1..Len(at) BY <5>2, <3>5, <3>6
          <6>2. at[j] \in 1..(i - 1) /\ at[j] \in places /\ old[j] = list[at[j]] BY <6>1, <2>1, <2>3 DEF Picks
          <6>3. longer[j] = at[j] /\ new[j] = old[j] BY <6>1, <3>3, <3>5, <3>6
          <6> QED BY <6>2, <6>3
        <5> QED BY <5>1, <5>2
      <4> QED BY <4>1
    <3>9. \A p \in 1..i : p \in places => \E j \in 1..Len(longer) : longer[j] = p
      <4>1. ASSUME NEW p \in 1..i, p \in places PROVE \E j \in 1..Len(longer) : longer[j] = p
        <5>1. CASE p = i BY <5>1, <3>5, <3>6
        <5>2. CASE p # i
          <6>1. p \in 1..(i - 1) BY <5>2
          <6>2. PICK j \in 1..Len(at) : at[j] = p BY <6>1, <4>1, <2>1 DEF Picks
          <6> QED BY <6>2, <3>5, <3>6
        <5> QED BY <5>1, <5>2
      <4> QED BY <4>1
    <3>10. Picks(longer, list, places, i, new)
      BY <3>3, <3>5, <3>6, <3>7, <3>8, <3>9 DEF Picks
    <3> QED BY <3>1, <3>2, <3>10, <2>2, <1>0
  <2> QED BY <2>4, <2>5
<1>4. 0..n \subseteq T
  <2> HIDE DEF T
  <2>1. \A i \in 1..n : i - 1 \in T => i \in T BY <1>3
  <2> QED BY <1>1, <1>2, <2>1, UpTo, Zenon
<1> QED BY <1>4

\* What the loop keeps: elements of the list at the places, one for each, none
\* twice from one place, the first place first.
Keeps(only, list, places) ==
    /\ Len(only) <= Len(list)
    /\ \A i \in 1..Len(only) : \E p \in 1..Len(list) : p \in places /\ only[i] = list[p]
    /\ \A p \in 1..Len(list) : p \in places => \E i \in 1..Len(only) : only[i] = list[p]
    /\ \A i, j \in 1..Len(only) : i < j =>
        \E p, q \in 1..Len(list) :
            p \in places /\ only[i] = list[p] /\ q \in places /\ only[j] = list[q] /\ p < q
    /\ only # <<>> =>
        \E p \in 1..Len(list) : /\ p \in places /\ only[1] = list[p]
                               /\ \A q \in 1..Len(list) : q \in places => p <= q

LEMMA OnlyKeeps ==
    ASSUME NEW S, NEW list \in Seq(S), NEW places
    PROVE  Only(list, places) \in Seq(S) /\ Keeps(Only(list, places), list, places)
<1>1. PICK only : only = Only(list, places) OBVIOUS
<1>2. only \in Seq(S) /\ only = Kept(list, places)[Len(list)]
  <2>1. Len(list) \in 0..Len(list) OBVIOUS
  <2> QED BY <2>1, <1>1, KeptUnfolds DEF Only
<1>3. PICK at : Picks(at, list, places, Len(list), only)
  <2>1. Len(list) \in 0..Len(list) OBVIOUS
  <2> QED BY <2>1, <1>2, KeptPicks
<1>4. /\ at \in Seq(Nat) /\ Len(at) <= Len(list) /\ Len(only) = Len(at)
      /\ \A i, j \in 1..Len(at) : i < j => at[i] < at[j]
      /\ \A i \in 1..Len(at) : at[i] \in 1..Len(list) /\ at[i] \in places /\ only[i] = list[at[i]]
      /\ \A p \in 1..Len(list) : p \in places => \E i \in 1..Len(at) : at[i] = p
  BY <1>3 DEF Picks
<1>5. \A i \in 1..Len(only) : \E p \in 1..Len(list) : p \in places /\ only[i] = list[p] BY <1>4
<1>6. \A p \in 1..Len(list) : p \in places => \E i \in 1..Len(only) : only[i] = list[p]
  <2>1. ASSUME NEW p \in 1..Len(list), p \in places PROVE \E i \in 1..Len(only) : only[i] = list[p]
    <3>1. PICK i \in 1..Len(at) : at[i] = p BY <2>1, <1>4
    <3> QED BY <3>1, <1>4
  <2> QED BY <2>1
<1>7. \A i, j \in 1..Len(only) : i < j =>
        \E p, q \in 1..Len(list) : p \in places /\ only[i] = list[p] /\ q \in places /\ only[j] = list[q] /\ p < q
  <2>1. ASSUME NEW i \in 1..Len(only), NEW j \in 1..Len(only), i < j
        PROVE  \E p, q \in 1..Len(list) :
                p \in places /\ only[i] = list[p] /\ q \in places /\ only[j] = list[q] /\ p < q
    <3>1. at[i] \in 1..Len(list) /\ at[i] \in places /\ only[i] = list[at[i]] BY <1>4
    <3>2. at[j] \in 1..Len(list) /\ at[j] \in places /\ only[j] = list[at[j]] BY <1>4
    <3>3. at[i] < at[j] BY <2>1, <1>4
    <3> QED BY <3>1, <3>2, <3>3
  <2> QED BY <2>1
<1>8. only # <<>> => \E p \in 1..Len(list) : /\ p \in places /\ only[1] = list[p]
                                             /\ \A q \in 1..Len(list) : q \in places => p <= q
  <2>1. SUFFICES ASSUME only # <<>>
        PROVE  \E p \in 1..Len(list) : /\ p \in places /\ only[1] = list[p]
                                       /\ \A q \in 1..Len(list) : q \in places => p <= q
      OBVIOUS
  <2>2. 1 \in 1..Len(at) BY <2>1, <1>2, <1>4
  <2>3. at[1] \in 1..Len(list) /\ at[1] \in places /\ only[1] = list[at[1]] BY <2>2, <1>4
  <2>4. ASSUME NEW q \in 1..Len(list), q \in places PROVE at[1] <= q
    <3>1. PICK i \in 1..Len(at) : at[i] = q BY <2>4, <1>4
    <3>2. CASE i = 1 BY <3>1, <3>2
    <3>3. CASE i # 1
      <4>1. at[1] < at[i] BY <3>3, <2>2, <1>4
      <4> QED BY <4>1, <3>1, <2>3
    <3> QED BY <3>2, <3>3
  <2> QED BY <2>3, <2>4
<1>9. Len(only) <= Len(list) BY <1>4
<1>10. Keeps(only, list, places) BY <1>5, <1>6, <1>7, <1>8, <1>9 DEF Keeps
<1> QED BY <1>1, <1>2, <1>10

----------------------------------------------------------------------------
(* The state of a key.                                                     *)

\* The parts of a key's state are those of HealthState.
LEMMA HealthFields ==
    ASSUME NEW h \in HealthState
    PROVE  /\ h.streak \in Nat /\ h.last \in Nat /\ h.open \in Nat /\ h.cool \in Nat
           /\ h.classes \in [Class -> Nat]
BY DEF HealthState

\* The fields of a policy, with their bounds.
LEMMA PolicyFields ==
    ASSUME NEW p \in Policy
    PROVE  /\ p.threshold \in Nat /\ p.window \in Nat /\ p.ignore \in BOOLEAN
           /\ p.grows \in BOOLEAN /\ p.open \in [Class -> Nat]
BY HealthConstants DEF PolicyType

\* Later is the later of two times.
LEMMA LaterTime ==
    ASSUME NEW a \in Nat, NEW b \in Nat
    PROVE  Later(a, b) \in Nat /\ Later(a, b) >= a /\ Later(a, b) >= b
BY DEF Later

\* A key the tracker does not know has no failures and no deadlines.
LEMMA NoHealthState ==
    /\ NoHealth \in HealthState
    /\ NoHealth.streak = 0 /\ NoHealth.last = 0 /\ NoHealth.open = 0 /\ NoHealth.cool = 0
    /\ NoHealth.classes = [c \in Class |-> 0]
BY DEF NoHealth, HealthState

\* An open time is one.
LEMMA OpenTimes ==
    ASSUME NEW p \in Policy, NEW class \in Class, NEW n \in Nat
    PROVE  OpenTime(p, class, n) \in Nat
<1>1. p.open[class] \in Nat BY PolicyFields
<1>2. n * p.open[class] \in Nat BY <1>1
<1> QED BY <1>1, <1>2 DEF OpenTime

\* What fail leaves: a longer streak or one of its own, counted in its class,
\* and no deadline cut short.
LEMMA FailState ==
    ASSUME NEW h \in HealthState, NEW p \in Policy, NEW class \in Class, now \in Nat
    PROVE  LET streak == IF Forgotten(h, p) THEN 1 ELSE h.streak + 1
               past == IF Forgotten(h, p) THEN NoHealth.classes ELSE h.classes
               f == Fail(h, p, class)
           IN  /\ f \in HealthState
               /\ f.streak = streak /\ f.last = now /\ f.cool = h.cool
               /\ f.classes = [past EXCEPT ![class] = @ + 1]
               /\ f.open >= h.open
<1> DEFINE streak == IF Forgotten(h, p) THEN 1 ELSE h.streak + 1
           past == IF Forgotten(h, p) THEN NoHealth.classes ELSE h.classes
           classes == [past EXCEPT ![class] = @ + 1]
           time == OpenTime(p, class, classes[class])
           until == IF streak >= p.threshold /\ time > 0 THEN Later(h.open, now + time) ELSE h.open
<1>1. h.streak \in Nat /\ h.open \in Nat /\ h.cool \in Nat /\ h.classes \in [Class -> Nat]
    BY HealthFields
<1>2. past \in [Class -> Nat] BY <1>1, NoHealthState
<1>3. classes \in [Class -> Nat] BY <1>2
<1>4. time \in Nat BY <1>3, OpenTimes
<1>5. streak \in Nat BY <1>1
<1> HIDE DEF past, classes, time, streak
<1>6. until \in Nat /\ until >= h.open
  <2>1. now + time \in Nat BY <1>4
  <2>2. Later(h.open, now + time) \in Nat /\ Later(h.open, now + time) >= h.open
      BY <1>1, <2>1, LaterTime
  <2> QED BY <1>1, <2>2
<1> HIDE DEF until
<1>7. Fail(h, p, class) = [streak |-> streak, classes |-> classes, last |-> now, cool |-> h.cool,
                           open |-> until]
    BY DEF Fail, past, classes, time, streak, until
<1>8. Fail(h, p, class) \in HealthState BY <1>1, <1>3, <1>5, <1>6, <1>7 DEF HealthState
<1> QED BY <1>6, <1>7, <1>8 DEF classes, past, streak

\* What succeed leaves: no streak, and a cooldown that still runs.
LEMMA SucceedState ==
    ASSUME NEW h \in HealthState, now \in Nat
    PROVE  LET s == Succeed(h)
           IN  /\ s \in HealthState
               /\ s.streak = 0 /\ s.last = 0 /\ s.open = 0 /\ s.classes = [c \in Class |-> 0]
               /\ now < h.cool => s.cool = h.cool
BY HealthFields DEF Succeed, NoHealth, HealthState

\* What a cooldown changes: its own deadline, which only moves away.
LEMMA CoolState ==
    ASSUME NEW h \in HealthState, NEW p \in Policy, NEW wait \in Nat, now \in Nat
    PROVE  LET c == Cool(h, p, wait)
           IN  /\ c \in HealthState
               /\ c.streak = h.streak /\ c.last = h.last /\ c.open = h.open
               /\ c.classes = h.classes /\ c.cool >= h.cool
<1>1. h.cool \in Nat /\ now + wait \in Nat BY HealthFields
<1>2. Later(h.cool, now + wait) \in Nat /\ Later(h.cool, now + wait) >= h.cool BY <1>1, LaterTime
<1> QED BY <1>1, <1>2 DEF Cool, HealthState

----------------------------------------------------------------------------
(* Record.                                                                 *)

\* A success, a failure that counts, or nothing, then a Retry-After.
LEMMA RecordedCases ==
    ASSUME NEW h, NEW p, NEW o
    PROVE  \/ o.effect = "success" /\ Recorded(h, p, o) = Cool(Succeed(h), p, o.retryAfter)
           \/ o.effect = "failure" /\ p.threshold > 0
              /\ Recorded(h, p, o) = Cool(Fail(h, p, o.class), p, o.retryAfter)
           \/ Recorded(h, p, o) = Cool(h, p, o.retryAfter)
BY DEF Recorded

\* An observation of an operation: the class matters of a failure only.
Heard(o) ==
    /\ o.effect \in Effects /\ o.retryAfter \in Nat
    /\ o.effect = "failure" => o.class \in Class

\* Record leaves a state, never brings a running deadline nearer, but for the
\* circuit's on a success, and leaves the cooldown to its end.
LEMMA RecordedState ==
    ASSUME NEW h \in HealthState, NEW p \in Policy, NEW o, Heard(o), now \in Nat
    PROVE  LET r == Recorded(h, p, o)
           IN  /\ r \in HealthState
               /\ r.open < h.open => r.streak = 0
               /\ r.cool < h.cool => now >= h.cool
<1> DEFINE r == Recorded(h, p, o)
<1>0. o.retryAfter \in Nat /\ h.open \in Nat /\ h.cool \in Nat BY HealthFields DEF Heard
<1>1. CASE o.effect = "success" /\ r = Cool(Succeed(h), p, o.retryAfter)
  <2> DEFINE s == Succeed(h)
  <2>1. s \in HealthState /\ s.streak = 0 /\ (now < h.cool => s.cool = h.cool) BY SucceedState
  <2> HIDE DEF s
  <2>2. r \in HealthState /\ r.streak = s.streak /\ r.cool >= s.cool
    <3>1. r = Cool(s, p, o.retryAfter) BY <1>1 DEF s
    <3> HIDE DEF r
    <3> QED BY <1>0, <2>1, <3>1, CoolState
  <2>3. r.cool \in Nat BY <2>2, HealthFields
  <2> QED BY <1>0, <2>1, <2>2, <2>3
<1>2. CASE o.effect = "failure" /\ r = Cool(Fail(h, p, o.class), p, o.retryAfter)
  <2> DEFINE f == Fail(h, p, o.class)
  <2>1. f \in HealthState /\ f.open >= h.open /\ f.cool = h.cool BY <1>2, FailState DEF Heard
  <2> HIDE DEF f
  <2>2. r \in HealthState /\ r.open = f.open /\ r.cool >= f.cool
      BY <1>0, <1>2, <2>1, CoolState DEF f
  <2>3. r.cool \in Nat /\ r.open \in Nat BY <2>2, HealthFields
  <2> QED BY <1>0, <2>1, <2>2, <2>3
<1>3. CASE r = Cool(h, p, o.retryAfter)
  <2>1. r \in HealthState /\ r.open = h.open /\ r.cool >= h.cool BY <1>0, <1>3, CoolState
  <2>2. r.cool \in Nat BY <2>1, HealthFields
  <2> QED BY <1>0, <2>1, <2>2
<1> QED BY <1>1, <1>2, <1>3, RecordedCases

----------------------------------------------------------------------------
(* The streak and its classes.                                             *)

\* Explained, with what the count of a set needs.
Sound(h) == Explained(h) /\ IsFiniteSet(ByClass(h))

\* No failures: nothing is counted.
LEMMA NothingCounted ==
    ASSUME NEW h, h.classes = [c \in Class |-> 0], h.streak = 0, h.last = 0, h.open = 0
    PROVE  Sound(h)
<1>1. ByClass(h) = {} BY DEF ByClass
<1> QED BY <1>1, FS_EmptySet DEF Sound, Explained

\* What ByClass holds.
LEMMA InByClass ==
    ASSUME NEW h, NEW x
    PROVE  x \in ByClass(h) <=> \E c \in Class : \E i \in 1..h.classes[c] : x = <<c, i>>
BY DEF ByClass

\* A failure is one more in its class.
LEMMA OneMore ==
    ASSUME NEW h, NEW g, NEW class \in Class, h.classes \in [Class -> Nat],
           g.classes = [h.classes EXCEPT ![class] = @ + 1], IsFiniteSet(ByClass(h))
    PROVE  IsFiniteSet(ByClass(g)) /\ Cardinality(ByClass(g)) = Cardinality(ByClass(h)) + 1
<1> DEFINE n == h.classes[class] + 1
<1>1. h.classes[class] \in Nat /\ n \in Nat OBVIOUS
<1>2. \A c \in Class : g.classes[c] = IF c = class THEN n ELSE h.classes[c] OBVIOUS
<1>3. 1..n = (1..h.classes[class]) \cup {n} /\ n \notin 1..h.classes[class] BY <1>1
<1> HIDE DEF n
<1>4. \A x : x \in ByClass(h) <=> \E c \in Class : \E i \in 1..h.classes[c] : x = <<c, i>>
    BY InByClass
<1>5. \A x : x \in ByClass(g) <=> \E c \in Class : \E i \in 1..g.classes[c] : x = <<c, i>>
    BY InByClass
<1>6. ByClass(g) = ByClass(h) \cup {<<class, n>>}
    BY <1>2, <1>3, <1>4, <1>5
<1>7. <<class, n>> \notin ByClass(h) BY <1>3, <1>4
<1> HIDE DEF ByClass
<1>8. IsFiniteSet(ByClass(h) \cup {<<class, n>>})
      /\ Cardinality(ByClass(h) \cup {<<class, n>>}) = Cardinality(ByClass(h)) + 1
    BY <1>7, FS_AddElement
<1> QED BY <1>6, <1>8

\* A cooldown leaves the streak as it was.
LEMMA CoolSound ==
    ASSUME NEW h \in HealthState, Sound(h), NEW p \in Policy, NEW wait \in Nat, now \in Nat
    PROVE  Sound(Cool(h, p, wait))
<1> DEFINE c == Cool(h, p, wait)
<1>1. c.streak = h.streak /\ c.last = h.last /\ c.open = h.open /\ c.classes = h.classes
    BY CoolState
<1> HIDE DEF c
<1>2. ByClass(c) = ByClass(h) BY <1>1 DEF ByClass
<1>3. Sound(c) BY <1>1, <1>2 DEF Sound, Explained
<1> QED BY <1>3 DEF c

\* A failure is counted once in the streak and once in its class, also when it
\* starts a streak of its own.
LEMMA FailSound ==
    ASSUME NEW h \in HealthState, Sound(h), NEW p \in Policy, NEW class \in Class,
           now \in Nat \ {0}
    PROVE  Sound(Fail(h, p, class))
<1> DEFINE past == IF Forgotten(h, p) THEN NoHealth ELSE h
           f == Fail(h, p, class)
<1>1. past \in HealthState /\ Sound(past) BY NoHealthState, NothingCounted
<1>2. f.streak = past.streak + 1 /\ f.last = now /\ f.classes = [past.classes EXCEPT ![class] = @ + 1]
  <2>1. CASE Forgotten(h, p) BY <2>1, NoHealthState, FailState
  <2>2. CASE ~Forgotten(h, p) BY <2>2, FailState
  <2> QED BY <2>1, <2>2
<1> HIDE DEF past, f
<1>3. past.streak \in Nat /\ past.classes \in [Class -> Nat] BY <1>1, HealthFields
<1>4. IsFiniteSet(ByClass(f)) /\ Cardinality(ByClass(f)) = Cardinality(ByClass(past)) + 1
    BY <1>1, <1>2, <1>3, OneMore DEF Sound
<1>5. f.streak = Cardinality(ByClass(f)) /\ f.streak > 0 /\ f.last # 0
    BY <1>1, <1>2, <1>3, <1>4 DEF Sound, Explained
<1>6. Sound(f) BY <1>3, <1>4, <1>5 DEF Sound, Explained
<1> QED BY <1>6 DEF f

\* Record keeps a key's circuit explained.
LEMMA RecordedSound ==
    ASSUME NEW h \in HealthState, Sound(h), NEW p \in Policy, NEW o, Heard(o),
           now \in Nat \ {0}
    PROVE  Sound(Recorded(h, p, o))
<1>0. o.retryAfter \in Nat BY DEF Heard
<1>1. Succeed(h) \in HealthState /\ Sound(Succeed(h))
  <2> DEFINE s == Succeed(h)
  <2>1. s \in HealthState /\ s.streak = 0 /\ s.last = 0 /\ s.open = 0
        /\ s.classes = [c \in Class |-> 0]
      BY SucceedState
  <2> HIDE DEF s
  <2>2. s \in HealthState /\ Sound(s) BY <2>1, NothingCounted
  <2> QED BY <2>2 DEF s
<1>2. o.effect = "failure" =>
          Fail(h, p, o.class) \in HealthState /\ Sound(Fail(h, p, o.class))
    BY FailState, FailSound DEF Heard
<1> QED BY <1>0, <1>1, <1>2, RecordedCases, CoolSound
=============================================================================
