--------------------------- MODULE CommandProofs ---------------------------
(***************************************************************************)
(* Proofs about the commands of the editor: the arguments and the macros   *)
(* of KeyInput, and the kills and yanks of KillRing, for any keys, texts   *)
(* and bounds.                                                             *)
(***************************************************************************)
EXTENDS KeyInput, KillRing, SequenceTheorems, FiniteSetTheorems, WellFoundedInduction, TLAPS

-----------------------------------------------------------------------------
(***************************************************************************)
(* Induction and recursive functions.                                      *)
(***************************************************************************)
\* Induction over the natural numbers, for the members of a set.
LEMMA SetInduction ==
    ASSUME NEW S, 0 \in S, \A n \in Nat : n \in S => n + 1 \in S
    PROVE  Nat \subseteq S
<1> DEFINE R == OpToRel(<, Nat)
           T == {n \in Nat : n \notin S}
<1> SUFFICES ASSUME T # {} PROVE FALSE
  OBVIOUS
<1>1. \A x, y \in Nat : y < x => <<y, x>> \in R
  BY DEF OpToRel
<1>2. IsWellFoundedOn(R, Nat)
  BY NatLessThanWellFounded
<1>3. \E x \in T : \A y \in T : ~(<<y, x>> \in R)
  <2> HIDE DEF R
  <2> QED
    BY <1>2, WFMin
<1>4. PICK x \in T : \A y \in T : ~(<<y, x>> \in R)
  BY <1>3
<1>5. x # 0 /\ x \in Nat
  OBVIOUS
<1>6. x - 1 \in Nat /\ x - 1 < x
  BY <1>5
<1>7. x - 1 \notin S
  BY <1>5, <1>6, (x - 1) + 1 = x
<1> HIDE DEF R
<1>8. <<x - 1, x>> \in R
  BY <1>1, <1>5, <1>6
<1> QED
  BY <1>4, <1>6, <1>7, <1>8

\* f applies the functions step[1], step[2] ... one after the other.
Runs(f, S, n, first, step) ==
    /\ f \in [0 .. n -> S]
    /\ f[0] = first
    /\ \A i \in 1 .. n : f[i] = step[i][f[i - 1]]

LEMMA RunsExist ==
    ASSUME NEW S, NEW n \in Nat, NEW first \in S, NEW step \in [1 .. n -> [S -> S]]
    PROVE  \E f : Runs(f, S, n, first, step)
<1> DEFINE T == {m \in Nat : m <= n => \E f : Runs(f, S, m, first, step)}
<1>1. 0 \in T
  <2>1. Runs([i \in 0 .. 0 |-> first], S, 0, first, step)
    BY DEF Runs
  <2> QED
    BY <2>1
<1>2. \A m \in Nat : m \in T => m + 1 \in T
  <2> SUFFICES ASSUME NEW m \in Nat, m + 1 <= n, NEW f, Runs(f, S, m, first, step)
               PROVE  \E g : Runs(g, S, m + 1, first, step)
    OBVIOUS
  <2> DEFINE g == [i \in 0 .. m + 1 |-> IF i = m + 1 THEN step[m + 1][f[m]] ELSE f[i]]
  <2>1. f[m] \in S /\ m + 1 \in 1 .. n
    BY DEF Runs
  <2>2. step[m + 1][f[m]] \in S
    BY <2>1
  <2>3. g \in [0 .. m + 1 -> S] /\ g[0] = first
    BY <2>2 DEF Runs
  <2>4. ASSUME NEW i \in 1 .. m + 1 PROVE g[i] = step[i][g[i - 1]]
    <3>1. CASE i = m + 1
      <4>1. i - 1 = m /\ g[m] = f[m]
        BY <3>1
      <4> QED
        BY <3>1, <4>1
    <3>2. CASE i # m + 1
      <4>1. i \in 1 .. m /\ i - 1 \in 0 .. m
        BY <3>2
      <4>2. g[i] = f[i] /\ g[i - 1] = f[i - 1]
        BY <4>1
      <4> QED
        BY <4>1, <4>2 DEF Runs
    <3> QED
      BY <3>1, <3>2
  <2> HIDE DEF g
  <2> QED
    BY <2>3, <2>4 DEF Runs
<1>3. Nat \subseteq T
  <2> HIDE DEF T
  <2> QED
    BY <1>1, <1>2, SetInduction
<1> QED
  BY <1>3

\* f is a function of the numbers up to n.
IsOver(f, n) == f = [i \in 0 .. n |-> f[i]]

\* What looks as if it did so, does.
LEMMA RunsTyped ==
    ASSUME NEW S, NEW n \in Nat, NEW first \in S, NEW step \in [1 .. n -> [S -> S]], NEW f,
           IsOver(f, n), f[0] = first,
           \A i \in 1 .. n : f[i - 1] \in S => f[i] = step[i][f[i - 1]]
    PROVE  Runs(f, S, n, first, step)
<1> DEFINE T == {m \in Nat : m <= n => f[m] \in S}
<1>1. 0 \in T
  OBVIOUS
<1>2. \A m \in Nat : m \in T => m + 1 \in T
  <2> SUFFICES ASSUME NEW m \in Nat, m + 1 <= n, f[m] \in S PROVE f[m + 1] \in S
    OBVIOUS
  <2>1. m + 1 \in 1 .. n /\ (m + 1) - 1 = m
    OBVIOUS
  <2>2. f[m + 1] = step[m + 1][f[m]]
    BY <2>1
  <2> QED
    BY <2>1, <2>2
<1>3. Nat \subseteq T
  <2> HIDE DEF T
  <2> QED
    BY <1>1, <1>2, SetInduction
<1>4. \A m \in 0 .. n : f[m] \in S
  BY <1>3
<1>5. ASSUME NEW i \in 1 .. n PROVE f[i] = step[i][f[i - 1]]
  <2>1. i - 1 \in 0 .. n
    OBVIOUS
  <2> QED
    BY <1>4, <2>1
<1>6. f \in [0 .. n -> S]
  BY <1>4 DEF IsOver
<1> QED
  BY <1>5, <1>6 DEF Runs

\* f and g are the same from m to n.
Agree(f, g, m, n) == \A i \in m .. n : g[i] = f[i]

\* Two that apply the same functions go the same way as long as they do.
LEMMA RunsOnly ==
    ASSUME NEW S, NEW n \in Nat, NEW m \in Nat, n <= m, NEW first, NEW step, NEW more,
           NEW f, Runs(f, S, n, first, step), NEW g, Runs(g, S, m, first, more),
           Agree(step, more, 1, n)
    PROVE  Agree(f, g, 0, n)
<1> DEFINE T == {i \in Nat : i <= n => g[i] = f[i]}
<1>1. 0 \in T
  BY DEF Runs
<1>2. \A i \in Nat : i \in T => i + 1 \in T
  <2> SUFFICES ASSUME NEW i \in Nat, i + 1 <= n, g[i] = f[i] PROVE g[i + 1] = f[i + 1]
    OBVIOUS
  <2>1. i + 1 \in 1 .. n /\ i + 1 \in 1 .. m /\ (i + 1) - 1 = i
    OBVIOUS
  <2>2. f[i + 1] = step[i + 1][f[i]] /\ g[i + 1] = more[i + 1][g[i]]
    BY <2>1 DEF Runs
  <2>3. more[i + 1] = step[i + 1]
    BY <2>1 DEF Agree
  <2> QED
    BY <2>1, <2>2, <2>3
<1>3. Nat \subseteq T
  <2> HIDE DEF T
  <2> QED
    BY <1>1, <1>2, SetInduction
<1> QED
  BY <1>3 DEF Agree

-----------------------------------------------------------------------------
(***************************************************************************)
(* What the keys of an argument mean, key by key.                          *)
(***************************************************************************)
DigitSteps(keys) ==
    [i \in 1 .. Len(keys) |->
        [x \in Nat |-> IF keys[i] \in DOMAIN DigitOf THEN 10 * x + DigitOf[keys[i]] ELSE x]]

FourSteps(keys) ==
    [i \in 1 .. Len(keys) |->
        [x \in Nat |-> IF keys[i] \in Minus THEN 1
                       ELSE IF keys[i] = "C-u" /\ 4 * x <= MaxCount THEN 4 * x ELSE x]]

LEMMA DigitsAreNumbers ==
    \A k \in DOMAIN DigitOf : DigitOf[k] \in Nat /\ k \notin Minus /\ k # "C-u"
BY DEF DigitOf, Minus

LEMMA StepsTyped ==
    ASSUME NEW keys \in Seq(Keys)
    PROVE  /\ DigitSteps(keys) \in [1 .. Len(keys) -> [Nat -> Nat]]
           /\ FourSteps(keys) \in [1 .. Len(keys) -> [Nat -> Nat]]
<1>1. \A i \in 1 .. Len(keys), x \in Nat :
          keys[i] \in DOMAIN DigitOf => 10 * x + DigitOf[keys[i]] \in Nat
  BY DigitsAreNumbers
<1>2. \A i \in 1 .. Len(keys) : DigitSteps(keys)[i] \in [Nat -> Nat]
  BY <1>1 DEF DigitSteps
<1>3. \A i \in 1 .. Len(keys) : FourSteps(keys)[i] \in [Nat -> Nat]
  BY DEF FourSteps
<1> QED
  BY <1>2, <1>3 DEF DigitSteps, FourSteps

LEMMA NumberRuns ==
    ASSUME NEW keys \in Seq(Keys)
    PROVE  \E f : /\ Runs(f, Nat, Len(keys), 0, DigitSteps(keys))
                  /\ Number(keys) = f[Len(keys)]
<1> DEFINE n == Len(keys)
           step == DigitSteps(keys)
           Def(s) == s = [i \in 0 .. n |->
                            IF i = 0 THEN 0
                            ELSE IF keys[i] \in DOMAIN DigitOf
                            THEN 10 * s[i - 1] + DigitOf[keys[i]]
                            ELSE s[i - 1]]
           f == CHOOSE s : Def(s)
<1>1. n \in Nat /\ step \in [1 .. n -> [Nat -> Nat]]
  BY StepsTyped, LenProperties
<1>2. \A i \in 1 .. n, x \in Nat :
          step[i][x] = IF keys[i] \in DOMAIN DigitOf THEN 10 * x + DigitOf[keys[i]] ELSE x
  BY DEF DigitSteps
<1>3. Number(keys) = f[n]
  BY DEF Number
<1> HIDE DEF step
<1>4. PICK g : Runs(g, Nat, n, 0, step)
  BY <1>1, RunsExist
<1>5. Def(g)
  <2>1. /\ g[0] = 0 /\ \A i \in 0 .. n : g[i] \in Nat
        /\ \A i \in 1 .. n : g[i] = step[i][g[i - 1]]
    BY <1>4 DEF Runs
  <2>2. ASSUME NEW i \in 0 .. n
        PROVE  g[i] = IF i = 0 THEN 0
                      ELSE IF keys[i] \in DOMAIN DigitOf
                      THEN 10 * g[i - 1] + DigitOf[keys[i]]
                      ELSE g[i - 1]
    <3>1. CASE i = 0
      BY <2>1, <3>1
    <3>2. CASE i # 0
      <4>1. i \in 1 .. n /\ i - 1 \in 0 .. n
        BY <1>1, <3>2
      <4> QED
        BY <1>2, <2>1, <3>2, <4>1
    <3> QED
      BY <3>1, <3>2
  <2>3. g = [i \in 0 .. n |-> g[i]]
    BY <1>4 DEF Runs
  <2> HIDE DEF n
  <2> QED
    BY <2>2, <2>3, Zenon
<1>6. Def(f)
  <2> HIDE DEF Def
  <2> QED
    BY <1>5
<1> HIDE DEF f
<1>7. IsOver(f, n)
  <2> HIDE DEF n
  <2>1. f = [i \in 0 .. n |-> f[i]]
    BY <1>6
  <2> QED
    BY <2>1 DEF IsOver
<1>8. f[0] = 0 /\ \A i \in 1 .. n : f[i] = IF keys[i] \in DOMAIN DigitOf
                                            THEN 10 * f[i - 1] + DigitOf[keys[i]]
                                            ELSE f[i - 1]
  <2> HIDE DEF n, Def
  <2>1. \A i \in 0 .. n : f[i] = IF i = 0 THEN 0
                                ELSE IF keys[i] \in DOMAIN DigitOf
                                THEN 10 * f[i - 1] + DigitOf[keys[i]]
                                ELSE f[i - 1]
    BY <1>6, Zenon DEF Def
  <2>2. 0 \in 0 .. n /\ \A i \in 1 .. n : i \in 0 .. n /\ i # 0
    BY <1>1
  <2> QED
    BY <2>1, <2>2, Zenon
<1>9. Runs(f, Nat, n, 0, step)
  <2>1. 0 \in Nat /\ \A i \in 1 .. n : f[i - 1] \in Nat => f[i] = step[i][f[i - 1]]
    BY <1>2, <1>8
  <2> HIDE DEF n, Def
  <2> QED
    BY <1>1, <1>7, <1>8, <2>1, RunsTyped
<1> QED
  BY <1>3, <1>9 DEF step

LEMMA FoursRuns ==
    ASSUME NEW keys \in Seq(Keys)
    PROVE  \E f : /\ Runs(f, Nat, Len(keys), 1, FourSteps(keys))
                  /\ Fours(keys) = f[Len(keys)]
<1> DEFINE n == Len(keys)
           step == FourSteps(keys)
           Def(s) == s = [i \in 0 .. n |->
                            IF i = 0 \/ keys[i] \in Minus THEN 1
                            ELSE IF keys[i] = "C-u" /\ 4 * s[i - 1] <= MaxCount THEN 4 * s[i - 1]
                            ELSE s[i - 1]]
           f == CHOOSE s : Def(s)
<1>1. n \in Nat /\ step \in [1 .. n -> [Nat -> Nat]]
  BY StepsTyped, LenProperties
<1>2. \A i \in 1 .. n, x \in Nat :
          step[i][x] = IF keys[i] \in Minus THEN 1
                       ELSE IF keys[i] = "C-u" /\ 4 * x <= MaxCount THEN 4 * x ELSE x
  BY DEF FourSteps
<1>3. Fours(keys) = f[n]
  BY DEF Fours
<1> HIDE DEF step
<1>4. PICK g : Runs(g, Nat, n, 1, step)
  BY <1>1, RunsExist
<1>5. Def(g)
  <2>1. /\ g[0] = 1 /\ \A i \in 0 .. n : g[i] \in Nat
        /\ \A i \in 1 .. n : g[i] = step[i][g[i - 1]]
    BY <1>4 DEF Runs
  <2>2. ASSUME NEW i \in 0 .. n
        PROVE  g[i] = IF i = 0 \/ keys[i] \in Minus THEN 1
                      ELSE IF keys[i] = "C-u" /\ 4 * g[i - 1] <= MaxCount THEN 4 * g[i - 1]
                      ELSE g[i - 1]
    <3>1. CASE i = 0
      BY <2>1, <3>1
    <3>2. CASE i # 0
      <4>1. i \in 1 .. n /\ i - 1 \in 0 .. n
        BY <1>1, <3>2
      <4> QED
        BY <1>2, <2>1, <3>2, <4>1
    <3> QED
      BY <3>1, <3>2
  <2>3. g = [i \in 0 .. n |-> g[i]]
    BY <1>4 DEF Runs
  <2> HIDE DEF n
  <2> QED
    BY <2>2, <2>3, Zenon
<1>6. Def(f)
  <2> HIDE DEF Def
  <2> QED
    BY <1>5
<1> HIDE DEF f
<1>7. IsOver(f, n)
  <2> HIDE DEF n
  <2>1. f = [i \in 0 .. n |-> f[i]]
    BY <1>6
  <2> QED
    BY <2>1 DEF IsOver
<1>8. f[0] = 1 /\ \A i \in 1 .. n : f[i] = IF keys[i] \in Minus THEN 1
                                            ELSE IF keys[i] = "C-u" /\ 4 * f[i - 1] <= MaxCount
                                            THEN 4 * f[i - 1]
                                            ELSE f[i - 1]
  <2> HIDE DEF n, Def
  <2>1. \A i \in 0 .. n : f[i] = IF i = 0 \/ keys[i] \in Minus THEN 1
                                ELSE IF keys[i] = "C-u" /\ 4 * f[i - 1] <= MaxCount
                                THEN 4 * f[i - 1]
                                ELSE f[i - 1]
    BY <1>6, Zenon DEF Def
  <2>2. 0 \in 0 .. n /\ \A i \in 1 .. n : i \in 0 .. n /\ i # 0
    BY <1>1
  <2> QED
    BY <2>1, <2>2, Zenon
<1>9. Runs(f, Nat, n, 1, step)
  <2>1. 1 \in Nat /\ \A i \in 1 .. n : f[i - 1] \in Nat => f[i] = step[i][f[i - 1]]
    BY <1>2, <1>8
  <2> HIDE DEF n, Def
  <2> QED
    BY <1>1, <1>7, <1>8, <2>1, RunsTyped
<1> QED
  BY <1>3, <1>9 DEF step

\* One more key: what it makes of what the keys before it meant.
LEMMA NumberGrows ==
    ASSUME NEW keys \in Seq(Keys), NEW k \in Keys
    PROVE  /\ Number(keys) \in Nat
           /\ Number(Append(keys, k)) =
                IF k \in DOMAIN DigitOf THEN 10 * Number(keys) + DigitOf[k]
                ELSE Number(keys)
<1> DEFINE n == Len(keys)
           more == Append(keys, k)
<1>1. /\ n \in Nat /\ more \in Seq(Keys) /\ Len(more) = n + 1 /\ more[n + 1] = k
      /\ \A i \in 1 .. n : more[i] = keys[i]
  OBVIOUS
<1>2. PICK f : Runs(f, Nat, n, 0, DigitSteps(keys)) /\ Number(keys) = f[n]
  BY NumberRuns
<1>3. PICK g : Runs(g, Nat, n + 1, 0, DigitSteps(more)) /\ Number(more) = g[n + 1]
  BY <1>1, NumberRuns
<1>4. \A i \in 1 .. n : DigitSteps(more)[i] = DigitSteps(keys)[i]
  BY <1>1 DEF DigitSteps
<1>5. g[n] = f[n]
  <2>1. Agree(f, g, 0, n)
    <3>1. n + 1 \in Nat /\ n <= n + 1
      BY <1>1
    <3>2. n \in Nat
      BY <1>1
    <3> DEFINE none == 0
               step == DigitSteps(keys)
               further == DigitSteps(more)
    <3>3. Runs(f, Nat, n, none, step) /\ Runs(g, Nat, n + 1, none, further)
      BY <1>2, <1>3
    <3>4. Agree(step, further, 1, n)
      BY <1>4 DEF Agree
    <3> HIDE DEF n, more, none, step, further
    <3> QED
      BY <3>1, <3>2, <3>3, <3>4, RunsOnly
  <2> QED
    BY <1>1, <2>1 DEF Agree
<1>6. f[n] \in Nat
  BY <1>1, <1>2 DEF Runs
<1>7. g[n + 1] = DigitSteps(more)[n + 1][g[n]]
  <2>1. n + 1 \in 1 .. n + 1 /\ (n + 1) - 1 = n
    BY <1>1
  <2> HIDE DEF n, more
  <2> QED
    BY <1>3, <2>1 DEF Runs
<1>8. DigitSteps(more)[n + 1][g[n]] =
        IF k \in DOMAIN DigitOf THEN 10 * f[n] + DigitOf[k] ELSE f[n]
  <2>1. \A i \in 1 .. Len(more), x \in Nat :
          DigitSteps(more)[i][x] = IF more[i] \in DOMAIN DigitOf
                                   THEN 10 * x + DigitOf[more[i]] ELSE x
    BY DEF DigitSteps
  <2>2. n + 1 \in 1 .. Len(more) /\ more[n + 1] = k /\ g[n] \in Nat
    BY <1>1, <1>5, <1>6
  <2> HIDE DEF n, more
  <2>3. DigitSteps(more)[n + 1][g[n]] =
          IF more[n + 1] \in DOMAIN DigitOf
          THEN 10 * g[n] + DigitOf[more[n + 1]] ELSE g[n]
    BY <2>1, <2>2, Zenon
  <2> QED
    BY <1>5, <2>2, <2>3
<1> QED
  BY <1>2, <1>3, <1>6, <1>7, <1>8

LEMMA FoursGrow ==
    ASSUME NEW keys \in Seq(Keys), NEW k \in Keys
    PROVE  /\ Fours(keys) \in Nat
           /\ Fours(Append(keys, k)) =
                IF k \in Minus THEN 1
                ELSE IF k = "C-u" /\ 4 * Fours(keys) <= MaxCount THEN 4 * Fours(keys)
                ELSE Fours(keys)
<1> DEFINE n == Len(keys)
           more == Append(keys, k)
<1>1. /\ n \in Nat /\ more \in Seq(Keys) /\ Len(more) = n + 1 /\ more[n + 1] = k
      /\ \A i \in 1 .. n : more[i] = keys[i]
  OBVIOUS
<1>2. PICK f : Runs(f, Nat, n, 1, FourSteps(keys)) /\ Fours(keys) = f[n]
  BY FoursRuns
<1>3. PICK g : Runs(g, Nat, n + 1, 1, FourSteps(more)) /\ Fours(more) = g[n + 1]
  BY <1>1, FoursRuns
<1>4. \A i \in 1 .. n : FourSteps(more)[i] = FourSteps(keys)[i]
  BY <1>1 DEF FourSteps
<1>5. g[n] = f[n]
  <2>1. Agree(f, g, 0, n)
    <3>1. n + 1 \in Nat /\ n <= n + 1
      BY <1>1
    <3>2. n \in Nat
      BY <1>1
    <3> DEFINE none == 1
               step == FourSteps(keys)
               further == FourSteps(more)
    <3>3. Runs(f, Nat, n, none, step) /\ Runs(g, Nat, n + 1, none, further)
      BY <1>2, <1>3
    <3>4. Agree(step, further, 1, n)
      BY <1>4 DEF Agree
    <3> HIDE DEF n, more, none, step, further
    <3> QED
      BY <3>1, <3>2, <3>3, <3>4, RunsOnly
  <2> QED
    BY <1>1, <2>1 DEF Agree
<1>6. f[n] \in Nat
  BY <1>1, <1>2 DEF Runs
<1>7. g[n + 1] = FourSteps(more)[n + 1][g[n]]
  <2>1. n + 1 \in 1 .. n + 1 /\ (n + 1) - 1 = n
    BY <1>1
  <2> HIDE DEF n, more
  <2> QED
    BY <1>3, <2>1 DEF Runs
<1>8. FourSteps(more)[n + 1][g[n]] =
        IF k \in Minus THEN 1
        ELSE IF k = "C-u" /\ 4 * f[n] <= MaxCount THEN 4 * f[n] ELSE f[n]
  <2>1. \A i \in 1 .. Len(more), x \in Nat :
          FourSteps(more)[i][x] = IF more[i] \in Minus THEN 1
                                  ELSE IF more[i] = "C-u" /\ 4 * x <= MaxCount THEN 4 * x ELSE x
    BY DEF FourSteps
  <2>2. n + 1 \in 1 .. Len(more) /\ more[n + 1] = k /\ g[n] \in Nat
    BY <1>1, <1>5, <1>6
  <2> HIDE DEF n, more
  <2>3. FourSteps(more)[n + 1][g[n]] =
          IF more[n + 1] \in Minus THEN 1
          ELSE IF more[n + 1] = "C-u" /\ 4 * g[n] <= MaxCount THEN 4 * g[n] ELSE g[n]
    BY <2>1, <2>2, Zenon
  <2> QED
    BY <1>5, <2>2, <2>3
<1> QED
  BY <1>2, <1>3, <1>6, <1>7, <1>8

LEMMA NothingMeant == Number(<<>>) = 0 /\ Fours(<<>>) = 1
<1>1. <<>> \in Seq(Keys) /\ Len(<<>>) = 0
  OBVIOUS
<1>2. PICK f : Runs(f, Nat, 0, 0, DigitSteps(<<>>)) /\ Number(<<>>) = f[0]
  BY <1>1, NumberRuns
<1>3. PICK g : Runs(g, Nat, 0, 1, FourSteps(<<>>)) /\ Fours(<<>>) = g[0]
  BY <1>1, FoursRuns
<1> QED
  BY <1>2, <1>3 DEF Runs

LEMMA HasGrows ==
    ASSUME NEW keys \in Seq(Keys), NEW k \in Keys, NEW S
    PROVE  Has(Append(keys, k), S) <=> Has(keys, S) \/ k \in S
<1> DEFINE more == Append(keys, k)
<1>1. /\ more \in Seq(Keys) /\ Len(keys) \in Nat /\ Len(more) = Len(keys) + 1
      /\ more[Len(keys) + 1] = k
      /\ \A i \in 1 .. Len(keys) : more[i] = keys[i]
  OBVIOUS
<1>2. DOMAIN more = 1 .. Len(keys) + 1 /\ DOMAIN keys = 1 .. Len(keys)
  BY <1>1
<1> HIDE DEF more
<1>3. \A i \in 1 .. Len(keys) + 1 : i \in 1 .. Len(keys) \/ i = Len(keys) + 1
  BY <1>1
<1>4. 1 .. Len(keys) \subseteq 1 .. Len(keys) + 1 /\ Len(keys) + 1 \in 1 .. Len(keys) + 1
  BY <1>1
<1>5. Has(more, S) => Has(keys, S) \/ k \in S
  BY <1>1, <1>2, <1>3 DEF Has
<1>6. Has(keys, S) \/ k \in S => Has(more, S)
  BY <1>1, <1>2, <1>4 DEF Has
<1> QED
  BY <1>5, <1>6 DEF more

LEMMA HasNothing == \A S : ~Has(<<>>, S)
BY DEF Has

-----------------------------------------------------------------------------
(***************************************************************************)
(* The shape of KeyInput's state, and the argument under way.              *)
(***************************************************************************)
Digits == DOMAIN DigitOf

\* What an unfinished sequence can be.
Unfinished == {<<>>, <<"C-x">>}

\* The keys typed so far and the prefix they made.
Stands ==
    /\ prefix_negative <=> Has(typed, Minus)
    /\ prefix_digits <=> Has(typed, Digits)
    /\ prefix_value = IF Has(typed, Digits) THEN Number(typed) ELSE Fours(typed)

ArgumentInv ==
    /\ prefix_set <=> typed # <<>>
    /\ typed = <<>> /\ after = "command" => ~prefix_negative
    /\ typed # <<>> => Stands
    /\ ~Has(typed, Digits) => Number(typed) = 0

RanInv ==
    ran.after = "command" \/ ran.typed # <<>> =>
        ran.count = Meaning(ran.typed) /\ ran.explicit = (ran.typed # <<>>)

\* The state but for what is playing.
Shape ==
    /\ prefix_set \in BOOLEAN /\ prefix_digits \in BOOLEAN /\ prefix_negative \in BOOLEAN
    /\ prefix_value \in 0 .. 10 * MaxBeforeDigit + 9
    /\ key_prefix \in Unfinished
    /\ macro_keys \in Seq(Keys) /\ Len(macro_keys) <= MaxMacro
    /\ macro_recording \in BOOLEAN
    /\ ran.count \in -MaxCount .. MaxCount /\ ran.explicit \in BOOLEAN
    /\ typed \in Seq(Keys) /\ body \in Seq(Keys)
    /\ after \in {"command", "quit", "undefined"}

PlayingInv ==
    /\ playing \in [left : Nat, at : 0 .. MaxMacro + 1]
    /\ Playing => playing.at >= 1

InputInv == Shape /\ PlayingInv /\ ArgumentInv /\ RanInv

LEMMA Bounds ==
    /\ MaxTyped \in Nat /\ MaxCount \in Nat /\ MaxMacro \in Nat /\ MaxCount >= 4
    /\ MaxBeforeDigit \in Nat /\ MaxUniversal \in Nat
    /\ MaxCount <= 10 * MaxBeforeDigit + 9
    /\ \A v \in Nat : v <= MaxUniversal <=> 4 * v <= MaxCount
<1>1. {MaxTyped, MaxCount, MaxMacro} \subseteq Nat /\ MaxCount >= 4
  BY LimitAssumption
<1>2. MaxBeforeDigit \in Nat /\ MaxCount <= 10 * MaxBeforeDigit + 9
  BY <1>1 DEF MaxBeforeDigit
<1>3. MaxUniversal \in Nat /\ \A v \in Nat : v <= MaxUniversal <=> 4 * v <= MaxCount
  BY <1>1 DEF MaxUniversal
<1> QED
  BY <1>1, <1>2, <1>3

LEMMA Whole ==
    ASSUME NEW S, NEW s \in Seq(S)
    PROVE  SubSeq(s, 1, Len(s)) = s
OBVIOUS

LEMMA FirstOfTwo ==
    ASSUME NEW a, NEW b
    PROVE  /\ SubSeq(<<a, b>>, 1, 1) = <<a>> /\ SubSeq(<<a, b>>, 1, 2) = <<a, b>>
           /\ Len(<<a, b>>) = 2
<1>1. <<a, b>> \in Seq({a, b}) /\ Len(<<a, b>>) = 2
  OBVIOUS
<1>2. SubSeq(<<a, b>>, 1, 2) = <<a, b>>
  BY <1>1, Whole
<1>3. SubSeq(<<a, b>>, 1, 1) = <<a>>
  <2> DEFINE t == SubSeq(<<a, b>>, 1, 1)
  <2>1. t \in Seq({a, b}) /\ Len(t) = 1 /\ t[1] = a
    BY <1>1
  <2>2. <<a>> \in Seq({a, b}) /\ Len(<<a>>) = 1 /\ <<a>>[1] = a
    OBVIOUS
  <2> HIDE DEF t
  <2>3. \A i \in 1 .. Len(t) : t[i] = <<a>>[i]
    BY <2>1, <2>2
  <2>4. t = <<a>>
    BY <2>1, <2>2, <2>3, SeqEqual
  <2> QED
    BY <2>4 DEF t
<1> QED
  BY <1>1, <1>2, <1>3

LEMMA AppendSecond ==
    ASSUME NEW a, NEW b
    PROVE  Append(<<a>>, b) = <<a, b>>
<1> DEFINE t == Append(<<a>>, b)
<1>1. <<a>> \in Seq({a, b}) /\ b \in {a, b}
  OBVIOUS
<1>2. t \in Seq({a, b}) /\ Len(t) = 2 /\ t[1] = a /\ t[2] = b
  BY <1>1
<1>3. <<a, b>> \in Seq({a, b}) /\ Len(<<a, b>>) = 2 /\ <<a, b>>[1] = a /\ <<a, b>>[2] = b
  OBVIOUS
<1> HIDE DEF t
<1>4. \A i \in 1 .. Len(t) : t[i] = <<a, b>>[i]
  BY <1>2, <1>3
<1>5. t = <<a, b>>
  BY <1>2, <1>3, <1>4, SeqEqual
<1> QED
  BY <1>5 DEF t

\* The key map: what begins a sequence, and which sequence ends a macro.
LEMMA KeyMap ==
    /\ <<>> \in Unfinished
    /\ \A s \in Unfinished : \E b \in DOMAIN Bindings : IsStrictPrefix(s, b)
    /\ \A s \in Unfinished, k \in Keys :
          IsPrefixKey(Append(s, k)) => s = <<>> /\ Append(s, k) \in Unfinished
    /\ \A s \in Unfinished, k \in Keys :
          Append(s, k) \in DOMAIN Bindings /\ Bindings[Append(s, k)] = "end-kbd-macro"
          => s = <<"C-x">>
<1> DEFINE Short == <<"C-f">>
           Start == <<"C-x", "(">>
           End == <<"C-x", ")">>
           Call == <<"C-x", "e">>
<1>1. DOMAIN Bindings = {Short, Start, End, Call}
  BY DEF Bindings
<1>2. /\ Len(Short) = 1 /\ Short[1] = "C-f"
      /\ \A b \in {Start, End, Call} : Len(b) = 2 /\ b[1] = "C-x"
  OBVIOUS
<1>3. \A b \in DOMAIN Bindings : Bindings[b] = "end-kbd-macro" => b = End
  BY <1>1 DEF Bindings
<1>4. ASSUME NEW s \in Unfinished
      PROVE  \E b \in DOMAIN Bindings : IsStrictPrefix(s, b)
  <2>1. CASE s = <<>>
    <3>1. Len(<<>>) <= Len(Short) /\ SubSeq(<<>>, 1, 0) = SubSeq(Short, 1, 0) /\ <<>> # Short
      OBVIOUS
    <3> QED
      BY <1>1, <2>1, <3>1 DEF IsStrictPrefix, IsPrefix
  <2>2. CASE s = <<"C-x">>
    <3>1. /\ Len(<<"C-x">>) = 1 /\ Len(Start) = 2
          /\ SubSeq(<<"C-x">>, 1, 1) = SubSeq(Start, 1, 1) /\ <<"C-x">> # Start
      OBVIOUS
    <3> QED
      BY <1>1, <2>2, <3>1 DEF IsStrictPrefix, IsPrefix
  <2> QED
    BY <2>1, <2>2 DEF Unfinished
<1>5. ASSUME NEW s \in Unfinished, NEW k \in Keys, IsPrefixKey(Append(s, k))
      PROVE  s = <<>> /\ Append(s, k) \in Unfinished
  <2>1. PICK b \in {Short, Start, End, Call} :
            /\ Len(Append(s, k)) <= Len(b) /\ Append(s, k) # b
            /\ SubSeq(Append(s, k), 1, Len(Append(s, k))) = SubSeq(b, 1, Len(Append(s, k)))
    BY <1>1, <1>5 DEF IsPrefixKey, IsStrictPrefix, IsPrefix
  <2>2. CASE s = <<>>
    <3>1. Append(s, k) = <<k>> /\ Len(<<k>>) = 1 /\ SubSeq(<<k>>, 1, 1) = <<k>>
      <4>1. Append(s, k) = <<k>>
        BY <2>2
      <4>2. <<k>> \in Seq({k}) /\ Len(<<k>>) = 1
        OBVIOUS
      <4> QED
        BY <4>1, <4>2, Whole
    <3>2. <<k>> # b /\ <<k>> = SubSeq(b, 1, 1)
      BY <2>1, <3>1
    <3>3. b # Short
      BY <3>2
    <3>4. SubSeq(b, 1, 1) = <<"C-x">>
      BY <3>3, FirstOfTwo
    <3> QED
      BY <2>2, <3>1, <3>2, <3>4 DEF Unfinished
  <2>3. CASE s = <<"C-x">>
    <3>1. Append(s, k) = <<"C-x", k>> /\ Len(<<"C-x", k>>) = 2
          /\ SubSeq(<<"C-x", k>>, 1, 2) = <<"C-x", k>>
      <4>1. Append(s, k) = <<"C-x", k>>
        BY <2>3, AppendSecond
      <4> QED
        BY <4>1, FirstOfTwo
    <3>2. <<"C-x", k>> # b /\ 2 <= Len(b) /\ <<"C-x", k>> = SubSeq(b, 1, 2)
      BY <2>1, <3>1
    <3>3. b # Short
      BY <1>2, <3>2
    <3>4. SubSeq(b, 1, 2) = b
      BY <3>3, FirstOfTwo
    <3> QED
      BY <3>2, <3>4
  <2> QED
    BY <2>2, <2>3 DEF Unfinished
<1>6. ASSUME NEW s \in Unfinished, NEW k \in Keys, Append(s, k) = End
      PROVE  s = <<"C-x">>
  <2>1. s # <<>>
    BY <1>6
  <2> QED
    BY <2>1 DEF Unfinished
<1>7. <<>> \in Unfinished
  BY DEF Unfinished
<1>8. \A s \in Unfinished, k \in Keys :
          Append(s, k) \in DOMAIN Bindings /\ Bindings[Append(s, k)] = "end-kbd-macro"
          => s = <<"C-x">>
  <2> HIDE DEF Short, Start, End, Call
  <2> QED
    BY <1>3, <1>6, Zenon
<1> QED
  BY <1>4, <1>5, <1>7, <1>8

\* A key, by what editor_key takes it for.
LEMMA HandleCases ==
    ASSUME NEW k, Handle(k)
    PROVE  \/ KeyboardQuit(k)
           \/ k = "C-u" /\ UniversalArgument /\ Recording(k, FALSE)
           \/ IsArgumentKey(k) /\ ArgumentKey(k)
           \/ Append(key_prefix, k) \in DOMAIN Bindings /\ Command(k)
           \/ IsPrefixKey(Append(key_prefix, k)) /\ Sequence(k)
           \/ key_prefix = <<>> /\ SelfInsertKey(k)
           \/ Undefined(k)
BY DEF Handle

LEMMA RecordedTyped ==
    ASSUME Shape, NEW k \in Keys, Len(Recorded(k)) <= MaxMacro
    PROVE  /\ Recorded(k) \in Seq(Keys)
           /\ \A ends \in BOOLEAN : Recording(k, ends) =>
                /\ macro_keys' \in Seq(Keys) /\ Len(macro_keys') <= MaxMacro
                /\ macro_recording' \in BOOLEAN /\ body' \in Seq(Keys)
<1>1. Recorded(k) \in Seq(Keys)
  BY DEF Shape, Recorded
<1> QED
  BY <1>1 DEF Shape, Recording

\* What a command is given is within the limit, and is what was typed.
LEMMA CountMeans ==
    ASSUME Shape, ArgumentInv
    PROVE  /\ Count \in Int
           /\ after = "command" \/ typed # <<>> =>
                Count = Meaning(typed) /\ prefix_set = (typed # <<>>)
<1>1. Count \in Int
  BY Bounds DEF Shape, Count
<1>2. CASE typed = <<>>
  <2>1. Meaning(<<>>) = 1
    BY NothingMeant, HasNothing DEF Meaning
  <2>2. prefix_set = FALSE
    BY <1>2 DEF Shape, ArgumentInv
  <2>3. after = "command" => ~prefix_negative
    BY <1>2 DEF ArgumentInv
  <2>4. after = "command" => Count = 1
    BY <2>2, <2>3 DEF Count
  <2> QED
    BY <1>1, <1>2, <2>1, <2>2, <2>4
<1>3. CASE typed # <<>>
  <2>1. prefix_set = TRUE /\ Stands
    BY <1>3 DEF Shape, ArgumentInv
  <2>2. Count = Meaning(typed)
    BY <2>1 DEF Stands, Count, Meaning, Digits
  <2> QED
    BY <1>1, <1>3, <2>1, <2>2
<1> QED
  BY <1>2, <1>3

-----------------------------------------------------------------------------
(***************************************************************************)
(* One key keeps the argument.                                             *)
(***************************************************************************)
\* Nothing run.
LEMMA NothingRan ==
    ASSUME ran' = Nothing
    PROVE  /\ RanInv'
           /\ ran'.count \in -MaxCount .. MaxCount /\ ran'.explicit \in BOOLEAN
<1>1. Meaning(<<>>) = 1
  BY NothingMeant, HasNothing DEF Meaning
<1>2. /\ ran'.count = 1 /\ ran'.explicit = FALSE /\ ran'.typed = <<>>
  BY DEF Nothing
<1>3. RanInv'
  BY <1>1, <1>2 DEF RanInv
<1>4. 1 \in -MaxCount .. MaxCount
  BY Bounds
<1> QED
  BY <1>2, <1>3, <1>4

\* A command run with the argument.
LEMMA CommandRan ==
    ASSUME Shape, ArgumentInv, NEW name,
           Count \in -MaxCount .. MaxCount,
           Run(name, Count, prefix_set)
    PROVE  /\ RanInv'
           /\ ran'.count \in -MaxCount .. MaxCount /\ ran'.explicit \in BOOLEAN
<1>1. /\ ran'.count = Count /\ ran'.explicit = prefix_set
      /\ ran'.typed = typed /\ ran'.after = after
  BY DEF Run
<1>2. RanInv'
  BY <1>1, CountMeans DEF RanInv
<1> QED
  BY <1>1, <1>2 DEF Shape

\* The argument is over.
LEMMA ArgumentOver ==
    ASSUME Shape, NEW how, InputEnds(how),
           \/ TakeArgument
           \/ DropArgument /\ how \in {"quit", "undefined"}
    PROVE  /\ ArgumentInv'
           /\ prefix_set' \in BOOLEAN /\ prefix_digits' \in BOOLEAN /\ prefix_negative' \in BOOLEAN
           /\ prefix_value' = prefix_value
           /\ key_prefix' = <<>> /\ typed' = <<>> /\ after' = how
<1>1. key_prefix' = <<>> /\ typed' = <<>> /\ after' = how
  BY DEF InputEnds
<1>2. prefix_set' = FALSE /\ prefix_value' = prefix_value
  BY DEF TakeArgument, DropArgument
<1>3. prefix_digits' \in BOOLEAN /\ prefix_negative' \in BOOLEAN
  BY DEF TakeArgument, DropArgument, Shape
<1>4. how = "command" => ~prefix_negative'
  BY DEF TakeArgument
<1>5. Number(typed') = 0
  BY <1>1, NothingMeant
<1>6. ArgumentInv'
  BY <1>1, <1>2, <1>4, <1>5 DEF ArgumentInv
<1> QED
  BY <1>1, <1>2, <1>3, <1>6

\* The argument stays as it is.
LEMMA ArgumentStays ==
    ASSUME ArgumentInv, UNCHANGED <<prefix, typed, after>>
    PROVE  ArgumentInv'
<1>1. /\ prefix_set' = prefix_set /\ prefix_digits' = prefix_digits
      /\ prefix_negative' = prefix_negative /\ prefix_value' = prefix_value
      /\ typed' = typed /\ after' = after
  BY DEF prefix
<1> QED
  BY <1>1 DEF ArgumentInv, Stands

\* The value stays within the range of the code's checks.
LEMMA Shaped ==
    ASSUME Shape, NEW k \in Keys, Len(Recorded(k)) <= MaxMacro,
           NEW ends \in BOOLEAN, Recording(k, ends),
           prefix_set' \in BOOLEAN, prefix_digits' \in BOOLEAN, prefix_negative' \in BOOLEAN,
           prefix_value' \in 0 .. 10 * MaxBeforeDigit + 9,
           key_prefix' \in Unfinished,
           ran'.count \in -MaxCount .. MaxCount, ran'.explicit \in BOOLEAN,
           typed' \in Seq(Keys), after' \in {"command", "quit", "undefined"}
    PROVE  Shape'
<1>1. /\ macro_keys' \in Seq(Keys) /\ Len(macro_keys') <= MaxMacro
      /\ macro_recording' \in BOOLEAN /\ body' \in Seq(Keys)
  BY RecordedTyped
<1> QED
  BY <1>1 DEF Shape

LEMMA UniversalKeeps ==
    ASSUME Shape, ArgumentInv, "C-u" \in Keys,
           UniversalArgument
    PROVE  /\ ArgumentInv'
           /\ prefix_set' \in BOOLEAN /\ prefix_digits' \in BOOLEAN /\ prefix_negative' \in BOOLEAN
           /\ prefix_value' \in 0 .. 10 * MaxBeforeDigit + 9
           /\ key_prefix' = key_prefix /\ typed' \in Seq(Keys) /\ after' = after
           /\ ran' = Nothing
<1> DEFINE limit == 10 * MaxBeforeDigit + 9
           Number0 == Number(typed)
           Fours0 == Fours(typed)
<1>1. /\ MaxCount \in Nat /\ MaxCount >= 4 /\ limit \in Nat /\ MaxCount <= limit
      /\ \A v \in Nat : v <= MaxUniversal <=> 4 * v <= MaxCount
  BY Bounds
<1>2. /\ prefix_set \in BOOLEAN /\ prefix_digits \in BOOLEAN /\ prefix_negative \in BOOLEAN
      /\ prefix_value \in 0 .. limit /\ typed \in Seq(Keys)
  BY DEF Shape
<1>3. /\ prefix_set' = TRUE /\ typed' = Append(typed, "C-u") /\ ran' = Nothing
      /\ key_prefix' = key_prefix /\ after' = after
  BY DEF UniversalArgument, Typed
<1>4. "C-u" \notin Digits /\ "C-u" \notin Minus
  BY DEF Digits, DigitOf, Minus
<1>5. /\ Has(typed', Digits) <=> Has(typed, Digits)
      /\ Has(typed', Minus) <=> Has(typed, Minus)
  BY <1>2, <1>3, <1>4, HasGrows
<1>6. /\ Number0 \in Nat /\ Fours0 \in Nat /\ Number(typed') = Number0
      /\ Fours(typed') = IF 4 * Fours0 <= MaxCount THEN 4 * Fours0 ELSE Fours0
  BY <1>2, <1>3, <1>4, NumberGrows, FoursGrow DEF Digits
<1>7. typed' \in Seq(Keys) /\ typed' # <<>>
  BY <1>2, <1>3
<1>8. ~Has(typed', Digits) => Number(typed') = 0
  BY <1>5, <1>6 DEF ArgumentInv
<1>9. CASE ~prefix_set
  <2>1. prefix_value' = 4 /\ prefix_digits' = FALSE /\ prefix_negative' = FALSE
    BY <1>9 DEF UniversalArgument
  <2>2. typed = <<>>
    BY <1>9 DEF ArgumentInv
  <2>3. Fours0 = 1 /\ ~Has(typed, Digits) /\ ~Has(typed, Minus)
    BY <2>2, NothingMeant, HasNothing
  <2>4. Fours(typed') = 4
    BY <1>1, <1>6, <2>3
  <2>5. Stands'
    BY <1>5, <2>1, <2>3, <2>4 DEF Stands
  <2>6. ArgumentInv'
    BY <1>3, <1>7, <1>8, <2>5 DEF ArgumentInv
  <2>7. prefix_value' \in 0 .. limit
    BY <1>1, <2>1
  <2> QED
    BY <1>3, <1>7, <2>1, <2>6, <2>7
<1>10. CASE prefix_set
  <2>1. /\ prefix_value' = IF ~prefix_digits /\ prefix_value <= MaxUniversal
                           THEN prefix_value * 4 ELSE prefix_value
        /\ prefix_digits' = prefix_digits /\ prefix_negative' = prefix_negative
    BY <1>10 DEF UniversalArgument
  <2>2. Stands
    BY <1>10 DEF ArgumentInv
  <2>3. prefix_value' = IF ~prefix_digits /\ 4 * prefix_value <= MaxCount
                        THEN 4 * prefix_value ELSE prefix_value
    BY <1>1, <1>2, <2>1
  <2>4. prefix_value' = IF Has(typed', Digits) THEN Number(typed')
                                                     ELSE Fours(typed')
    BY <1>5, <1>6, <2>2, <2>3 DEF Stands
  <2>5. Stands'
    BY <1>5, <2>1, <2>2, <2>4 DEF Stands
  <2>6. ArgumentInv'
    BY <1>3, <1>7, <1>8, <2>5 DEF ArgumentInv
  <2>7. prefix_value' \in 0 .. limit
    BY <1>1, <1>2, <2>3
  <2> QED
    BY <1>2, <1>3, <1>7, <2>1, <2>6, <2>7
<1> QED
  BY <1>2, <1>9, <1>10

LEMMA NegativeKeeps ==
    ASSUME Shape, ArgumentInv, NEW k \in Keys,
           Negative(k)
    PROVE  /\ ArgumentInv'
           /\ prefix_set' \in BOOLEAN /\ prefix_digits' \in BOOLEAN /\ prefix_negative' \in BOOLEAN
           /\ prefix_value' \in 0 .. 10 * MaxBeforeDigit + 9
           /\ key_prefix' = key_prefix /\ typed' \in Seq(Keys) /\ after' = after
           /\ ran' = Nothing
<1> DEFINE limit == 10 * MaxBeforeDigit + 9
           begun == Begun
<1>1. MaxCount \in Nat /\ MaxCount >= 4 /\ limit \in Nat /\ MaxCount <= limit
  BY Bounds
<1>2. /\ prefix_set \in BOOLEAN /\ prefix_digits \in BOOLEAN /\ prefix_negative \in BOOLEAN
      /\ prefix_value \in 0 .. limit /\ typed \in Seq(Keys)
  BY DEF Shape
<1>3. /\ k \in Minus
      /\ prefix_set' = TRUE /\ prefix_negative' = TRUE
      /\ prefix_value' = IF begun.digits THEN begun.value ELSE 1
      /\ prefix_digits' = begun.digits
      /\ typed' = Append(typed, k) /\ ran' = Nothing
      /\ key_prefix' = key_prefix /\ after' = after
  BY DEF Negative, Typed
<1>4. k \notin Digits
  BY <1>3, DigitsAreNumbers DEF Digits
<1>5. /\ Has(typed', Digits) <=> Has(typed, Digits)
      /\ Has(typed', Minus)
  BY <1>2, <1>3, <1>4, HasGrows
<1>6. /\ Number(typed') = Number(typed)
      /\ Fours(typed') = 1
  BY <1>2, <1>3, <1>4, NumberGrows, FoursGrow DEF Digits
<1>7. typed' \in Seq(Keys) /\ typed' # <<>>
  BY <1>2, <1>3
<1>8. ~Has(typed', Digits) => Number(typed') = 0
  BY <1>5, <1>6 DEF ArgumentInv
<1>9. /\ begun.digits \in BOOLEAN /\ begun.value \in 0 .. limit
      /\ begun.digits <=> Has(typed, Digits)
      /\ begun.digits => begun.value = Number(typed)
  <2>1. CASE prefix_set
    <3>1. begun.digits = prefix_digits /\ begun.value = prefix_value
      BY <2>1 DEF Begun
    <3>2. Stands
      BY <2>1 DEF ArgumentInv
    <3> QED
      BY <1>2, <3>1, <3>2 DEF Stands
  <2>2. CASE ~prefix_set
    <3>1. begun.digits = FALSE /\ begun.value = 0
      BY <2>2 DEF Begun
    <3>2. ~Has(typed, Digits)
      BY <2>2, HasNothing DEF ArgumentInv
    <3> HIDE DEF begun
    <3>3. begun.value \in 0 .. limit
      BY <1>1, <3>1
    <3> QED
      BY <3>1, <3>2, <3>3
  <2> QED
    BY <1>2, <2>1, <2>2
<1> HIDE DEF begun
<1>10. Stands'
  BY <1>3, <1>5, <1>6, <1>9 DEF Stands
<1>11. ArgumentInv'
  BY <1>3, <1>7, <1>8, <1>10 DEF ArgumentInv
<1>12. prefix_value' \in 0 .. limit
  BY <1>1, <1>3, <1>9
<1> QED
  BY <1>3, <1>7, <1>9, <1>11, <1>12

LEMMA DigitKeeps ==
    ASSUME Shape, ArgumentInv, NEW k \in Keys,
           Digit(k)
    PROVE  /\ ArgumentInv'
           /\ prefix_set' \in BOOLEAN /\ prefix_digits' \in BOOLEAN /\ prefix_negative' \in BOOLEAN
           /\ prefix_value' \in 0 .. 10 * MaxBeforeDigit + 9
           /\ key_prefix' = key_prefix /\ typed' \in Seq(Keys) /\ after' = after
           /\ ran' = Nothing
<1> DEFINE limit == 10 * MaxBeforeDigit + 9
           begun == Begun
           digit == DigitOf[k]
<1>1. MaxBeforeDigit \in Nat /\ limit \in Nat
  BY Bounds
<1>2. /\ prefix_set \in BOOLEAN /\ prefix_digits \in BOOLEAN /\ prefix_negative \in BOOLEAN
      /\ prefix_value \in 0 .. limit /\ typed \in Seq(Keys)
  BY DEF Shape
<1>3. /\ k \in Digits
      /\ begun.digits => begun.value <= MaxBeforeDigit
      /\ prefix_set' = TRUE /\ prefix_negative' = (prefix_set /\ prefix_negative)
      /\ prefix_value' = (IF begun.digits THEN begun.value ELSE 0) * 10 + digit
      /\ prefix_digits' = TRUE
      /\ typed' = Append(typed, k) /\ ran' = Nothing
      /\ key_prefix' = key_prefix /\ after' = after
  BY DEF Digit, DigitValue, Typed, Digits
<1>4. k \notin Minus /\ digit \in 0 .. 1
  BY <1>3 DEF Digits, DigitOf, Minus
<1>5. /\ Has(typed', Digits)
      /\ Has(typed', Minus) <=> Has(typed, Minus)
  BY <1>2, <1>3, <1>4, HasGrows
<1>6. /\ Number(typed) \in Nat
      /\ Number(typed') = 10 * Number(typed) + digit
  BY <1>2, <1>3, NumberGrows DEF Digits
<1>7. typed' \in Seq(Keys) /\ typed' # <<>>
  BY <1>2, <1>3
<1>8. /\ begun.digits \in BOOLEAN /\ begun.value \in 0 .. limit
      /\ (IF begun.digits THEN begun.value ELSE 0) = Number(typed)
      /\ prefix_set /\ prefix_negative <=> Has(typed, Minus)
  <2>1. CASE prefix_set
    <3>1. begun.digits = prefix_digits /\ begun.value = prefix_value
      BY <2>1 DEF Begun
    <3>2. Stands
      BY <2>1 DEF ArgumentInv
    <3>3. ~Has(typed, Digits) => Number(typed) = 0
      BY DEF ArgumentInv
    <3> QED
      BY <1>2, <2>1, <3>1, <3>2, <3>3 DEF Stands
  <2>2. CASE ~prefix_set
    <3>1. begun.digits = FALSE /\ begun.value = 0
      BY <2>2 DEF Begun
    <3>2. typed = <<>>
      BY <2>2 DEF ArgumentInv
    <3> HIDE DEF begun
    <3>3. begun.value \in 0 .. limit
      BY <1>1, <3>1
    <3>4. Number(typed) = 0 /\ ~Has(typed, Minus)
      BY <3>2, NothingMeant, HasNothing
    <3> QED
      BY <2>2, <3>1, <3>3, <3>4
  <2> QED
    BY <1>2, <2>1, <2>2
<1> HIDE DEF begun, digit
<1>9. prefix_value' = Number(typed')
  BY <1>3, <1>4, <1>6, <1>8
<1>10. Stands'
  BY <1>3, <1>5, <1>8, <1>9 DEF Stands
<1>11. ArgumentInv'
  BY <1>3, <1>5, <1>7, <1>10 DEF ArgumentInv
<1>12. prefix_value' \in 0 .. limit
  <2> DEFINE had == IF begun.digits THEN begun.value ELSE 0
             most == MaxBeforeDigit
  <2>1. had \in Nat /\ had <= most /\ most \in Nat
    BY <1>1, <1>3, <1>8
  <2>2. prefix_value' = had * 10 + digit /\ limit = 10 * most + 9
    BY <1>3
  <2> HIDE DEF had, most, limit
  <2> QED
    BY <1>4, <2>1, <2>2
<1>13. prefix_negative' \in BOOLEAN
  BY <1>2, <1>3
<1> QED
  BY <1>3, <1>7, <1>11, <1>12, <1>13

LEMMA ArgumentKeyKeeps ==
    ASSUME Shape, ArgumentInv, RanInv, NEW k \in Keys,
           Len(Recorded(k)) <= MaxMacro, ArgumentKey(k)
    PROVE  Shape' /\ ArgumentInv' /\ RanInv'
<1>1. Recording(k, FALSE) /\ FALSE \in BOOLEAN
  BY DEF ArgumentKey
<1>2. key_prefix \in Unfinished /\ after \in {"command", "quit", "undefined"}
  BY DEF Shape
<1>3. CASE Negative(k)
  <2>1. ran' = Nothing /\ key_prefix' = key_prefix /\ after' = after
    BY <1>3, NegativeKeeps
  <2>2. RanInv' /\ ran'.count \in -MaxCount .. MaxCount /\ ran'.explicit \in BOOLEAN
    BY <2>1, NothingRan
  <2> QED
    BY <1>1, <1>2, <1>3, <2>1, <2>2, NegativeKeeps, Shaped
<1>4. CASE Digit(k)
  <2>1. ran' = Nothing /\ key_prefix' = key_prefix /\ after' = after
    BY <1>4, DigitKeeps
  <2>2. RanInv' /\ ran'.count \in -MaxCount .. MaxCount /\ ran'.explicit \in BOOLEAN
    BY <2>1, NothingRan
  <2> QED
    BY <1>1, <1>2, <1>4, <2>1, <2>2, DigitKeeps, Shaped
<1>5. CASE DigitRefused(k)
  <2>1. ran' = Nothing /\ UNCHANGED <<prefix, key_prefix, typed, after>>
    BY <1>5 DEF DigitRefused
  <2>2. RanInv' /\ ran'.count \in -MaxCount .. MaxCount /\ ran'.explicit \in BOOLEAN
    BY <2>1, NothingRan
  <2>3. ArgumentInv'
    BY <2>1, ArgumentStays
  <2>4. /\ prefix_set' = prefix_set /\ prefix_digits' = prefix_digits
        /\ prefix_negative' = prefix_negative /\ prefix_value' = prefix_value
        /\ key_prefix' = key_prefix /\ typed' = typed /\ after' = after
    BY <2>1 DEF prefix
  <2>5. /\ prefix_set' \in BOOLEAN /\ prefix_digits' \in BOOLEAN /\ prefix_negative' \in BOOLEAN
        /\ prefix_value' \in 0 .. 10 * MaxBeforeDigit + 9
        /\ key_prefix' \in Unfinished /\ typed' \in Seq(Keys)
        /\ after' \in {"command", "quit", "undefined"}
    BY <2>4 DEF Shape
  <2> QED
    BY <1>1, <2>2, <2>3, <2>5, Shaped
<1> QED
  BY <1>3, <1>4, <1>5 DEF ArgumentKey

\* One key, from editor_key once it has been recorded.
LEMMA HandleKeeps ==
    ASSUME Shape, ArgumentInv, RanInv, NEW k \in Keys,
           Len(Recorded(k)) <= MaxMacro, Handle(k)
    PROVE  Shape' /\ ArgumentInv' /\ RanInv'
<1> DEFINE RanOk == RanInv' /\ ran'.count \in -MaxCount .. MaxCount /\ ran'.explicit \in BOOLEAN
           InputOk == /\ prefix_set' \in BOOLEAN /\ prefix_digits' \in BOOLEAN
                      /\ prefix_negative' \in BOOLEAN
                      /\ prefix_value' \in 0 .. 10 * MaxBeforeDigit + 9
                      /\ key_prefix' \in Unfinished /\ typed' \in Seq(Keys)
                      /\ after' \in {"command", "quit", "undefined"}
<1>1. /\ prefix_value \in 0 .. 10 * MaxBeforeDigit + 9
      /\ key_prefix \in Unfinished /\ typed \in Seq(Keys)
      /\ after \in {"command", "quit", "undefined"}
  BY DEF Shape
<1>2. <<>> \in Unfinished /\ <<>> \in Seq(Keys)
  BY KeyMap
<1>3. ASSUME InputOk, RanOk, ArgumentInv', NEW ends \in BOOLEAN, Recording(k, ends)
      PROVE  Shape' /\ ArgumentInv' /\ RanInv'
  BY <1>3, Shaped
<1>4. ASSUME NEW how \in {"command", "quit", "undefined"}, InputEnds(how),
             \/ TakeArgument
             \/ DropArgument /\ how \in {"quit", "undefined"}
      PROVE  InputOk /\ ArgumentInv'
  <2>1. /\ ArgumentInv'
        /\ prefix_set' \in BOOLEAN /\ prefix_digits' \in BOOLEAN /\ prefix_negative' \in BOOLEAN
        /\ prefix_value' = prefix_value
        /\ key_prefix' = <<>> /\ typed' = <<>> /\ after' = how
    BY <1>4, ArgumentOver
  <2> QED
    BY <1>1, <1>2, <2>1
<1>5. CASE KeyboardQuit(k)
  <2>1. /\ DropArgument /\ InputEnds("quit") /\ ran' = Nothing
        /\ macro_recording' = FALSE /\ macro_keys' = Recorded(k)
        /\ body' \in {Recorded(k), body}
    BY <1>5 DEF KeyboardQuit
  <2>2. InputOk /\ ArgumentInv'
    BY <1>4, <2>1
  <2>3. RanOk
    BY <2>1, NothingRan
  <2>4. Recorded(k) \in Seq(Keys) /\ body \in Seq(Keys)
    BY RecordedTyped DEF Shape
  <2>5. Shape'
    BY <2>1, <2>2, <2>3, <2>4 DEF Shape
  <2> QED
    BY <2>2, <2>3, <2>5
<1>6. CASE k = "C-u" /\ UniversalArgument /\ Recording(k, FALSE)
  <2>1. ran' = Nothing /\ key_prefix' = key_prefix /\ after' = after /\ ArgumentInv'
    BY <1>6, UniversalKeeps
  <2>2. RanOk
    BY <2>1, NothingRan
  <2>3. InputOk
    BY <1>1, <1>6, <2>1, UniversalKeeps
  <2> HIDE DEF RanOk, InputOk
  <2> QED
    BY <1>3, <1>6, <2>1, <2>2, <2>3
<1>7. CASE ArgumentKey(k)
  BY <1>7, ArgumentKeyKeeps
<1>8. CASE Append(key_prefix, k) \in DOMAIN Bindings /\ Command(k)
  <2> DEFINE name == Bindings[Append(key_prefix, k)]
  <2>1. /\ TakeArgument /\ InputEnds("command")
        /\ IF CountAllowed
           THEN /\ Run(name, Count, prefix_set)
                /\ StartMacro \/ EndMacro(k) \/ Recording(k, TRUE)
           ELSE Recording(k, TRUE) /\ ran' = Nothing
    BY <1>8 DEF Command
  <2> HIDE DEF name
  <2>2. InputOk /\ ArgumentInv'
    BY <1>4, <2>1
  <2>3. RanOk
    <3>1. CASE CountAllowed
      <4>1. Count \in -MaxCount .. MaxCount
        BY <3>1 DEF CountAllowed
      <4> QED
        BY <2>1, <3>1, <4>1, CommandRan
    <3>2. CASE ~CountAllowed
      BY <2>1, <3>2, NothingRan
    <3> QED
      BY <3>1, <3>2
  <2>4. CASE Recording(k, TRUE)
    <3> HIDE DEF RanOk, InputOk
    <3> QED
      BY <1>3, <2>2, <2>3, <2>4
  <2>5. CASE StartMacro
    <3>1. macro_keys' = <<>> /\ macro_recording' = TRUE /\ body' = <<>>
      BY <2>5 DEF StartMacro
    <3>2. MaxMacro \in Nat
      BY Bounds
    <3>3. macro_keys' \in Seq(Keys) /\ Len(macro_keys') <= MaxMacro
      BY <3>1, <3>2
    <3>4. Shape'
      BY <1>2, <2>2, <2>3, <3>1, <3>3 DEF Shape
    <3> QED
      BY <2>2, <2>3, <3>4
  <2>6. CASE EndMacro(k)
    <3> DEFINE keys == Recorded(k)
    <3>1. /\ macro_recording' = FALSE /\ body' = body
          /\ macro_keys' = IF Len(keys) >= 2 THEN SubSeq(keys, 1, Len(keys) - 2) ELSE keys
      BY <2>6 DEF EndMacro, Chords
    <3>2. keys \in Seq(Keys) /\ body \in Seq(Keys) /\ MaxMacro \in Nat
      BY RecordedTyped, Bounds DEF Shape
    <3>3. Len(keys) <= MaxMacro /\ Len(keys) \in Nat
      BY <3>2
    <3> HIDE DEF keys
    <3>4. macro_keys' \in Seq(Keys) /\ Len(macro_keys') <= MaxMacro
      BY <3>1, <3>2, <3>3
    <3>5. Shape'
      BY <2>2, <2>3, <3>1, <3>2, <3>4 DEF Shape
    <3> QED
      BY <2>2, <2>3, <3>5
  <2> QED
    BY <2>1, <2>4, <2>5, <2>6
<1>9. CASE IsPrefixKey(Append(key_prefix, k)) /\ Sequence(k)
  <2>1. /\ key_prefix' = Append(key_prefix, k) /\ Recording(k, FALSE) /\ ran' = Nothing
        /\ UNCHANGED <<prefix, typed, after>>
    BY <1>9 DEF Sequence
  <2>2. RanOk
    BY <2>1, NothingRan
  <2>3. ArgumentInv'
    BY <2>1, ArgumentStays
  <2>4. key_prefix' \in Unfinished
    BY <1>1, <1>9, <2>1, KeyMap
  <2>5. InputOk
    BY <2>1, <2>4 DEF prefix, Shape
  <2> HIDE DEF RanOk, InputOk
  <2> QED
    BY <1>3, <2>1, <2>2, <2>3, <2>5
<1>10. CASE key_prefix = <<>> /\ SelfInsertKey(k)
  <2>1. /\ TakeArgument /\ InputEnds("command") /\ Recording(k, TRUE)
        /\ IF Count \in 0 .. MaxCount THEN Run("self-insert", Count, prefix_set)
                                            ELSE ran' = Nothing
    BY <1>10 DEF SelfInsertKey
  <2>2. InputOk /\ ArgumentInv'
    BY <1>4, <2>1
  <2>3. RanOk
    <3>1. CASE Count \in 0 .. MaxCount
      <4>1. Count \in -MaxCount .. MaxCount
        <5>1. MaxCount \in Nat
          BY Bounds
        <5> QED
          BY <3>1, <5>1
      <4> QED
        BY <2>1, <3>1, <4>1, CommandRan
    <3>2. CASE Count \notin 0 .. MaxCount
      BY <2>1, <3>2, NothingRan
    <3> QED
      BY <3>1, <3>2
  <2> HIDE DEF RanOk, InputOk
  <2> QED
    BY <1>3, <2>1, <2>2, <2>3
<1>11. CASE Undefined(k)
  <2>1. /\ DropArgument /\ InputEnds("undefined") /\ Recording(k, TRUE)
        /\ ran' = Nothing
    BY <1>11 DEF Undefined
  <2>2. InputOk /\ ArgumentInv'
    BY <1>4, <2>1
  <2>3. RanOk
    BY <2>1, NothingRan
  <2> HIDE DEF RanOk, InputOk
  <2> QED
    BY <1>3, <2>1, <2>2, <2>3
<1> QED
  BY <1>5, <1>6, <1>7, <1>8, <1>9, <1>10, <1>11, HandleCases

\* What may be playing after a key.
LEMMA CallPlays ==
    ASSUME NEW k \in Keys, CallsMacro(k)
    PROVE  /\ [left |-> Count, at |-> 1] \in [left : Nat, at : 0 .. MaxMacro + 1]
           /\ [left |-> Count, at |-> 1] # NotPlaying
<1>1. Count \in Nat /\ 1 \in 0 .. MaxMacro + 1
  BY Bounds DEF CallsMacro
<1> QED
  BY <1>1 DEF NotPlaying

LEMMA PressKeeps ==
    ASSUME InputInv, NEW k \in Keys, Press(k)
    PROVE  InputInv'
<1>1. /\ ~Playing /\ ~Full /\ Handle(k)
      /\ playing' \in {[left |-> Count, at |-> 1], playing}
      /\ playing' # playing => CallsMacro(k)
  BY DEF Press
<1>2. macro_keys \in Seq(Keys) /\ Len(macro_keys) <= MaxMacro /\ MaxMacro \in Nat
  BY Bounds DEF InputInv, Shape
<1>3. Len(Recorded(k)) <= MaxMacro
  <2>1. macro_recording => Len(macro_keys) + 1 <= MaxMacro
    BY <1>1, <1>2 DEF Full
  <2>2. Len(Append(macro_keys, k)) = Len(macro_keys) + 1
    BY <1>2
  <2> QED
    BY <1>2, <2>1, <2>2 DEF Recorded
<1>4. Shape' /\ ArgumentInv' /\ RanInv'
  BY <1>1, <1>3, HandleKeeps DEF InputInv
<1>5. PlayingInv'
  <2>1. CASE playing' = playing
    BY <2>1 DEF InputInv, PlayingInv, Playing
  <2>2. CASE playing' # playing
    <3>1. playing' = [left |-> Count, at |-> 1] /\ CallsMacro(k)
      BY <1>1, <2>2
    <3>2. playing' \in [left : Nat, at : 0 .. MaxMacro + 1]
      BY <3>1, CallPlays
    <3>3. playing'.at >= 1
      BY <3>1
    <3> QED
      BY <3>2, <3>3 DEF PlayingInv
  <2> QED
    BY <2>1, <2>2
<1> QED
  BY <1>4, <1>5 DEF InputInv

LEMMA PlayKeyKeeps ==
    ASSUME InputInv, PlayKey
    PROVE  InputInv'
<1> DEFINE k == macro_keys[playing.at]
<1>1. /\ macro_keys \in Seq(Keys) /\ Len(macro_keys) <= MaxMacro /\ MaxMacro \in Nat
      /\ playing \in [left : Nat, at : 0 .. MaxMacro + 1]
  BY Bounds DEF InputInv, Shape, PlayingInv
<1>2. playing.at \in 1 .. Len(macro_keys)
  BY <1>1 DEF InputInv, PlayingInv, PlayKey
<1>3. k \in Keys
  BY <1>1, <1>2
<1>4. /\ Playing /\ Handle(k)
      /\ playing' \in {[left |-> Count, at |-> 1], [playing EXCEPT !.at = @ + 1]}
      /\ playing' # [playing EXCEPT !.at = @ + 1] => CallsMacro(k)
  BY DEF PlayKey
<1> HIDE DEF k
<1>5. Len(Recorded(k)) <= MaxMacro
  BY <1>1, <1>4 DEF Recorded
<1>6. Shape' /\ ArgumentInv' /\ RanInv'
  BY <1>3, <1>4, <1>5, HandleKeeps DEF InputInv
<1>7. PlayingInv'
  <2>1. CASE playing' = [playing EXCEPT !.at = @ + 1]
    <3>1. playing.at + 1 \in 1 .. MaxMacro + 1 /\ playing.at + 1 \in 0 .. MaxMacro + 1
      BY <1>1, <1>2
    <3>2. playing'.at = playing.at + 1
      BY <1>1, <2>1
    <3>3. playing' \in [left : Nat, at : 0 .. MaxMacro + 1]
      BY <1>1, <2>1, <3>1
    <3>4. playing'.at >= 1
      BY <3>1, <3>2
    <3> QED
      BY <3>3, <3>4 DEF PlayingInv
  <2>2. CASE playing' # [playing EXCEPT !.at = @ + 1]
    <3>1. playing' = [left |-> Count, at |-> 1] /\ CallsMacro(k)
      BY <1>4, <2>2
    <3>2. playing' \in [left : Nat, at : 0 .. MaxMacro + 1]
      BY <1>3, <3>1, CallPlays
    <3>3. playing'.at >= 1
      BY <3>1
    <3> QED
      BY <3>2, <3>3 DEF PlayingInv
  <2> QED
    BY <2>1, <2>2
<1> QED
  BY <1>6, <1>7 DEF InputInv

LEMMA PlayAgainKeeps ==
    ASSUME InputInv, PlayAgain
    PROVE  InputInv'
<1>1. /\ playing' = IF playing.left > 1 THEN [left |-> playing.left - 1, at |-> 1]
                                        ELSE NotPlaying
      /\ UNCHANGED <<prefix, key_prefix, macro_keys, macro_recording, body, ran, typed, after>>
  BY DEF PlayAgain
<1>2. playing.left \in Nat /\ MaxMacro \in Nat
  BY Bounds DEF InputInv, PlayingInv
<1>3. PlayingInv'
  <2>1. CASE playing.left > 1
    <3>1. playing' = [left |-> playing.left - 1, at |-> 1]
      BY <1>1, <2>1
    <3>2. playing.left - 1 \in Nat /\ 1 \in 0 .. MaxMacro + 1
      BY <1>2, <2>1
    <3> QED
      BY <3>1, <3>2 DEF PlayingInv
  <2>2. CASE ~(playing.left > 1)
    BY <1>1, <1>2, <2>2 DEF PlayingInv, Playing, NotPlaying
  <2> QED
    BY <2>1, <2>2
<1>4. ArgumentInv'
  BY <1>1, ArgumentStays DEF InputInv
<1>5. Shape'
  BY <1>1 DEF InputInv, Shape, prefix
<1>6. RanInv'
  BY <1>1 DEF InputInv, RanInv
<1> QED
  BY <1>3, <1>4, <1>5, <1>6 DEF InputInv

LEMMA MacroFullKeeps ==
    ASSUME InputInv, MacroFull
    PROVE  InputInv'
<1>1. /\ macro_recording' = FALSE /\ ran' = Nothing
      /\ UNCHANGED <<prefix, key_prefix, macro_keys, playing, body, typed, after>>
  BY DEF MacroFull
<1>2. ArgumentInv'
  BY <1>1, ArgumentStays DEF InputInv
<1>3. RanInv' /\ ran'.count \in -MaxCount .. MaxCount /\ ran'.explicit \in BOOLEAN
  BY <1>1, NothingRan
<1>4. Shape'
  BY <1>1, <1>3 DEF InputInv, Shape, prefix
<1>5. PlayingInv'
  BY <1>1 DEF InputInv, PlayingInv, Playing
<1> QED
  BY <1>2, <1>3, <1>4, <1>5 DEF InputInv

LEMMA InputStarts ==
    ASSUME InputInit
    PROVE  InputInv
<1>1. /\ prefix_set = FALSE /\ prefix_digits = FALSE /\ prefix_negative = FALSE
      /\ prefix_value = 0 /\ key_prefix = <<>>
      /\ macro_keys = <<>> /\ macro_recording = FALSE /\ playing = NotPlaying
      /\ ran = Nothing
      /\ typed = <<>> /\ after = "command" /\ body = <<>>
  BY DEF InputInit
<1>2. /\ MaxMacro \in Nat /\ 0 \in 0 .. 10 * MaxBeforeDigit + 9
      /\ 1 \in -MaxCount .. MaxCount
  BY Bounds
<1>3. <<>> \in Unfinished /\ Len(<<>>) = 0 /\ <<>> \in Seq(Keys)
  BY KeyMap
<1>4. ran.count = 1 /\ ran.explicit = FALSE /\ ran.typed = <<>>
  BY <1>1 DEF Nothing
<1>5. Shape
  <2>1. macro_keys \in Seq(Keys) /\ Len(macro_keys) <= MaxMacro
    BY <1>1, <1>2, <1>3
  <2> QED
    BY <1>1, <1>2, <1>3, <1>4, <2>1 DEF Shape
<1>6. PlayingInv
  BY <1>1, <1>2 DEF PlayingInv, Playing, NotPlaying
<1>7. ArgumentInv
  BY <1>1, NothingMeant DEF ArgumentInv
<1>8. Meaning(<<>>) = 1
  BY NothingMeant, HasNothing DEF Meaning
<1>9. RanInv
  BY <1>4, <1>8 DEF RanInv
<1> QED
  BY <1>5, <1>6, <1>7, <1>9 DEF InputInv

LEMMA InputStays ==
    ASSUME InputInv, UNCHANGED input_vars
    PROVE  InputInv'
<1>1. /\ UNCHANGED <<prefix, key_prefix, macro_keys, macro_recording, playing, body>>
      /\ UNCHANGED <<ran, typed, after>>
  BY DEF input_vars, macro
<1>2. ArgumentInv'
  BY <1>1, ArgumentStays DEF InputInv
<1>3. Shape'
  BY <1>1 DEF InputInv, Shape, prefix
<1>4. RanInv' /\ PlayingInv'
  BY <1>1 DEF InputInv, RanInv, PlayingInv, Playing
<1> QED
  BY <1>2, <1>3, <1>4 DEF InputInv

\* The argument a command is given is the argument typed for it (editor_key and
\* take_argument), for any keys and any limits that let one C-u through.
THEOREM ArgumentsAreTyped == InputSpec => []ArgumentIsTyped
<1>1. InputInit => InputInv
  BY InputStarts
<1>2. InputInv /\ [InputNext]_input_vars => InputInv'
  BY PressKeeps, MacroFullKeeps, PlayKeyKeeps, PlayAgainKeeps, InputStays DEF InputNext
<1>3. InputInv => ArgumentIsTyped
  <2> SUFFICES ASSUME InputInv PROVE ArgumentIsTyped
    OBVIOUS
  <2>1. \E s \in DOMAIN Bindings : IsStrictPrefix(key_prefix, s)
    BY KeyMap DEF InputInv, Shape
  <2>2. InputTypeOK
    BY <2>1 DEF InputInv, Shape, PlayingInv, InputTypeOK
  <2> QED
    BY <2>2 DEF InputInv, RanInv, ArgumentIsTyped
<1> QED
  BY <1>1, <1>2, <1>3, PTL DEF InputSpec

-----------------------------------------------------------------------------
(***************************************************************************)
(* What a macro records.                                                   *)
(***************************************************************************)
\* The keys recorded are those of the whole commands, of the argument under way
\* and of the sequence under way.
RecordedKeys(arg) ==
    /\ arg \in Seq(ArgumentKeys)
    /\ arg = <<>> <=> typed = <<>>
    /\ macro_keys = (body \o arg) \o key_prefix

MacroInv ==
    macro_recording =>
        IF Playing
        THEN macro_keys = <<>> /\ body = <<>> /\ key_prefix = <<>> /\ typed = <<>>
        ELSE \E arg : RecordedKeys(arg)

\* What a macro is when its recording ends.
IsKept(s, keys, given) ==
    LET left == SubSeq(keys, Len(s) + 1, Len(keys))
    IN  /\ keys = s \o left
        /\ left = <<>> <=> given = <<>>
        /\ \A i \in DOMAIN left : left[i] \in ArgumentKeys

MacroKept ==
    macro_recording /\ ~macro_recording' /\ ran'.name = "end-kbd-macro" =>
        IsKept(body, macro_keys', ran'.typed)

\* Appending to a joined sequence.
AppendsJoined(u, v, k) == Append(u \o v, k) = u \o Append(v, k)

LEMMA AppendJoined ==
    ASSUME NEW S, NEW u \in Seq(S), NEW v \in Seq(S), NEW k \in S
    PROVE  AppendsJoined(u, v, k)
<1> DEFINE l == Append(u \o v, k)
           r == u \o Append(v, k)
<1>1. u \o v \in Seq(S) /\ Append(v, k) \in Seq(S)
  OBVIOUS
<1>2. l \in Seq(S) /\ r \in Seq(S) /\ Len(l) = Len(u) + Len(v) + 1 /\ Len(l) = Len(r)
  BY <1>1
<1>3. ASSUME NEW i \in 1 .. Len(l) PROVE l[i] = r[i]
  <2>1. Len(u) \in Nat /\ Len(v) \in Nat
    OBVIOUS
  <2>2. CASE i <= Len(u)
    BY <1>1, <1>2, <2>1, <2>2
  <2>3. CASE i > Len(u) /\ i <= Len(u) + Len(v)
    BY <1>1, <1>2, <2>1, <2>3
  <2>4. CASE i = Len(u) + Len(v) + 1
    BY <1>1, <1>2, <2>1, <2>4
  <2> QED
    BY <1>2, <2>1, <2>2, <2>3, <2>4
<1> HIDE DEF l, r
<1>4. l = r
  BY <1>2, <1>3, SeqEqual
<1> QED
  BY <1>4 DEF l, r, AppendsJoined

\* The keys but for the last two are those before them.
LEMMA ButTwo ==
    ASSUME NEW S, NEW u \in Seq(S), NEW a \in S, NEW b \in S
    PROVE  /\ Len(Append(u \o <<a>>, b)) = Len(u) + 2
           /\ SubSeq(Append(u \o <<a>>, b), 1, Len(u)) = u
<1> DEFINE t == Append(u \o <<a>>, b)
<1>1. /\ t \in Seq(S) /\ Len(t) = Len(u) + 2 /\ Len(u) \in Nat
      /\ \A i \in 1 .. Len(u) : t[i] = u[i]
  OBVIOUS
<1> HIDE DEF t
<1>2. /\ SubSeq(t, 1, Len(u)) \in Seq(S) /\ Len(SubSeq(t, 1, Len(u))) = Len(u)
      /\ \A i \in 1 .. Len(u) : SubSeq(t, 1, Len(u))[i] = t[i]
  BY <1>1
<1> DEFINE w == SubSeq(t, 1, Len(u))
<1>3. /\ w \in Seq(S) /\ Len(w) = Len(u) /\ \A i \in 1 .. Len(w) : w[i] = u[i]
  BY <1>1, <1>2
<1> HIDE DEF w
<1>4. w = u
  BY <1>3, SeqEqual
<1> QED
  BY <1>1, <1>4 DEF t, w

\* What was appended is what is left once the first part is taken away.
LEMMA LeftOver ==
    ASSUME NEW S, NEW u \in Seq(S), NEW v \in Seq(S)
    PROVE  SubSeq(u \o v, Len(u) + 1, Len(u \o v)) = v
<1> DEFINE t == u \o v
           w == SubSeq(t, Len(u) + 1, Len(t))
<1>1. /\ t \in Seq(S) /\ Len(t) = Len(u) + Len(v) /\ Len(u) \in Nat /\ Len(v) \in Nat
      /\ \A i \in 1 .. Len(v) : t[Len(u) + i] = v[i]
  OBVIOUS
<1> HIDE DEF t
<1>2. /\ w \in Seq(S) /\ Len(w) = Len(v)
      /\ \A i \in 1 .. Len(w) : w[i] = t[Len(u) + i]
  BY <1>1
<1> HIDE DEF w
<1>3. \A i \in 1 .. Len(w) : w[i] = v[i]
  BY <1>1, <1>2
<1>4. w = v
  BY <1>2, <1>3, SeqEqual
<1> QED
  BY <1>4 DEF w, t

\* What a key does to a recording.
LEMMA HandleRecords ==
    ASSUME Shape, ArgumentInv, NEW k \in Keys, Handle(k)
    PROVE  \/ macro_recording' = FALSE
           \/ Recording(k, TRUE) /\ key_prefix' = <<>> /\ typed' = <<>>
           \/ /\ Recording(k, FALSE) /\ k \in ArgumentKeys
              /\ key_prefix = <<>> /\ key_prefix' = <<>> /\ typed' # <<>>
           \/ Recording(k, FALSE) /\ key_prefix' = Append(key_prefix, k) /\ typed' = typed
           \/ /\ StartMacro /\ key_prefix' = <<>> /\ typed' = <<>>
              /\ ~CallsMacro(k)
<1>1. typed \in Seq(Keys)
  BY DEF Shape
<1>2. \A key \in Keys : Append(typed, key) # <<>>
  BY <1>1, AppendProperties
<1>3. CASE KeyboardQuit(k)
  BY <1>3 DEF KeyboardQuit
<1>4. CASE k = "C-u" /\ UniversalArgument /\ Recording(k, FALSE)
  BY <1>2, <1>4 DEF UniversalArgument, Typed, ArgumentKeys
<1>5. CASE IsArgumentKey(k) /\ ArgumentKey(k)
  <2>0. key_prefix = <<>> /\ k \in ArgumentKeys
    BY <1>5 DEF IsArgumentKey, ArgumentKeys
  <2>1. CASE Negative(k) \/ Digit(k)
    BY <1>2, <1>5, <2>0, <2>1 DEF ArgumentKey, Negative, Digit, Typed
  <2>2. CASE DigitRefused(k)
    <3>1. prefix_set
      BY <2>2 DEF DigitRefused, Begun
    <3>2. typed' # <<>> /\ key_prefix' = key_prefix
      BY <2>2, <3>1 DEF DigitRefused, ArgumentInv
    <3> QED
      BY <1>5, <2>0, <3>2 DEF ArgumentKey
  <2> QED
    BY <1>5, <2>1, <2>2 DEF ArgumentKey
<1>6. CASE Append(key_prefix, k) \in DOMAIN Bindings /\ Command(k)
  <2>1. key_prefix' = <<>> /\ typed' = <<>>
    BY <1>6 DEF Command, InputEnds
  <2>2. \/ Recording(k, TRUE)
        \/ EndMacro(k)
        \/ /\ StartMacro
           /\ Bindings[Append(key_prefix, k)] = "start-kbd-macro"
    BY <1>6 DEF Command
  <2>3. CallsMacro(k) => Bindings[Append(key_prefix, k)] = "call-last-kbd-macro"
    BY DEF CallsMacro
  <2> QED
    BY <2>1, <2>2, <2>3 DEF EndMacro
<1>7. CASE IsPrefixKey(Append(key_prefix, k)) /\ Sequence(k)
  BY <1>7 DEF Sequence
<1>8. CASE key_prefix = <<>> /\ SelfInsertKey(k)
  BY <1>8 DEF SelfInsertKey, InputEnds
<1>9. CASE Undefined(k)
  BY <1>9 DEF Undefined, InputEnds
<1> QED
  BY <1>3, <1>4, <1>5, <1>6, <1>7, <1>8, <1>9, HandleCases

\* Of the commands only end-kbd-macro ends a recording.
LEMMA HandleEnds ==
    ASSUME Shape, ArgumentInv, NEW k \in Keys, Handle(k),
           macro_recording, ~macro_recording', ran'.name = "end-kbd-macro"
    PROVE  EndMacro(k) /\ key_prefix = <<"C-x">> /\ ran'.typed = typed
<1>1. ran' # Nothing
  <2>1. Nothing.name = "none"
    BY DEF Nothing
  <2> QED
    BY <2>1
<1>2. ~Recording(k, TRUE) /\ ~Recording(k, FALSE)
  BY DEF Recording
<1>3. Append(key_prefix, k) \in DOMAIN Bindings /\ Command(k)
  BY <1>1, <1>2, HandleCases
     DEF KeyboardQuit, ArgumentKey, Sequence, SelfInsertKey, Undefined
<1>4. /\ Run(Bindings[Append(key_prefix, k)], Count, prefix_set)
      /\ \/ EndMacro(k)
         \/ StartMacro
  BY <1>1, <1>2, <1>3 DEF Command
<1>5. EndMacro(k)
  BY <1>4 DEF StartMacro
<1>6. ran'.name = Bindings[Append(key_prefix, k)] /\ ran'.typed = typed
  BY <1>4 DEF Run
<1>7. key_prefix \in Unfinished
  BY DEF Shape
<1> QED
  BY <1>3, <1>5, <1>6, <1>7, KeyMap

\* The argument recorded grows by a key, or the sequence does.
LEMMA RecordedGrow ==
    ASSUME InputInv, NEW k \in Keys, NEW arg, RecordedKeys(arg),
           macro_keys' = Append(macro_keys, k), body' = body,
           \/ /\ k \in ArgumentKeys
              /\ key_prefix = <<>> /\ key_prefix' = <<>> /\ typed' # <<>>
           \/ key_prefix' = Append(key_prefix, k) /\ typed' = typed
    PROVE  \E a : RecordedKeys(a)'
<1> DEFINE Tokens == Keys \cup {"C-x"} \cup ArgumentKeys
<1>1. Keys \subseteq Tokens /\ ArgumentKeys \subseteq Tokens /\ "C-x" \in Tokens /\ k \in Tokens
  OBVIOUS
<1>2. /\ body \in Seq(Keys) /\ key_prefix \in {<<>>, <<"C-x">>}
      /\ arg \in Seq(ArgumentKeys) /\ (arg = <<>> <=> typed = <<>>)
      /\ macro_keys = (body \o arg) \o key_prefix
  BY DEF InputInv, Shape, Unfinished, RecordedKeys
<1> HIDE DEF Tokens
<1>3. /\ body \in Seq(Tokens) /\ arg \in Seq(Tokens)
      /\ <<>> \in Seq(Tokens) /\ <<"C-x">> \in Seq(Tokens)
  BY <1>1, <1>2
<1>4. body \o arg \in Seq(Tokens) /\ key_prefix \in Seq(Tokens)
  <2>1. body \o arg \in Seq(Tokens)
    BY <1>3
  <2>2. key_prefix \in Seq(Tokens)
    BY <1>2, <1>3, Zenon
  <2> QED
    BY <2>1, <2>2
<1>5. CASE /\ k \in ArgumentKeys
           /\ key_prefix = <<>> /\ key_prefix' = <<>> /\ typed' # <<>>
  <2>1. macro_keys = body \o arg
    BY <1>2, <1>4, <1>5
  <2>2. AppendsJoined(body, arg, k)
    BY <1>1, <1>3, AppendJoined
  <2>3. macro_keys' = body' \o Append(arg, k)
    BY <2>1, <2>2 DEF AppendsJoined
  <2>4. Append(arg, k) \in Seq(ArgumentKeys) /\ Append(arg, k) # <<>>
    BY <1>2, <1>5
  <2>5. body' \o Append(arg, k) \in Seq(Tokens)
    BY <1>1, <1>3
  <2>6. macro_keys' = (body' \o Append(arg, k)) \o key_prefix'
    BY <1>5, <2>3, <2>5
  <2>7. RecordedKeys(Append(arg, k))'
    BY <1>5, <2>4, <2>6 DEF RecordedKeys
  <2> QED
    BY <2>7
<1>6. CASE key_prefix' = Append(key_prefix, k) /\ typed' = typed
  <2>1. AppendsJoined(body \o arg, key_prefix, k)
    BY <1>1, <1>4, AppendJoined
  <2>2. macro_keys' = (body' \o arg) \o key_prefix'
    BY <1>2, <1>6, <2>1 DEF AppendsJoined
  <2>3. RecordedKeys(arg)'
    BY <1>2, <1>6, <2>2 DEF RecordedKeys
  <2> QED
    BY <2>3
<1> QED
  BY <1>5, <1>6

\* Nothing but whole commands recorded, and no argument under way.
LEMMA RecordedWhole ==
    ASSUME macro_keys' \in Seq(Keys), body' = macro_keys', key_prefix' = <<>>, typed' = <<>>
    PROVE  \E a : RecordedKeys(a)'
<1>1. macro_keys' = (body' \o <<>>) \o key_prefix'
  OBVIOUS
<1>2. <<>> \in Seq(ArgumentKeys)
  OBVIOUS
<1>3. RecordedKeys(<<>>)'
  BY <1>1, <1>2 DEF RecordedKeys
<1> QED
  BY <1>3

\* end-kbd-macro drops its own two chords.
LEMMA EndMacroKeeps ==
    ASSUME InputInv, NEW k \in Keys, NEW arg, RecordedKeys(arg),
           macro_recording, ~Playing, EndMacro(k), key_prefix = <<"C-x">>
    PROVE  IsKept(body, macro_keys', typed)
<1> DEFINE Tokens == Keys \cup {"C-x"} \cup ArgumentKeys
           u == body \o arg
<1>1. Keys \subseteq Tokens /\ ArgumentKeys \subseteq Tokens /\ "C-x" \in Tokens /\ k \in Tokens
  OBVIOUS
<1>2. /\ body \in Seq(Keys) /\ arg \in Seq(ArgumentKeys) /\ (arg = <<>> <=> typed = <<>>)
      /\ macro_keys = u \o <<"C-x">>
  BY DEF InputInv, Shape, RecordedKeys
<1> HIDE DEF Tokens
<1>3. body \in Seq(Tokens) /\ arg \in Seq(Tokens)
  BY <1>1, <1>2
<1>4. u \in Seq(Tokens)
  BY <1>3
<1>5. Recorded(k) = Append(u \o <<"C-x">>, k)
  BY <1>2 DEF Recorded
<1>6. SubSeq(u, Len(body) + 1, Len(u)) = arg
  BY <1>3, LeftOver
<1>7. u = body \o arg
  OBVIOUS
<1> HIDE DEF u
<1> DEFINE keys == Append(u \o <<"C-x">>, k)
<1>8. Len(keys) = Len(u) + 2 /\ SubSeq(keys, 1, Len(u)) = u /\ Len(u) \in Nat
  BY <1>1, <1>4, ButTwo
<1> HIDE DEF keys
<1>9. Len(keys) >= 2 /\ Len(keys) - 2 = Len(u)
  BY <1>8
<1>10. Recorded(k) = keys
  BY <1>5 DEF keys
<1>11. macro_keys' = u
  BY <1>8, <1>9, <1>10 DEF EndMacro, Chords
<1>12. \A i \in DOMAIN arg : arg[i] \in ArgumentKeys
  BY <1>2
<1> QED
  BY <1>2, <1>6, <1>7, <1>11, <1>12 DEF IsKept

LEMMA PressRecords ==
    ASSUME InputInv, MacroInv, NEW k \in Keys, Press(k)
    PROVE  MacroInv' /\ MacroKept
<1>1. /\ ~Playing /\ Handle(k)
      /\ playing' # playing => CallsMacro(k) /\ ~macro_recording
  BY DEF Press, MayPlay
<1>2. Shape /\ ArgumentInv /\ macro_keys \in Seq(Keys)
  BY DEF InputInv, Shape
<1>3. macro_recording => Recorded(k) = Append(macro_keys, k)
  BY <1>1 DEF Recorded
<1>4. macro_recording => \E arg : RecordedKeys(arg)
  BY <1>1 DEF MacroInv
<1>5. MacroInv'
  <2>1. CASE macro_recording' = FALSE
    BY <2>1 DEF MacroInv
  <2>2. CASE Recording(k, TRUE) /\ key_prefix' = <<>> /\ typed' = <<>>
    <3>1. CASE macro_recording
      <4>1. /\ macro_keys' = Append(macro_keys, k) /\ body' = macro_keys'
            /\ playing' = playing
        BY <1>1, <1>3, <2>2, <3>1 DEF Recording
      <4>2. macro_keys' \in Seq(Keys)
        BY <1>2, <4>1
      <4>3. \E a : RecordedKeys(a)'
        BY <2>2, <4>1, <4>2, RecordedWhole
      <4> QED
        BY <1>1, <4>1, <4>3 DEF MacroInv, Playing
    <3>2. CASE ~macro_recording
      BY <2>2, <3>2 DEF MacroInv, Recording
    <3> QED
      BY <3>1, <3>2
  <2>3. CASE /\ Recording(k, FALSE)
             /\ \/ /\ k \in ArgumentKeys
                   /\ key_prefix = <<>> /\ key_prefix' = <<>> /\ typed' # <<>>
                \/ key_prefix' = Append(key_prefix, k) /\ typed' = typed
    <3>1. CASE macro_recording
      <4>1. macro_keys' = Append(macro_keys, k) /\ body' = body /\ playing' = playing
        BY <1>1, <1>3, <2>3, <3>1 DEF Recording
      <4>2. PICK arg : RecordedKeys(arg)
        BY <1>4, <3>1
      <4>3. \E a : RecordedKeys(a)'
        BY <2>3, <4>1, <4>2, RecordedGrow
      <4> QED
        BY <1>1, <4>1, <4>3 DEF MacroInv, Playing
    <3>2. CASE ~macro_recording
      BY <2>3, <3>2 DEF MacroInv, Recording
    <3> QED
      BY <3>1, <3>2
  <2>4. CASE /\ StartMacro /\ key_prefix' = <<>> /\ typed' = <<>>
             /\ ~CallsMacro(k)
    <3>1. macro_keys' = <<>> /\ body' = macro_keys' /\ playing' = playing
      BY <1>1, <2>4 DEF StartMacro
    <3>2. macro_keys' \in Seq(Keys)
      BY <3>1
    <3>3. \E a : RecordedKeys(a)'
      BY <2>4, <3>1, <3>2, RecordedWhole
    <3> QED
      BY <1>1, <3>1, <3>3 DEF MacroInv, Playing
  <2> QED
    BY <1>1, <1>2, <2>1, <2>2, <2>3, <2>4, HandleRecords
<1>6. MacroKept
  <2> SUFFICES ASSUME macro_recording, ~macro_recording', ran'.name = "end-kbd-macro"
               PROVE  IsKept(body, macro_keys', ran'.typed)
    BY DEF MacroKept
  <2>1. EndMacro(k) /\ key_prefix = <<"C-x">> /\ ran'.typed = typed
    BY <1>1, <1>2, HandleEnds
  <2>2. PICK arg : RecordedKeys(arg)
    BY <1>4
  <2> QED
    BY <1>1, <2>1, <2>2, EndMacroKeeps
<1> QED
  BY <1>5, <1>6

LEMMA PlayKeyRecords ==
    ASSUME InputInv, MacroInv, PlayKey
    PROVE  MacroInv' /\ MacroKept
<1> DEFINE k == macro_keys[playing.at]
<1>1. /\ macro_keys \in Seq(Keys) /\ playing.at \in 1 .. Len(macro_keys)
      /\ Playing /\ Handle(k)
  BY DEF InputInv, Shape, PlayingInv, PlayKey
<1>2. ~macro_recording
  <2>1. macro_keys # <<>>
    BY <1>1
  <2> QED
    BY <1>1, <2>1 DEF MacroInv
<1>3. k \in Keys /\ Shape /\ ArgumentInv
  BY <1>1 DEF InputInv
<1>4. MacroKept
  BY <1>2 DEF MacroKept
<1>5. Playing'
  <2>1. \/ playing' = [left |-> Count, at |-> 1]
        \/ playing' = [playing EXCEPT !.at = @ + 1]
    BY DEF PlayKey
  <2>2. playing'.at # 0
    BY <1>1, <2>1 DEF InputInv, PlayingInv
  <2> QED
    BY <2>2 DEF Playing, NotPlaying
<1> HIDE DEF k
<1>6. macro_recording' => StartMacro /\ key_prefix' = <<>> /\ typed' = <<>>
  BY <1>1, <1>2, <1>3, HandleRecords DEF Recording
<1> QED
  BY <1>4, <1>5, <1>6 DEF MacroInv, StartMacro

LEMMA OtherRecords ==
    ASSUME MacroInv, PlayAgain \/ MacroFull \/ UNCHANGED input_vars
    PROVE  MacroInv' /\ MacroKept
<1>1. CASE PlayAgain
  <2>1. /\ Playing
        /\ UNCHANGED <<key_prefix, macro_keys, macro_recording, body, typed>>
    BY <1>1 DEF PlayAgain
  <2>2. macro_recording => /\ macro_keys' \in Seq(Keys) /\ body' = macro_keys'
                           /\ key_prefix' = <<>> /\ typed' = <<>>
    BY <2>1 DEF MacroInv
  <2>3. macro_recording => \E a : RecordedKeys(a)'
    BY <2>2, RecordedWhole
  <2> QED
    BY <2>1, <2>2, <2>3 DEF MacroInv, MacroKept
<1>2. CASE MacroFull
  <2>1. macro_recording' = FALSE /\ ran'.name # "end-kbd-macro"
    BY <1>2 DEF MacroFull, Nothing
  <2> QED
    BY <2>1 DEF MacroInv, MacroKept
<1>3. CASE UNCHANGED input_vars
  BY <1>3 DEF MacroInv, MacroKept, RecordedKeys, input_vars, macro, Playing
<1> QED
  BY <1>1, <1>2, <1>3

\* A macro ended by C-x ) is the whole commands typed since C-x (, and after them
\* the argument of C-x ) itself when it was given one, whatever the keys
\* (editor_key, start-kbd-macro and end-kbd-macro).
THEOREM MacrosKeepCommands == InputSpec => MacroIsWhatWasTyped
<1>1. InputInit => InputInv /\ MacroInv
  BY InputStarts DEF InputInit, MacroInv
<1>2. InputInv /\ MacroInv /\ [InputNext]_input_vars => (InputInv /\ MacroInv)' /\ MacroKept
  <2> SUFFICES ASSUME InputInv, MacroInv, [InputNext]_input_vars
               PROVE  (InputInv /\ MacroInv)' /\ MacroKept
    OBVIOUS
  <2>1. InputInv'
    BY PressKeeps, MacroFullKeeps, PlayKeyKeeps, PlayAgainKeeps, InputStays DEF InputNext
  <2>2. MacroInv' /\ MacroKept
    BY PressRecords, PlayKeyRecords, OtherRecords DEF InputNext
  <2> QED
    BY <2>1, <2>2
<1>3. MacroKept <=>
        (macro_recording /\ ~macro_recording' /\ ran'.name = "end-kbd-macro" =>
            LET left == SubSeq(macro_keys', Len(body) + 1, Len(macro_keys'))
            IN  /\ macro_keys' = body \o left
                /\ left = <<>> <=> ran'.typed = <<>>
                /\ \A i \in DOMAIN left : left[i] \in ArgumentKeys)
  BY DEF MacroKept, IsKept
<1> QED
  BY <1>1, <1>2, <1>3, PTL DEF InputSpec, MacroIsWhatWasTyped

-----------------------------------------------------------------------------
(***************************************************************************)
(* How far commands reach: every target is a position of the text.         *)
(***************************************************************************)
LEMMA LeastExists ==
    ASSUME NEW T \in SUBSET Nat, T # {}
    PROVE  \E m \in T : \A y \in T : m <= y
<1> DEFINE R == OpToRel(<, Nat)
<1>1. \A x, y \in Nat : y < x => <<y, x>> \in R
  BY DEF OpToRel
<1>2. IsWellFoundedOn(R, Nat)
  BY NatLessThanWellFounded
<1> HIDE DEF R
<1>3. \E x \in T : \A y \in T : ~(<<y, x>> \in R)
  BY <1>2, WFMin
<1>4. PICK x \in T : \A y \in T : ~(<<y, x>> \in R)
  BY <1>3
<1>5. \A y \in T : x <= y
  <2> SUFFICES ASSUME NEW y \in T, y < x PROVE FALSE
    OBVIOUS
  <2> QED
    BY <1>1, <1>4
<1> QED
  BY <1>5

\* The first of p .. n in G, when n is.
FirstIn(p, n, q, G) == q \in p .. n /\ q \in G /\ \A r \in p .. q - 1 : r \notin G

LEMMA FirstExists ==
    ASSUME NEW p \in Nat, NEW n \in Nat, p <= n, NEW G, n \in G
    PROVE  \E q : FirstIn(p, n, q, G)
<1> DEFINE T == {r \in p .. n : r \in G}
<1>1. T \in SUBSET Nat /\ T # {}
  OBVIOUS
<1>2. PICK q \in T : \A y \in T : q <= y
  <2> HIDE DEF T
  <2> QED
    BY <1>1, LeastExists
<1>3. \A r \in p .. q - 1 : r \notin G
  BY <1>2
<1> QED
  BY <1>2, <1>3 DEF FirstIn

\* The last of m .. p in G, when m is.
LastIn(m, p, q, G) == q \in m .. p /\ q \in G /\ \A r \in q + 1 .. p : r \notin G

LEMMA LastExists ==
    ASSUME NEW m \in Nat, NEW p \in Nat, m <= p, NEW G, m \in G
    PROVE  \E q : LastIn(m, p, q, G)
<1> DEFINE T == {d \in 0 .. p - m : p - d \in G}
<1>1. T \in SUBSET Nat
  OBVIOUS
<1>2. p - m \in T
  <2>1. p - m \in 0 .. p - m /\ p - (p - m) = m
    OBVIOUS
  <2> QED
    BY <2>1
<1>3. PICK d \in T : \A y \in T : d <= y
  <2> HIDE DEF T
  <2> QED
    BY <1>1, <1>2, LeastExists
<1>4. p - d \in m .. p /\ p - d \in G
  BY <1>3
<1>5. ASSUME NEW r \in p - d + 1 .. p, r \in G PROVE FALSE
  <2>1. p - r \in 0 .. p - m /\ p - (p - r) = r /\ p - r < d
    BY <1>3, <1>4
  <2>2. p - r \in T
    BY <1>5, <2>1
  <2>3. d <= p - r
    <3> HIDE DEF T
    <3> QED
      BY <1>3, <2>2
  <2> QED
    BY <1>3, <2>1, <2>3
<1> QED
  BY <1>4, <1>5 DEF LastIn

LEMMA AheadInside ==
    ASSUME NEW t \in Seq(Chars), NEW p \in 0 .. Len(t), NEW word \in BOOLEAN
    PROVE  Ahead(t, p, word) \in p .. Len(t)
<1> DEFINE n == Len(t)
           G == {q \in 0 .. n : q = n \/ WordAt(t, q) = word}
<1>1. n \in Nat /\ p \in Nat /\ p <= n /\ n \in G
  OBVIOUS
<1>2. PICK q : FirstIn(p, n, q, G)
  <2> HIDE DEF G, n
  <2> QED
    BY <1>1, FirstExists
<1>3. /\ q \in p .. n /\ (q = n \/ WordAt(t, q) = word)
      /\ \A r \in p .. q - 1 : WordAt(t, r) # word
  BY <1>1, <1>2 DEF FirstIn
<1> QED
  BY <1>3 DEF Ahead

LEMMA BackInside ==
    ASSUME NEW t \in Seq(Chars), NEW p \in 0 .. Len(t), NEW word \in BOOLEAN
    PROVE  Back(t, p, word) \in 0 .. p
<1> DEFINE G == {q \in 0 .. p : q = 0 \/ WordAt(t, q - 1) = word}
<1>1. p \in Nat /\ 0 \in G
  OBVIOUS
<1>2. PICK q : LastIn(0, p, q, G)
  <2> HIDE DEF G
  <2> QED
    BY <1>1, LastExists
<1>3. /\ q \in 0 .. p /\ (q = 0 \/ WordAt(t, q - 1) = word)
      /\ \A r \in q + 1 .. p : r \notin G
  BY <1>1, <1>2 DEF LastIn
<1>4. ASSUME NEW r \in q .. p - 1 PROVE WordAt(t, r) # word
  <2>1. r + 1 \in q + 1 .. p /\ r + 1 \in 0 .. p /\ (r + 1) - 1 = r
    BY <1>3
  <2>2. r + 1 \notin G
    BY <1>3, <2>1
  <2>3. WordAt(t, (r + 1) - 1) # word
    BY <2>1, <2>2
  <2> QED
    BY <2>1, <2>3, Zenon
<1> QED
  BY <1>3, <1>4 DEF Back

LEMMA BlanksInside ==
    ASSUME NEW t \in Seq(Chars), NEW p \in 0 .. Len(t)
    PROVE  BlanksFrom(t, p) \in 0 .. p /\ BlanksTo(t, p) \in p .. Len(t)
<1> DEFINE n == Len(t)
           G == {q \in 0 .. p : q = 0 \/ ~BlankAt(t, q - 1)}
           H == {q \in 0 .. n : ~BlankAt(t, q)}
<1>1. p \in Nat /\ 0 \in G /\ n \in Nat /\ p <= n /\ n \in H
  BY DEF BlankAt
<1>2. PICK q : LastIn(0, p, q, G)
  <2> HIDE DEF G
  <2> QED
    BY <1>1, LastExists
<1>3. /\ q \in 0 .. p /\ (q = 0 \/ ~BlankAt(t, q - 1))
      /\ \A r \in q + 1 .. p : r \notin G
  BY <1>1, <1>2 DEF LastIn
<1>4. ASSUME NEW r \in q .. p - 1 PROVE BlankAt(t, r)
  <2>1. r + 1 \in q + 1 .. p /\ r + 1 \in 0 .. p /\ (r + 1) - 1 = r
    BY <1>3
  <2>2. r + 1 \notin G
    BY <1>3, <2>1
  <2> QED
    BY <2>1, <2>2
<1>5. PICK s : FirstIn(p, n, s, H)
  <2> HIDE DEF H, n
  <2> QED
    BY <1>1, FirstExists
<1>6. s \in p .. n /\ ~BlankAt(t, s) /\ \A r \in p .. s - 1 : BlankAt(t, r)
  BY <1>1, <1>5 DEF FirstIn
<1>7. BlanksFrom(t, p) \in 0 .. p
  BY <1>3, <1>4 DEF BlanksFrom
<1>8. BlanksTo(t, p) \in p .. Len(t)
  BY <1>6 DEF BlanksTo
<1> QED
  BY <1>7, <1>8

LEMMA WithinInside ==
    ASSUME NEW t \in Seq(Chars), NEW p \in Int
    PROVE  Within(t, p) \in 0 .. Len(t)
<1>1. Len(t) \in Nat
  OBVIOUS
<1> QED
  BY <1>1 DEF Within

\* One word.
WordStep(t, n, x) == IF n > 0 THEN Ahead(t, Ahead(t, x, TRUE), FALSE)
                     ELSE Back(t, Back(t, x, TRUE), FALSE)

LEMMA WordInside ==
    ASSUME NEW t \in Seq(Chars), NEW n, NEW x \in 0 .. Len(t)
    PROVE  WordStep(t, n, x) \in 0 .. Len(t)
<1> DEFINE end == Len(t)
           y == Ahead(t, x, TRUE)
           z == Back(t, x, TRUE)
           after1 == Ahead(t, y, FALSE)
           before1 == Back(t, z, FALSE)
<1>1. end \in Nat /\ x \in 0 .. end
  OBVIOUS
<1>2. y \in x .. end
  BY AheadInside
<1>3. z \in 0 .. x
  BY BackInside
<1>4. WordStep(t, n, x) \in {after1, before1}
  BY DEF WordStep
<1> HIDE DEF y, z
<1>5. y \in 0 .. end /\ z \in 0 .. end
  <2> HIDE DEF end
  <2> QED
    BY <1>1, <1>2, <1>3
<1>6. after1 \in y .. end
  BY <1>5, AheadInside
<1>7. before1 \in 0 .. z
  BY <1>5, BackInside
<1>8. after1 \in 0 .. end /\ before1 \in 0 .. end
  <2> HIDE DEF end, after1, before1
  <2> QED
    BY <1>1, <1>5, <1>6, <1>7
<1> HIDE DEF after1, before1
<1> QED
  BY <1>4, <1>8

LEMMA AbsNat == \A n \in Int : Abs(n) \in Nat
BY DEF Abs

LEMMA MoveWordInside ==
    ASSUME NEW t \in Seq(Chars), NEW p \in 0 .. Len(t), NEW n \in Int
    PROVE  MoveWord(t, p, n) \in 0 .. Len(t)
<1> DEFINE m == Abs(n)
           S == 0 .. Len(t)
           step == [i \in 1 .. m |-> [x \in S |-> WordStep(t, n, x)]]
           Def(s) == s = [k \in 0 .. m |->
                            IF k = 0 THEN p
                            ELSE IF n > 0 THEN Ahead(t, Ahead(t, s[k - 1], TRUE), FALSE)
                            ELSE Back(t, Back(t, s[k - 1], TRUE), FALSE)]
           f == CHOOSE s : Def(s)
<1>1. m \in Nat /\ p \in S
  BY AbsNat
<1>2. step \in [1 .. m -> [S -> S]]
  BY WordInside
<1>3. \A i \in 1 .. m, x \in S : step[i][x] = WordStep(t, n, x)
  OBVIOUS
<1>4. MoveWord(t, p, n) = f[m]
  BY DEF MoveWord
<1> HIDE DEF step, S
<1>5. PICK g : Runs(g, S, m, p, step)
  BY <1>1, <1>2, RunsExist
<1>6. Def(g)
  <2>1. /\ g[0] = p /\ \A i \in 0 .. m : g[i] \in S
        /\ \A i \in 1 .. m : g[i] = step[i][g[i - 1]]
    BY <1>5 DEF Runs
  <2>2. ASSUME NEW i \in 0 .. m
        PROVE  g[i] = IF i = 0 THEN p
                      ELSE IF n > 0 THEN Ahead(t, Ahead(t, g[i - 1], TRUE), FALSE)
                      ELSE Back(t, Back(t, g[i - 1], TRUE), FALSE)
    <3>1. CASE i = 0
      BY <2>1, <3>1
    <3>2. CASE i # 0
      <4>1. i \in 1 .. m /\ i - 1 \in 0 .. m
        BY <1>1, <3>2
      <4>2. g[i] = WordStep(t, n, g[i - 1])
        BY <1>3, <2>1, <4>1
      <4> QED
        BY <3>2, <4>2 DEF WordStep
    <3> QED
      BY <3>1, <3>2
  <2>3. g = [i \in 0 .. m |-> g[i]]
    BY <1>5 DEF Runs
  <2> HIDE DEF m
  <2> QED
    BY <2>2, <2>3, Zenon
<1>7. Def(f)
  <2> HIDE DEF Def
  <2> QED
    BY <1>6
<1> HIDE DEF f
<1>8. IsOver(f, m)
  <2> HIDE DEF m
  <2>1. f = [i \in 0 .. m |-> f[i]]
    BY <1>7
  <2> QED
    BY <2>1 DEF IsOver
<1>9. f[0] = p /\ \A i \in 1 .. m : f[i] = WordStep(t, n, f[i - 1])
  <2> HIDE DEF m, Def
  <2>1. \A i \in 0 .. m : f[i] = IF i = 0 THEN p
                                ELSE IF n > 0 THEN Ahead(t, Ahead(t, f[i - 1], TRUE), FALSE)
                                ELSE Back(t, Back(t, f[i - 1], TRUE), FALSE)
    BY <1>7, Zenon DEF Def
  <2>2. 0 \in 0 .. m /\ \A i \in 1 .. m : i \in 0 .. m /\ i # 0
    BY <1>1
  <2> QED
    BY <2>1, <2>2, Zenon DEF WordStep
<1>10. Runs(f, S, m, p, step)
  <2>1. \A i \in 1 .. m : f[i - 1] \in S => f[i] = step[i][f[i - 1]]
    BY <1>3, <1>9
  <2> HIDE DEF m, Def
  <2> QED
    BY <1>1, <1>2, <1>8, <1>9, <2>1, RunsTyped
<1>11. f[m] \in S
  <2> HIDE DEF m, Def
  <2>1. m \in 0 .. m
    BY <1>1
  <2> QED
    BY <1>10, <2>1 DEF Runs
<1> QED
  BY <1>4, <1>11 DEF S

-----------------------------------------------------------------------------
\* The newlines up to a position: how many, and how they grow.
LEMMA LinesGrow ==
    ASSUME NEW t \in Seq(Chars)
    PROVE  /\ \A p \in Nat : LineOf(t, p) \in Nat
           /\ LineOf(t, 0) = 0
           /\ \A p \in Nat : LineOf(t, p + 1) = IF t[p + 1] = Newline THEN LineOf(t, p) + 1
                                                ELSE LineOf(t, p)
<1> DEFINE N(p) == {i \in 1 .. p : t[i] = Newline}
<1>1. ASSUME NEW p \in Nat PROVE IsFiniteSet(N(p)) /\ Cardinality(N(p)) \in Nat
  <2>1. IsFiniteSet(1 .. p) /\ N(p) \subseteq 1 .. p
    BY FS_Interval
  <2> HIDE DEF N
  <2> QED
    BY <2>1, FS_Subset, FS_CardinalityType
<1>2. N(0) = {}
  OBVIOUS
<1>3. Cardinality(N(0)) = 0
  BY <1>2, FS_EmptySet
<1>4. ASSUME NEW p \in Nat
      PROVE  Cardinality(N(p + 1)) = IF t[p + 1] = Newline THEN Cardinality(N(p)) + 1
                                     ELSE Cardinality(N(p))
  <2>1. CASE t[p + 1] = Newline
    <3>1. N(p + 1) = N(p) \cup {p + 1} /\ p + 1 \notin N(p)
      BY <2>1
    <3> HIDE DEF N
    <3> QED
      BY <1>1, <2>1, <3>1, FS_AddElement
  <2>2. CASE t[p + 1] # Newline
    <3>1. N(p + 1) = N(p)
      BY <2>2
    <3> QED
      BY <2>2, <3>1
  <2> QED
    BY <2>1, <2>2
<1> QED
  BY <1>1, <1>3, <1>4 DEF LineOf

\* The line grows with the position.
LEMMA LinesOrdered ==
    ASSUME NEW t \in Seq(Chars), NEW p \in Nat, NEW q \in Nat, p <= q
    PROVE  LineOf(t, p) <= LineOf(t, q)
<1> DEFINE T == {d \in Nat : LineOf(t, p) <= LineOf(t, p + d)}
<1>1. 0 \in T
  BY LinesGrow
<1>2. \A d \in Nat : d \in T => d + 1 \in T
  <2> SUFFICES ASSUME NEW d \in Nat, LineOf(t, p) <= LineOf(t, p + d)
               PROVE  LineOf(t, p) <= LineOf(t, p + (d + 1))
    OBVIOUS
  <2>1. p + d \in Nat /\ p + (d + 1) = (p + d) + 1
    OBVIOUS
  <2>2. LineOf(t, p) \in Nat /\ LineOf(t, p + d) \in Nat
    BY <2>1, LinesGrow
  <2>3. LineOf(t, (p + d) + 1) \in {LineOf(t, p + d), LineOf(t, p + d) + 1}
    BY <2>1, LinesGrow
  <2> QED
    BY <2>1, <2>2, <2>3
<1>3. Nat \subseteq T
  <2> HIDE DEF T
  <2> QED
    BY <1>1, <1>2, SetInduction
<1>4. q - p \in Nat /\ p + (q - p) = q
  OBVIOUS
<1> QED
  BY <1>3, <1>4

\* The newline that begins a line there is.
LEMMA LineBegins ==
    ASSUME NEW t \in Seq(Chars), NEW line \in Nat \ {0}, line <= LineOf(t, Len(t))
    PROVE  /\ LineStart(t, line) \in 1 .. Len(t)
           /\ t[LineStart(t, line)] = Newline /\ LineOf(t, LineStart(t, line)) = line
<1> DEFINE T == {p \in 0 .. Len(t) : line <= LineOf(t, p)}
<1>1. Len(t) \in Nat /\ T \in SUBSET Nat /\ Len(t) \in T
  OBVIOUS
<1>2. PICK p \in T : \A y \in T : p <= y
  <2> HIDE DEF T
  <2> QED
    BY <1>1, LeastExists
<1>3. p \in 0 .. Len(t) /\ line <= LineOf(t, p)
  BY <1>2
<1>4. p # 0
  BY <1>3, LinesGrow
<1>5. p \in Nat /\ p \in 1 .. Len(t) /\ p - 1 \in Nat /\ p - 1 \in 0 .. Len(t) /\ (p - 1) + 1 = p
  BY <1>1, <1>3, <1>4
<1>6. p - 1 \notin T
  <2> HIDE DEF T
  <2> QED
    BY <1>1, <1>2, <1>5
<1>7. LineOf(t, p - 1) \in Nat /\ LineOf(t, p) \in Nat
  BY <1>5, LinesGrow
<1>8. LineOf(t, p - 1) < line
  BY <1>5, <1>6, <1>7
<1>9. LineOf(t, p) = IF t[p] = Newline THEN LineOf(t, p - 1) + 1 ELSE LineOf(t, p - 1)
  BY <1>5, LinesGrow
<1>10. t[p] = Newline /\ LineOf(t, p) = line
  BY <1>3, <1>7, <1>8, <1>9
<1> DEFINE found == CHOOSE q \in 1 .. Len(t) : t[q] = Newline /\ LineOf(t, q) = line
<1>11. found \in 1 .. Len(t) /\ t[found] = Newline /\ LineOf(t, found) = line
  BY <1>5, <1>10
<1>12. LineOf(t, Len(t)) \in Nat
  BY <1>1, LinesGrow
<1>13. LineStart(t, line) = found
  BY <1>12 DEF LineStart
<1> QED
  BY <1>11, <1>13

LEMMA LineStartInside ==
    ASSUME NEW t \in Seq(Chars), NEW line \in Int
    PROVE  LineStart(t, line) \in 0 .. Len(t)
<1>1. Len(t) \in Nat /\ LineOf(t, Len(t)) \in Nat
  BY LinesGrow
<1>2. CASE line <= 0
  BY <1>1, <1>2 DEF LineStart
<1>3. CASE line > LineOf(t, Len(t))
  BY <1>1, <1>3 DEF LineStart
<1>4. CASE line > 0 /\ line <= LineOf(t, Len(t))
  <2>1. LineStart(t, line) \in 1 .. Len(t)
    BY <1>4, LineBegins
  <2> QED
    BY <1>1, <2>1
<1> QED
  BY <1>1, <1>2, <1>3, <1>4

\* The line of a position begins at it or before.
LEMMA LineStartBefore ==
    ASSUME NEW t \in Seq(Chars), NEW p \in 0 .. Len(t)
    PROVE  LineStart(t, LineOf(t, p)) \in 0 .. p
<1> DEFINE line == LineOf(t, p)
           q == LineStart(t, line)
<1>1. Len(t) \in Nat /\ p \in Nat /\ line \in Nat
  BY LinesGrow
<1>2. CASE line = 0
  BY <1>1, <1>2 DEF LineStart
<1>3. CASE line # 0
  <2>1. line <= LineOf(t, Len(t))
    BY <1>1, LinesOrdered
  <2>2. q \in 1 .. Len(t) /\ t[q] = Newline /\ LineOf(t, q) = line
    <3>1. line \in Nat \ {0}
      BY <1>1, <1>3
    <3> HIDE DEF line
    <3> QED
      BY <2>1, <3>1, LineBegins
  <2> HIDE DEF q
  <2>3. ASSUME q > p PROVE FALSE
    <3>1. q - 1 \in Nat /\ (q - 1) + 1 = q /\ p <= q - 1
      BY <1>1, <2>2, <2>3
    <3>2. LineOf(t, q) = LineOf(t, q - 1) + 1 /\ LineOf(t, q - 1) \in Nat
      BY <2>2, <3>1, LinesGrow
    <3>3. line <= LineOf(t, q - 1)
      BY <1>1, <3>1, LinesOrdered
    <3> QED
      BY <1>1, <2>2, <3>2, <3>3
  <2>4. q \in 0 .. p
    BY <1>1, <2>2, <2>3
  <2> QED
    BY <2>4 DEF q
<1> QED
  BY <1>2, <1>3

LEMMA EolInside ==
    ASSUME NEW t \in Seq(Chars), NEW p \in Nat
    PROVE  Eol(t, p) \in 0 .. Len(t)
<1> DEFINE start == LineStart(t, LineOf(t, p) + 1)
<1>1. LineOf(t, p) + 1 \in Int /\ Len(t) \in Nat
  <2>1. LineOf(t, p) \in Nat
    BY LinesGrow
  <2> QED
    BY <2>1
<1>2. start \in 0 .. Len(t)
  BY <1>1, LineStartInside
<1>3. Eol(t, p) \in {start, start - 1} /\ (Eol(t, p) = start \/ start > 0)
  BY <1>2 DEF Eol
<1> HIDE DEF start
<1> QED
  BY <1>1, <1>2, <1>3

LEMMA TenthsInside ==
    ASSUME NEW t \in Seq(Chars), NEW n \in Int
    PROVE  Tenths(t, n) \in 0 .. Len(t)
<1> DEFINE k == IF n < 0 THEN 0 ELSE IF n > 10 THEN 10 ELSE n
           L == Len(t)
<1>1. L \in Nat /\ k \in 0 .. 10
  OBVIOUS
<1>2. Tenths(t, n) = (L * k) \div 10
  BY DEF Tenths
<1> HIDE DEF k, L
<1>3. L * k \in 0 .. 10 * L
  <2>1. \/ k = 0 \/ k = 1 \/ k = 2 \/ k = 3 \/ k = 4 \/ k = 5
        \/ k = 6 \/ k = 7 \/ k = 8 \/ k = 9 \/ k = 10
    BY <1>1
  <2> QED
    BY <1>1, <2>1
<1> DEFINE v == L * k
<1>4. v \in 0 .. 10 * L
  BY <1>3
<1>5. (L * k) \div 10 = v \div 10
  OBVIOUS
<1> HIDE DEF v
<1>6. v \div 10 \in 0 .. L
  BY <1>1, <1>4
<1> QED
  BY <1>2, <1>5, <1>6 DEF L

\* The targets of the commands are within the text.
LEMMA TargetsInside ==
    ASSUME NEW t \in Seq(Chars), NEW p \in 0 .. Len(t), NEW n \in Int, NEW explicit \in BOOLEAN
    PROVE  /\ MoveChar(t, p, n) \in 0 .. Len(t)
           /\ LineBeginning(t, p, n) \in 0 .. Len(t) /\ LineEnd(t, p, n) \in 0 .. Len(t)
           /\ BufferBeginning(t, n, explicit) \in 0 .. Len(t)
           /\ BufferEnd(t, n, explicit) \in 0 .. Len(t)
           /\ KillLineTo(t, p, n, explicit) \in 0 .. Len(t)
<1>1. p \in Nat /\ Len(t) \in Nat
  OBVIOUS
<1>2. LineOf(t, p) \in Nat
  BY <1>1, LinesGrow
<1>3. MoveChar(t, p, n) \in 0 .. Len(t)
  BY <1>1, WithinInside DEF MoveChar
<1>4. LineBeginning(t, p, n) \in 0 .. Len(t)
  <2>1. LineOf(t, p) + n - 1 \in Int
    BY <1>2
  <2> QED
    BY <2>1, LineStartInside DEF LineBeginning
<1>5. LineEnd(t, p, n) \in 0 .. Len(t)
  <2>1. LineBeginning(t, p, n) \in Nat
    BY <1>1, <1>4
  <2> QED
    BY <2>1, EolInside DEF LineEnd
<1>6. Tenths(t, n) \in 0 .. Len(t)
  BY TenthsInside
<1>7. BufferBeginning(t, n, explicit) \in 0 .. Len(t) /\ BufferEnd(t, n, explicit) \in 0 .. Len(t)
  <2> DEFINE L == Len(t)
             k == Tenths(t, n)
  <2>1. L \in Nat /\ k \in 0 .. L
    BY <1>1, <1>6
  <2>2. BufferBeginning(t, n, explicit) \in {0, k} /\ BufferEnd(t, n, explicit) \in {L, L - k}
    BY DEF BufferBeginning, BufferEnd
  <2> HIDE DEF L, k
  <2>3. 0 \in 0 .. L /\ L \in 0 .. L /\ L - k \in 0 .. L
    BY <2>1
  <2>4. BufferBeginning(t, n, explicit) \in 0 .. L /\ BufferEnd(t, n, explicit) \in 0 .. L
    BY <2>1, <2>2, <2>3
  <2> QED
    BY <2>4 DEF L
<1>8. KillLineTo(t, p, n, explicit) \in 0 .. Len(t)
  <2> DEFINE end == Eol(t, p)
             start == LineStart(t, LineOf(t, p) + n)
             L == Len(t)
  <2>1. LineOf(t, p) + n \in Int
    BY <1>2
  <2>2. start \in 0 .. L /\ end \in 0 .. L /\ L \in Nat
    BY <1>1, <2>1, LineStartInside, EolInside
  <2>3. \/ KillLineTo(t, p, n, explicit) = start
        \/ KillLineTo(t, p, n, explicit) = end
        \/ end < L /\ KillLineTo(t, p, n, explicit) = end + 1
    BY DEF KillLineTo
  <2> HIDE DEF end, start, L
  <2>4. end < L => end + 1 \in 0 .. L
    BY <2>2
  <2>5. KillLineTo(t, p, n, explicit) \in 0 .. L
    BY <2>2, <2>3, <2>4
  <2> QED
    BY <2>5 DEF L
<1> QED
  BY <1>3, <1>4, <1>5, <1>7, <1>8

\* What newline-and-indent puts there is a text.
LEMMA IndentedTyped ==
    ASSUME NEW t \in Seq(Chars), NEW p \in 0 .. Len(t)
    PROVE  Indented(t, p) \in Seq(Chars)
<1> DEFINE start == LineStart(t, LineOf(t, p))
           G == {n \in 0 .. p - start : n = p - start \/ t[start + n + 1] # Space}
           found == CHOOSE n \in 0 .. p - start :
                        /\ n = p - start \/ t[start + n + 1] # Space
                        /\ \A i \in 1 .. n : t[start + i] = Space
<1>1. start \in 0 .. p /\ p \in Nat
  BY LineStartBefore
<1>2. Indented(t, p) = <<Newline>> \o [i \in 1 .. found |-> Space]
  BY DEF Indented
<1> HIDE DEF start
<1>3. 0 \in Nat /\ p - start \in Nat /\ 0 <= p - start /\ p - start \in G
  BY <1>1
<1>4. PICK q : FirstIn(0, p - start, q, G)
  <2> HIDE DEF G
  <2> QED
    BY <1>3, FirstExists
<1>5. /\ q \in 0 .. p - start /\ (q = p - start \/ t[start + q + 1] # Space)
      /\ \A r \in 0 .. q - 1 : r \notin G
  BY <1>4 DEF FirstIn
<1>6. ASSUME NEW i \in 1 .. q PROVE t[start + i] = Space
  <2>1. i - 1 \in 0 .. q - 1 /\ i - 1 \in 0 .. p - start /\ start + (i - 1) + 1 = start + i
    BY <1>1, <1>5
  <2>2. i - 1 \notin G
    BY <1>5, <2>1
  <2>3. t[start + (i - 1) + 1] = Space
    BY <2>1, <2>2
  <2> QED
    BY <2>1, <2>3
<1>7. found \in 0 .. p - start
  BY <1>5, <1>6
<1> HIDE DEF found
<1>8. found \in Nat
  BY <1>1, <1>7
<1>9. Newline \in Chars /\ Space \in Chars
  BY CharAssumption
<1>10. <<Newline>> \in Seq(Chars) /\ [i \in 1 .. found |-> Space] \in Seq(Chars)
  BY <1>8, <1>9
<1>11. \A u, v \in Seq(Chars) : u \o v \in Seq(Chars)
  OBVIOUS
<1>12. <<Newline>> \o [i \in 1 .. found |-> Space] \in Seq(Chars)
  BY <1>10, <1>11, Zenon
<1> QED
  BY <1>2, <1>12, Zenon

\* Copies of a text, one after the other.
LEMMA CopiesTyped ==
    ASSUME NEW s \in Seq(Chars), NEW n \in Nat
    PROVE  FlattenSeq([i \in 1 .. n |-> s]) \in Seq(Chars)
<1> DEFINE S == Seq(Chars)
           seqs == [i \in 1 .. n |-> s]
           Def(h) == h = [i \in 1 .. Len(seqs) |-> IF i = 1 THEN seqs[i] ELSE h[i - 1] \o seqs[i]]
           f == CHOOSE h : Def(h)
<1>1. Len(seqs) = n /\ \A i \in 1 .. n : seqs[i] = s
  OBVIOUS
<1>2. CASE n = 0
  <2>1. seqs = <<>>
    BY <1>2
  <2>2. FlattenSeq(seqs) = <<>>
    BY <1>1, <1>2, <2>1 DEF FlattenSeq
  <2> QED
    BY <2>2
<1>3. CASE n # 0
  <2> DEFINE m == n - 1
             step == [i \in 1 .. m |-> [x \in S |-> x \o s]]
  <2>1. m \in Nat /\ s \in S
    BY <1>3
  <2>2. step \in [1 .. m -> [S -> S]] /\ \A i \in 1 .. m, x \in S : step[i][x] = x \o s
    OBVIOUS
  <2>3. FlattenSeq(seqs) = f[n]
    BY <1>1, <1>3 DEF FlattenSeq
  <2> HIDE DEF seqs, S, step
  <2>4. PICK r : Runs(r, S, m, s, step)
    <3> HIDE DEF m
    <3> QED
      BY <2>1, <2>2, RunsExist
  <2> DEFINE g == [i \in 1 .. n |-> r[i - 1]]
  <2>5. /\ \A i \in 0 .. m : r[i] \in S
        /\ r[0] = s /\ \A i \in 1 .. m : r[i] = step[i][r[i - 1]]
    BY <2>4 DEF Runs
  <2>6. ASSUME NEW i \in 1 .. n
        PROVE  g[i] = IF i = 1 THEN seqs[i] ELSE g[i - 1] \o seqs[i]
    <3>1. CASE i = 1
      BY <1>1, <2>5, <3>1
    <3>2. CASE i # 1
      <4>1. i - 1 \in 1 .. m /\ i - 1 \in 1 .. n /\ (i - 1) - 1 \in 0 .. m
        BY <3>2
      <4>2. g[i] = r[i - 1] /\ g[i - 1] = r[(i - 1) - 1]
        BY <4>1
      <4>3. r[i - 1] = r[(i - 1) - 1] \o s
        <5> HIDE DEF m, g
        <5> QED
          BY <2>2, <2>5, <4>1
      <4> QED
        BY <1>1, <3>2, <4>2, <4>3
    <3> QED
      BY <3>1, <3>2
  <2>7. g = [i \in 1 .. n |-> g[i]]
    OBVIOUS
  <2> HIDE DEF g
  <2>8. Def(g)
    BY <1>1, <2>6, <2>7, Zenon
  <2>9. Def(f)
    <3> HIDE DEF Def
    <3> QED
      BY <2>8
  <2> HIDE DEF f
  <2>10. \A i \in 1 .. n : f[i] = IF i = 1 THEN seqs[i] ELSE f[i - 1] \o seqs[i]
    <3>1. \A i \in 1 .. Len(seqs) : f[i] = IF i = 1 THEN seqs[i] ELSE f[i - 1] \o seqs[i]
      <4> HIDE DEF Def
      <4> QED
        BY <2>9, Zenon DEF Def
    <3> QED
      BY <1>1, <3>1, Zenon
  <2> HIDE DEF Def
  <2> DEFINE T == {i \in Nat : i + 1 <= n => f[i + 1] \in Seq(Chars)}
  <2>11. 0 \in T
    <3>1. 1 \in 1 .. n
      BY <1>3
    <3>2. f[1] = s
      BY <1>1, <2>10, <3>1
    <3> QED
      BY <3>2
  <2>12. \A i \in Nat : i \in T => i + 1 \in T
    <3> SUFFICES ASSUME NEW i \in Nat, (i + 1) + 1 <= n, f[i + 1] \in Seq(Chars)
                 PROVE  f[(i + 1) + 1] \in Seq(Chars)
      OBVIOUS
    <3>1. (i + 1) + 1 \in 1 .. n /\ (i + 1) + 1 # 1 /\ ((i + 1) + 1) - 1 = i + 1
      OBVIOUS
    <3>2. f[(i + 1) + 1] = f[i + 1] \o s
      BY <1>1, <2>10, <3>1
    <3> QED
      BY <3>2
  <2>13. Nat \subseteq T
    <3> HIDE DEF T
    <3> QED
      BY <2>11, <2>12, SetInduction
  <2>14. f[n] \in Seq(Chars)
    <3>1. n - 1 \in Nat /\ (n - 1) + 1 = n
      BY <1>3
    <3>2. n - 1 \in T
      BY <2>13, <3>1
    <3> QED
      BY <3>1, <3>2
  <2> QED
    BY <2>3, <2>14 DEF seqs
<1> QED
  BY <1>2, <1>3

-----------------------------------------------------------------------------
(***************************************************************************)
(* What Replaced makes of a text.                                          *)
(***************************************************************************)
Associates(u, v, w) == (u \o v) \o w = u \o (v \o w)

LEMMA Associative ==
    ASSUME NEW S, NEW u \in Seq(S), NEW v \in Seq(S), NEW w \in Seq(S)
    PROVE  Associates(u, v, w)
<1>1. (u \o v) \o w = u \o (v \o w)
  BY ConcatAssociative
<1> QED
  BY <1>1 DEF Associates

\* A text is its parts.
IsParts(t, u, v, w) == t = (u \o v) \o w

LEMMA PartsOf ==
    ASSUME NEW S, NEW t \in Seq(S), NEW a \in Nat, NEW z \in Nat, a <= z, z <= Len(t)
    PROVE  /\ SubSeq(t, 1, a) \in Seq(S) /\ Len(SubSeq(t, 1, a)) = a
           /\ SubSeq(t, a + 1, z) \in Seq(S) /\ Len(SubSeq(t, a + 1, z)) = z - a
           /\ SubSeq(t, z + 1, Len(t)) \in Seq(S)
           /\ IsParts(t, SubSeq(t, 1, a), SubSeq(t, a + 1, z), SubSeq(t, z + 1, Len(t)))
<1> DEFINE u == SubSeq(t, 1, a)
           v == SubSeq(t, a + 1, z)
           w == SubSeq(t, z + 1, Len(t))
<1>1. /\ u \in Seq(S) /\ Len(u) = a /\ \A i \in 1 .. a : u[i] = t[i]
      /\ v \in Seq(S) /\ Len(v) = z - a /\ \A i \in 1 .. z - a : v[i] = t[a + i]
      /\ w \in Seq(S) /\ Len(w) = Len(t) - z /\ \A i \in 1 .. Len(t) - z : w[i] = t[z + i]
  <2> DEFINE L == Len(t)
  <2>1. L \in Nat /\ \A i \in 1 .. L : t[i] \in S
    OBVIOUS
  <2>2. u \in Seq(S) /\ Len(u) = a /\ \A i \in 1 .. a : u[i] = t[i]
    OBVIOUS
  <2>3. v \in Seq(S) /\ Len(v) = z - a /\ \A i \in 1 .. z - a : v[i] = t[a + i]
    OBVIOUS
  <2>4. w \in Seq(S) /\ Len(w) = L - z /\ \A i \in 1 .. L - z : w[i] = t[z + i]
    OBVIOUS
  <2> HIDE DEF u, v, w
  <2> QED
    BY <2>2, <2>3, <2>4
<1>2. Len(t) \in Nat
  OBVIOUS
<1> HIDE DEF u, v, w
<1> DEFINE x == u \o v
           y == x \o w
<1>3. /\ x \in Seq(S) /\ Len(x) = z
      /\ \A i \in 1 .. z : x[i] = IF i <= a THEN u[i] ELSE v[i - a]
  BY <1>1, ConcatProperties
<1> HIDE DEF x
<1>4. /\ y \in Seq(S) /\ Len(y) = Len(t)
      /\ \A i \in 1 .. Len(t) : y[i] = IF i <= z THEN x[i] ELSE w[i - z]
  <2>1. /\ y \in Seq(S) /\ Len(y) = Len(x) + Len(w)
        /\ \A i \in 1 .. Len(x) + Len(w) : y[i] = IF i <= Len(x) THEN x[i] ELSE w[i - Len(x)]
    <3>1. x \in Seq(S) /\ w \in Seq(S)
      BY <1>1, <1>3
    <3> QED
      BY <3>1, ConcatProperties
  <2>2. Len(x) + Len(w) = Len(t)
    BY <1>1, <1>2, <1>3
  <2> HIDE DEF y
  <2> QED
    BY <1>3, <2>1, <2>2
<1> HIDE DEF y
<1>5. ASSUME NEW i \in 1 .. Len(t) PROVE t[i] = y[i]
  <2>1. CASE i <= a
    BY <1>1, <1>2, <1>3, <1>4, <2>1
  <2>2. CASE i > a /\ i <= z
    <3>1. i - a \in 1 .. z - a /\ a + (i - a) = i /\ i \in 1 .. z
      BY <1>2, <2>2
    <3>2. y[i] = v[i - a]
      BY <1>3, <1>4, <2>2, <3>1
    <3> QED
      BY <1>1, <3>1, <3>2
  <2>3. CASE i > z
    <3>1. i - z \in 1 .. Len(t) - z /\ z + (i - z) = i
      BY <1>2, <2>3
    <3>2. y[i] = w[i - z]
      BY <1>2, <1>4, <2>3
    <3> QED
      BY <1>1, <3>1, <3>2
  <2> QED
    BY <1>2, <2>1, <2>2, <2>3
<1>6. t = y
  BY <1>4, <1>5, SeqEqual
<1> QED
  BY <1>1, <1>6 DEF IsParts, u, v, w, x, y

\* The parts of three texts joined.
LEMMA JoinedParts ==
    ASSUME NEW S, NEW u \in Seq(S), NEW v \in Seq(S), NEW w \in Seq(S)
    PROVE  /\ SubSeq((u \o v) \o w, 1, Len(u)) = u
           /\ SubSeq((u \o v) \o w, Len(u) + Len(v) + 1, Len((u \o v) \o w)) = w
<1> DEFINE x == u \o v
           y == x \o w
           a == Len(u)
           z == Len(u) + Len(v)
<1>1. a \in Nat /\ z \in Nat /\ a <= z /\ Len(w) \in Nat /\ Len(v) = z - a
  OBVIOUS
<1>2. /\ x \in Seq(S) /\ Len(x) = z
      /\ \A i \in 1 .. z : x[i] = IF i <= a THEN u[i] ELSE v[i - a]
  BY ConcatProperties
<1> HIDE DEF x
<1>3. /\ y \in Seq(S) /\ Len(y) = z + Len(w)
      /\ \A i \in 1 .. z + Len(w) : y[i] = IF i <= z THEN x[i] ELSE w[i - z]
  <2> HIDE DEF z
  <2> QED
    BY <1>2, ConcatProperties
<1> HIDE DEF y, z, a
<1> DEFINE l == SubSeq(y, 1, a)
           r == SubSeq(y, z + 1, Len(y))
<1>4. l \in Seq(S) /\ Len(l) = a /\ \A i \in 1 .. a : l[i] = y[i]
  BY <1>1, <1>3
<1>5. /\ r \in Seq(S) /\ Len(r) = Len(w)
      /\ \A i \in 1 .. Len(w) : r[i] = y[z + i]
  BY <1>1, <1>3
<1> HIDE DEF l, r
<1>6. l = u
  <2>1. Len(u) = a
    BY DEF a
  <2>2. \A i \in 1 .. Len(l) : l[i] = u[i]
    BY <1>1, <1>2, <1>3, <1>4
  <2> QED
    BY <1>4, <2>1, <2>2, SeqEqual
<1>7. r = w
  <2>1. ASSUME NEW i \in 1 .. Len(r) PROVE r[i] = w[i]
    <3>1. z + i \in 1 .. z + Len(w) /\ ~(z + i <= z) /\ (z + i) - z = i
      BY <1>1, <1>5
    <3> QED
      BY <1>3, <1>5, <3>1
  <2> QED
    BY <1>5, <2>1, SeqEqual
<1> QED
  BY <1>6, <1>7 DEF l, r, y, x, z, a

LEMMA ReplacedParts ==
    ASSUME NEW S, NEW t, NEW u \in Seq(S), NEW v \in Seq(S), NEW w \in Seq(S), NEW x,
           NEW a, NEW n, IsParts(t, u, v, w), a = Len(u), n = Len(v)
    PROVE  IsParts(Replaced(t, a, n, x), u, x, w)
<1>1. /\ SubSeq((u \o v) \o w, 1, Len(u)) = u
      /\ SubSeq((u \o v) \o w, Len(u) + Len(v) + 1, Len((u \o v) \o w)) = w
  BY JoinedParts
<1>2. SubSeq(t, 1, a) = u /\ SubSeq(t, a + n + 1, Len(t)) = w
  BY <1>1, Zenon DEF IsParts
<1> QED
  BY <1>2, Zenon DEF Replaced, IsParts

LEMMA ReplacedTyped ==
    ASSUME NEW S, NEW t \in Seq(S), NEW at \in Nat, NEW count \in Nat, at + count <= Len(t),
           NEW s \in Seq(S)
    PROVE  /\ Replaced(t, at, count, s) \in Seq(S)
           /\ Len(Replaced(t, at, count, s)) = Len(t) - count + Len(s)
<1> DEFINE u == SubSeq(t, 1, at)
           w == SubSeq(t, at + count + 1, Len(t))
<1>1. u \in Seq(S) /\ Len(u) = at /\ w \in Seq(S) /\ Len(w) = Len(t) - (at + count)
  OBVIOUS
<1>2. Len(t) \in Nat /\ Len(s) \in Nat
  OBVIOUS
<1>3. Replaced(t, at, count, s) = (u \o s) \o w
  BY DEF Replaced
<1> HIDE DEF u, w
<1>4. u \o s \in Seq(S) /\ Len(u \o s) = at + Len(s)
  <2>1. \A a, b \in Seq(S) : a \o b \in Seq(S) /\ Len(a \o b) = Len(a) + Len(b)
    OBVIOUS
  <2> QED
    BY <1>1, <2>1, Zenon
<1> DEFINE x == u \o s
<1>5. x \in Seq(S) /\ Len(x) = at + Len(s)
  BY <1>4
<1>6. Replaced(t, at, count, s) = x \o w
  BY <1>3
<1> HIDE DEF x
<1>7. x \o w \in Seq(S) /\ Len(x \o w) = Len(x) + Len(w)
  <2>1. \A a, b \in Seq(S) : a \o b \in Seq(S) /\ Len(a \o b) = Len(a) + Len(b)
    OBVIOUS
  <2> QED
    BY <1>1, <1>5, <2>1, Zenon
<1>8. Len(x) + Len(w) = Len(t) - count + Len(s)
  BY <1>1, <1>2, <1>5
<1> QED
  BY <1>6, <1>7, <1>8

\* A kill of what is from at to z, put back, with what it was joined to or alone.
PutBack(t, at, z, entry) ==
    LET s == SubSeq(t, at + 1, z)
        left == Replaced(t, at, Len(s), <<>>)
    IN  /\ Replaced(left, at, 0, s) = t
        /\ Replaced(left, at, 0, s \o entry) = Replaced(t, z, 0, entry)
        /\ Replaced(left, at, 0, entry \o s) = Replaced(t, at, 0, entry)

LEMMA KillPutsBack ==
    ASSUME NEW S, NEW t \in Seq(S), NEW at \in Nat, NEW z \in Nat, at <= z, z <= Len(t),
           NEW entry \in Seq(S)
    PROVE  PutBack(t, at, z, entry)
<1> DEFINE u == SubSeq(t, 1, at)
           s == SubSeq(t, at + 1, z)
           w == SubSeq(t, z + 1, Len(t))
           left == Replaced(t, at, Len(s), <<>>)
<1>1. /\ u \in Seq(S) /\ Len(u) = at /\ s \in Seq(S) /\ Len(s) = z - at
      /\ w \in Seq(S) /\ IsParts(t, u, s, w)
  BY PartsOf
<1> HIDE DEF u, s, w
<1>2. <<>> \in Seq(S) /\ Len(<<>>) = 0 /\ \A x \in Seq(S) : x \o <<>> = x
  OBVIOUS
<1>3. \A x, y \in Seq(S) : x \o y \in Seq(S)
  OBVIOUS
<1>4. u \in Seq(S) /\ s \in Seq(S) /\ w \in Seq(S) /\ entry \in Seq(S)
  BY <1>1
<1>5. /\ Associates(u, s, entry) /\ Associates(u, entry, s)
      /\ Associates(u, s, w) /\ Associates(u \o entry, s, w)
  <2>1. u \o entry \in Seq(S)
    BY <1>3, <1>4, Zenon
  <2> QED
    BY <1>4, <2>1, Associative, Zenon
<1>6. u \o <<>> = u
  BY <1>2, <1>4, Zenon
<1> DEFINE empty == <<>>
<1>7. empty \in Seq(S) /\ at = Len(u) /\ 0 = Len(empty)
  BY <1>1, <1>2
<1>8. ASSUME NEW x PROVE IsParts(Replaced(left, at, 0, x), u, x, w)
  <2>1. IsParts(left, u, empty, w)
    BY <1>1, <1>7, ReplacedParts, Zenon
  <2> HIDE DEF left, empty
  <2> QED
    BY <1>1, <1>7, <2>1, ReplacedParts, Zenon
<1> HIDE DEF left
<1>9. Replaced(left, at, 0, s) = t
  BY <1>1, <1>8, Zenon DEF IsParts
<1>10. Replaced(left, at, 0, s \o entry) = Replaced(t, z, 0, entry)
  <2> DEFINE x == u \o s
  <2>1. x \in Seq(S) /\ z = Len(x)
    BY <1>1
  <2>2. x \o <<>> = x
    BY <1>2, <2>1, Zenon
  <2>3. IsParts(t, x, empty, w)
    BY <1>1, <2>2, Zenon DEF IsParts
  <2> HIDE DEF x, empty
  <2>4. IsParts(Replaced(t, z, 0, entry), x, entry, w)
    BY <1>1, <1>7, <2>1, <2>3, ReplacedParts, Zenon
  <2>5. x \o entry = u \o (s \o entry)
    BY <1>5, Zenon DEF x, Associates
  <2> QED
    BY <1>8, <2>4, <2>5, Zenon DEF IsParts
<1>11. Replaced(left, at, 0, entry \o s) = Replaced(t, at, 0, entry)
  <2> DEFINE x == s \o w
  <2>1. x \in Seq(S)
    BY <1>1
  <2>2. u \o <<>> = u /\ (u \o s) \o w = u \o x
    BY <1>5, <1>6, Zenon DEF x, Associates
  <2> HIDE DEF x
  <2>3. IsParts(t, u, empty, x)
    BY <1>1, <2>2, Zenon DEF IsParts
  <2>4. IsParts(Replaced(t, at, 0, entry), u, entry, x)
    <3> HIDE DEF empty
    <3> QED
      BY <1>1, <1>7, <2>1, <2>3, ReplacedParts, Zenon
  <2>5. ((u \o entry) \o s) \o w = (u \o entry) \o x
    BY <1>5, Zenon DEF x, Associates
  <2>6. (u \o entry) \o s = u \o (entry \o s)
    BY <1>5, Zenon DEF Associates
  <2> QED
    BY <1>8, <2>4, <2>5, <2>6, Zenon DEF IsParts
<1> QED
  BY <1>9, <1>10, <1>11, Zenon DEF PutBack, left, s

\* Another text in the place of the one that was put there.
LEMMA PopReplaces ==
    ASSUME NEW S, NEW t \in Seq(S), NEW at \in Nat, at <= Len(t),
           NEW old \in Seq(S), NEW new, NEW n, n = Len(old)
    PROVE  Replaced(Replaced(t, at, 0, old), at, n, new) = Replaced(t, at, 0, new)
<1> DEFINE u == SubSeq(t, 1, at)
           v == SubSeq(t, at + 1, at)
           w == SubSeq(t, at + 1, Len(t))
<1>1. /\ u \in Seq(S) /\ Len(u) = at /\ v \in Seq(S) /\ Len(v) = 0
      /\ w \in Seq(S) /\ IsParts(t, u, v, w)
  <2>1. at <= at /\ at - at = 0
    OBVIOUS
  <2> HIDE DEF u, v, w
  <2> QED
    BY <2>1, PartsOf DEF u, v, w
<1> HIDE DEF u, v, w
<1>2. ASSUME NEW x PROVE IsParts(Replaced(t, at, 0, x), u, x, w)
  BY <1>1, ReplacedParts
<1>3. IsParts(Replaced(Replaced(t, at, 0, old), at, n, new), u, new, w)
  BY <1>1, <1>2, ReplacedParts
<1> QED
  BY <1>2, <1>3, Zenon DEF IsParts

-----------------------------------------------------------------------------
(***************************************************************************)
(* The state of KillRing.                                                  *)
(***************************************************************************)
ShortTexts == {s \in Seq(Chars) : Len(s) <= MaxText}

Placed(t, p, m) == t \in ShortTexts /\ p \in 0 .. Len(t) /\ m \in -1 .. Len(t)

BuffersOk ==
    /\ text \in [Buffers -> Seq(Chars)] /\ point \in [Buffers -> Int] /\ mark \in [Buffers -> Int]
    /\ readonly \in [Buffers -> BOOLEAN] /\ current \in Buffers
    /\ \A b \in Buffers : Placed(text[b], point[b], mark[b])

RingTyped(ring) == ring \in Seq(Seq(Chars)) /\ Len(ring) <= MaxRing

RingOk ==
    /\ RingTyped(kill_ring)
    /\ yank_index \in 0 .. MaxRing /\ (kill_ring # <<>> => yank_index < Len(kill_ring))
    /\ yank_start \in Nat /\ yank_end \in Nat
    /\ last_kind \in 0 .. 2
    /\ last_kind = 2 => kill_ring # <<>> /\ yank_start <= yank_end

\* The entry of a run of kills puts back what there was.
KillInv ==
    last_kind = 1 /\ origin # None
    => kill_ring # <<>> /\ Replaced(text[current], point[current], 0, kill_ring[1]) = origin.text

\* The last yank is where the editor takes it to be, and nothing else has changed.
YankInv ==
    last_kind = 2 /\ base # None
    => /\ base.buffer = current /\ base.text \in Seq(Chars) /\ base.at \in 0 .. Len(base.text)
       /\ yank_start = base.at /\ yank_end = base.at + Len(kill_ring[yank_index + 1])
       /\ text[current] = Replaced(base.text, base.at, 0, kill_ring[yank_index + 1])

RingInv == BuffersOk /\ RingOk /\ KillInv /\ YankInv

LEMMA Limits == MaxText \in Nat /\ MaxRing \in Nat \ {0}
BY BoundAssumption

LEMMA StringsAre ==
    ASSUME NEW n \in Nat
    PROVE  Strings(n) = {s \in Seq(Chars) : Len(s) <= n}
<1>1. ASSUME NEW s \in Strings(n) PROVE s \in Seq(Chars) /\ Len(s) <= n
  <2>1. PICK k \in 0 .. n : s \in [1 .. k -> Chars]
    BY DEF Strings
  <2>2. k \in Nat /\ s \in Seq(Chars) /\ Len(s) = k
    BY <2>1
  <2> QED
    BY <2>1, <2>2
<1>2. ASSUME NEW s \in Seq(Chars), Len(s) <= n PROVE s \in Strings(n)
  <2>1. Len(s) \in 0 .. n /\ s \in [1 .. Len(s) -> Chars]
    BY <1>2
  <2> QED
    BY <2>1 DEF Strings
<1> QED
  BY <1>1, <1>2

\* A buffer is changed.
LEMMA Edited ==
    ASSUME BuffersOk, NEW b \in Buffers, NEW t, NEW p, NEW m, Placed(t, p, m),
           text' = [text EXCEPT ![b] = t], point' = [point EXCEPT ![b] = p],
           mark' = [mark EXCEPT ![b] = m],
           readonly' \in [Buffers -> BOOLEAN], current' \in Buffers
    PROVE  BuffersOk' /\ text'[b] = t /\ point'[b] = p
<1>1. t \in Seq(Chars) /\ p \in Int /\ m \in Int
  BY DEF Placed, ShortTexts
<1>2. text' \in [Buffers -> Seq(Chars)] /\ point' \in [Buffers -> Int] /\ mark' \in [Buffers -> Int]
  BY <1>1 DEF BuffersOk
<1>3. text'[b] = t /\ point'[b] = p /\ mark'[b] = m
  BY DEF BuffersOk
<1>4. ASSUME NEW c \in Buffers PROVE Placed(text'[c], point'[c], mark'[c])
  <2>1. CASE c = b
    BY <1>3, <2>1
  <2>2. CASE c # b
    <3>1. text'[c] = text[c] /\ point'[c] = point[c] /\ mark'[c] = mark[c]
      BY <2>2 DEF BuffersOk
    <3> QED
      BY <3>1 DEF BuffersOk
  <2> QED
    BY <2>1, <2>2
<1> QED
  BY <1>2, <1>3, <1>4 DEF BuffersOk

LEMMA SameHere ==
    ASSUME NEW T, NEW f \in [Buffers -> T], NEW b \in Buffers
    PROVE  f = [f EXCEPT ![b] = f[b]]
OBVIOUS

\* Point and mark are moved.
LEMMA Moved ==
    ASSUME BuffersOk, NEW b \in Buffers, NEW p \in 0 .. Len(text[b]), NEW m \in -1 .. Len(text[b]),
           text' = text, point' = [point EXCEPT ![b] = p], mark' = [mark EXCEPT ![b] = m],
           readonly' \in [Buffers -> BOOLEAN], current' \in Buffers
    PROVE  BuffersOk'
<1>1. Placed(text[b], p, m)
  BY DEF BuffersOk, Placed
<1>2. text' = [text EXCEPT ![b] = text[b]]
  BY SameHere DEF BuffersOk
<1> QED
  BY <1>1, <1>2, Edited

LEMMA PointMoved ==
    ASSUME BuffersOk, NEW b \in Buffers, NEW p \in 0 .. Len(text[b]),
           text' = text, point' = [point EXCEPT ![b] = p], mark' = mark,
           readonly' = readonly, current' \in Buffers
    PROVE  BuffersOk'
<1>1. mark[b] \in -1 .. Len(text[b]) /\ readonly' \in [Buffers -> BOOLEAN]
  BY DEF BuffersOk, Placed
<1>2. mark' = [mark EXCEPT ![b] = mark[b]]
  BY SameHere DEF BuffersOk
<1> QED
  BY <1>1, <1>2, Moved

LEMMA MarkMoved ==
    ASSUME BuffersOk, NEW b \in Buffers, NEW m \in -1 .. Len(text[b]),
           text' = text, point' = point, mark' = [mark EXCEPT ![b] = m],
           readonly' = readonly, current' \in Buffers
    PROVE  BuffersOk'
<1>1. point[b] \in 0 .. Len(text[b]) /\ readonly' \in [Buffers -> BOOLEAN]
  BY DEF BuffersOk, Placed
<1>2. point' = [point EXCEPT ![b] = point[b]]
  BY SameHere DEF BuffersOk
<1> QED
  BY <1>1, <1>2, Moved

LEMMA RelocatedInside ==
    ASSUME NEW size \in Nat, NEW m \in -1 .. size, NEW at \in Nat, NEW removed \in Nat,
           NEW added \in Nat, at + removed <= size
    PROVE  /\ Relocated(m, at, removed, added) \in -1 .. size - removed + added
           /\ m >= 0 => PointAfter(m, at, removed, added) \in 0 .. size - removed + added
BY DEF Relocated, PointAfter

\* The text of the current buffer is replaced from at on.
LEMMA ReplaceKeeps ==
    ASSUME BuffersOk, NEW at \in Nat, NEW count \in Nat, at + count <= Len(text[current]),
           NEW s \in Seq(Chars), NEW p \in 0 .. Len(text[current]) - count + Len(s),
           Replace(at, count, s, p)
    PROVE  /\ BuffersOk'
           /\ text'[current'] = Replaced(text[current], at, count, s) /\ point'[current'] = p
<1> DEFINE t == Replaced(text[current], at, count, s)
           m == Relocated(mark[current], at, count, Len(s))
           size == Len(text[current])
<1>1. /\ current \in Buffers /\ text[current] \in Seq(Chars) /\ size \in Nat /\ Len(s) \in Nat
      /\ mark[current] \in -1 .. size
  BY DEF BuffersOk, Placed
<1>2. /\ size - count + Len(s) <= MaxText
      /\ text' = [text EXCEPT ![current] = t]
      /\ mark' = [mark EXCEPT ![current] = m]
      /\ point' = [point EXCEPT ![current] = p]
      /\ readonly' = readonly /\ current' = current
  BY DEF Replace
<1>3. t \in Seq(Chars) /\ Len(t) = size - count + Len(s)
  <2> DEFINE old == text[current]
  <2>1. old \in Seq(Chars) /\ at + count <= Len(old)
    BY <1>1
  <2> HIDE DEF old
  <2>2. /\ Replaced(old, at, count, s) \in Seq(Chars)
        /\ Len(Replaced(old, at, count, s)) = Len(old) - count + Len(s)
    BY <2>1, ReplacedTyped
  <2> QED
    BY <2>2 DEF old
<1>4. m \in -1 .. size - count + Len(s)
  <2> HIDE DEF size
  <2> QED
    BY <1>1, RelocatedInside DEF size
<1> HIDE DEF t, m, size
<1>5. Placed(t, p, m)
  <2>1. p \in 0 .. size - count + Len(s)
    BY DEF size
  <2> QED
    BY <1>2, <1>3, <1>4, <2>1 DEF Placed, ShortTexts
<1>6. readonly' \in [Buffers -> BOOLEAN] /\ current' \in Buffers
  BY <1>1, <1>2 DEF BuffersOk
<1>7. BuffersOk' /\ text'[current] = t /\ point'[current] = p
  BY <1>1, <1>2, <1>5, <1>6, Edited
<1> QED
  BY <1>2, <1>7 DEF t

\* A text is put where the mark is then.
LEMMA InsertKeeps ==
    ASSUME BuffersOk, NEW at \in Nat, NEW removed \in Nat, at + removed <= Len(text[current]),
           NEW s \in Seq(Chars), Insert(s, at, removed)
    PROVE  /\ BuffersOk'
           /\ text'[current] = Replaced(text[current], at, removed, s) /\ current' = current
           /\ yank_end' = at + Len(s) /\ yank_end' \in Nat
<1> DEFINE t == Replaced(text[current], at, removed, s)
           p == at + Len(s)
           size == Len(text[current])
<1>1. current \in Buffers /\ text[current] \in Seq(Chars) /\ size \in Nat /\ Len(s) \in Nat
  BY DEF BuffersOk
<1>2. /\ size - removed + Len(s) <= MaxText
      /\ text' = [text EXCEPT ![current] = t]
      /\ mark' = [mark EXCEPT ![current] = at]
      /\ point' = [point EXCEPT ![current] = p]
      /\ readonly' = readonly /\ current' = current /\ yank_end' = p
  BY DEF Insert
<1>3. t \in Seq(Chars) /\ Len(t) = size - removed + Len(s)
  <2> DEFINE old == text[current]
  <2>1. old \in Seq(Chars) /\ at + removed <= Len(old)
    BY <1>1
  <2> HIDE DEF old
  <2>2. /\ Replaced(old, at, removed, s) \in Seq(Chars)
        /\ Len(Replaced(old, at, removed, s)) = Len(old) - removed + Len(s)
    BY <2>1, ReplacedTyped
  <2> QED
    BY <2>2 DEF old
<1>4. at + removed <= size
  OBVIOUS
<1> HIDE DEF t, size
<1>5. p \in 0 .. Len(t) /\ at \in -1 .. Len(t) /\ p \in Nat
  BY <1>1, <1>3, <1>4
<1> HIDE DEF p
<1>6. Placed(t, p, at)
  BY <1>2, <1>3, <1>5 DEF Placed, ShortTexts
<1>7. readonly' \in [Buffers -> BOOLEAN] /\ current' \in Buffers
  BY <1>1, <1>2 DEF BuffersOk
<1>8. BuffersOk' /\ text'[current] = t
  BY <1>1, <1>2, <1>6, <1>7, Edited
<1> QED
  BY <1>2, <1>5, <1>8 DEF t, p

-----------------------------------------------------------------------------
(***************************************************************************)
(* Kills.                                                                  *)
(***************************************************************************)
LEMMA EnteredTyped ==
    ASSUME RingOk, NEW s \in Seq(Chars)
    PROVE  RingTyped(Entered(s)) /\ Entered(s) # <<>> /\ Entered(s)[1] = s
<1> DEFINE kept == IF Len(kill_ring) = MaxRing THEN SubSeq(kill_ring, 1, MaxRing - 1)
                                              ELSE kill_ring
           all == <<s>> \o kept
<1>1. kill_ring \in Seq(Seq(Chars)) /\ Len(kill_ring) <= MaxRing /\ Len(kill_ring) \in Nat
  BY DEF RingOk, RingTyped
<1>2. MaxRing \in Nat \ {0}
  BY Limits
<1>3. kept \in Seq(Seq(Chars)) /\ Len(kept) <= MaxRing - 1 /\ Len(kept) \in Nat
  <2>1. CASE Len(kill_ring) = MaxRing
    <3> DEFINE r == SubSeq(kill_ring, 1, MaxRing - 1)
    <3>1. r \in Seq(Seq(Chars)) /\ Len(r) = MaxRing - 1
      BY <1>1, <1>2, <2>1
    <3> QED
      BY <1>2, <2>1, <3>1
  <2>2. CASE Len(kill_ring) # MaxRing
    BY <1>1, <1>2, <2>2
  <2> QED
    BY <2>1, <2>2
<1> HIDE DEF kept
<1>4. <<s>> \in Seq(Seq(Chars)) /\ Len(<<s>>) = 1 /\ <<s>>[1] = s
  OBVIOUS
<1>5. all \in Seq(Seq(Chars)) /\ Len(all) = 1 + Len(kept) /\ all[1] = s
  BY <1>3, <1>4, ConcatProperties
<1>6. Entered(s) = all
  BY DEF Entered, kept
<1> HIDE DEF all
<1>7. Len(all) <= MaxRing /\ all # <<>>
  BY <1>2, <1>3, <1>5
<1> QED
  BY <1>5, <1>6, <1>7 DEF RingTyped

LEMMA PushKeeps ==
    ASSUME RingOk, NEW s \in Seq(Chars), NEW backwards, NEW append,
           PushKill(s, backwards, append)
    PROVE  /\ RingTyped(kill_ring') /\ kill_ring' # <<>> /\ yank_index' = 0
           /\ kill_ring'[1] = IF append /\ kill_ring # <<>> THEN Joined(s, backwards) ELSE s
<1>1. kill_ring \in Seq(Seq(Chars)) /\ Len(kill_ring) <= MaxRing
  BY DEF RingOk, RingTyped
<1>2. yank_index' = 0
  BY DEF PushKill
<1>3. CASE append /\ kill_ring # <<>>
  <2> DEFINE first == Joined(s, backwards)
             rest == Tail(kill_ring)
             all == <<first>> \o rest
  <2>1. /\ kill_ring[1] \in Seq(Chars) /\ Len(kill_ring) \in Nat \ {0}
        /\ rest \in Seq(Seq(Chars)) /\ Len(rest) = Len(kill_ring) - 1
    BY <1>1, <1>3
  <2>2. first \in Seq(Chars)
    <3>1. \A u, v \in Seq(Chars) : u \o v \in Seq(Chars)
      OBVIOUS
    <3> QED
      BY <2>1, <3>1 DEF Joined
  <2>3. kill_ring' = all
    BY <1>3 DEF PushKill
  <2> HIDE DEF first, rest
  <2>4. <<first>> \in Seq(Seq(Chars)) /\ Len(<<first>>) = 1 /\ <<first>>[1] = first
    BY <2>2
  <2>5. all \in Seq(Seq(Chars)) /\ Len(all) = 1 + Len(rest) /\ all[1] = first
    BY <2>1, <2>4, ConcatProperties
  <2> HIDE DEF all
  <2>6. Len(all) = Len(kill_ring) /\ all # <<>>
    BY <2>1, <2>5
  <2> QED
    BY <1>1, <1>2, <1>3, <2>3, <2>5, <2>6 DEF RingTyped, first
<1>4. CASE ~(append /\ kill_ring # <<>>)
  <2>1. kill_ring' = Entered(s)
    BY <1>4 DEF PushKill
  <2> QED
    BY <1>2, <1>4, <2>1, EnteredTyped
<1> QED
  BY <1>3, <1>4

LEMMA KillKeeps ==
    ASSUME RingInv, NEW z \in 0 .. Len(text[current]), Kill(z)
    PROVE  RingInv'
<1> DEFINE t == text[current]
           p == point[current]
           at == IF z < p THEN z ELSE p
           end == IF z < p THEN p ELSE z
           s == SubSeq(t, at + 1, end)
<1>1. /\ BuffersOk /\ RingOk /\ t \in Seq(Chars) /\ Len(t) \in Nat /\ p \in 0 .. Len(t)
      /\ current \in Buffers
  BY DEF RingInv, BuffersOk, Placed
<1>2. at \in Nat /\ end \in Nat /\ at <= end /\ end <= Len(t)
  BY <1>1
<1>3. last_kind' = 1
  BY DEF Kill
<1>4. CASE z = p \/ readonly[current]
  <2>1. /\ origin' = IF last_kind = 1 THEN origin ELSE None
        /\ UNCHANGED <<buffer, kill_ring, yanks>>
    BY <1>4 DEF Kill
  <2>2. BuffersOk'
    BY <1>1, <2>1 DEF buffer, BuffersOk
  <2>3. RingOk'
    BY <1>1, <1>3, <2>1 DEF yanks, RingOk
  <2>4. KillInv'
    BY <2>1 DEF RingInv, KillInv, buffer
  <2>5. YankInv'
    BY <1>3 DEF YankInv
  <2> QED
    BY <2>2, <2>3, <2>4, <2>5 DEF RingInv
<1>5. CASE ~(z = p \/ readonly[current])
  <2>1. /\ PushKill(s, z < p, last_kind = 1)
        /\ Replace(at, Len(s), <<>>, at)
        /\ origin' = IF last_kind = 1 THEN origin ELSE [buffer |-> current, text |-> t]
        /\ UNCHANGED <<yank_start, yank_end, base>>
    BY <1>5 DEF Kill
  <2>2. s \in Seq(Chars) /\ Len(s) = end - at
    BY <1>1, <1>2, PartsOf
  <2>3. /\ RingTyped(kill_ring') /\ kill_ring' # <<>> /\ yank_index' = 0
        /\ kill_ring'[1] = IF last_kind = 1 /\ kill_ring # <<>> THEN Joined(s, z < p) ELSE s
    BY <1>1, <2>1, <2>2, PushKeeps
  <2>4. /\ BuffersOk'
        /\ text'[current'] = Replaced(t, at, Len(s), <<>>) /\ point'[current'] = at
    <3>1. <<>> \in Seq(Chars) /\ Len(<<>>) = 0
      OBVIOUS
    <3>2. at \in 0 .. Len(t) - Len(s) + 0 /\ Len(s) \in Nat /\ at + Len(s) <= Len(t)
      <4> HIDE DEF at, end, s, t
      <4> QED
        BY <1>1, <1>2, <2>2
    <3> HIDE DEF at, s
    <3> QED
      BY <1>1, <1>2, <2>1, <3>1, <3>2, ReplaceKeeps
  <2>5. RingOk'
    <3>1. Len(kill_ring') \in Nat /\ Len(kill_ring') # 0 /\ MaxRing \in Nat
      BY <2>3, Limits DEF RingTyped
    <3> QED
      BY <1>1, <1>3, <2>1, <2>3, <3>1 DEF RingOk
  <2>6. KillInv'
    <3> DEFINE entry == kill_ring[1]
               left == Replaced(t, at, Len(s), <<>>)
    <3>1. CASE last_kind # 1
      <4>1. Replaced(left, at, 0, s) = t
        BY <1>1, <1>2, <2>2, KillPutsBack DEF PutBack
      <4>2. kill_ring'[1] = s /\ origin'.text = t
        BY <2>1, <2>3, <3>1
      <4> HIDE DEF at, s, t, left
      <4> QED
        BY <2>3, <2>4, <4>1, <4>2, Zenon DEF KillInv, left
    <3>2. CASE last_kind = 1 /\ origin' # None
      <4>1. origin' = origin /\ kill_ring # <<>> /\ Replaced(t, p, 0, entry) = origin.text
        BY <2>1, <3>2 DEF RingInv, KillInv
      <4>2. entry \in Seq(Chars)
        BY <1>1, <4>1 DEF RingOk, RingTyped
      <4> HIDE DEF entry
      <4>3. /\ Replaced(left, at, 0, s \o entry) = Replaced(t, end, 0, entry)
            /\ Replaced(left, at, 0, entry \o s) = Replaced(t, at, 0, entry)
        <5>1. PutBack(t, at, end, entry)
          <6> HIDE DEF at, end, t
          <6> QED
            BY <1>1, <1>2, <4>2, KillPutsBack
        <5> QED
          BY <5>1 DEF PutBack
      <4>4. CASE z < p
        <5>1. kill_ring'[1] = s \o entry
          BY <2>3, <3>2, <4>1, <4>4 DEF Joined, entry
        <5>2. end = p
          BY <4>4
        <5> HIDE DEF at, end, s, t, left, p
        <5> QED
          BY <2>3, <2>4, <4>1, <4>3, <5>1, <5>2, Zenon DEF KillInv, left
      <4>5. CASE ~(z < p)
        <5>1. kill_ring'[1] = entry \o s
          BY <2>3, <3>2, <4>1, <4>5 DEF Joined, entry
        <5>2. at = p
          BY <4>5
        <5> HIDE DEF at, end, s, t, left, p
        <5> QED
          BY <2>3, <2>4, <4>1, <4>3, <5>1, <5>2, Zenon DEF KillInv, left
      <4> QED
        BY <4>4, <4>5
    <3>3. CASE origin' = None
      BY <3>3 DEF KillInv
    <3> QED
      BY <3>1, <3>2, <3>3
  <2>7. YankInv'
    BY <1>3 DEF YankInv
  <2> QED
    BY <2>4, <2>5, <2>6, <2>7 DEF RingInv
<1> QED
  BY <1>4, <1>5

-----------------------------------------------------------------------------
(***************************************************************************)
(* Yanks, and the other commands.                                          *)
(***************************************************************************)
LEMMA CopyKeeps ==
    ASSUME RingInv, CopyRegion
    PROVE  RingInv'
<1> DEFINE t == text[current]
           p == point[current]
           m == mark[current]
           at == IF m < p THEN m ELSE p
           end == IF m < p THEN p ELSE m
           s == SubSeq(t, at + 1, end)
<1>1. /\ BuffersOk /\ RingOk /\ t \in Seq(Chars) /\ Len(t) \in Nat /\ p \in 0 .. Len(t)
      /\ m \in 0 .. Len(t)
  BY DEF RingInv, BuffersOk, Placed, CopyRegion
<1>2. /\ last_kind' = 0 /\ origin' = None
      /\ UNCHANGED <<buffer, yank_start, yank_end, base>>
      /\ \/ UNCHANGED <<kill_ring, yank_index>>
         \/ PushKill(s, p > m, FALSE)
  BY DEF CopyRegion, EndRun
<1>3. s \in Seq(Chars)
  <2>1. at \in Nat /\ end \in Nat /\ at <= end /\ end <= Len(t)
    BY <1>1
  <2> QED
    BY <1>1, <2>1, PartsOf
<1>4. BuffersOk'
  BY <1>1, <1>2 DEF buffer, BuffersOk
<1>5. RingOk'
  <2>1. CASE UNCHANGED <<kill_ring, yank_index>>
    BY <1>1, <1>2, <2>1 DEF RingOk
  <2>2. CASE PushKill(s, p > m, FALSE)
    <3>1. RingTyped(kill_ring') /\ kill_ring' # <<>> /\ yank_index' = 0
      BY <1>1, <1>3, <2>2, PushKeeps
    <3>2. Len(kill_ring') \in Nat /\ Len(kill_ring') # 0 /\ MaxRing \in Nat
      BY <3>1, Limits DEF RingTyped
    <3> QED
      BY <1>1, <1>2, <3>1, <3>2 DEF RingOk
  <2> QED
    BY <1>2, <2>1, <2>2
<1>6. KillInv' /\ YankInv'
  BY <1>2 DEF KillInv, YankInv
<1> QED
  BY <1>4, <1>5, <1>6 DEF RingInv

\* Either form of yank, from the ring there is then.
LEMMA YankFromKeeps ==
    ASSUME RingInv, RingTyped(kill_ring'), kill_ring' # <<>>,
           NEW index \in 0 .. Len(kill_ring') - 1, YankFrom(kill_ring', index)
    PROVE  RingInv'
<1> DEFINE s == kill_ring'[index + 1]
           p == point[current]
<1>1. /\ BuffersOk /\ RingOk /\ p \in 0 .. Len(text[current]) /\ current \in Buffers
      /\ text[current] \in Seq(Chars) /\ Len(text[current]) \in Nat
  BY DEF RingInv, BuffersOk, Placed
<1>2. s \in Seq(Chars) /\ index \in Nat /\ index < Len(kill_ring') /\ index \in 0 .. MaxRing
  BY Limits DEF RingTyped
<1>3. yank_index' = index /\ yank_start' = p /\ origin' = None
  BY DEF YankFrom, EndRun
<1>4. KillInv'
  BY <1>3 DEF KillInv
<1>5. CASE readonly[current]
  <2>1. /\ last_kind' = 0 /\ mark' = [mark EXCEPT ![current] = p]
        /\ UNCHANGED <<text, point, readonly, current, yank_end, base>>
    BY <1>5 DEF YankFrom
  <2>2. BuffersOk'
    <3>1. p \in -1 .. Len(text[current])
      BY <1>1
    <3> HIDE DEF p
    <3> QED
      BY <1>1, <2>1, <3>1, MarkMoved
  <2>3. RingOk'
    BY <1>1, <1>2, <1>3, <2>1 DEF RingOk
  <2>4. YankInv'
    BY <2>1 DEF YankInv
  <2> QED
    BY <1>4, <2>2, <2>3, <2>4 DEF RingInv
<1>6. CASE ~readonly[current]
  <2>1. /\ last_kind' = 2 /\ Insert(s, p, 0)
        /\ base' = [buffer |-> current, text |-> text[current], at |-> p]
    BY <1>6 DEF YankFrom
  <2>2. /\ BuffersOk'
        /\ text'[current] = Replaced(text[current], p, 0, s) /\ current' = current
        /\ yank_end' = p + Len(s) /\ yank_end' \in Nat
    <3>1. p \in Nat /\ 0 \in Nat /\ p + 0 <= Len(text[current])
      BY <1>1
    <3> HIDE DEF p, s
    <3> QED
      BY <1>1, <1>2, <2>1, <3>1, InsertKeeps
  <2>3. p \in Nat /\ Len(s) \in Nat
    BY <1>1, <1>2
  <2>4. RingOk'
    BY <1>1, <1>2, <1>3, <2>1, <2>2, <2>3 DEF RingOk
  <2>5. YankInv'
    <3>1. /\ base'.buffer = current /\ base'.text = text[current] /\ base'.at = p
      BY <2>1
    <3>2. kill_ring'[yank_index' + 1] = s
      BY <1>3
    <3> HIDE DEF p, s
    <3> QED
      BY <1>1, <1>3, <2>2, <3>1, <3>2 DEF YankInv
  <2> QED
    BY <1>4, <2>2, <2>4, <2>5 DEF RingInv
<1> QED
  BY <1>5, <1>6

LEMMA YankKeeps ==
    ASSUME RingInv, NEW n \in Int, NEW explicit \in BOOLEAN, Yank(n, explicit)
    PROVE  RingInv'
<1>1. RingTyped(kill_ring) /\ kill_ring' = kill_ring /\ kill_ring # <<>>
  BY DEF Yank, RingInv, RingOk
<1>2. Len(kill_ring) \in Nat \ {0}
  BY <1>1 DEF RingTyped
<1>3. Wanted(n, explicit) \in 0 .. Len(kill_ring) - 1
  <2> DEFINE k == IF n > 0 THEN n - 1 ELSE 0
             L == Len(kill_ring)
  <2>1. k \in Nat /\ L \in Nat \ {0}
    BY <1>2
  <2>2. Wanted(n, explicit) \in {k % L, 0}
    BY DEF Wanted
  <2> HIDE DEF k, L
  <2>3. k % L \in 0 .. L - 1 /\ 0 \in 0 .. L - 1
    BY <2>1
  <2> QED
    BY <2>2, <2>3 DEF L
<1>4. YankFrom(kill_ring', Wanted(n, explicit))
  BY <1>1 DEF Yank
<1>5. Wanted(n, explicit) \in 0 .. Len(kill_ring') - 1 /\ RingTyped(kill_ring') /\ kill_ring' # <<>>
  BY <1>1, <1>3
<1> QED
  BY <1>4, <1>5, YankFromKeeps

LEMMA ExternalYankKeeps ==
    ASSUME RingInv, NEW s \in Strings(1), ExternalYank(s)
    PROVE  RingInv'
<1>1. s \in Seq(Chars)
  BY StringsAre
<1>2. kill_ring' = Entered(s)
  BY DEF ExternalYank
<1>3. RingTyped(kill_ring') /\ kill_ring' # <<>>
  BY <1>1, <1>2, EnteredTyped DEF RingInv
<1>4. 0 \in 0 .. Len(kill_ring') - 1
  BY <1>3 DEF RingTyped
<1>5. YankFrom(kill_ring', 0)
  BY <1>2 DEF ExternalYank
<1> QED
  BY <1>3, <1>4, <1>5, YankFromKeeps

LEMMA YankPopKeeps ==
    ASSUME RingInv, NEW n \in Int, YankPop(n)
    PROVE  RingInv'
<1> DEFINE index == Rotated(n)
           old == kill_ring[yank_index + 1]
           s == kill_ring[index + 1]
           t == text[current]
<1>1. /\ BuffersOk /\ RingOk /\ current \in Buffers /\ t \in Seq(Chars) /\ Len(t) \in Nat
      /\ RingTyped(kill_ring) /\ kill_ring # <<>>
      /\ last_kind = 2 /\ yank_start \in Nat /\ yank_end \in Nat /\ yank_start <= yank_end
      /\ yank_index \in Nat /\ yank_index < Len(kill_ring)
  BY DEF RingInv, BuffersOk, RingOk, YankPop, MayPop
<1>2. Len(kill_ring) \in Nat \ {0} /\ Len(kill_ring) <= MaxRing /\ MaxRing \in Nat
  BY <1>1, Limits DEF RingTyped
<1>3. index \in 0 .. Len(kill_ring) - 1
  <2> DEFINE k == yank_index + n
             L == Len(kill_ring)
  <2>1. k \in Int /\ L \in Nat \ {0}
    BY <1>1, <1>2
  <2>2. index = k % L
    BY DEF Rotated
  <2> HIDE DEF k, L, index
  <2>3. k % L \in 0 .. L - 1
    BY <2>1
  <2> QED
    BY <2>2, <2>3 DEF L
<1> HIDE DEF index
<1>4. s \in Seq(Chars) /\ old \in Seq(Chars) /\ Len(s) \in Nat /\ Len(old) \in Nat
      /\ index < Len(kill_ring) /\ index \in 0 .. MaxRing
  <2>1. index + 1 \in 1 .. Len(kill_ring) /\ yank_index + 1 \in 1 .. Len(kill_ring)
    BY <1>1, <1>2, <1>3
  <2>2. s \in Seq(Chars) /\ old \in Seq(Chars)
    BY <1>1, <2>1 DEF RingTyped
  <2> QED
    BY <1>2, <1>3, <2>2
<1>5. yank_index' = index /\ origin' = None /\ UNCHANGED <<kill_ring, yank_start, base>>
  BY DEF YankPop, EndRun, index
<1>6. KillInv'
  BY <1>5 DEF KillInv
<1>7. CASE readonly[current] \/ yank_end > Len(t)
  <2>1. last_kind' = 0 /\ UNCHANGED <<buffer, yank_end>>
    BY <1>7 DEF YankPop
  <2>2. BuffersOk'
    BY <1>1, <2>1 DEF buffer, BuffersOk
  <2>3. RingOk' /\ YankInv'
    BY <1>1, <1>4, <1>5, <2>1 DEF RingOk, YankInv
  <2> QED
    BY <1>6, <2>2, <2>3 DEF RingInv
<1>8. CASE ~(readonly[current] \/ yank_end > Len(t))
  <2> DEFINE removed == yank_end - yank_start
  <2>1. last_kind' = 2 /\ Insert(s, yank_start, removed) /\ yank_end <= Len(t)
    BY <1>1, <1>8 DEF YankPop, index
  <2>2. removed \in Nat /\ yank_start + removed = yank_end
    BY <1>1
  <2>3. /\ BuffersOk'
        /\ text'[current] = Replaced(t, yank_start, removed, s) /\ current' = current
        /\ yank_end' = yank_start + Len(s) /\ yank_end' \in Nat
    <3>1. yank_start + removed <= Len(t)
      BY <2>1, <2>2
    <3> HIDE DEF removed, s
    <3> QED
      BY <1>1, <1>4, <2>1, <2>2, <3>1, InsertKeeps
  <2> HIDE DEF removed
  <2>4. RingOk'
    BY <1>1, <1>4, <1>5, <2>1, <2>3 DEF RingOk
  <2>5. YankInv'
    <3> SUFFICES ASSUME base # None PROVE YankInv'
      BY <1>5 DEF YankInv
    <3>1. /\ base.buffer = current /\ base.text \in Seq(Chars) /\ base.at \in 0 .. Len(base.text)
          /\ yank_start = base.at /\ yank_end = base.at + Len(old)
          /\ t = Replaced(base.text, base.at, 0, old)
      BY <1>1 DEF RingInv, YankInv
    <3>2. removed = Len(old) /\ base.at \in Nat /\ base.at <= Len(base.text)
      BY <1>1, <1>4, <3>1 DEF removed
    <3> DEFINE was == base.text
               at == base.at
    <3>3. was \in Seq(Chars) /\ at \in Nat /\ at <= Len(was)
      BY <3>1, <3>2
    <3>4. t = Replaced(was, at, 0, old) /\ yank_start = at
      BY <3>1
    <3> HIDE DEF was, at, s, old, t
    <3>5. Replaced(Replaced(was, at, 0, old), at, removed, s) = Replaced(was, at, 0, s)
      BY <1>4, <3>2, <3>3, PopReplaces
    <3>6. text'[current] = Replaced(was, at, 0, s)
      BY <2>3, <3>4, <3>5, Zenon
    <3>7. kill_ring'[yank_index' + 1] = s
      BY <1>5 DEF s
    <3>8. current' = current /\ base' = base /\ yank_start' = yank_start
      BY <1>5, <2>3
    <3> QED
      BY <2>3, <3>1, <3>6, <3>7, <3>8, Zenon DEF YankInv, was, at
  <2> QED
    BY <1>6, <2>3, <2>4, <2>5 DEF RingInv
<1> QED
  BY <1>7, <1>8

LEMMA OtherKeeps ==
    ASSUME RingInv, OtherCommand, BuffersOk'
    PROVE  RingInv'
<1>1. last_kind' = 0 /\ origin' = None /\ UNCHANGED <<kill_ring, yank_index, yank_start, yank_end>>
  BY DEF OtherCommand, EndRun, yanks
<1>2. RingOk'
  BY <1>1 DEF RingInv, RingOk
<1>3. KillInv' /\ YankInv'
  BY <1>1 DEF KillInv, YankInv
<1> QED
  BY <1>2, <1>3 DEF RingInv

LEMMA MovePointKeeps ==
    ASSUME RingInv, NEW p \in 0 .. Len(text[current]), MovePoint(p)
    PROVE  RingInv'
<1>1. /\ point' = [point EXCEPT ![current] = p]
      /\ text' = text /\ mark' = mark /\ readonly' = readonly /\ current' = current
      /\ OtherCommand
  BY DEF MovePoint
<1>2. BuffersOk /\ current \in Buffers
  BY DEF RingInv, BuffersOk
<1>3. BuffersOk'
  BY <1>1, <1>2, PointMoved
<1> QED
  BY <1>1, <1>3, OtherKeeps

\* What the lemmas below need of the current buffer.
LEMMA Here ==
    ASSUME RingInv
    PROVE  /\ BuffersOk /\ current \in Buffers
           /\ text[current] \in Seq(Chars) /\ Len(text[current]) \in Nat
           /\ point[current] \in 0 .. Len(text[current])
           /\ mark[current] \in -1 .. Len(text[current])
BY DEF RingInv, BuffersOk, Placed

LEMMA MotionKeeps ==
    ASSUME RingInv, NEW n \in Int, Motion(n) \/ Goto(n)
    PROVE  RingInv'
<1> DEFINE t == text[current]
           p == point[current]
           k == IF n > 0 THEN n - 1 ELSE 0
           L == Len(text[current])
<1>1. t \in Seq(Chars) /\ p \in 0 .. Len(t) /\ k \in Int
  BY Here
<1>2. \/ MovePoint(MoveChar(t, p, n)) \/ MovePoint(MoveWord(t, p, n))
      \/ MovePoint(LineBeginning(t, p, n)) \/ MovePoint(LineEnd(t, p, n))
      \/ MovePoint(LineStart(t, k)) \/ MovePoint(Within(t, k))
  BY DEF Motion, Goto
<1>3. PICK z \in {MoveChar(t, p, n), MoveWord(t, p, n), LineBeginning(t, p, n), LineEnd(t, p, n),
                  LineStart(t, k), Within(t, k)} : MovePoint(z)
  BY <1>2
<1> HIDE DEF t, p, k, L
<1>4. /\ MoveChar(t, p, n) \in 0 .. Len(t) /\ LineBeginning(t, p, n) \in 0 .. Len(t)
      /\ LineEnd(t, p, n) \in 0 .. Len(t)
  BY <1>1, TargetsInside
<1>5. MoveWord(t, p, n) \in 0 .. Len(t)
  BY <1>1, MoveWordInside
<1>6. LineStart(t, k) \in 0 .. Len(t)
  BY <1>1, LineStartInside
<1>7. Within(t, k) \in 0 .. Len(t)
  BY <1>1, WithinInside
<1>8. z \in 0 .. Len(t)
  BY <1>3, <1>4, <1>5, <1>6, <1>7, Zenon
<1>9. z \in 0 .. Len(text[current])
  BY <1>8 DEF t
<1> QED
  BY <1>3, <1>9, MovePointKeeps

LEMMA BufferMotionKeeps ==
    ASSUME RingInv, NEW n \in Int, NEW explicit \in BOOLEAN, BufferMotion(n, explicit)
    PROVE  RingInv'
<1> DEFINE t == text[current]
           m == point[current]
<1>1. /\ BuffersOk /\ current \in Buffers /\ t \in Seq(Chars)
      /\ m \in 0 .. Len(t) /\ m \in -1 .. Len(t)
  BY Here
<1>2. PICK p \in {BufferBeginning(t, n, explicit), BufferEnd(t, n, explicit)} :
            point' = [point EXCEPT ![current] = p]
  BY DEF BufferMotion
<1>3. /\ mark' = [mark EXCEPT ![current] = m]
      /\ text' = text /\ readonly' = readonly /\ current' = current /\ OtherCommand
  BY DEF BufferMotion
<1> HIDE DEF m
<1>4. BufferBeginning(t, n, explicit) \in 0 .. Len(t) /\ BufferEnd(t, n, explicit) \in 0 .. Len(t)
  <2> HIDE DEF t
  <2> QED
    BY <1>1, TargetsInside
<1>5. p \in 0 .. Len(t)
  BY <1>2, <1>4, Zenon
<1>6. readonly' \in [Buffers -> BOOLEAN] /\ current' \in Buffers
  BY <1>1, <1>3 DEF BuffersOk
<1>7. BuffersOk'
  BY <1>1, <1>2, <1>3, <1>5, <1>6, Moved
<1> QED
  BY <1>3, <1>7, OtherKeeps

-----------------------------------------------------------------------------
\* A command that replaces a part of the text.
LEMMA EditKeeps ==
    ASSUME RingInv, NEW at \in Nat, NEW count \in Nat, at + count <= Len(text[current]),
           NEW s \in Seq(Chars), NEW p \in 0 .. Len(text[current]) - count + Len(s),
           Replace(at, count, s, p), OtherCommand
    PROVE  RingInv'
<1>1. BuffersOk
  BY Here
<1>2. BuffersOk'
  BY <1>1, ReplaceKeeps
<1> QED
  BY <1>2, OtherKeeps

LEMMA SelfInsertKeeps ==
    ASSUME RingInv, NEW c \in Chars, SelfInsert(c)
    PROVE  RingInv'
<1> DEFINE at == point[current]
           s == <<c>>
           p == point[current] + 1
           L == Len(text[current])
<1>1. L \in Nat /\ at \in 0 .. L
  BY Here
<1>2. s \in Seq(Chars) /\ Len(s) = 1 /\ 0 \in Nat
  OBVIOUS
<1>3. at \in Nat /\ at + 0 <= L /\ p \in 0 .. L - 0 + Len(s)
  BY <1>1, <1>2
<1>4. Replace(at, 0, s, p) /\ OtherCommand
  BY DEF SelfInsert
<1> HIDE DEF at, s, p
<1> QED
  BY <1>2, <1>3, <1>4, EditKeeps

LEMMA DeleteCharKeeps ==
    ASSUME RingInv, NEW n \in Int, DeleteChar(n)
    PROVE  RingInv'
<1> DEFINE t == text[current]
           p == point[current]
           z == MoveChar(t, p, n)
           at == IF z < p THEN z ELSE p
           count == Abs(z - p)
           L == Len(text[current])
<1>1. t \in Seq(Chars) /\ L \in Nat /\ p \in 0 .. L
  BY Here
<1>2. z \in 0 .. L
  <2>1. p \in 0 .. Len(t)
    BY <1>1
  <2> HIDE DEF t, p
  <2>2. MoveChar(t, p, n) \in 0 .. Len(t)
    BY <1>1, <2>1, TargetsInside
  <2> QED
    BY <2>2 DEF t
<1>3. Replace(at, count, <<>>, at) /\ OtherCommand
  BY DEF DeleteChar
<1> HIDE DEF z, t, p, L
<1>4. at \in Nat /\ count \in Nat /\ at + count <= L /\ at \in 0 .. L - count + 0
  BY <1>1, <1>2 DEF Abs
<1>5. <<>> \in Seq(Chars) /\ Len(<<>>) = 0
  OBVIOUS
<1> HIDE DEF at, count
<1>6. at + count <= Len(text[current]) /\ at \in 0 .. Len(text[current]) - count + Len(<<>>)
  BY <1>4, <1>5 DEF L
<1> QED
  BY <1>3, <1>4, <1>5, <1>6, EditKeeps

LEMMA DeleteHorizontalSpaceKeeps ==
    ASSUME RingInv, DeleteHorizontalSpace
    PROVE  RingInv'
<1> DEFINE t == text[current]
           p == point[current]
           a == BlanksFrom(t, p)
           z == BlanksTo(t, p)
           count == z - a
           L == Len(text[current])
<1>1. t \in Seq(Chars) /\ L \in Nat /\ p \in 0 .. L
  BY Here
<1>2. a \in 0 .. p /\ z \in p .. L
  <2>1. p \in 0 .. Len(t)
    BY <1>1
  <2> HIDE DEF t, p
  <2>2. BlanksFrom(t, p) \in 0 .. p /\ BlanksTo(t, p) \in p .. Len(t)
    BY <1>1, <2>1, BlanksInside
  <2> QED
    BY <2>2 DEF t
<1>3. Replace(a, count, <<>>, a) /\ OtherCommand
  BY DEF DeleteHorizontalSpace
<1> HIDE DEF a, z, t, p, L
<1>4. a \in Nat /\ count \in Nat /\ a + count <= L /\ a \in 0 .. L - count + 0
  BY <1>1, <1>2
<1>5. <<>> \in Seq(Chars) /\ Len(<<>>) = 0
  OBVIOUS
<1> HIDE DEF count
<1>6. a + count <= Len(text[current]) /\ a \in 0 .. Len(text[current]) - count + Len(<<>>)
  BY <1>4, <1>5 DEF L
<1> QED
  BY <1>3, <1>4, <1>5, <1>6, EditKeeps

LEMMA NewlinesKeep ==
    ASSUME RingInv, NEW n \in Int, NEW indent, NEW open, Newlines(n, indent, open)
    PROVE  RingInv'
<1> DEFINE t == text[current]
           p == point[current]
           s == IF indent THEN Indented(t, p) ELSE <<Newline>>
           all == FlattenSeq([i \in 1 .. n |-> s])
           z == IF open THEN p ELSE p + Len(all)
           L == Len(text[current])
<1>1. t \in Seq(Chars) /\ L \in Nat /\ p \in 0 .. L
  BY Here
<1>2. n \in Nat /\ Replace(p, 0, all, z) /\ OtherCommand
  BY DEF Newlines
<1>3. s \in Seq(Chars)
  <2>1. p \in 0 .. Len(t)
    BY <1>1
  <2> HIDE DEF t, p
  <2>2. Indented(t, p) \in Seq(Chars)
    BY <1>1, <2>1, IndentedTyped
  <2>3. <<Newline>> \in Seq(Chars)
    BY CharAssumption
  <2> QED
    BY <2>2, <2>3
<1> HIDE DEF s
<1>4. all \in Seq(Chars)
  BY <1>2, <1>3, CopiesTyped
<1> HIDE DEF all
<1>5. Len(all) \in Nat /\ 0 \in Nat
  BY <1>4
<1>6. p \in Nat /\ p + 0 <= L /\ z \in 0 .. L - 0 + Len(all)
  BY <1>1, <1>5
<1> HIDE DEF p, z
<1> QED
  BY <1>2, <1>4, <1>5, <1>6, EditKeeps

-----------------------------------------------------------------------------
(***************************************************************************)
(* Transposing.                                                            *)
(***************************************************************************)
\* The texts of length n and positions in them that transposing goes through.
Carries(n) == {s \in [t : Seq(Chars), m : Int, p : Int] :
                   Len(s.t) = n /\ s.m \in -1 .. n /\ s.p \in 0 .. n}

Swapped(s) == [i \in DOMAIN s.t |-> IF i = s.p THEN s.t[i + 1]
                                   ELSE IF i = s.p + 1 THEN s.t[i - 1] ELSE s.t[i]]

\* A character is carried over the next.
Carried(s, n) == IF s.p \in {0, Len(s.t)} THEN s
                 ELSE [t |-> Swapped(s), m |-> Relocated(s.m, s.p - 1, 2, 2),
                       p |-> IF n > 0 THEN s.p + 1 ELSE s.p - 1]

LEMMA SwappedTyped ==
    ASSUME NEW s, s.t \in Seq(Chars), s.p \in 1 .. Len(s.t) - 1
    PROVE  Swapped(s) \in Seq(Chars) /\ Len(Swapped(s)) = Len(s.t)
<1> DEFINE t == s.t
           p == s.p
           w == [i \in 1 .. Len(t) |-> IF i = p THEN t[i + 1]
                                      ELSE IF i = p + 1 THEN t[i - 1] ELSE t[i]]
<1>1. t \in Seq(Chars) /\ Len(t) \in Nat /\ DOMAIN t = 1 .. Len(t) /\ p \in 1 .. Len(t) - 1
  OBVIOUS
<1>2. Swapped(s) = w
  BY <1>1 DEF Swapped
<1> HIDE DEF t, p
<1>3. ASSUME NEW i \in 1 .. Len(t)
      PROVE  (IF i = p THEN t[i + 1] ELSE IF i = p + 1 THEN t[i - 1] ELSE t[i]) \in Chars
  <2>1. \A j \in 1 .. Len(t) : t[j] \in Chars
    BY <1>1
  <2>2. i = p => i + 1 \in 1 .. Len(t)
    BY <1>1
  <2>3. i = p + 1 => i - 1 \in 1 .. Len(t)
    BY <1>1
  <2> QED
    BY <2>1, <2>2, <2>3
<1>4. w \in [1 .. Len(t) -> Chars]
  BY <1>3
<1> HIDE DEF w
<1>5. w \in Seq(Chars) /\ Len(w) = Len(t)
  BY <1>1, <1>4
<1> QED
  BY <1>2, <1>5 DEF t

LEMMA CarriedInside ==
    ASSUME NEW L \in Nat, NEW n \in Int, NEW s \in Carries(L)
    PROVE  Carried(s, n) \in Carries(L)
<1> DEFINE t == Swapped(s)
           m == Relocated(s.m, s.p - 1, 2, 2)
           p == IF n > 0 THEN s.p + 1 ELSE s.p - 1
           r == [t |-> t, m |-> m, p |-> p]
<1>1. /\ s.t \in Seq(Chars) /\ Len(s.t) = L /\ s.m \in -1 .. L /\ s.p \in 0 .. L
  BY DEF Carries
<1>2. CASE s.p \in {0, Len(s.t)}
  BY <1>2 DEF Carried
<1>3. CASE s.p \notin {0, Len(s.t)}
  <2>1. s.p \in 1 .. L - 1
    BY <1>1, <1>3
  <2>2. t \in Seq(Chars) /\ Len(t) = L
    BY <1>1, <2>1, SwappedTyped
  <2>3. m \in -1 .. L
    <3> DEFINE q == s.m
               at == s.p - 1
    <3>1. q \in -1 .. L /\ at \in Nat /\ at + 2 <= L /\ 2 \in Nat
      BY <1>1, <2>1
    <3> HIDE DEF q, at
    <3>2. Relocated(q, at, 2, 2) \in -1 .. L - 2 + 2
      BY <3>1, RelocatedInside
    <3>3. L - 2 + 2 = L
      OBVIOUS
    <3> QED
      BY <3>2, <3>3 DEF q, at
  <2>4. p \in 0 .. L
    BY <2>1
  <2>5. Carried(s, n) = r
    BY <1>3 DEF Carried
  <2> HIDE DEF t, m, p
  <2>6. m \in Int /\ p \in Int
    BY <2>3, <2>4
  <2>7. r \in [t : Seq(Chars), m : Int, p : Int] /\ r.t = t /\ r.m = m /\ r.p = p
    BY <2>2, <2>6
  <2> HIDE DEF r
  <2>8. r \in Carries(L)
    BY <2>2, <2>3, <2>4, <2>7 DEF Carries
  <2> QED
    BY <2>5, <2>8
<1> QED
  BY <1>2, <1>3

LEMMA TransposeCharsKeeps ==
    ASSUME RingInv, NEW n \in Int, TransposeChars(n)
    PROVE  RingInv'
<1> DEFINE was == text[current]
           at == IF point[current] = Len(was) THEN Within(was, point[current] - 1) ELSE point[current]
           start == [t |-> was, m |-> mark[current], p |-> at]
           L == Len(was)
           S == Carries(L)
           k == Abs(n)
           step == [i \in 1 .. k |-> [s \in S |-> Carried(s, n)]]
           Def(a) == a = [i \in 0 .. k |-> IF i = 0 THEN start ELSE Carried(a[i - 1], n)]
           f == CHOOSE a : Def(a)
           end == IF readonly[current] THEN start ELSE f[k]
<1>1. /\ BuffersOk /\ current \in Buffers /\ was \in Seq(Chars) /\ L \in Nat
      /\ point[current] \in 0 .. L /\ mark[current] \in -1 .. L
  BY Here
<1>2. k \in Nat
  BY AbsNat
<1>3. start \in S
  <2>1. at \in 0 .. L
    <3>1. point[current] - 1 \in Int
      BY <1>1
    <3>2. Within(was, point[current] - 1) \in 0 .. Len(was)
      <4> HIDE DEF was
      <4> QED
        BY <1>1, <3>1, WithinInside
    <3> QED
      BY <1>1, <3>2
  <2> DEFINE m == mark[current]
  <2>2. m \in -1 .. L
    BY <1>1
  <2> HIDE DEF at, m, was
  <2>3. m \in Int /\ at \in Int
    BY <1>1, <2>1, <2>2
  <2>4. [t |-> was, m |-> m, p |-> at] \in Carries(L)
    BY <1>1, <2>1, <2>2, <2>3 DEF Carries
  <2> QED
    BY <2>4 DEF m
<1>4. step \in [1 .. k -> [S -> S]]
  BY <1>1, CarriedInside
<1>5. \A i \in 1 .. k, s \in S : step[i][s] = Carried(s, n)
  OBVIOUS
<1>6. /\ text' = [text EXCEPT ![current] = end.t]
      /\ mark' = [mark EXCEPT ![current] = end.m]
      /\ point' = [point EXCEPT ![current] = end.p]
      /\ readonly' = readonly /\ current' = current /\ OtherCommand
  BY DEF TransposeChars, Carried, Swapped
<1> HIDE DEF step, S, start
<1>7. PICK g : Runs(g, S, k, start, step)
  BY <1>2, <1>3, <1>4, RunsExist
<1>8. Def(g)
  <2>1. /\ g[0] = start /\ \A i \in 0 .. k : g[i] \in S
        /\ \A i \in 1 .. k : g[i] = step[i][g[i - 1]]
    BY <1>7 DEF Runs
  <2>2. ASSUME NEW i \in 0 .. k
        PROVE  g[i] = IF i = 0 THEN start ELSE Carried(g[i - 1], n)
    <3>1. CASE i = 0
      BY <2>1, <3>1
    <3>2. CASE i # 0
      <4>1. i \in 1 .. k /\ i - 1 \in 0 .. k
        BY <1>2, <3>2
      <4>2. g[i] = Carried(g[i - 1], n)
        BY <1>5, <2>1, <4>1
      <4> QED
        BY <3>2, <4>2
    <3> QED
      BY <3>1, <3>2
  <2>3. g = [i \in 0 .. k |-> g[i]]
    BY <1>7 DEF Runs
  <2> HIDE DEF k
  <2> QED
    BY <2>2, <2>3, Zenon
<1>9. Def(f)
  <2> HIDE DEF Def
  <2> QED
    BY <1>8
<1> HIDE DEF f
<1>10. IsOver(f, k)
  <2> HIDE DEF k
  <2>1. f = [i \in 0 .. k |-> f[i]]
    BY <1>9
  <2> QED
    BY <2>1 DEF IsOver
<1>11. f[0] = start /\ \A i \in 1 .. k : f[i] = Carried(f[i - 1], n)
  <2> HIDE DEF k, Def
  <2>1. \A i \in 0 .. k : f[i] = IF i = 0 THEN start ELSE Carried(f[i - 1], n)
    BY <1>9, Zenon DEF Def
  <2>2. 0 \in 0 .. k /\ \A i \in 1 .. k : i \in 0 .. k /\ i # 0
    BY <1>2
  <2> QED
    BY <2>1, <2>2, Zenon
<1>12. Runs(f, S, k, start, step)
  <2>1. \A i \in 1 .. k : f[i - 1] \in S => f[i] = step[i][f[i - 1]]
    BY <1>5, <1>11
  <2> HIDE DEF k, Def
  <2> QED
    BY <1>2, <1>3, <1>4, <1>10, <1>11, <2>1, RunsTyped
<1>13. f[k] \in S
  <2> HIDE DEF k, Def
  <2>1. k \in 0 .. k
    BY <1>2
  <2> QED
    BY <1>12, <2>1 DEF Runs
<1>14. end \in Carries(L)
  BY <1>3, <1>13 DEF S
<1> HIDE DEF end, Def, k
<1>15. end.t \in Seq(Chars) /\ Len(end.t) = L /\ end.m \in -1 .. L /\ end.p \in 0 .. L
  BY <1>14 DEF Carries
<1>16. L <= MaxText
  BY DEF RingInv, BuffersOk, Placed, ShortTexts
<1> DEFINE t == end.t
           m == end.m
           p == end.p
<1>17. Placed(t, p, m)
  BY <1>15, <1>16 DEF Placed, ShortTexts
<1>18. /\ text' = [text EXCEPT ![current] = t] /\ mark' = [mark EXCEPT ![current] = m]
       /\ point' = [point EXCEPT ![current] = p]
  BY <1>6
<1> HIDE DEF t, m, p
<1>19. readonly' \in [Buffers -> BOOLEAN] /\ current' \in Buffers
  BY <1>1, <1>6 DEF BuffersOk
<1>20. BuffersOk'
  BY <1>1, <1>17, <1>18, <1>19, Edited
<1> QED
  BY <1>6, <1>20, OtherKeeps

-----------------------------------------------------------------------------
(***************************************************************************)
(* What changes no text, what is no command, and the kills.                *)
(***************************************************************************)
LEMMA SettingsKeep ==
    ASSUME RingInv, \/ SetMark
                    \/ ToggleReadOnly
                    \/ \E b \in Buffers : SwitchToBuffer(b)
    PROVE  RingInv'
<1>1. /\ BuffersOk /\ current \in Buffers
      /\ point[current] \in 0 .. Len(text[current]) /\ Len(text[current]) \in Nat
  BY Here
<1>2. CASE SetMark
  <2> DEFINE m == point[current]
  <2>1. /\ mark' = [mark EXCEPT ![current] = m]
        /\ text' = text /\ point' = point /\ readonly' = readonly /\ current' = current
        /\ OtherCommand
    BY <1>2 DEF SetMark
  <2>2. m \in -1 .. Len(text[current])
    BY <1>1
  <2> HIDE DEF m
  <2>3. BuffersOk'
    BY <1>1, <2>1, <2>2, MarkMoved
  <2> QED
    BY <2>1, <2>3, OtherKeeps
<1>3. CASE ToggleReadOnly
  <2>1. /\ readonly' = [readonly EXCEPT ![current] = ~readonly[current]]
        /\ text' = text /\ point' = point /\ mark' = mark /\ current' = current
        /\ OtherCommand
    BY <1>3 DEF ToggleReadOnly
  <2>2. readonly' \in [Buffers -> BOOLEAN]
    BY <1>1, <2>1 DEF BuffersOk
  <2>3. BuffersOk'
    BY <1>1, <2>1, <2>2 DEF BuffersOk
  <2> QED
    BY <2>1, <2>3, OtherKeeps
<1>4. CASE \E b \in Buffers : SwitchToBuffer(b)
  <2>1. /\ current' \in Buffers
        /\ text' = text /\ point' = point /\ mark' = mark /\ readonly' = readonly
        /\ OtherCommand
    BY <1>4 DEF SwitchToBuffer
  <2>2. BuffersOk'
    BY <1>1, <2>1 DEF BuffersOk
  <2> QED
    BY <2>1, <2>2, OtherKeeps
<1> QED
  BY <1>2, <1>3, <1>4

\* After what is no command, neither run is followed any further.
LEMMA OutsideKeeps ==
    ASSUME RingInv, BuffersOk', origin' = None, base' = None,
           UNCHANGED <<kill_ring, last_kind, yank_index, yank_start, yank_end>>
    PROVE  RingInv'
<1>1. RingOk'
  BY DEF RingInv, RingOk
<1>2. KillInv' /\ YankInv'
  BY DEF KillInv, YankInv
<1> QED
  BY <1>1, <1>2 DEF RingInv

LEMMA ClickKeeps ==
    ASSUME RingInv, NEW b \in Buffers, NEW p, Click(b, p)
    PROVE  RingInv'
<1>1. /\ p \in 0 .. Len(text[b]) /\ point' = [point EXCEPT ![b] = p]
      /\ text' = text /\ mark' = mark /\ readonly' = readonly /\ current' \in Buffers
      /\ origin' = None /\ base' = None
      /\ UNCHANGED <<kill_ring, last_kind, yank_index, yank_start, yank_end>>
  BY DEF Click, EndRun
<1>2. BuffersOk
  BY Here
<1>3. BuffersOk'
  BY <1>1, <1>2, PointMoved
<1> QED
  BY <1>1, <1>3, OutsideKeeps

LEMMA ClientReplaceKeeps ==
    ASSUME RingInv, NEW at \in Nat, NEW count \in Nat, NEW s \in Seq(Chars),
           ClientReplace(at, count, s)
    PROVE  RingInv'
<1> DEFINE size == Len(text[current])
           was == point[current]
           p == PointAfter(was, at, count, Len(s))
<1>1. BuffersOk /\ size \in Nat /\ was \in 0 .. size
  BY Here
<1>2. /\ at + count <= size /\ Replace(at, count, s, p)
      /\ origin' = None /\ base' = None
      /\ UNCHANGED <<kill_ring, last_kind, yank_index, yank_start, yank_end>>
  BY DEF ClientReplace, EndRun
<1>3. p \in 0 .. size - count + Len(s)
  <2>1. Len(s) \in Nat /\ was \in -1 .. size /\ was >= 0
    BY <1>1
  <2> HIDE DEF size, was
  <2> QED
    BY <1>1, <1>2, <2>1, RelocatedInside
<1> HIDE DEF p
<1>4. BuffersOk'
  BY <1>1, <1>2, <1>3, ReplaceKeeps
<1> QED
  BY <1>2, <1>4, OutsideKeeps

LEMMA KillsKeep ==
    ASSUME RingInv, NEW n \in Int, NEW explicit \in BOOLEAN,
           KillLine(n, explicit) \/ KillWord(n) \/ KillChar(n) \/ KillRegion
    PROVE  RingInv'
<1> DEFINE t == text[current]
           p == point[current]
           m == mark[current]
<1>1. t \in Seq(Chars) /\ p \in 0 .. Len(t) /\ m \in -1 .. Len(t) /\ Len(t) \in Nat
  BY Here
<1>2. \/ Kill(KillLineTo(t, p, n, explicit)) \/ Kill(MoveWord(t, p, n))
      \/ Kill(MoveChar(t, p, n)) \/ (m >= 0 /\ Kill(m))
  BY DEF KillLine, KillWord, KillChar, KillRegion
<1> HIDE DEF t, p, m
<1>3. KillLineTo(t, p, n, explicit) \in 0 .. Len(t) /\ MoveChar(t, p, n) \in 0 .. Len(t)
  BY <1>1, TargetsInside
<1>4. MoveWord(t, p, n) \in 0 .. Len(t)
  BY <1>1, MoveWordInside
<1>5. m >= 0 => m \in 0 .. Len(t)
  BY <1>1
<1>6. PICK z : z \in 0 .. Len(t) /\ Kill(z)
  BY <1>2, <1>3, <1>4, <1>5, Zenon
<1>7. z \in 0 .. Len(text[current])
  BY <1>6 DEF t
<1> QED
  BY <1>6, <1>7, KillKeeps

-----------------------------------------------------------------------------
(***************************************************************************)
(* The invariant, and what follows from it.                                *)
(***************************************************************************)
LEMMA RingStarts ==
    ASSUME Init
    PROVE  RingInv
<1>1. MaxText \in Nat /\ MaxRing \in Nat \ {0}
  BY Limits
<1>2. /\ text \in [Buffers -> Texts] /\ point = [b \in Buffers |-> 0]
      /\ mark = [b \in Buffers |-> -1] /\ readonly = [b \in Buffers |-> FALSE]
      /\ current \in Buffers
      /\ kill_ring = <<>> /\ last_kind = 0 /\ yank_index = 0 /\ yank_start = 0 /\ yank_end = 0
  BY DEF Init
<1>3. BuffersOk
  <2>1. Strings(MaxText) = ShortTexts
    BY <1>1, StringsAre DEF ShortTexts
  <2>2. Texts \subseteq ShortTexts
    BY <2>1, TextAssumption
  <2>3. ShortTexts \subseteq Seq(Chars)
    BY DEF ShortTexts
  <2>4. text \in [Buffers -> Seq(Chars)] /\ \A b \in Buffers : text[b] \in ShortTexts
    BY <1>2, <2>2, <2>3
  <2>5. /\ point \in [Buffers -> Int] /\ mark \in [Buffers -> Int]
        /\ readonly \in [Buffers -> BOOLEAN]
    BY <1>2
  <2>6. ASSUME NEW b \in Buffers PROVE Placed(text[b], point[b], mark[b])
    <3>1. point[b] = 0 /\ mark[b] = -1 /\ text[b] \in Seq(Chars) /\ Len(text[b]) \in Nat
      BY <1>2, <2>4
    <3> QED
      BY <2>4, <3>1 DEF Placed
  <2> QED
    BY <1>2, <2>4, <2>5, <2>6 DEF BuffersOk
<1>4. RingOk
  <2>1. RingTyped(<<>>)
    BY <1>1 DEF RingTyped
  <2> QED
    BY <1>1, <1>2, <2>1 DEF RingOk
<1>5. KillInv /\ YankInv
  BY <1>2 DEF KillInv, YankInv
<1> QED
  BY <1>3, <1>4, <1>5 DEF RingInv

LEMMA RingStays ==
    ASSUME RingInv, [Next]_vars
    PROVE  RingInv'
<1>1. CASE UNCHANGED vars
  BY <1>1 DEF vars, buffer, yanks, RingInv, BuffersOk, RingOk, KillInv, YankInv
<1>2. CASE Step
  <2>1. \A n \in Counts : n \in Int
    BY CountAssumption
  <2>2. 0 \in Int /\ FALSE \in BOOLEAN
    OBVIOUS
  <2>3. CASE \E n \in Counts, explicit \in BOOLEAN : KillLine(n, explicit)
    BY <2>1, <2>3, KillsKeep
  <2>4. CASE \E n \in Counts : KillWord(n) \/ KillChar(n)
    BY <2>1, <2>2, <2>4, KillsKeep
  <2>5. CASE KillRegion
    BY <2>2, <2>5, KillsKeep
  <2>6. CASE CopyRegion
    BY <2>6, CopyKeeps
  <2>7. CASE \E n \in Counts, explicit \in BOOLEAN : Yank(n, explicit)
    BY <2>1, <2>7, YankKeeps
  <2>8. CASE \E s \in Strings(1) : ExternalYank(s)
    BY <2>8, ExternalYankKeeps
  <2>9. CASE \E n \in Counts : YankPop(n)
    BY <2>1, <2>9, YankPopKeeps
  <2>10. CASE \E c \in Chars : SelfInsert(c)
    BY <2>10, SelfInsertKeeps
  <2>11. CASE \E n \in Counts : Motion(n) \/ Goto(n)
    BY <2>1, <2>11, MotionKeeps
  <2>12. CASE \E n \in Counts, explicit \in BOOLEAN : BufferMotion(n, explicit)
    BY <2>1, <2>12, BufferMotionKeeps
  <2>13. CASE \E n \in Counts : DeleteChar(n) \/ TransposeChars(n)
    BY <2>1, <2>13, DeleteCharKeeps, TransposeCharsKeeps
  <2>14. CASE \E n \in Counts, indent, open \in BOOLEAN : Newlines(n, indent, open /\ ~indent)
    BY <2>1, <2>14, NewlinesKeep
  <2>15. CASE DeleteHorizontalSpace
    BY <2>15, DeleteHorizontalSpaceKeeps
  <2>16. CASE SetMark \/ ToggleReadOnly \/ \E b \in Buffers : SwitchToBuffer(b)
    BY <2>16, SettingsKeep
  <2>17. CASE \E b \in Buffers, p \in 0 .. MaxText : Click(b, p)
    BY <2>17, ClickKeeps
  <2>18. CASE \E at, count \in 0 .. MaxText, s \in Strings(1) : ClientReplace(at, count, s)
    <3>1. PICK at \in 0 .. MaxText, count \in 0 .. MaxText, s \in Strings(1) :
              ClientReplace(at, count, s)
      BY <2>18
    <3>2. at \in Nat /\ count \in Nat /\ s \in Seq(Chars)
      BY StringsAre
    <3> QED
      BY <3>1, <3>2, ClientReplaceKeeps
  <2> QED
    BY <1>2, <2>3, <2>4, <2>5, <2>6, <2>7, <2>8, <2>9, <2>10, <2>11, <2>12, <2>13, <2>14, <2>15,
       <2>16, <2>17, <2>18, Zenon DEF Step
<1> QED
  BY <1>1, <1>2 DEF Next

LEMMA RingTypes ==
    ASSUME RingInv
    PROVE  TypeOK
<1>1. MaxText \in Nat /\ Strings(MaxText) = ShortTexts
  BY Limits, StringsAre DEF ShortTexts
<1>2. \A b \in Buffers : /\ text[b] \in ShortTexts
                         /\ point[b] \in 0 .. Len(text[b]) /\ mark[b] \in -1 .. Len(text[b])
  BY DEF RingInv, BuffersOk, Placed
<1>3. text \in [Buffers -> ShortTexts]
  BY <1>2 DEF RingInv, BuffersOk
<1>4. readonly \in [Buffers -> BOOLEAN] /\ current \in Buffers
  BY DEF RingInv, BuffersOk
<1>5. /\ Len(kill_ring) <= MaxRing /\ last_kind \in 0 .. 2
      /\ yank_index \in 0 .. MaxRing /\ (kill_ring # <<>> => yank_index < Len(kill_ring))
      /\ yank_start \in Nat /\ yank_end \in Nat
  BY DEF RingInv, RingOk, RingTyped
<1> QED
  BY <1>1, <1>2, <1>3, <1>4, <1>5 DEF TypeOK

\* Consecutive kills join in the order of the text, whatever their directions:
\* the entry they make, put back where point is, restores the text there was
\* before the first of them (push_kill and kill_range in commands.c).
THEOREM KillsAreJoined == Spec => []KillsJoin
<1>1. RingInv => KillsJoin
  BY RingTypes DEF RingInv, KillInv, KillsJoin
<1> QED
  BY <1>1, RingStarts, RingStays, PTL DEF Spec

\* A yank and the yank-pops that follow it replace each other's text and
\* nothing else, although the editor remembers no more than two positions of it.
THEOREM PopsReplaceYanks == Spec => []PopReplacesYank
<1>1. RingInv => PopReplacesYank
  BY DEF RingInv, YankInv, PopReplacesYank
<1> QED
  BY <1>1, RingStarts, RingStays, PTL DEF Spec
=============================================================================
