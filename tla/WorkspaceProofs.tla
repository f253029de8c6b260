-------------------------- MODULE WorkspaceProofs --------------------------
(***************************************************************************)
(* What holds of the buffers and the panes for every number of names,      *)
(* files, buffers and panes, and for characters of every width.            *)
(***************************************************************************)
EXTENDS Workspace, SequenceTheorems, FiniteSetTheorems, FunctionTheorems,
        WellFoundedInduction, TLAPS

-----------------------------------------------------------------------------
(***************************************************************************)
(* Facts about numbers, sums and sequences.                                *)
(***************************************************************************)
\* Induction over the natural numbers, for the members of a set.
LEMMA SetInduction ==
    ASSUME NEW S, 0 \in S, \A n \in Nat : n \in S => n + 1 \in S
    PROVE  Nat \subseteq S
<1> DEFINE R == OpToRel(<, Nat)
           T == {n \in Nat : n \notin S}
<1> SUFFICES ASSUME T # {} PROVE FALSE
  OBVIOUS
<1>1. \A x, y \in Nat : y < x => <<y, x>> \in R
  BY DEF OpToRel
<1>2. IsWellFoundedOn(R, Nat)
  BY NatLessThanWellFounded
<1>3. \E x \in T : \A y \in T : ~(<<y, x>> \in R)
  <2> HIDE DEF R
  <2> QED
    BY <1>2, WFMin
<1>4. PICK x \in T : \A y \in T : ~(<<y, x>> \in R)
  BY <1>3
<1>5. x # 0 /\ x \in Nat
  OBVIOUS
<1>6. x - 1 \in Nat /\ x - 1 < x
  BY <1>5
<1>7. x - 1 \notin S
  BY <1>5, <1>6, (x - 1) + 1 = x
<1> HIDE DEF R
<1>8. <<x - 1, x>> \in R
  BY <1>1, <1>5, <1>6
<1> QED
  BY <1>4, <1>6, <1>7, <1>8

\* The least of a set of natural numbers.
LEMMA LeastExists ==
    ASSUME NEW I, I \subseteq Nat, I # {}
    PROVE  \E m \in I : \A n \in I : m <= n
<1> DEFINE S == {n \in Nat : (\E i \in I : i <= n) => \E m \in I : \A k \in I : m <= k}
<1>1. 0 \in S
  OBVIOUS
<1>2. \A n \in Nat : n \in S => n + 1 \in S
  <2> SUFFICES ASSUME NEW n \in Nat, n \in S, \E i \in I : i <= n + 1
               PROVE  \E m \in I : \A k \in I : m <= k
    OBVIOUS
  <2>1. CASE \E i \in I : i <= n
    BY <2>1
  <2>2. CASE ~ \E i \in I : i <= n
    BY <2>2
  <2> QED
    BY <2>1, <2>2
<1>3. Nat \subseteq S
  <2> HIDE DEF S
  <2> QED
    BY <1>1, <1>2, SetInduction
<1>4. PICK i \in I : i \in Nat
  OBVIOUS
<1> QED
  BY <1>3, <1>4

\* Min and Max of the sets that SelectInSeq and SelectLastInSeq make.
LEMMA MinOfIndices ==
    ASSUME NEW I, I \subseteq Nat, I # {}
    PROVE  Min(I) \in I /\ \A n \in I : Min(I) <= n
BY LeastExists DEF Min

LEMMA MaxOfIndices ==
    ASSUME NEW b \in Nat, NEW I, I \subseteq 0 .. b, I # {}
    PROVE  Max(I) \in I /\ \A n \in I : n <= Max(I)
<1> DEFINE J == {j \in Nat : b - j \in I}
<1>1. \A i \in I : b - i \in J
  OBVIOUS
<1>2. PICK m \in J : \A n \in J : m <= n
  <2>1. J # {} /\ J \subseteq Nat
    BY <1>1
  <2> HIDE DEF J
  <2> QED
    BY <2>1, LeastExists
<1>3. b - m \in I /\ \A n \in I : n <= b - m
  <2>1. \A n \in I : m <= b - n
    BY <1>1, <1>2
  <2> QED
    BY <2>1
<1> QED
  BY <1>3 DEF Max

-----------------------------------------------------------------------------
(***************************************************************************)
(* Running sums.  TLC computes them; here they are shown to exist.         *)
(***************************************************************************)
\* s is the function of the sums of the first n numbers of t, and fewer.
SumsUpto(s, t, n) ==
    /\ s \in [0 .. n -> Nat]
    /\ s[0] = 0
    /\ \A i \in 1 .. n : s[i] = s[i - 1] + t[i]

Sums(s, t) == SumsUpto(s, t, Len(t))

\* The sums of n numbers give those of one more.
LEMMA SumsExtend ==
    ASSUME NEW t \in Seq(Nat), NEW n \in Nat, n + 1 <= Len(t), NEW g, SumsUpto(g, t, n)
    PROVE  \E h : SumsUpto(h, t, n + 1)
<1> DEFINE h == [i \in 0 .. n + 1 |-> IF i = n + 1 THEN g[n] + t[n + 1] ELSE g[i]]
<1>1. t[n + 1] \in Nat
  OBVIOUS
<1>2. h \in [0 .. n + 1 -> Nat] /\ h[0] = 0
  BY <1>1 DEF SumsUpto
<1>3. ASSUME NEW i \in 1 .. n + 1 PROVE h[i] = h[i - 1] + t[i]
  <2>1. CASE i = n + 1
    <3>1. h[n] = g[n]
      OBVIOUS
    <3> QED
      BY <2>1, <3>1
  <2>2. CASE i # n + 1
    <3>1. i \in 1 .. n /\ i - 1 \in 0 .. n
      BY <2>2
    <3>2. h[i] = g[i] /\ h[i - 1] = g[i - 1]
      BY <3>1
    <3> QED
      BY <3>1, <3>2 DEF SumsUpto
  <2> QED
    BY <2>1, <2>2
<1>4. SumsUpto(h, t, n + 1)
  <2> HIDE DEF h
  <2> QED
    BY <1>2, <1>3 DEF SumsUpto
<1> QED
  BY <1>4

\* Every sequence of numbers has its sums.
LEMMA SumsExist ==
    ASSUME NEW t \in Seq(Nat)
    PROVE  \E s : Sums(s, t)
<1> DEFINE S == {n \in Nat : n <= Len(t) => \E g : SumsUpto(g, t, n)}
<1>1. 0 \in S
  <2>1. SumsUpto([i \in 0 .. 0 |-> 0], t, 0)
    BY DEF SumsUpto
  <2> QED
    BY <2>1
<1>2. \A n \in Nat : n \in S => n + 1 \in S
  BY SumsExtend
<1>3. Nat \subseteq S
  <2> HIDE DEF S
  <2> QED
    BY <1>1, <1>2, SetInduction
<1> QED
  BY <1>3 DEF Sums

\* The recursive function that adds up a sequence is what it looks like.
LEMMA SumsDefined ==
    ASSUME NEW t \in Seq(Nat), NEW f,
           f = CHOOSE s : s = [n \in 0 .. Len(t) |-> IF n = 0 THEN 0 ELSE s[n - 1] + t[n]]
    PROVE  Sums(f, t)
<1> DEFINE Def(s) == s = [n \in 0 .. Len(t) |-> IF n = 0 THEN 0 ELSE s[n - 1] + t[n]]
<1>1. PICK g : Sums(g, t)
  BY SumsExist
<1>2. Def(g)
  BY <1>1 DEF Sums, SumsUpto
<1>3. f = CHOOSE s : Def(s)
  OBVIOUS
<1>4. Def(f)
  BY <1>2, <1>3
<1> HIDE DEF Def
<1>5. ASSUME NEW s, Def(s) PROVE Sums(s, t)
  <2> DEFINE S == {n \in Nat : n <= Len(t) => s[n] \in Nat}
  <2>a. /\ DOMAIN s = 0 .. Len(t)
        /\ \A n \in 0 .. Len(t) : s[n] = IF n = 0 THEN 0 ELSE s[n - 1] + t[n]
    BY <1>5, Zenon DEF Def
  <2>1. DOMAIN s = 0 .. Len(t) /\ s[0] = 0 /\ \A n \in 1 .. Len(t) : s[n] = s[n - 1] + t[n]
    BY <2>a
  <2>2. 0 \in S
    BY <2>1
  <2>3. \A n \in Nat : n \in S => n + 1 \in S
    BY <2>1
  <2>4. Nat \subseteq S
    <3> HIDE DEF S
    <3> QED
      BY <2>2, <2>3, SetInduction
  <2>5. s \in [0 .. Len(t) -> Nat]
    <3>1. \A n \in 0 .. Len(t) : s[n] \in Nat
      BY <2>4
    <3>2. s = [n \in 0 .. Len(t) |-> s[n]]
      BY <1>5 DEF Def
    <3> QED
      BY <3>1, <3>2
  <2> QED
    BY <2>1, <2>5 DEF Sums, SumsUpto
<1> QED
  BY <1>4, <1>5

\* What the sums of a sequence are made of.
LEMMA SumsFacts ==
    ASSUME NEW t \in Seq(Nat), NEW s, Sums(s, t)
    PROVE  /\ Len(t) \in Nat
           /\ s[0] = 0
           /\ \A n \in 0 .. Len(t) : s[n] \in Nat
           /\ \A n \in 1 .. Len(t) : s[n] = s[n - 1] + t[n] /\ t[n] \in Nat
<1>1. \A n \in 1 .. Len(t) : t[n] \in Nat
  OBVIOUS
<1> QED
  BY <1>1 DEF Sums, SumsUpto

\* The k numbers of t that follow place p are those of u that follow place q.
SameRun(t, p, u, q, k) == \A i \in 1 .. k : t[p + i] = u[q + i]

Adds(s, t, n) == SumsUpto(s, t, n) /\ \A i \in 1 .. n : t[i] \in Nat

\* Equal numbers add up to equal sums, wherever they stand.
LEMMA ShiftedSums ==
    ASSUME NEW s, NEW t, NEW l \in Nat, Adds(s, t, l),
           NEW r, NEW u, NEW m \in Nat, Adds(r, u, m),
           NEW p \in Nat, NEW q \in Nat, NEW k \in Nat,
           p + k <= l, q + k <= m, SameRun(t, p, u, q, k)
    PROVE  s[p + k] + r[q] = r[q + k] + s[p]
<1> DEFINE S == {n \in Nat : n <= k => s[p + n] + r[q] = r[q + n] + s[p]}
<1>0. /\ \A n \in 0 .. l : s[n] \in Nat
      /\ \A n \in 0 .. m : r[n] \in Nat
      /\ \A n \in 1 .. l : s[n] = s[n - 1] + t[n] /\ t[n] \in Nat
      /\ \A n \in 1 .. m : r[n] = r[n - 1] + u[n] /\ u[n] \in Nat
  BY DEF Adds, SumsUpto
<1>a. p \in 0 .. l /\ q \in 0 .. m
  BY <1>0
<1>b. s[p] \in Nat /\ r[q] \in Nat
  BY <1>0, <1>a
<1>1. 0 \in S
  BY <1>b, p + 0 = p, q + 0 = q
<1>2. \A n \in Nat : n \in S => n + 1 \in S
  <2> SUFFICES ASSUME NEW n \in Nat, n + 1 <= k, s[p + n] + r[q] = r[q + n] + s[p]
               PROVE  s[p + n + 1] + r[q] = r[q + n + 1] + s[p]
    OBVIOUS
  <2>2. p + n \in 0 .. l /\ p + n + 1 \in 1 .. l /\ (p + n + 1) - 1 = p + n
    BY <1>0
  <2>3. q + n \in 0 .. m /\ q + n + 1 \in 1 .. m /\ (q + n + 1) - 1 = q + n
    BY <1>0
  <2>4. s[p + n + 1] = s[p + n] + t[p + n + 1] /\ r[q + n + 1] = r[q + n] + u[q + n + 1]
    BY <1>0, <2>2, <2>3
  <2>5. n + 1 \in 1 .. k
    OBVIOUS
  <2>6. t[p + (n + 1)] = u[q + (n + 1)]
    BY <2>5 DEF SameRun
  <2>7. p + (n + 1) = p + n + 1 /\ q + (n + 1) = q + n + 1
    OBVIOUS
  <2>8. t[p + n + 1] = u[q + n + 1] /\ u[q + n + 1] \in Nat
    BY <1>0, <2>3, <2>6, <2>7
  <2>9. s[p + n] \in Nat /\ r[q + n] \in Nat
    BY <1>0, <2>2, <2>3
  <2> QED
    BY <1>b, <2>4, <2>8, <2>9
<1>3. Nat \subseteq S
  <2> HIDE DEF S
  <2> QED
    BY <1>1, <1>2, SetInduction
<1> QED
  BY <1>3

LEMMA SumsShift ==
    ASSUME NEW t \in Seq(Nat), NEW u \in Seq(Nat), NEW s, Sums(s, t), NEW r, Sums(r, u)
    PROVE  \A p, q, k \in Nat :
                SameRun(t, p, u, q, k) /\ p + k <= Len(t) /\ q + k <= Len(u)
                => s[p + k] + r[q] = r[q + k] + s[p]
<1>1. Len(t) \in Nat /\ Len(u) \in Nat
  BY SumsFacts
<1>2. Adds(s, t, Len(t)) /\ Adds(r, u, Len(u))
  BY SumsFacts DEF Adds, Sums
<1>3. ASSUME NEW p \in Nat, NEW q \in Nat, NEW k \in Nat, SameRun(t, p, u, q, k)
      PROVE  \A l, m \in Nat : Adds(s, t, l) /\ Adds(r, u, m) /\ p + k <= l /\ q + k <= m
                          => s[p + k] + r[q] = r[q + k] + s[p]
  BY <1>3, ShiftedSums
<1> QED
  BY <1>1, <1>2, <1>3

\* Sums do not decrease.
LEMMA SumsMonotonic ==
    ASSUME NEW t \in Seq(Nat), NEW s, Sums(s, t),
           NEW j \in 0 .. Len(t), NEW i \in 0 .. j
    PROVE  s[i] \in Nat /\ s[j] \in Nat /\ s[i] <= s[j]
<1> DEFINE S == {n \in Nat : i + n <= Len(t) => s[i] <= s[i + n]}
<1>0. /\ \A n \in 0 .. Len(t) : s[n] \in Nat
      /\ \A n \in 1 .. Len(t) : s[n] = s[n - 1] + t[n] /\ t[n] \in Nat
      /\ Len(t) \in Nat
  BY SumsFacts
<1>1. 0 \in S
  BY <1>0
<1>2. \A n \in Nat : n \in S => n + 1 \in S
  <2> SUFFICES ASSUME NEW n \in Nat, n \in S, i + (n + 1) <= Len(t)
               PROVE  s[i] <= s[i + (n + 1)]
    OBVIOUS
  <2>1. i + (n + 1) \in 1 .. Len(t) /\ (i + (n + 1)) - 1 = i + n /\ i + n \in 0 .. Len(t)
    BY <1>0
  <2>2. s[i + (n + 1)] = s[i + n] + t[i + (n + 1)] /\ s[i] <= s[i + n]
    BY <1>0, <2>1
  <2>3. s[i + n] \in Nat /\ t[i + (n + 1)] \in Nat /\ s[i] \in Nat
    BY <1>0, <2>1
  <2> QED
    BY <2>2, <2>3
<1>3. Nat \subseteq S
  <2> HIDE DEF S
  <2> QED
    BY <1>1, <1>2, SetInduction
<1>4. j - i \in Nat /\ i + (j - i) = j /\ i \in 0 .. Len(t)
  BY <1>0
<1>5. j - i \in S
  BY <1>3, <1>4
<1>6. s[i] <= s[j]
  BY <1>0, <1>4, <1>5
<1> QED
  BY <1>0, <1>4, <1>6

-----------------------------------------------------------------------------
(***************************************************************************)
(* Sequences with a place taken out, or a stretch replaced.                *)
(***************************************************************************)
LEMMA RemoveAtFacts ==
    ASSUME NEW S, NEW s \in Seq(S), NEW i \in 1 .. Len(s)
    PROVE  /\ RemoveAt(s, i) \in Seq(S)
           /\ Len(RemoveAt(s, i)) = Len(s) - 1
           /\ \A j \in 1 .. Len(s) - 1 :
                RemoveAt(s, i)[j] = IF j < i THEN s[j] ELSE s[j + 1]
<1> DEFINE a == SubSeq(s, 1, i - 1)
           b == SubSeq(s, i + 1, Len(s))
<1>1. Len(s) \in Nat /\ i \in Nat /\ 1 <= i /\ i <= Len(s)
  OBVIOUS
<1>2. a \in Seq(S) /\ Len(a) = i - 1 /\ \A j \in 1 .. i - 1 : a[j] = s[j]
  BY <1>1
<1>3. b \in Seq(S) /\ Len(b) = Len(s) - i /\ \A j \in 1 .. Len(s) - i : b[j] = s[i + j]
  BY <1>1
<1>4. RemoveAt(s, i) = a \o b
  BY DEF RemoveAt
<1> HIDE DEF a, b
<1>5. a \o b \in Seq(S) /\ Len(a \o b) = Len(s) - 1
  <2>1. a \o b \in Seq(S) /\ Len(a \o b) = Len(a) + Len(b)
    BY <1>2, <1>3, ConcatProperties
  <2>2. (i - 1) + (Len(s) - i) = Len(s) - 1
    BY <1>1
  <2> QED
    BY <1>2, <1>3, <2>1, <2>2
<1>6. \A j \in 1 .. Len(s) - 1 : (a \o b)[j] = IF j < i THEN s[j] ELSE s[j + 1]
  <2> SUFFICES ASSUME NEW j \in 1 .. Len(s) - 1
               PROVE  (a \o b)[j] = IF j < i THEN s[j] ELSE s[j + 1]
    OBVIOUS
  <2>1. (a \o b)[j] = IF j <= Len(a) THEN a[j] ELSE b[j - Len(a)]
    BY <1>1, <1>2, <1>3
  <2>2. CASE j < i
    BY <1>1, <1>2, <2>1, <2>2
  <2>3. CASE ~(j < i)
    <3>1. j - Len(a) \in 1 .. Len(s) - i /\ i + (j - Len(a)) = j + 1 /\ ~(j <= Len(a))
      BY <1>1, <1>2, <2>3
    <3> QED
      BY <1>3, <2>1, <2>3, <3>1
  <2> QED
    BY <2>2, <2>3
<1> QED
  BY <1>4, <1>5, <1>6

\* The text with the elements from k up to l replaced by c.
Spliced(t, k, l, c) == SubSeq(t, 1, k - 1) \o c \o SubSeq(t, l, Len(t))

LEMMA SpliceFacts ==
    ASSUME NEW S, NEW t \in Seq(S), NEW c \in Seq(S),
           NEW l \in 1 .. Len(t) + 1, NEW k \in 1 .. l
    PROVE  /\ Spliced(t, k, l, c) \in Seq(S)
           /\ Len(Spliced(t, k, l, c)) = (k - 1) + Len(c) + (Len(t) + 1 - l)
           /\ SameRun(Spliced(t, k, l, c), 0, t, 0, k - 1)
           /\ SameRun(Spliced(t, k, l, c), k - 1, c, 0, Len(c))
           /\ SameRun(Spliced(t, k, l, c), (k - 1) + Len(c), t, l - 1, Len(t) + 1 - l)
<1> DEFINE a == SubSeq(t, 1, k - 1)
           b == SubSeq(t, l, Len(t))
           ac == a \o c
<1>1. /\ Len(t) \in Nat /\ k \in Nat /\ 1 <= k /\ l \in Nat /\ k <= l /\ l <= Len(t) + 1
      /\ Len(c) \in Nat
  OBVIOUS
<1>2. a \in Seq(S) /\ Len(a) = k - 1 /\ \A j \in 1 .. k - 1 : a[j] = t[j]
  BY <1>1
<1>3. b \in Seq(S) /\ Len(b) = Len(t) + 1 - l /\ \A j \in 1 .. Len(t) + 1 - l : b[j] = t[(l - 1) + j]
  BY <1>1
<1>4. ac \in Seq(S) /\ Len(ac) = (k - 1) + Len(c)
  <2> HIDE DEF a
  <2>1. ac \in Seq(S) /\ Len(ac) = Len(a) + Len(c)
    <3>1. a \in Seq(S) /\ c \in Seq(S)
      BY <1>2
    <3> QED
      BY <3>1, ConcatProperties
  <2> QED
    BY <1>2, <2>1
<1>5. \A j \in 1 .. k - 1 : ac[j] = t[j]
  <2> HIDE DEF a
  <2> QED
    BY <1>1, <1>2
<1>6. \A j \in 1 .. Len(c) : ac[(k - 1) + j] = c[j]
  <2> HIDE DEF a
  <2> QED
    BY <1>1, <1>2
<1>7. Spliced(t, k, l, c) = ac \o b
  BY DEF Spliced
<1> HIDE DEF a, b, ac
<1>8. ac \o b \in Seq(S) /\ Len(ac \o b) = (k - 1) + Len(c) + (Len(t) + 1 - l)
  <2>1. ac \o b \in Seq(S) /\ Len(ac \o b) = Len(ac) + Len(b)
    BY <1>3, <1>4, ConcatProperties
  <2> QED
    BY <1>3, <1>4, <2>1
<1>9. \A j \in 1 .. (k - 1) + Len(c) : (ac \o b)[j] = ac[j]
  BY <1>1, <1>3, <1>4
<1>10. \A j \in 1 .. Len(t) + 1 - l : (ac \o b)[(k - 1) + Len(c) + j] = b[j]
  BY <1>1, <1>3, <1>4, SMTT(60)
<1>11. SameRun(ac \o b, 0, t, 0, k - 1)
  <2> SUFFICES ASSUME NEW j \in 1 .. k - 1 PROVE (ac \o b)[0 + j] = t[0 + j]
    BY DEF SameRun
  <2>1. j \in 1 .. (k - 1) + Len(c) /\ 0 + j = j
    BY <1>1
  <2> QED
    BY <1>5, <1>9, <2>1
<1>12. SameRun(ac \o b, k - 1, c, 0, Len(c))
  <2> SUFFICES ASSUME NEW j \in 1 .. Len(c) PROVE (ac \o b)[(k - 1) + j] = c[0 + j]
    BY DEF SameRun
  <2>1. (k - 1) + j \in 1 .. (k - 1) + Len(c) /\ 0 + j = j
    BY <1>1
  <2> QED
    BY <1>6, <1>9, <2>1
<1>13. SameRun(ac \o b, (k - 1) + Len(c), t, l - 1, Len(t) + 1 - l)
  BY <1>3, <1>10 DEF SameRun
<1> QED
  BY <1>7, <1>8, <1>11, <1>12, <1>13

\* What a splice does to the sums: before it nothing, after it a shift.
SplicedSums(s, d, r, t, k, l, c) ==
    /\ \A j \in 0 .. k - 1 : r[j] = s[j]
    /\ \A j \in 0 .. Len(c) : r[(k - 1) + j] = s[k - 1] + d[j]
    /\ \A j \in 0 .. Len(t) + 1 - l :
          r[(k - 1) + Len(c) + j] = s[k - 1] + d[Len(c)] + (s[(l - 1) + j] - s[l - 1])

LEMMA SpliceSums ==
    ASSUME NEW t \in Seq(Nat), NEW c \in Seq(Nat),
           NEW l \in 1 .. Len(t) + 1, NEW k \in 1 .. l,
           NEW s, Sums(s, t), NEW d, Sums(d, c), NEW r, Sums(r, Spliced(t, k, l, c))
    PROVE  SplicedSums(s, d, r, t, k, l, c)
<1> DEFINE u == Spliced(t, k, l, c)
<1>1. /\ Len(t) \in Nat /\ k \in Nat /\ 1 <= k /\ l \in Nat /\ k <= l /\ l <= Len(t) + 1
      /\ Len(c) \in Nat
  OBVIOUS
<1>2. /\ u \in Seq(Nat)
      /\ Len(u) = (k - 1) + Len(c) + (Len(t) + 1 - l)
      /\ SameRun(u, 0, t, 0, k - 1)
      /\ SameRun(u, k - 1, c, 0, Len(c))
      /\ SameRun(u, (k - 1) + Len(c), t, l - 1, Len(t) + 1 - l)
  BY SpliceFacts
<1>c. Len(u) \in Nat /\ Len(u) = (k - 1) + Len(c) + (Len(t) + 1 - l)
  BY <1>1, <1>2
<1>3. /\ s[0] = 0 /\ d[0] = 0 /\ r[0] = 0
      /\ \A n \in 0 .. Len(t) : s[n] \in Nat
      /\ \A n \in 0 .. Len(c) : d[n] \in Nat
      /\ \A n \in 0 .. Len(u) : r[n] \in Nat
  BY <1>2, SumsFacts
<1>a. \A x, y, j \in Nat : SameRun(u, x, t, y, j) /\ x + j <= Len(u) /\ y + j <= Len(t)
                           => r[x + j] + s[y] = s[y + j] + r[x]
  <2>1. Sums(r, u) /\ u \in Seq(Nat)
    BY <1>2
  <2> HIDE DEF u
  <2> QED
    BY <2>1, SumsShift
<1>b. \A x, y, j \in Nat : SameRun(u, x, c, y, j) /\ x + j <= Len(u) /\ y + j <= Len(c)
                           => r[x + j] + d[y] = d[y + j] + r[x]
  <2>1. Sums(r, u) /\ u \in Seq(Nat)
    BY <1>2
  <2> HIDE DEF u
  <2> QED
    BY <2>1, SumsShift
<1>4. \A x, y, j, m \in Nat : SameRun(u, x, t, y, m) /\ j <= m /\ x + m <= Len(u) /\ y + m <= Len(t)
                              => r[x + j] + s[y] = s[y + j] + r[x]
  <2> SUFFICES ASSUME NEW x \in Nat, NEW y \in Nat, NEW j \in Nat, NEW m \in Nat,
                      SameRun(u, x, t, y, m), j <= m, x + m <= Len(u), y + m <= Len(t)
               PROVE  r[x + j] + s[y] = s[y + j] + r[x]
    OBVIOUS
  <2>1. SameRun(u, x, t, y, j)
    BY DEF SameRun
  <2>2. x + j <= Len(u) /\ y + j <= Len(t)
    <3> HIDE DEF u
    <3> QED
      BY <1>1, <1>c
  <2> HIDE DEF u
  <2> QED
    BY <1>a, <2>1, <2>2
<1>5. \A x, j, m \in Nat : SameRun(u, x, c, 0, m) /\ j <= m /\ x + m <= Len(u) /\ m <= Len(c)
                              => r[x + j] = d[j] + r[x]
  <2> SUFFICES ASSUME NEW x \in Nat, NEW j \in Nat, NEW m \in Nat,
                      SameRun(u, x, c, 0, m), j <= m, x + m <= Len(u), m <= Len(c)
               PROVE  r[x + j] = d[j] + r[x]
    OBVIOUS
  <2>1. SameRun(u, x, c, 0, j)
    BY DEF SameRun
  <2>2. x + j <= Len(u) /\ 0 + j <= Len(c) /\ 0 \in Nat
    <3> HIDE DEF u
    <3> QED
      BY <1>1, <1>c
  <2>3. r[x + j] + d[0] = d[0 + j] + r[x]
    <3> HIDE DEF u
    <3> QED
      BY <1>b, <2>1, <2>2
  <2>4. x + j \in 0 .. Len(u)
    BY <1>c, <2>2
  <2> QED
    BY <1>3, <2>3, <2>4, 0 + j = j
<1> HIDE DEF u
<1>6. ASSUME NEW j \in 0 .. k - 1 PROVE r[j] = s[j]
  <2>1. r[0 + j] + s[0] = s[0 + j] + r[0]
    <3>1. /\ 0 \in Nat /\ j \in Nat /\ k - 1 \in Nat /\ j <= k - 1
          /\ 0 + (k - 1) <= Len(u) /\ 0 + (k - 1) <= Len(t)
      BY <1>1, <1>c
    <3> QED
      BY <1>2, <1>4, <3>1
  <2>2. 0 + j = j /\ j \in 0 .. Len(t) /\ j \in 0 .. Len(u)
    BY <1>1, <1>c
  <2> QED
    BY <1>3, <2>1, <2>2
<1>7. ASSUME NEW j \in 0 .. Len(c) PROVE r[(k - 1) + j] = s[k - 1] + d[j]
  <2>1. r[(k - 1) + j] = d[j] + r[k - 1]
    <3>1. /\ k - 1 \in Nat /\ j \in Nat /\ Len(c) \in Nat /\ j <= Len(c) /\ Len(c) <= Len(c)
          /\ (k - 1) + Len(c) <= Len(u)
      BY <1>1, <1>c
    <3> QED
      BY <1>2, <1>5, <3>1
  <2>2. r[k - 1] = s[k - 1] /\ k - 1 \in 0 .. Len(t)
    BY <1>1, <1>6
  <2>3. s[k - 1] \in Nat /\ d[j] \in Nat
    BY <1>3, <2>2
  <2> QED
    BY <2>1, <2>2, <2>3
<1>8. ASSUME NEW j \in 0 .. Len(t) + 1 - l
      PROVE  r[(k - 1) + Len(c) + j] = s[k - 1] + d[Len(c)] + (s[(l - 1) + j] - s[l - 1])
  <2>1. r[(k - 1) + Len(c) + j] + s[l - 1] = s[(l - 1) + j] + r[(k - 1) + Len(c)]
    <3>1. /\ (k - 1) + Len(c) \in Nat /\ l - 1 \in Nat /\ Len(t) + 1 - l \in Nat
          /\ j \in Nat /\ j <= Len(t) + 1 - l
          /\ (k - 1) + Len(c) + (Len(t) + 1 - l) <= Len(u) /\ (l - 1) + (Len(t) + 1 - l) <= Len(t)
      BY <1>1, <1>c
    <3> QED
      BY <1>2, <1>4, <3>1
  <2>2. r[(k - 1) + Len(c)] = s[k - 1] + d[Len(c)]
    BY <1>1, <1>7
  <2>3. /\ s[l - 1] \in Nat /\ s[(l - 1) + j] \in Nat /\ s[k - 1] \in Nat /\ d[Len(c)] \in Nat
        /\ r[(k - 1) + Len(c) + j] \in Nat
    <3>1. /\ l - 1 \in 0 .. Len(t) /\ (l - 1) + j \in 0 .. Len(t) /\ k - 1 \in 0 .. Len(t)
          /\ Len(c) \in 0 .. Len(c) /\ (k - 1) + Len(c) + j \in 0 .. Len(u)
      BY <1>1, <1>c
    <3> QED
      BY <1>3, <3>1
  <2>4. r[(k - 1) + Len(c) + j] + s[l - 1] = s[(l - 1) + j] + (s[k - 1] + d[Len(c)])
    BY <2>1, <2>2
  <2>5. ASSUME NEW v \in Nat, NEW w \in Nat, NEW x \in Nat, NEW y \in Nat, NEW z \in Nat,
               v + w = x + (y + z)
        PROVE  v = y + z + (x - w)
    BY <2>5
  <2> DEFINE v == r[(k - 1) + Len(c) + j]
             w == s[l - 1]
             x == s[(l - 1) + j]
             y == s[k - 1]
             z == d[Len(c)]
  <2>6. v \in Nat /\ w \in Nat /\ x \in Nat /\ y \in Nat /\ z \in Nat /\ v + w = x + (y + z)
    BY <2>3, <2>4
  <2>7. v = y + z + (x - w)
    <3> HIDE DEF v, w, x, y, z
    <3> QED
      BY <2>5, <2>6
  <2> QED
    BY <2>7
<1> QED
  BY <1>6, <1>7, <1>8 DEF SplicedSums

-----------------------------------------------------------------------------
(***************************************************************************)
(* Sizes of texts.                                                         *)
(***************************************************************************)
LEMMA TextIsSequence ==
    ASSUME NEW t
    PROVE  t \in Texts <=> t \in Seq(Widths) /\ Len(t) <= MaxChars
<1>1. ASSUME t \in Texts PROVE t \in Seq(Widths) /\ Len(t) <= MaxChars
  <2>1. PICK n \in 0 .. MaxChars : t \in [1 .. n -> Widths]
    BY <1>1 DEF Texts
  <2> QED
    BY <2>1, BoundAssumption
<1>2. ASSUME t \in Seq(Widths), Len(t) <= MaxChars PROVE t \in Texts
  <2>1. Len(t) \in 0 .. MaxChars /\ t \in [1 .. Len(t) -> Widths]
    BY <1>2, BoundAssumption, LenProperties
  <2> QED
    BY <2>1 DEF Texts
<1> QED
  BY <1>1, <1>2

LEMMA TextIsNumbers == \A t \in Texts : t \in Seq(Nat) /\ t \in Seq(Widths) /\ Len(t) \in Nat
<1> SUFFICES ASSUME NEW t \in Texts PROVE t \in Seq(Nat) /\ t \in Seq(Widths) /\ Len(t) \in Nat
  OBVIOUS
<1>1. t \in Seq(Widths)
  BY TextIsSequence
<1>2. Widths \subseteq Nat
  BY BoundAssumption
<1> QED
  BY <1>1, <1>2, SeqMonotonic, LenProperties

LEMMA StartsAreSums == \A t \in Seq(Nat) : Sums(Starts(t), t)
<1> SUFFICES ASSUME NEW t \in Seq(Nat) PROVE Sums(Starts(t), t)
  OBVIOUS
<1> DEFINE f == Starts(t)
<1>1. f = CHOOSE s : s = [n \in 0 .. Len(t) |-> IF n = 0 THEN 0 ELSE s[n - 1] + t[n]]
  BY DEF Starts
<1> HIDE DEF f
<1>2. Sums(f, t)
  BY <1>1, SumsDefined
<1> QED
  BY <1>2 DEF f

LEMMA EmptySize == <<>> \in Texts /\ SizeOf(<<>>) = 0
<1>1. <<>> \in Seq(Widths) /\ <<>> \in Seq(Nat) /\ Len(<<>>) = 0
  OBVIOUS
<1>2. Starts(<<>>)[0] = 0
  BY <1>1, StartsAreSums, SumsFacts
<1>3. SizeOf(<<>>) = 0
  BY <1>1, <1>2 DEF SizeOf
<1>4. Len(<<>>) <= MaxChars
  BY BoundAssumption
<1> QED
  BY <1>1, <1>3, <1>4, TextIsSequence

\* A character begins before the end of its text.
LEMMA StartInside ==
    ASSUME NEW t \in Seq(Nat), NEW l \in 1 .. Len(t) + 1, NEW k \in 1 .. l
    PROVE  /\ StartOf(t, k) \in Nat /\ StartOf(t, l) \in Nat /\ SizeOf(t) \in Nat
           /\ StartOf(t, k) <= StartOf(t, l)
           /\ StartOf(t, l) <= SizeOf(t)
<1>1. Sums(Starts(t), t)
  BY StartsAreSums
<1>2. l - 1 \in 0 .. Len(t) /\ k - 1 \in 0 .. l - 1 /\ Len(t) \in 0 .. Len(t)
  BY LenProperties
<1>3. Starts(t)[k - 1] \in Nat /\ Starts(t)[l - 1] \in Nat /\ Starts(t)[k - 1] <= Starts(t)[l - 1]
  BY <1>1, <1>2, SumsMonotonic
<1>4. Starts(t)[Len(t)] \in Nat /\ Starts(t)[l - 1] <= Starts(t)[Len(t)]
  BY <1>1, <1>2, SumsMonotonic
<1> QED
  BY <1>3, <1>4 DEF StartOf, SizeOf

LEMMA SizeIsNat == \A t \in Seq(Nat) : SizeOf(t) \in Nat
<1> SUFFICES ASSUME NEW t \in Seq(Nat) PROVE SizeOf(t) \in Nat
  OBVIOUS
<1>1. 1 \in 1 .. Len(t) + 1 /\ 1 \in 1 .. 1
  BY LenProperties
<1> QED
  BY <1>1, StartInside

LEMMA BoundaryInside ==
    ASSUME NEW t \in Seq(Nat), NEW p \in Boundaries(t)
    PROVE  p \in Nat /\ p <= SizeOf(t)
<1>1. PICK k \in 1 .. Len(t) + 1 : p = StartOf(t, k)
  BY DEF Boundaries
<1>2. k \in 1 .. k
  BY LenProperties
<1> QED
  BY <1>1, <1>2, StartInside

\* An edit makes a text as much longer as what it puts in is than what it
\* takes out.
LEMMA EditedSize ==
    ASSUME NEW t \in Seq(Nat), NEW c \in Seq(Nat),
           NEW l \in 1 .. Len(t) + 1, NEW k \in 1 .. l
    PROVE  SizeOf(Spliced(t, k, l, c))
             = SizeOf(t) - (StartOf(t, l) - StartOf(t, k)) + SizeOf(c)
<1> DEFINE u == Spliced(t, k, l, c)
<1>1. Len(t) \in Nat /\ Len(c) \in Nat
  BY LenProperties
<1>2. u \in Seq(Nat) /\ Len(u) = (k - 1) + Len(c) + (Len(t) + 1 - l)
  BY SpliceFacts, ZenonT(60)
<1> DEFINE s == Starts(t)
           d == Starts(c)
           r == Starts(u)
<1>3. Sums(s, t) /\ Sums(d, c) /\ Sums(r, Spliced(t, k, l, c))
  BY <1>2, StartsAreSums
<1>a. SplicedSums(s, d, r, t, k, l, c)
  <2> HIDE DEF s, d, r, u
  <2> QED
    BY <1>3, SpliceSums
<1>4. \A j \in 0 .. Len(t) + 1 - l :
          r[(k - 1) + Len(c) + j] = s[k - 1] + d[Len(c)] + (s[(l - 1) + j] - s[l - 1])
  BY <1>a DEF SplicedSums
<1>5. Len(t) + 1 - l \in 0 .. Len(t) + 1 - l /\ (l - 1) + (Len(t) + 1 - l) = Len(t)
  BY <1>1
<1>6. r[Len(u)] = s[k - 1] + d[Len(c)] + (s[Len(t)] - s[l - 1])
  <2> HIDE DEF s, d, r, u
  <2> QED
    BY <1>2, <1>4, <1>5
<1>7. s[k - 1] \in Nat /\ s[l - 1] \in Nat /\ s[Len(t)] \in Nat /\ d[Len(c)] \in Nat
  BY StartInside, SizeIsNat DEF StartOf, SizeOf
<1>8. r[Len(u)] = s[Len(t)] - (s[l - 1] - s[k - 1]) + d[Len(c)]
  <2>1. ASSUME NEW v \in Nat, NEW w \in Nat, NEW x \in Nat, NEW y \in Nat
        PROVE  v + w + (x - y) = x - (y - v) + w
    OBVIOUS
  <2> HIDE DEF s, d, r, u
  <2> QED
    BY <1>6, <1>7, <2>1, SMTT(60)
<1> QED
  BY <1>8 DEF StartOf, SizeOf

\* A point inside a text is inside what an edit makes of it.
LEMMA RelocatedInside ==
    ASSUME NEW size \in Nat, NEW p \in 0 .. size, NEW at \in 0 .. size,
           NEW to \in at .. size, NEW added \in Nat
    PROVE  /\ Relocated(p, at, to - at, added) \in Nat
           /\ Relocated(p, at, to - at, added) <= size - (to - at) + added
BY DEF Relocated

-----------------------------------------------------------------------------
(***************************************************************************)
(* Lists of buffers with ids of their own.                                 *)
(***************************************************************************)
Buffer(n) == [id : 1 .. n, name : Names, path : Files \cup {NoFile}, text : Texts,
              point : Nat, modified : BOOLEAN]

Distinct(bs) == \A i, j \in DOMAIN bs : bs[i].id = bs[j].id => i = j

PointInside(b) == b.point <= SizeOf(b.text)

ListOf(bs, n) ==
    /\ bs \in Seq(Buffer(n))
    /\ Distinct(bs)
    /\ \A i \in DOMAIN bs : PointInside(bs[i])

\* cs lists the buffers of bs in the order of bs, whatever they have become.
SameList(bs, cs) ==
    /\ DOMAIN cs = DOMAIN bs
    /\ \A i \in DOMAIN bs : cs[i].id = bs[i].id

LEMMA SameIds ==
    ASSUME NEW bs, NEW cs, SameList(bs, cs)
    PROVE  Ids(cs) = Ids(bs) /\ (Distinct(bs) => Distinct(cs))
BY DEF SameList, Ids, Distinct

LEMMA Appended ==
    ASSUME NEW n \in Nat, NEW bs, ListOf(bs, n),
           NEW r \in Buffer(n + 1), r.id = n + 1, PointInside(r)
    PROVE  /\ ListOf(Append(bs, r), n + 1)
           /\ Len(Append(bs, r)) = Len(bs) + 1
           /\ DOMAIN Append(bs, r) = 1 .. Len(bs) + 1
           /\ \A j \in DOMAIN bs : Append(bs, r)[j] = bs[j] /\ bs[j].id # n + 1
           /\ Append(bs, r)[Len(bs) + 1] = r
           /\ Ids(Append(bs, r)) = Ids(bs) \cup {n + 1}
<1> DEFINE cs == Append(bs, r)
<1>1. bs \in Seq(Buffer(n)) /\ DOMAIN bs = 1 .. Len(bs) /\ Len(bs) \in Nat
  BY DEF ListOf
<1>2. Buffer(n) \subseteq Buffer(n + 1)
  BY DEF Buffer
<1>3. bs \in Seq(Buffer(n + 1))
  BY <1>1, <1>2, SeqMonotonic
<1>4. cs \in Seq(Buffer(n + 1)) /\ Len(cs) = Len(bs) + 1 /\ DOMAIN cs = 1 .. Len(bs) + 1
  BY <1>3
<1>5. \A j \in 1 .. Len(bs) : cs[j] = bs[j]
  BY <1>1
<1>6. cs[Len(bs) + 1] = r
  BY <1>1
<1>7. \A j \in 1 .. Len(bs) : bs[j].id # n + 1
  <2> SUFFICES ASSUME NEW j \in 1 .. Len(bs) PROVE bs[j].id # n + 1
    OBVIOUS
  <2>1. bs[j] \in Buffer(n)
    BY <1>1, ElementOfSeq
  <2> QED
    BY <2>1 DEF Buffer
<1> HIDE DEF cs
<1>8. \A j \in 1 .. Len(bs) + 1 : j \in 1 .. Len(bs) \/ j = Len(bs) + 1
  BY <1>1
<1>9. Distinct(cs)
  <2> SUFFICES ASSUME NEW j \in 1 .. Len(bs) + 1, NEW k \in 1 .. Len(bs) + 1,
                      cs[j].id = cs[k].id
               PROVE  j = k
    BY <1>4 DEF Distinct
  <2>1. CASE j \in 1 .. Len(bs) /\ k \in 1 .. Len(bs)
    BY <1>1, <1>5, <2>1 DEF ListOf, Distinct
  <2>2. CASE j = Len(bs) + 1 /\ k \in 1 .. Len(bs)
    BY <1>5, <1>6, <1>7, <2>2
  <2>3. CASE j \in 1 .. Len(bs) /\ k = Len(bs) + 1
    BY <1>5, <1>6, <1>7, <2>3
  <2> QED
    BY <1>8, <2>1, <2>2, <2>3
<1>10. \A j \in DOMAIN cs : PointInside(cs[j])
  BY <1>1, <1>4, <1>5, <1>6, <1>8 DEF ListOf
<1>11. Ids(cs) = Ids(bs) \cup {n + 1}
  BY <1>1, <1>4, <1>5, <1>6, <1>8 DEF Ids
<1>12. ListOf(cs, n + 1)
  BY <1>4, <1>9, <1>10 DEF ListOf
<1> QED
  BY <1>1, <1>4, <1>5, <1>6, <1>7, <1>11, <1>12 DEF cs

LEMMA Removed ==
    ASSUME NEW n \in Nat, NEW bs, ListOf(bs, n), NEW i \in DOMAIN bs
    PROVE  /\ ListOf(RemoveAt(bs, i), n)
           /\ Len(RemoveAt(bs, i)) = Len(bs) - 1
           /\ Ids(RemoveAt(bs, i)) = Ids(bs) \ {bs[i].id}
<1> DEFINE cs == RemoveAt(bs, i)
           from(j) == IF j < i THEN j ELSE j + 1
<1>1. bs \in Seq(Buffer(n)) /\ DOMAIN bs = 1 .. Len(bs) /\ Len(bs) \in Nat
  BY DEF ListOf
<1>2. /\ cs \in Seq(Buffer(n)) /\ Len(cs) = Len(bs) - 1
      /\ \A j \in 1 .. Len(bs) - 1 : cs[j] = IF j < i THEN bs[j] ELSE bs[j + 1]
  BY <1>1, RemoveAtFacts
<1>3. DOMAIN cs = 1 .. Len(bs) - 1
  BY <1>2, LenProperties
<1> HIDE DEF cs
<1>4. \A j \in DOMAIN cs : from(j) \in DOMAIN bs /\ from(j) # i /\ cs[j] = bs[from(j)]
  BY <1>1, <1>2, <1>3
<1>5. \A j, k \in DOMAIN cs : from(j) = from(k) => j = k
  BY <1>1, <1>3
<1>6. \A k \in DOMAIN bs : k # i => \E j \in DOMAIN cs : from(j) = k
  <2> SUFFICES ASSUME NEW k \in DOMAIN bs, k # i PROVE \E j \in DOMAIN cs : from(j) = k
    OBVIOUS
  <2>1. CASE k < i
    BY <1>1, <1>3, <2>1
  <2>2. CASE k > i
    <3>1. k - 1 \in DOMAIN cs /\ from(k - 1) = k
      BY <1>1, <1>3, <2>2
    <3> QED
      BY <3>1
  <2> QED
    BY <1>1, <2>1, <2>2
<1> HIDE DEF from
<1>7. Distinct(cs)
  BY <1>4, <1>5 DEF ListOf, Distinct
<1>8. \A j \in DOMAIN cs : PointInside(cs[j])
  BY <1>4 DEF ListOf
<1>9. ListOf(cs, n)
  BY <1>2, <1>7, <1>8 DEF ListOf
<1>10. Ids(cs) = Ids(bs) \ {bs[i].id}
  <2>1. ASSUME NEW x \in Ids(cs) PROVE x \in Ids(bs) \ {bs[i].id}
    BY <1>4 DEF ListOf, Distinct, Ids
  <2>2. ASSUME NEW x \in Ids(bs), x # bs[i].id PROVE x \in Ids(cs)
    <3>1. PICK k \in DOMAIN bs : x = bs[k].id
      BY DEF Ids
    <3>2. PICK j \in DOMAIN cs : from(j) = k
      BY <1>6, <2>2, <3>1
    <3> QED
      BY <1>4, <3>1, <3>2 DEF Ids
  <2> QED
    BY <2>1, <2>2
<1> QED
  BY <1>2, <1>9, <1>10 DEF cs

LEMMA IndexFound ==
    ASSUME NEW bs, NEW id \in Ids(bs)
    PROVE  IndexOf(bs, id) \in DOMAIN bs /\ bs[IndexOf(bs, id)].id = id
BY DEF Ids, IndexOf

\* As many ids as buffers.
LEMMA DistinctCount ==
    ASSUME NEW n \in Nat, NEW bs, ListOf(bs, n)
    PROVE  Cardinality(Ids(bs)) = Len(bs)
<1> DEFINE f == [i \in 1 .. Len(bs) |-> bs[i].id]
<1>1. DOMAIN bs = 1 .. Len(bs) /\ Len(bs) \in Nat
  BY DEF ListOf
<1>2. f \in Bijection(1 .. Len(bs), Ids(bs))
  BY <1>1 DEF ListOf, Distinct, Ids, Bijection, Injection, Surjection, IsInjective
<1>3. IsFiniteSet(1 .. Len(bs)) /\ Cardinality(1 .. Len(bs)) = Len(bs)
  <2>1. /\ IsFiniteSet(1 .. Len(bs))
        /\ Cardinality(1 .. Len(bs)) = IF 1 > Len(bs) THEN 0 ELSE Len(bs) - 1 + 1
    <3>1. 1 \in Int /\ Len(bs) \in Int
      BY <1>1
    <3> QED
      BY <3>1, FS_Interval, Zenon
  <2> QED
    BY <1>1, <2>1
<1> QED
  BY <1>2, <1>3, FS_Bijection DEF ExistsBijection

-----------------------------------------------------------------------------
(***************************************************************************)
(* The inductive invariant.  The panes show ids that are in the list, and  *)
(* the active one that of the current buffer; the ids are distinct, which  *)
(* is why what a pane shows is found again once the list has changed.      *)
(***************************************************************************)
Listed ==
    /\ next_id \in 1 .. MaxId
    /\ ListOf(buffers, next_id)
    /\ Len(buffers) \in 1 .. MaxBuffers

Shown ==
    /\ current \in DOMAIN buffers
    /\ panes \in Seq([buffer : Ids(buffers), point : Nat])
    /\ Len(panes) \in 1 .. MaxPanes
    /\ active_pane \in DOMAIN panes
    /\ panes[active_pane].buffer = buffers[current].id

Asked ==
    /\ prompt_command \in {"", "kill-confirm", "quit-confirm"}
    /\ pending_buffer \in 0 .. next_id
    /\ quit \in {"no", "clean", "saved", "discarded", "killed"}

IInv == Listed /\ Shown /\ Asked /\ QuitSavesAll

\* The step of KilledOnlyWhenAsked.
KilledStep ==
    \A i \in DOMAIN buffers :
        buffers[i].modified /\ buffers[i].id \notin Ids(buffers')
        => prompt_command = "kill-confirm" /\ pending_buffer = buffers[i].id

LEMMA ListFacts ==
    ASSUME Listed
    PROVE  /\ next_id \in Nat /\ next_id >= 1 /\ next_id <= MaxId
           /\ MaxId \in Nat /\ MaxBuffers \in Nat
           /\ Len(buffers) \in Nat /\ Len(buffers) >= 1 /\ Len(buffers) <= MaxBuffers
           /\ DOMAIN buffers = 1 .. Len(buffers)
           /\ \A i \in DOMAIN buffers : /\ buffers[i] \in Buffer(next_id)
                                        /\ buffers[i].id \in Ids(buffers)
<1>1. buffers \in Seq(Buffer(next_id))
  BY DEF Listed, ListOf
<1>2. DOMAIN buffers = 1 .. Len(buffers) /\ \A i \in 1 .. Len(buffers) : buffers[i] \in Buffer(next_id)
  BY <1>1
<1> QED
  BY <1>2, BoundAssumption DEF Listed, Ids

LEMMA PaneFacts ==
    ASSUME Shown
    PROVE  /\ DOMAIN panes = 1 .. Len(panes)
           /\ Len(panes) \in Nat /\ Len(panes) >= 1 /\ Len(panes) <= MaxPanes /\ MaxPanes \in Nat
           /\ \A p \in DOMAIN panes : /\ panes[p] \in [buffer : Ids(buffers), point : Nat]
                                      /\ panes[p].buffer \in Ids(buffers)
<1>1. panes \in Seq([buffer : Ids(buffers), point : Nat])
  BY DEF Shown
<1>2. DOMAIN panes = 1 .. Len(panes)
  BY <1>1
<1>3. \A p \in 1 .. Len(panes) : panes[p] \in [buffer : Ids(buffers), point : Nat]
  BY <1>1, ElementOfSeq
<1> QED
  BY <1>2, <1>3, BoundAssumption DEF Shown

LEMMA IInvGivesTypes == IInv => TypeOK /\ PanesShowBuffers
<1> SUFFICES ASSUME IInv PROVE TypeOK /\ PanesShowBuffers
  OBVIOUS
<1>1. Listed /\ Shown /\ Asked
  BY DEF IInv
<1>2. Ids(buffers) \subseteq 1 .. next_id
  BY <1>1, ListFacts DEF Ids, Buffer
<1>3. panes \in Seq([buffer : 1 .. next_id, point : Nat])
  <2>1. [buffer : Ids(buffers), point : Nat] \subseteq [buffer : 1 .. next_id, point : Nat]
    BY <1>2
  <2>2. panes \in Seq([buffer : Ids(buffers), point : Nat])
    BY <1>1 DEF Shown
  <2> QED
    BY <2>1, <2>2, SeqMonotonic
<1>4. Cardinality(Ids(buffers)) = Len(buffers)
  BY <1>1, ListFacts, DistinctCount DEF Listed
<1>5. buffers \in Seq([id : 1 .. next_id, name : Names, path : Files \cup {NoFile},
                        text : Texts, point : Nat, modified : BOOLEAN])
  BY <1>1 DEF Listed, ListOf, Buffer
<1>6. \A i \in DOMAIN buffers : buffers[i].point <= SizeOf(buffers[i].text)
  BY <1>1 DEF Listed, ListOf, PointInside
<1>7. TypeOK
  BY <1>1, <1>3, <1>4, <1>5, <1>6 DEF TypeOK, Listed, Shown, Asked
<1> QED
  BY <1>1, <1>7, PaneFacts DEF PanesShowBuffers, Shown

-----------------------------------------------------------------------------
(***************************************************************************)
(* What the parts of the actions keep.                                     *)
(***************************************************************************)

\* The panes, where no buffer went and the active one is told of the current.
LEMMA ShowStep ==
    ASSUME Shown, Ids(buffers) \subseteq Ids(buffers'), NEW i \in DOMAIN buffers',
           NEW id, id = buffers'[i].id, id \in Ids(buffers'), Show(i, id),
           active_pane' = active_pane
    PROVE  Shown'
<1> DEFINE P == [buffer : Ids(buffers), point : Nat]
           Q == [buffer : Ids(buffers'), point : Nat]
<1>1. panes \in Seq(P) /\ P \subseteq Q
  BY DEF Shown
<1>2. panes \in Seq(Q)
  <2> HIDE DEF P, Q
  <2> QED
    BY <1>1, SeqMonotonic
<1>3. active_pane \in 1 .. Len(panes) /\ Len(panes) \in 1 .. MaxPanes
  BY PaneFacts DEF Shown
<1>4. [panes[active_pane] EXCEPT !.buffer = id] \in Q
  BY <1>1, <1>3, PaneFacts
<1> DEFINE r == [panes[active_pane] EXCEPT !.buffer = id]
<1>5. panes' = [panes EXCEPT ![active_pane] = r]
  BY DEF Show
<1>6. r.buffer = id
  BY <1>1, <1>3, PaneFacts
<1>7. /\ panes' \in Seq(Q) /\ Len(panes') = Len(panes)
      /\ \A j \in 1 .. Len(panes) : panes'[j] = IF j = active_pane THEN r ELSE panes[j]
  <2> HIDE DEF r, Q
  <2> QED
    BY <1>2, <1>3, <1>4, <1>5, ExceptSeq DEF r
<1>8. DOMAIN panes' = 1 .. Len(panes) /\ panes'[active_pane] = r
  BY <1>3, <1>7, LenProperties
<1>9. current' = i
  BY DEF Show
<1> HIDE DEF r
<1> QED
  BY <1>3, <1>6, <1>7, <1>8, <1>9 DEF Shown

\* The panes, where nothing but the contents of the buffers changes.
LEMMA StayShown ==
    ASSUME Shown, SameList(buffers, buffers'), UNCHANGED <<current, panes, active_pane>>
    PROVE  Shown'
<1>1. Ids(buffers') = Ids(buffers) /\ DOMAIN buffers' = DOMAIN buffers
  BY SameIds DEF SameList
<1>2. buffers'[current].id = buffers[current].id
  BY DEF SameList, Shown
<1> QED
  BY <1>1, <1>2 DEF Shown

LEMMA SwitchStep ==
    ASSUME Listed, Shown, UNCHANGED <<buffers, next_id, active_pane>>,
           NEW i \in DOMAIN buffers, Switch(i)
    PROVE  Listed' /\ Shown'
<1>1. Listed'
  BY DEF Listed
<1>2. buffers[i].id \in Ids(buffers) /\ buffers[i].id = buffers'[i].id /\ Ids(buffers') = Ids(buffers)
      /\ i \in DOMAIN buffers'
  BY DEF Ids
<1>3. Show(i, buffers[i].id)
  BY DEF Switch
<1> QED
  BY <1>1, <1>2, <1>3, ShowStep

\* A buffer is changed, but not its id.
LEMMA RewriteStep ==
    ASSUME Listed, next_id' = next_id, NEW i \in DOMAIN buffers,
           NEW r \in Buffer(next_id), r.id = buffers[i].id, PointInside(r),
           buffers' = [buffers EXCEPT ![i] = r]
    PROVE  Listed' /\ SameList(buffers, buffers') /\ Ids(buffers') = Ids(buffers)
<1>1. buffers \in Seq(Buffer(next_id)) /\ DOMAIN buffers = 1 .. Len(buffers)
  BY DEF Listed, ListOf
<1>2. /\ buffers' \in Seq(Buffer(next_id)) /\ Len(buffers') = Len(buffers)
      /\ DOMAIN buffers' = DOMAIN buffers
  BY <1>1, ExceptSeq
<1>3. \A j \in DOMAIN buffers : buffers'[j] = IF j = i THEN r ELSE buffers[j]
  BY <1>1
<1>4. SameList(buffers, buffers')
  BY <1>2, <1>3 DEF SameList
<1>5. \A j \in DOMAIN buffers' : PointInside(buffers'[j])
  BY <1>2, <1>3 DEF Listed, ListOf
<1>6. ListOf(buffers', next_id)
  BY <1>2, <1>4, <1>5, SameIds DEF Listed, ListOf
<1> QED
  BY <1>2, <1>4, <1>6, SameIds DEF Listed

LEMMA FreshBuffer ==
    ASSUME NEW n \in Nat, NEW name \in Names, NEW path \in Files \cup {NoFile},
           NEW text \in Texts
    PROVE  LET b == Fresh(name, path, text, n + 1)
           IN  b \in Buffer(n + 1) /\ b.id = n + 1 /\ PointInside(b)
<1>1. SizeOf(text) \in Nat
  BY TextIsNumbers, SizeIsNat
<1> QED
  BY <1>1 DEF Fresh, Buffer, PointInside

LEMMA AppendStep ==
    ASSUME Listed, HasRoom, next_id' = next_id + 1,
           NEW name \in Names, NEW path \in Files \cup {NoFile}, NEW text \in Texts,
           buffers' = Append(buffers, Fresh(name, path, text, next_id + 1))
    PROVE  /\ Listed'
           /\ Len(buffers) + 1 \in DOMAIN buffers'
           /\ buffers'[Len(buffers) + 1].id = next_id + 1
           /\ Ids(buffers') = Ids(buffers) \cup {next_id + 1}
           /\ DOMAIN buffers \subseteq DOMAIN buffers'
           /\ \A j \in DOMAIN buffers : buffers'[j] = buffers[j]
<1> DEFINE b == Fresh(name, path, text, next_id + 1)
<1>1. next_id \in Nat /\ b \in Buffer(next_id + 1) /\ b.id = next_id + 1 /\ PointInside(b)
  BY ListFacts, FreshBuffer
<1> HIDE DEF b
<1>2. /\ ListOf(Append(buffers, b), next_id + 1)
      /\ Len(Append(buffers, b)) = Len(buffers) + 1
      /\ DOMAIN Append(buffers, b) = 1 .. Len(buffers) + 1
      /\ \A j \in DOMAIN buffers : Append(buffers, b)[j] = buffers[j] /\ buffers[j].id # next_id + 1
      /\ Append(buffers, b)[Len(buffers) + 1] = b
      /\ Ids(Append(buffers, b)) = Ids(buffers) \cup {next_id + 1}
  BY <1>1, Appended DEF Listed
<1>3. buffers' = Append(buffers, b)
  BY DEF b
<1>4. next_id' \in 1 .. MaxId /\ Len(buffers') \in 1 .. MaxBuffers
  BY <1>2, <1>3, ListFacts DEF HasRoom
<1>5. Listed'
  BY <1>2, <1>3, <1>4 DEF Listed
<1>6. Len(buffers) + 1 \in DOMAIN buffers' /\ DOMAIN buffers \subseteq DOMAIN buffers'
  BY <1>2, <1>3, ListFacts
<1> QED
  BY <1>1, <1>2, <1>3, <1>5, <1>6

LEMMA NewBufferStep ==
    ASSUME Listed, Shown, active_pane' = active_pane,
           NEW name \in Names, NEW path \in Files \cup {NoFile}, NEW text \in Texts,
           NewBuffer(name, path, text)
    PROVE  Listed' /\ Shown' /\ Ids(buffers) \subseteq Ids(buffers')
<1>1. /\ HasRoom /\ next_id' = next_id + 1
      /\ buffers' = Append(buffers, Fresh(name, path, text, next_id + 1))
      /\ Show(Len(buffers) + 1, next_id + 1)
  BY DEF NewBuffer
<1>2. /\ Listed'
      /\ Len(buffers) + 1 \in DOMAIN buffers'
      /\ buffers'[Len(buffers) + 1].id = next_id + 1
      /\ Ids(buffers') = Ids(buffers) \cup {next_id + 1}
  BY <1>1, AppendStep
<1> QED
  BY <1>1, <1>2, ShowStep

\* The buffer is taken out of the list and off the panes that showed it.
LEMMA DropStep ==
    ASSUME Listed, Shown, active_pane' = active_pane,
           NEW i \in DOMAIN buffers, DropBuffer(i)
    PROVE  /\ Listed' /\ Shown'
           /\ Ids(buffers) \ {buffers[i].id} \subseteq Ids(buffers')
<1> DEFINE sole == Len(buffers) = 1
           fresh == Fresh(Scratch, NoFile, <<>>, next_id + 1)
           all == IF sole THEN Append(buffers, fresh) ELSE buffers
           j == IF i = 1 THEN 2 ELSE 1
           fallback == all[j]
           selected == IF current = i THEN fallback.id ELSE buffers[current].id
           dropped == PanesWithout(buffers[i].id, fallback)
<1>1. /\ sole => next_id < MaxId
      /\ next_id' = IF sole THEN next_id + 1 ELSE next_id
      /\ buffers' = RemoveAt(all, i)
      /\ current' = IndexOf(buffers', selected)
      /\ panes' = [dropped EXCEPT ![active_pane].buffer = selected]
  BY DEF DropBuffer
<1>2. /\ ListOf(all, next_id') /\ next_id' \in Nat /\ next_id' \in 1 .. MaxId
      /\ Len(all) \in Nat /\ Len(all) > 1 /\ Len(all) - 1 \in 1 .. MaxBuffers
      /\ DOMAIN all = 1 .. Len(all)
      /\ Ids(buffers) \subseteq Ids(all)
      /\ \A k \in DOMAIN buffers : k \in DOMAIN all /\ all[k] = buffers[k]
  <2>1. CASE sole
    <3>1. Scratch \in Names /\ NoFile \in Files \cup {NoFile} /\ <<>> \in Texts
      BY NameAssumption, EmptySize
    <3>2. next_id \in Nat /\ fresh \in Buffer(next_id + 1) /\ fresh.id = next_id + 1 /\ PointInside(fresh)
      BY <3>1, ListFacts, FreshBuffer
    <3>3. all = Append(buffers, fresh) /\ next_id' = next_id + 1
      BY <1>1, <2>1
    <3> HIDE DEF fresh, all
    <3>4. /\ ListOf(Append(buffers, fresh), next_id + 1)
          /\ Len(Append(buffers, fresh)) = Len(buffers) + 1
          /\ DOMAIN Append(buffers, fresh) = 1 .. Len(buffers) + 1
          /\ \A k \in DOMAIN buffers : Append(buffers, fresh)[k] = buffers[k] /\ buffers[k].id # next_id + 1
          /\ Ids(Append(buffers, fresh)) = Ids(buffers) \cup {next_id + 1}
      BY <3>2, Appended DEF Listed
    <3>5. next_id' \in Nat /\ next_id' \in 1 .. MaxId
      BY <1>1, <2>1, <3>3, ListFacts
    <3>6. Len(all) = 2 /\ 2 - 1 \in 1 .. MaxBuffers
      BY <2>1, <3>3, <3>4, ListFacts
    <3>7. \A k \in DOMAIN buffers : k \in DOMAIN all /\ all[k] = buffers[k]
      BY <2>1, <3>3, <3>4, ListFacts
    <3> QED
      BY <2>1, <3>3, <3>4, <3>5, <3>6, <3>7
  <2>2. CASE ~sole
    <3>1. all = buffers /\ next_id' = next_id
      BY <1>1, <2>2
    <3> HIDE DEF all
    <3>2. Len(buffers) > 1 /\ Len(buffers) - 1 \in 1 .. MaxBuffers
      BY <2>2, ListFacts
    <3> QED
      BY <3>1, <3>2, ListFacts DEF Listed
  <2> QED
    BY <2>1, <2>2
<1>3. i \in Nat /\ i >= 1 /\ i \in DOMAIN all /\ all[i] = buffers[i]
  BY <1>2, ListFacts
<1>4. j \in DOMAIN all /\ j # i
  <2> HIDE DEF all
  <2> QED
    BY <1>2, <1>3
<1>5. fallback \in Buffer(next_id')
  <2>1. all \in Seq(Buffer(next_id'))
    BY <1>2 DEF ListOf
  <2> HIDE DEF all, j
  <2> QED
    BY <1>2, <1>4, <2>1, ElementOfSeq
<1>6. fallback.id # buffers[i].id /\ fallback.id \in Ids(all) /\ fallback.point \in Nat
  <2>1. fallback.point \in Nat
    <3> HIDE DEF fallback
    <3> QED
      BY <1>5 DEF Buffer
  <2>2. all[j].id # all[i].id /\ all[j].id \in Ids(all)
    <3> HIDE DEF all, j
    <3> QED
      BY <1>2, <1>3, <1>4 DEF ListOf, Distinct, Ids
  <2> QED
    BY <1>3, <2>1, <2>2
<1>7. /\ ListOf(buffers', next_id') /\ Len(buffers') = Len(all) - 1
      /\ Ids(buffers') = Ids(all) \ {buffers[i].id}
  <2>1. ListOf(all, next_id') /\ next_id' \in Nat /\ i \in DOMAIN all
    BY <1>2, <1>3
  <2> HIDE DEF all
  <2>2. /\ ListOf(RemoveAt(all, i), next_id') /\ Len(RemoveAt(all, i)) = Len(all) - 1
        /\ Ids(RemoveAt(all, i)) = Ids(all) \ {all[i].id}
    BY <2>1, Removed
  <2> QED
    BY <1>1, <1>3, <2>2
<1>8. Listed'
  BY <1>2, <1>7 DEF Listed
<1>9. selected \in Ids(buffers')
  <2>1. CASE current = i
    <3> HIDE DEF fallback
    <3> QED
      BY <1>6, <1>7, <2>1
  <2>2. CASE current # i
    <3>1. current \in DOMAIN buffers
      BY DEF Shown
    <3>2. buffers[current].id # buffers[i].id /\ buffers[current].id \in Ids(buffers)
      BY <2>2, <3>1, ListFacts DEF Listed, ListOf, Distinct
    <3> HIDE DEF all
    <3> QED
      BY <1>2, <1>7, <2>2, <3>2
  <2> QED
    BY <2>1, <2>2
<1> HIDE DEF selected, fallback, all, j
<1>10. current' \in DOMAIN buffers' /\ buffers'[current'].id = selected
  BY <1>1, <1>9, IndexFound
<1> DEFINE Q == [buffer : Ids(buffers'), point : Nat]
<1>11. /\ dropped \in Seq(Q) /\ Len(dropped) = Len(panes)
       /\ active_pane \in 1 .. Len(panes)
  <2>1. DOMAIN panes = 1 .. Len(panes) /\ Len(panes) \in Nat /\ active_pane \in 1 .. Len(panes)
    BY PaneFacts DEF Shown
  <2>2. \A p \in 1 .. Len(panes) : dropped[p] \in Q
    <3> SUFFICES ASSUME NEW p \in 1 .. Len(panes) PROVE dropped[p] \in Q
      OBVIOUS
    <3>1. panes[p] \in [buffer : Ids(buffers), point : Nat]
      BY <2>1, PaneFacts
    <3>2. dropped[p] = IF panes[p].buffer = buffers[i].id
                       THEN [buffer |-> fallback.id, point |-> fallback.point] ELSE panes[p]
      BY <2>1 DEF PanesWithout
    <3> HIDE DEF dropped
    <3>3. CASE panes[p].buffer = buffers[i].id
      BY <1>6, <1>7, <3>2, <3>3
    <3>4. CASE panes[p].buffer # buffers[i].id
      BY <1>2, <1>7, <3>1, <3>2, <3>4
    <3> QED
      BY <3>3, <3>4
  <2>3. DOMAIN dropped = 1 .. Len(panes) /\ dropped = [p \in 1 .. Len(panes) |-> dropped[p]]
    BY <2>1 DEF PanesWithout
  <2> HIDE DEF dropped, Q
  <2> QED
    BY <2>1, <2>2, <2>3
<1>12. [dropped[active_pane] EXCEPT !.buffer = selected] \in Q
  <2>1. dropped[active_pane] \in Q
    <3> HIDE DEF dropped, Q
    <3> QED
      BY <1>11, ElementOfSeq
  <2> HIDE DEF dropped
  <2> QED
    BY <1>9, <2>1
<1> DEFINE r == [dropped[active_pane] EXCEPT !.buffer = selected]
<1>13. r.buffer = selected
  <2>1. dropped[active_pane] \in Q
    <3> HIDE DEF dropped, Q
    <3> QED
      BY <1>11, ElementOfSeq
  <2> HIDE DEF dropped
  <2> QED
    BY <2>1
<1>14. /\ panes' \in Seq(Q) /\ Len(panes') = Len(panes)
       /\ panes'[active_pane] = r
  <2>1. panes' = [dropped EXCEPT ![active_pane] = r] /\ r \in Q
    BY <1>1, <1>12
  <2> HIDE DEF dropped, r, Q
  <2> QED
    BY <1>11, <2>1, ExceptSeq
<1>15. DOMAIN panes' = 1 .. Len(panes)
  <2> HIDE DEF Q
  <2> QED
    BY <1>14, LenProperties
<1>16. Shown'
  <2> HIDE DEF r
  <2> QED
    BY <1>10, <1>11, <1>13, <1>14, <1>15 DEF Shown
<1> QED
  BY <1>2, <1>7, <1>8, <1>16

-----------------------------------------------------------------------------
(***************************************************************************)
(* The actions.  Each keeps the invariant and asks before it kills.        *)
(***************************************************************************)

LEMMA Wider == \A n \in Nat : 0 .. n \subseteq 0 .. n + 1
OBVIOUS

\* An action that asks nothing and gives up no buffer.
LEMMA Harmless ==
    ASSUME IInv, Running, UNCHANGED <<prompt_command, pending_buffer, quit>>,
           Listed', Shown', Ids(buffers) \subseteq Ids(buffers'),
           next_id' = next_id \/ next_id' = next_id + 1
    PROVE  IInv' /\ KilledStep
<1>1. Asked'
  <2>1. next_id \in Nat /\ Asked
    BY ListFacts DEF IInv
  <2>2. pending_buffer' \in 0 .. next_id'
    <3>1. pending_buffer' = pending_buffer /\ pending_buffer \in 0 .. next_id
      BY <2>1 DEF Asked
    <3>2. 0 .. next_id \subseteq 0 .. next_id + 1
      BY <2>1, Wider
    <3> QED
      BY <3>1, <3>2
  <2> QED
    BY <2>1, <2>2 DEF Asked
<1>2. QuitSavesAll'
  BY DEF QuitSavesAll, Running
<1>3. KilledStep
  BY DEF KilledStep, Ids
<1> QED
  BY <1>1, <1>2, <1>3 DEF IInv

LEMMA FirstNamedInside ==
    ASSUME Listed, NEW name, FirstNamed(name) > 0
    PROVE  FirstNamed(name) \in DOMAIN buffers
<1> DEFINE I == {i \in 1 .. Len(buffers) : buffers[i].name = name}
<1>1. FirstNamed(name) = IF I # {} THEN Min(I) ELSE 0
  BY DEF FirstNamed, SelectInSeq
<1>2. I # {}
  BY <1>1
<1>3. Min(I) \in I
  <2>1. I \subseteq Nat
    OBVIOUS
  <2> HIDE DEF I
  <2> QED
    BY <1>2, <2>1, MinOfIndices
<1> QED
  BY <1>1, <1>2, <1>3, ListFacts

LEMMA LastNamedInside ==
    ASSUME Listed, NEW name, LastNamed(name) > 0
    PROVE  LastNamed(name) \in DOMAIN buffers
<1> DEFINE I == {i \in 1 .. Len(buffers) : buffers[i].name = name}
<1>1. LastNamed(name) = IF I # {} THEN Max(I) ELSE 0
  BY DEF LastNamed, SelectLastInSeq
<1>2. I # {}
  BY <1>1
<1>3. Max(I) \in I
  <2>1. I \subseteq 0 .. Len(buffers) /\ Len(buffers) \in Nat
    BY ListFacts
  <2> HIDE DEF I
  <2> QED
    BY <1>2, <2>1, MaxOfIndices
<1> QED
  BY <1>1, <1>2, <1>3, ListFacts

LEMMA OpenFileStep ==
    ASSUME IInv, NEW f \in Files, NEW t \in Texts, OpenFile(f, t)
    PROVE  IInv' /\ KilledStep
<1> DEFINE I == {i \in 1 .. Len(buffers) : buffers[i].path = f}
           i == IF I # {} THEN Min(I) ELSE 0
<1>1. Listed /\ Shown
  BY DEF IInv
<1>2. /\ Running /\ UNCHANGED <<active_pane, prompt_command, pending_buffer, quit>>
      /\ IF i > 0 THEN Switch(i) /\ UNCHANGED <<buffers, next_id>>
                  ELSE NewBuffer(Base[f], f, t)
  BY DEF OpenFile, SelectInSeq, prompts
<1>3. i > 0 => i \in DOMAIN buffers
  <2>1. I \subseteq Nat /\ I \subseteq DOMAIN buffers
    BY <1>1, ListFacts
  <2>2. I # {} => Min(I) \in I
    <3> HIDE DEF I
    <3> QED
      BY <2>1, MinOfIndices
  <2>3. i = IF I # {} THEN Min(I) ELSE 0
    OBVIOUS
  <2> HIDE DEF I, i
  <2>4. I = {} => ~(i > 0)
    BY <2>3
  <2>5. I # {} => i \in DOMAIN buffers
    BY <2>1, <2>2, <2>3
  <2> QED
    BY <2>4, <2>5
<1> HIDE DEF i
<1>4. CASE i > 0
  BY <1>1, <1>2, <1>3, <1>4, SwitchStep, Harmless
<1>5. CASE ~(i > 0)
  <2>1. Base[f] \in Names /\ f \in Files \cup {NoFile}
    BY NameAssumption
  <2>2. NewBuffer(Base[f], f, t) /\ next_id' = next_id + 1
    BY <1>2, <1>5 DEF NewBuffer
  <2>3. Listed' /\ Shown' /\ Ids(buffers) \subseteq Ids(buffers')
    BY <1>1, <1>2, <2>1, <2>2, NewBufferStep
  <2> QED
    BY <1>2, <2>2, <2>3, Harmless
<1> QED
  BY <1>4, <1>5

LEMMA SwitchToBufferStep ==
    ASSUME IInv, NEW name \in Names, SwitchToBuffer(name)
    PROVE  IInv' /\ KilledStep
<1>1. Listed /\ Shown
  BY DEF IInv
<1>2. Running /\ UNCHANGED <<active_pane, prompt_command, pending_buffer, quit>>
  BY DEF SwitchToBuffer, prompts
<1>3. CASE FirstNamed(name) > 0
  <2>1. Switch(FirstNamed(name)) /\ UNCHANGED <<buffers, next_id>>
    BY <1>3 DEF SwitchToBuffer
  <2>2. FirstNamed(name) \in DOMAIN buffers
    BY <1>1, <1>3, FirstNamedInside
  <2> QED
    BY <1>1, <1>2, <2>1, <2>2, SwitchStep, Harmless
<1>4. CASE ~(FirstNamed(name) > 0)
  <2>1. NewBuffer(name, NoFile, <<>>)
    BY <1>4 DEF SwitchToBuffer
  <2>2. <<>> \in Texts /\ NoFile \in Files \cup {NoFile} /\ next_id' = next_id + 1
    BY <2>1, EmptySize DEF NewBuffer
  <2>3. Listed' /\ Shown' /\ Ids(buffers) \subseteq Ids(buffers')
    BY <1>1, <1>2, <2>1, <2>2, NewBufferStep
  <2> QED
    BY <1>2, <2>2, <2>3, Harmless
<1> QED
  BY <1>3, <1>4

LEMMA NextBufferStep ==
    ASSUME IInv, NEW n \in {-1, 1}, NextBuffer(n)
    PROVE  IInv' /\ KilledStep
<1> DEFINE i == ((current - 1 + n) % Len(buffers)) + 1
<1>1. Listed /\ Shown
  BY DEF IInv
<1>2. /\ Running /\ UNCHANGED <<active_pane, prompt_command, pending_buffer, quit>>
      /\ UNCHANGED <<buffers, next_id>> /\ Switch(i)
  BY DEF NextBuffer, prompts
<1>3. i \in DOMAIN buffers
  <2>1. current - 1 + n \in Int /\ Len(buffers) \in Nat \ {0}
    BY <1>1, ListFacts DEF Shown
  <2>2. (current - 1 + n) % Len(buffers) \in 0 .. Len(buffers) - 1
    BY <2>1
  <2> QED
    BY <1>1, <2>2, ListFacts
<1> HIDE DEF i
<1> QED
  BY <1>1, <1>2, <1>3, SwitchStep, Harmless

\* A buffer is given a text as one that is saved, and may be shown.
Refilled(b, t) == [b EXCEPT !.text = t, !.point = 0, !.modified = FALSE]

LEMMA RefillStep ==
    ASSUME Listed, next_id' = next_id, NEW i \in DOMAIN buffers, NEW t \in Texts,
           buffers' = [buffers EXCEPT ![i].text = t, ![i].point = 0, ![i].modified = FALSE]
    PROVE  Listed' /\ SameList(buffers, buffers') /\ Ids(buffers') = Ids(buffers)
<1> DEFINE r == Refilled(buffers[i], t)
<1>1. buffers' = [buffers EXCEPT ![i] = r]
  BY DEF Refilled
<1>2. buffers[i] \in Buffer(next_id)
  BY ListFacts
<1>3. r \in Buffer(next_id) /\ r.id = buffers[i].id /\ r.point = 0 /\ r.text = t
  BY <1>2 DEF Refilled, Buffer
<1>4. PointInside(r)
  BY <1>3, TextIsNumbers, SizeIsNat DEF PointInside
<1> HIDE DEF r
<1> QED
  BY <1>1, <1>3, <1>4, RewriteStep

LEMMA ShowTextStep ==
    ASSUME IInv, NEW name \in Names, NEW t \in Texts, ShowText(name, t)
    PROVE  IInv' /\ KilledStep
<1> DEFINE i == LastNamed(name)
<1>1. Listed /\ Shown
  BY DEF IInv
<1>2. Running /\ UNCHANGED <<active_pane, prompt_command, pending_buffer, quit>>
  BY DEF ShowText, prompts
<1>3. CASE i > 0
  <2>1. /\ buffers' = [buffers EXCEPT ![i].text = t, ![i].point = 0, ![i].modified = FALSE]
        /\ Switch(i) /\ next_id' = next_id
    BY <1>3 DEF ShowText
  <2>2. i \in DOMAIN buffers
    BY <1>1, <1>3, LastNamedInside
  <2> HIDE DEF i
  <2>3. Listed' /\ SameList(buffers, buffers') /\ Ids(buffers') = Ids(buffers)
    BY <1>1, <2>1, <2>2, RefillStep
  <2>4. /\ i \in DOMAIN buffers' /\ buffers[i].id = buffers'[i].id
        /\ buffers[i].id \in Ids(buffers')
    BY <2>2, <2>3 DEF SameList, Ids
  <2>5. Show(i, buffers[i].id)
    BY <2>1 DEF Switch
  <2>6. Shown'
    BY <1>1, <1>2, <2>3, <2>4, <2>5, ShowStep
  <2> QED
    BY <1>2, <2>1, <2>3, <2>6, Harmless
<1>4. CASE ~(i > 0)
  <2>1. NewBuffer(name, NoFile, t)
    BY <1>4 DEF ShowText
  <2>2. NoFile \in Files \cup {NoFile} /\ next_id' = next_id + 1
    BY <2>1 DEF NewBuffer
  <2>3. Listed' /\ Shown' /\ Ids(buffers) \subseteq Ids(buffers')
    BY <1>1, <1>2, <2>1, <2>2, NewBufferStep
  <2> QED
    BY <1>2, <2>2, <2>3, Harmless
<1> QED
  BY <1>3, <1>4

LEMMA LogTextStep ==
    ASSUME IInv, NEW name \in Names, NEW t \in Texts, LogText(name, t)
    PROVE  IInv' /\ KilledStep
<1> DEFINE i == LastNamed(name)
<1>1. Listed /\ Shown
  BY DEF IInv
<1>2. /\ Running
      /\ UNCHANGED <<current, panes, active_pane, prompt_command, pending_buffer, quit>>
  BY DEF LogText, prompts
<1>3. CASE i > 0
  <2>1. /\ buffers' = [buffers EXCEPT ![i].text = t, ![i].point = 0, ![i].modified = FALSE]
        /\ next_id' = next_id
    BY <1>3 DEF LogText
  <2>2. i \in DOMAIN buffers
    BY <1>1, <1>3, LastNamedInside
  <2> HIDE DEF i
  <2>3. Listed' /\ SameList(buffers, buffers') /\ Ids(buffers') = Ids(buffers)
    BY <1>1, <2>1, <2>2, RefillStep
  <2> QED
    BY <1>1, <1>2, <2>1, <2>3, StayShown, Harmless
<1>4. CASE ~(i > 0)
  <2>1. /\ HasRoom /\ next_id' = next_id + 1
        /\ buffers' = Append(buffers, Fresh(name, NoFile, t, next_id + 1))
    BY <1>4 DEF LogText
  <2>2. NoFile \in Files \cup {NoFile}
    OBVIOUS
  <2>3. /\ Listed'
        /\ Ids(buffers') = Ids(buffers) \cup {next_id + 1}
        /\ DOMAIN buffers \subseteq DOMAIN buffers'
        /\ \A j \in DOMAIN buffers : buffers'[j] = buffers[j]
    BY <1>1, <2>1, <2>2, AppendStep
  <2>4. Shown'
    <3>1. [buffer : Ids(buffers), point : Nat] \subseteq [buffer : Ids(buffers'), point : Nat]
      BY <2>3
    <3>2. panes \in Seq([buffer : Ids(buffers), point : Nat])
      BY <1>1 DEF Shown
    <3>3. panes \in Seq([buffer : Ids(buffers'), point : Nat])
      BY <3>1, <3>2, SeqMonotonic
    <3> QED
      BY <1>1, <1>2, <2>3, <3>3 DEF Shown
  <2> QED
    BY <1>2, <2>1, <2>3, <2>4, Harmless
<1> QED
  BY <1>3, <1>4

LEMMA EditStep ==
    ASSUME IInv, NEW k \in 1 .. MaxChars + 1, NEW l \in 1 .. MaxChars + 1, NEW c \in Texts,
           Edit(k, l, c)
    PROVE  IInv' /\ KilledStep
<1> DEFINE b == buffers[current]
           text == Spliced(b.text, k, l, c)
           at == StartOf(b.text, k)
           to == StartOf(b.text, l)
           p == Relocated(b.point, at, to - at, SizeOf(c))
           r == [b EXCEPT !.text = text, !.modified = TRUE, !.point = p]
<1>1. Listed /\ Shown
  BY DEF IInv
<1>2. /\ Running
      /\ UNCHANGED <<current, next_id, panes, active_pane, prompt_command, pending_buffer, quit>>
      /\ k \in 1 .. l /\ l <= Len(b.text) + 1 /\ Len(text) <= MaxChars
      /\ buffers' = [buffers EXCEPT ![current].text = text, ![current].modified = TRUE,
                                    ![current].point = Relocated(@, at, to - at, SizeOf(c))]
  BY DEF Edit, prompts, Spliced
<1>3. current \in DOMAIN buffers /\ b \in Buffer(next_id) /\ PointInside(b)
  BY <1>1, ListFacts DEF Shown, Listed, ListOf
<1>4. buffers' = [buffers EXCEPT ![current] = r]
  <2> HIDE DEF text, at, to
  <2> QED
    BY <1>2, <1>3
<1>5. b.text \in Texts /\ b.point \in Nat
  <2> HIDE DEF b
  <2> QED
    BY <1>3 DEF Buffer
<1>6. /\ b.text \in Seq(Nat) /\ b.text \in Seq(Widths) /\ Len(b.text) \in Nat
      /\ c \in Seq(Nat) /\ c \in Seq(Widths) /\ l \in 1 .. Len(b.text) + 1
  <2> HIDE DEF b
  <2> QED
    BY <1>2, <1>5, TextIsNumbers, BoundAssumption
<1>7. text \in Texts
  <2>1. text \in Seq(Widths)
    <3> HIDE DEF b
    <3> QED
      BY <1>2, <1>6, SpliceFacts
  <2> HIDE DEF text
  <2> QED
    BY <1>2, <2>1, TextIsSequence
<1>8. /\ at \in Nat /\ to \in Nat /\ SizeOf(b.text) \in Nat /\ SizeOf(c) \in Nat
      /\ at <= to /\ to <= SizeOf(b.text)
  <2> HIDE DEF b
  <2>1. SizeOf(c) \in Nat
    BY <1>6, SizeIsNat
  <2> QED
    BY <1>2, <1>6, <2>1, StartInside
<1>9. SizeOf(text) = SizeOf(b.text) - (to - at) + SizeOf(c)
  <2> HIDE DEF b
  <2> QED
    BY <1>2, <1>6, EditedSize
<1>10. p \in Nat /\ p <= SizeOf(text)
  <2>1. b.point \in 0 .. SizeOf(b.text)
    <3> HIDE DEF b
    <3> QED
      BY <1>3, <1>5, <1>8 DEF PointInside
  <2>2. at \in 0 .. SizeOf(b.text) /\ to \in at .. SizeOf(b.text)
    <3> HIDE DEF b, at, to
    <3> QED
      BY <1>8
  <2> HIDE DEF b, at, to, text
  <2> QED
    BY <1>8, <1>9, <2>1, <2>2, RelocatedInside
<1> HIDE DEF text, p
<1>11. r \in Buffer(next_id) /\ r.id = b.id /\ r.text = text /\ r.point = p
  <2> HIDE DEF b
  <2> QED
    BY <1>3, <1>7, <1>10 DEF Buffer
<1>12. PointInside(r)
  <2> HIDE DEF r
  <2> QED
    BY <1>10, <1>11 DEF PointInside
<1> HIDE DEF r
<1>13. Listed' /\ SameList(buffers, buffers') /\ Ids(buffers') = Ids(buffers)
  BY <1>1, <1>2, <1>3, <1>4, <1>11, <1>12, RewriteStep
<1> QED
  BY <1>1, <1>2, <1>13, StayShown, Harmless

\* A buffer whose point is set to a place of its text.
LEMMA PointStep ==
    ASSUME Listed, next_id' = next_id, NEW i \in DOMAIN buffers,
           NEW p \in Nat, p <= SizeOf(buffers[i].text),
           buffers' = [buffers EXCEPT ![i].point = p]
    PROVE  Listed' /\ SameList(buffers, buffers') /\ Ids(buffers') = Ids(buffers)
<1> DEFINE r == [buffers[i] EXCEPT !.point = p]
<1>1. buffers' = [buffers EXCEPT ![i] = r]
  OBVIOUS
<1>2. buffers[i] \in Buffer(next_id)
  BY ListFacts
<1>3. r \in Buffer(next_id) /\ r.id = buffers[i].id /\ r.point = p /\ r.text = buffers[i].text
  BY <1>2 DEF Buffer
<1>4. PointInside(r)
  BY <1>3 DEF PointInside
<1> HIDE DEF r
<1> QED
  BY <1>1, <1>3, <1>4, RewriteStep

LEMMA BoundaryOfBuffer ==
    ASSUME Listed, NEW i \in DOMAIN buffers, NEW p \in Boundaries(buffers[i].text)
    PROVE  p \in Nat /\ p <= SizeOf(buffers[i].text)
<1>1. buffers[i].text \in Texts
  BY ListFacts DEF Buffer
<1>2. buffers[i].text \in Seq(Nat)
  BY <1>1, TextIsNumbers
<1> QED
  BY <1>2, BoundaryInside

LEMMA MovePointStep ==
    ASSUME IInv, NEW p, MovePoint(p)
    PROVE  IInv' /\ KilledStep
<1>1. Listed /\ Shown
  BY DEF IInv
<1>2. /\ Running
      /\ UNCHANGED <<current, next_id, panes, active_pane, prompt_command, pending_buffer, quit>>
      /\ p \in Boundaries(buffers[current].text)
      /\ buffers' = [buffers EXCEPT ![current].point = p]
  BY DEF MovePoint, prompts
<1>3. current \in DOMAIN buffers
  BY <1>1 DEF Shown
<1>4. p \in Nat /\ p <= SizeOf(buffers[current].text)
  BY <1>1, <1>2, <1>3, BoundaryOfBuffer
<1>5. Listed' /\ SameList(buffers, buffers') /\ Ids(buffers') = Ids(buffers)
  BY <1>1, <1>2, <1>3, <1>4, PointStep
<1> QED
  BY <1>1, <1>2, <1>5, StayShown, Harmless

LEMMA SaveStep ==
    ASSUME IInv, NEW f \in Files, Save(f)
    PROVE  IInv' /\ KilledStep
<1> DEFINE r == [buffers[current] EXCEPT !.path = f, !.name = Base[f], !.modified = FALSE]
<1>1. Listed /\ Shown
  BY DEF IInv
<1>2. /\ Running
      /\ UNCHANGED <<current, next_id, panes, active_pane, prompt_command, pending_buffer, quit>>
      /\ buffers' = [buffers EXCEPT ![current] = r]
  BY DEF Save, prompts
<1>3. current \in DOMAIN buffers /\ buffers[current] \in Buffer(next_id) /\ PointInside(buffers[current])
  BY <1>1, ListFacts DEF Shown, Listed, ListOf
<1>4. Base[f] \in Names
  BY NameAssumption
<1>5. /\ r \in Buffer(next_id) /\ r.id = buffers[current].id
      /\ r.point = buffers[current].point /\ r.text = buffers[current].text
  BY <1>3, <1>4 DEF Buffer
<1>6. PointInside(r)
  BY <1>3, <1>5 DEF PointInside
<1> HIDE DEF r
<1>7. Listed' /\ SameList(buffers, buffers') /\ Ids(buffers') = Ids(buffers)
  BY <1>1, <1>2, <1>3, <1>5, <1>6, RewriteStep
<1> QED
  BY <1>1, <1>2, <1>7, StayShown, Harmless

-----------------------------------------------------------------------------
(***************************************************************************)
(* The panes.                                                              *)
(***************************************************************************)

\* A pane that is made active shows a buffer that is in the list.
LEMMA FocusStep ==
    ASSUME Listed, Shown, next_id' = next_id, NEW p \in DOMAIN panes,
           NEW at \in Nat, at <= SizeOf(buffers[IndexOf(buffers, panes[p].buffer)].text),
           active_pane' = p, current' = IndexOf(buffers, panes[p].buffer),
           panes' = PanesLeft,
           buffers' = [buffers EXCEPT ![IndexOf(buffers, panes[p].buffer)].point = at]
    PROVE  Listed' /\ Shown' /\ Ids(buffers) \subseteq Ids(buffers')
<1> DEFINE i == IndexOf(buffers, panes[p].buffer)
           P == [buffer : Ids(buffers), point : Nat]
           r == [panes[active_pane] EXCEPT !.point = buffers[current].point]
<1>1. i \in DOMAIN buffers /\ buffers[i].id = panes[p].buffer
  BY PaneFacts, IndexFound
<1>2. Listed' /\ SameList(buffers, buffers') /\ Ids(buffers') = Ids(buffers)
  <2>1. at <= SizeOf(buffers[i].text) /\ buffers' = [buffers EXCEPT ![i].point = at]
    OBVIOUS
  <2> HIDE DEF i
  <2> QED
    BY <1>1, <2>1, PointStep
<1>3. i \in DOMAIN buffers' /\ buffers'[i].id = buffers[i].id
  BY <1>1, <1>2 DEF SameList
<1>4. /\ panes \in Seq(P) /\ active_pane \in 1 .. Len(panes) /\ p \in 1 .. Len(panes)
      /\ Len(panes) \in 1 .. MaxPanes
  BY PaneFacts DEF Shown
<1>5. panes' = [panes EXCEPT ![active_pane] = r]
  BY DEF PanesLeft
<1>6. r \in P /\ r.buffer = panes[active_pane].buffer
  <2>1. buffers[current].point \in Nat
    BY ListFacts DEF Shown, Buffer
  <2>2. panes[active_pane] \in P
    BY <1>4, PaneFacts
  <2> QED
    BY <2>1, <2>2
<1> HIDE DEF r
<1>7. /\ panes' \in Seq(P) /\ Len(panes') = Len(panes)
      /\ \A j \in 1 .. Len(panes) : panes'[j] = IF j = active_pane THEN r ELSE panes[j]
  <2> HIDE DEF P
  <2> QED
    BY <1>4, <1>5, <1>6, ExceptSeq
<1>8. DOMAIN panes' = 1 .. Len(panes)
  <2> HIDE DEF P
  <2> QED
    BY <1>7, LenProperties
<1>9. panes'[p].buffer = panes[p].buffer
  BY <1>4, <1>6, <1>7
<1>10. current' = i /\ active_pane' = p
  OBVIOUS
<1> HIDE DEF i
<1>11. Shown'
  BY <1>1, <1>2, <1>3, <1>4, <1>7, <1>8, <1>9, <1>10 DEF Shown
<1> QED
  BY <1>2, <1>11

LEMMA OtherWindowStep ==
    ASSUME IInv, NEW n \in {-1, 1}, OtherWindow(n)
    PROVE  IInv' /\ KilledStep
<1> DEFINE p == ((active_pane - 1 + n) % Len(panes)) + 1
           i == IndexOf(buffers, panes[p].buffer)
           left == IF p = active_pane THEN buffers[current].point ELSE PanePoint(p, buffers[i].text)
<1>1. Listed /\ Shown
  BY DEF IInv
<1>2. /\ Running
      /\ active_pane' = p /\ current' = i /\ panes' = PanesLeft
      /\ buffers' = [buffers EXCEPT ![i].point = left]
      /\ next_id' = next_id /\ UNCHANGED <<prompt_command, pending_buffer, quit>>
  BY DEF OtherWindow, prompts
<1>3. p \in DOMAIN panes
  <2>1. active_pane - 1 + n \in Int /\ Len(panes) \in Nat \ {0}
    BY <1>1, PaneFacts DEF Shown
  <2>2. (active_pane - 1 + n) % Len(panes) \in 0 .. Len(panes) - 1
    BY <2>1
  <2> QED
    BY <1>1, <2>2, PaneFacts
<1> HIDE DEF p
<1>4. i \in DOMAIN buffers /\ buffers[i].id = panes[p].buffer
  BY <1>1, <1>3, PaneFacts, IndexFound
<1>5. left \in Nat /\ left <= SizeOf(buffers[i].text)
  <2>1. CASE p = active_pane
    <3>1. current \in DOMAIN buffers /\ buffers[i].id = buffers[current].id
      BY <1>1, <1>4, <2>1 DEF Shown
    <3>2. i = current
      BY <1>1, <1>4, <3>1 DEF Listed, ListOf, Distinct
    <3>3. buffers[current].point \in Nat /\ PointInside(buffers[current])
      BY <1>1, <3>1, ListFacts DEF Listed, ListOf, Buffer
    <3> QED
      BY <2>1, <3>2, <3>3 DEF PointInside
  <2>2. CASE p # active_pane
    <3>1. left = PanePoint(p, buffers[i].text)
      BY <2>2
    <3>2. buffers[i].text \in Texts
      BY <1>1, <1>4, ListFacts DEF Buffer
    <3>3. SizeOf(buffers[i].text) \in Nat
      BY <3>2, TextIsNumbers, SizeIsNat
    <3>4. panes[p].point \in Nat
      BY <1>1, <1>3, PaneFacts
    <3> HIDE DEF i, left
    <3> QED
      BY <3>1, <3>3, <3>4 DEF PanePoint
  <2> QED
    BY <2>1, <2>2
<1> HIDE DEF left
<1>6. Listed' /\ Shown' /\ Ids(buffers) \subseteq Ids(buffers')
  BY <1>1, <1>2, <1>3, <1>5, FocusStep
<1> QED
  BY <1>2, <1>6, Harmless

LEMMA ClickStep ==
    ASSUME IInv, NEW p, NEW at, Click(p, at)
    PROVE  IInv' /\ KilledStep
<1> DEFINE i == IndexOf(buffers, panes[p].buffer)
<1>1. Listed /\ Shown
  BY DEF IInv
<1>2. /\ Running /\ p \in DOMAIN panes
      /\ at \in Boundaries(buffers[i].text)
      /\ active_pane' = p /\ current' = i /\ panes' = PanesLeft
      /\ buffers' = [buffers EXCEPT ![i].point = at]
      /\ next_id' = next_id /\ UNCHANGED <<prompt_command, pending_buffer, quit>>
  BY DEF Click, prompts
<1>3. i \in DOMAIN buffers
  BY <1>1, <1>2, PaneFacts, IndexFound
<1>4. at \in Nat /\ at <= SizeOf(buffers[i].text)
  <2> HIDE DEF i
  <2> QED
    BY <1>1, <1>2, <1>3, BoundaryOfBuffer
<1>5. Listed' /\ Shown' /\ Ids(buffers) \subseteq Ids(buffers')
  BY <1>1, <1>2, <1>4, FocusStep
<1> QED
  BY <1>2, <1>5, Harmless

\* The panes change, each to one that was there or like it; the list does not.
LEMMA PanesStep ==
    ASSUME IInv, UNCHANGED <<buffers, next_id, prompt_command, pending_buffer, quit>>,
           Running, Shown'
    PROVE  IInv' /\ KilledStep
<1>1. Listed'
  BY DEF IInv, Listed
<1>2. Ids(buffers) \subseteq Ids(buffers')
  BY DEF Ids
<1> QED
  BY <1>1, <1>2, Harmless

LEMMA SplitWindowStep ==
    ASSUME IInv, SplitWindow
    PROVE  IInv' /\ KilledStep
<1> DEFINE here == [buffer |-> panes[active_pane].buffer, point |-> buffers[current].point]
           P == [buffer : Ids(buffers), point : Nat]
           ps == [panes EXCEPT ![active_pane] = here]
<1>1. Listed /\ Shown
  BY DEF IInv
<1>2. /\ Running /\ Len(panes) < MaxPanes /\ panes' = Append(ps, here)
      /\ UNCHANGED <<buffers, current, next_id, active_pane, prompt_command, pending_buffer, quit>>
  BY DEF SplitWindow, prompts
<1>3. /\ panes \in Seq(P) /\ active_pane \in 1 .. Len(panes) /\ Len(panes) \in Nat
      /\ MaxPanes \in Nat /\ panes[active_pane] \in P
  BY <1>1, PaneFacts DEF Shown
<1>4. here \in P /\ here.buffer = panes[active_pane].buffer
  <2>1. buffers[current].point \in Nat
    BY <1>1, ListFacts DEF Shown, Buffer
  <2> QED
    BY <1>3, <2>1
<1> HIDE DEF here
<1>5. ps \in Seq(P) /\ Len(ps) = Len(panes) /\ ps[active_pane] = here
  <2> HIDE DEF P
  <2> QED
    BY <1>3, <1>4, ExceptSeq
<1> HIDE DEF ps
<1>6. /\ panes' \in Seq(P) /\ Len(panes') = Len(panes) + 1 /\ panes'[active_pane] = here
      /\ DOMAIN panes' = 1 .. Len(panes) + 1
  <2> HIDE DEF P
  <2> QED
    BY <1>2, <1>3, <1>4, <1>5
<1>7. Len(panes') \in 1 .. MaxPanes /\ active_pane \in DOMAIN panes'
  BY <1>2, <1>3, <1>6
<1>8. Shown'
  BY <1>1, <1>2, <1>4, <1>6, <1>7 DEF Shown
<1> QED
  BY <1>2, <1>8, PanesStep

LEMMA DeleteOtherWindowsStep ==
    ASSUME IInv, DeleteOtherWindows
    PROVE  IInv' /\ KilledStep
<1> DEFINE P == [buffer : Ids(buffers), point : Nat]
<1>1. Listed /\ Shown
  BY DEF IInv
<1>2. /\ Running /\ panes' = <<panes[active_pane]>> /\ active_pane' = 1
      /\ UNCHANGED <<buffers, current, next_id, prompt_command, pending_buffer, quit>>
  BY DEF DeleteOtherWindows, prompts
<1>3. panes[active_pane] \in P /\ MaxPanes \in Nat \ {0}
  BY <1>1, PaneFacts, BoundAssumption DEF Shown
<1>4. panes' \in Seq(P) /\ Len(panes') = 1 /\ panes'[1] = panes[active_pane] /\ DOMAIN panes' = 1 .. 1
  <2> HIDE DEF P
  <2> QED
    BY <1>2, <1>3
<1>5. Shown'
  BY <1>1, <1>2, <1>3, <1>4 DEF Shown
<1> QED
  BY <1>2, <1>5, PanesStep

LEMMA DeleteWindowStep ==
    ASSUME IInv, DeleteWindow
    PROVE  IInv' /\ KilledStep
<1> DEFINE P == [buffer : Ids(buffers), point : Nat]
           ps == RemoveAt(panes, active_pane)
           a == IF active_pane > Len(ps) THEN 1 ELSE active_pane
           id == ps[a].buffer
<1>1. Listed /\ Shown
  BY DEF IInv
<1>2. /\ Running /\ Len(panes) > 1 /\ panes' = ps /\ active_pane' = a
      /\ current' = IndexOf(buffers, id)
      /\ UNCHANGED <<buffers, next_id, prompt_command, pending_buffer, quit>>
  BY DEF DeleteWindow, prompts
<1>3. /\ panes \in Seq(P) /\ active_pane \in 1 .. Len(panes) /\ Len(panes) \in 1 .. MaxPanes
      /\ MaxPanes \in Nat
  BY <1>1, PaneFacts DEF Shown
<1>4. ps \in Seq(P) /\ Len(ps) = Len(panes) - 1 /\ DOMAIN ps = 1 .. Len(ps)
  <2>1. ps \in Seq(P) /\ Len(ps) = Len(panes) - 1
    <3> HIDE DEF P
    <3> QED
      BY <1>3, RemoveAtFacts
  <2> HIDE DEF P, ps
  <2> QED
    BY <2>1, LenProperties
<1> HIDE DEF ps
<1>5. a \in 1 .. Len(ps) /\ Len(ps) \in 1 .. MaxPanes
  BY <1>2, <1>3, <1>4
<1> HIDE DEF a
<1>6. ps[a] \in P
  <2> HIDE DEF P
  <2> QED
    BY <1>4, <1>5, ElementOfSeq
<1>7. id \in Ids(buffers)
  BY <1>6
<1> HIDE DEF id
<1>8. IndexOf(buffers, id) \in DOMAIN buffers /\ buffers[IndexOf(buffers, id)].id = id
  BY <1>7, IndexFound
<1>9. panes'[active_pane'].buffer = id /\ panes' = ps /\ active_pane' = a
  BY <1>2 DEF id
<1>10. Ids(buffers') = Ids(buffers)
  BY <1>2
<1>11. Shown'
  BY <1>2, <1>4, <1>5, <1>8, <1>9, <1>10 DEF Shown
<1> QED
  BY <1>2, <1>11, PanesStep

-----------------------------------------------------------------------------
(***************************************************************************)
(* Giving up buffers, and the editor.                                      *)
(***************************************************************************)

\* A buffer dropped that was not modified, or was the one asked about.
LEMMA DropKeeps ==
    ASSUME IInv, Running, quit' = quit, pending_buffer' = pending_buffer,
           active_pane' = active_pane,
           prompt_command' \in {"", "kill-confirm", "quit-confirm"},
           NEW i \in DOMAIN buffers, DropBuffer(i),
           buffers[i].modified => prompt_command = "kill-confirm" /\ pending_buffer = buffers[i].id
    PROVE  IInv' /\ KilledStep
<1>1. Listed /\ Shown /\ Asked
  BY DEF IInv
<1>2. Listed' /\ Shown' /\ Ids(buffers) \ {buffers[i].id} \subseteq Ids(buffers')
  BY <1>1, DropStep
<1>3. next_id \in Nat /\ next_id' \in {next_id, next_id + 1}
  BY <1>1, ListFacts DEF DropBuffer
<1>4. pending_buffer' \in 0 .. next_id'
  <2>1. pending_buffer' \in 0 .. next_id
    BY <1>1 DEF Asked
  <2>a. next_id \in Nat
    BY <1>3
  <2>2. 0 .. next_id \subseteq 0 .. next_id + 1
    BY <2>a, Wider
  <2> QED
    BY <1>3, <2>1, <2>2
<1>5. Asked'
  BY <1>1, <1>4 DEF Asked
<1>6. QuitSavesAll'
  BY DEF QuitSavesAll, Running
<1>7. KilledStep
  <2> SUFFICES ASSUME NEW j \in DOMAIN buffers, buffers[j].modified,
                      buffers[j].id \notin Ids(buffers')
               PROVE  prompt_command = "kill-confirm" /\ pending_buffer = buffers[j].id
    BY DEF KilledStep
  <2>1. buffers[j].id = buffers[i].id
    BY <1>1, <1>2, ListFacts
  <2>2. j = i
    BY <1>1, <2>1 DEF Listed, ListOf, Distinct
  <2> QED
    BY <2>2
<1> QED
  BY <1>2, <1>5, <1>6, <1>7 DEF IInv

\* A step that only asks, or answers, or stops the editor.
LEMMA AskStep ==
    ASSUME IInv, UNCHANGED <<buffers, current, next_id, panes, active_pane>>,
           pending_buffer' \in 0 .. next_id,
           prompt_command' \in {"", "kill-confirm", "quit-confirm"},
           quit' \in {"no", "clean", "saved", "discarded", "killed"},
           quit' \in {"clean", "saved"} => Modified = {}
    PROVE  IInv' /\ KilledStep
<1>1. Listed' /\ Shown'
  BY DEF IInv, Listed, Shown
<1>2. Asked'
  BY DEF Asked
<1>3. Modified' = Modified
  BY DEF Modified
<1>4. QuitSavesAll'
  BY <1>3 DEF QuitSavesAll
<1>5. KilledStep
  BY DEF KilledStep, Ids
<1> QED
  BY <1>1, <1>2, <1>4, <1>5 DEF IInv

LEMMA KillBufferStep ==
    ASSUME IInv, NEW name \in Names, KillBuffer(name)
    PROVE  IInv' /\ KilledStep
<1> DEFINE i == LastNamed(name)
<1>1. Listed /\ Shown /\ Asked
  BY DEF IInv
<1>2. Running /\ i > 0 /\ active_pane' = active_pane /\ quit' = quit
  BY DEF KillBuffer
<1>3. i \in DOMAIN buffers
  BY <1>1, <1>2, LastNamedInside
<1>4. CASE buffers[i].modified
  <2>1. /\ prompt_command' = "kill-confirm" /\ pending_buffer' = buffers[i].id
        /\ UNCHANGED <<buffers, current, next_id, panes>>
    BY <1>4 DEF KillBuffer
  <2> HIDE DEF i
  <2>2. buffers[i].id \in 1 .. next_id /\ next_id \in Nat
    BY <1>1, <1>3, ListFacts DEF Buffer
  <2>3. pending_buffer' \in 0 .. next_id
    BY <2>1, <2>2
  <2>4. quit' = "no"
    BY <1>2 DEF Running
  <2> QED
    BY <1>2, <2>1, <2>3, <2>4, AskStep
<1>5. CASE ~buffers[i].modified
  <2>1. DropBuffer(i) /\ UNCHANGED <<prompt_command, pending_buffer>>
    BY <1>5 DEF KillBuffer
  <2>2. prompt_command' \in {"", "kill-confirm", "quit-confirm"}
    BY <1>1, <2>1 DEF Asked
  <2> HIDE DEF i
  <2> QED
    BY <1>2, <1>3, <1>5, <2>1, <2>2, DropKeeps
<1> QED
  BY <1>4, <1>5

LEMMA ConfirmKillStep ==
    ASSUME IInv, ConfirmKill
    PROVE  IInv' /\ KilledStep
<1> DEFINE i == IndexOf(buffers, pending_buffer)
<1>1. Listed /\ Shown /\ Asked
  BY DEF IInv
<1>2. /\ Running /\ prompt_command = "kill-confirm" /\ prompt_command' = ""
      /\ IF Confirmed > 0 THEN DropBuffer(Confirmed)
                          ELSE UNCHANGED <<buffers, current, next_id, panes>>
      /\ UNCHANGED <<active_pane, pending_buffer, quit>>
  BY DEF ConfirmKill
<1>3. CASE pending_buffer \in Ids(buffers)
  <2>1. i \in DOMAIN buffers /\ buffers[i].id = pending_buffer /\ Confirmed = i
    BY <1>3, IndexFound DEF Confirmed
  <2>2. Confirmed > 0
    <3> HIDE DEF i
    <3> QED
      BY <1>1, <2>1, ListFacts
  <2>3. DropBuffer(i)
    BY <1>2, <2>1, <2>2
  <2> HIDE DEF i
  <2> QED
    BY <1>2, <2>1, <2>3, DropKeeps
<1>4. CASE pending_buffer \notin Ids(buffers)
  <2>1. ~(Confirmed > 0)
    BY <1>4 DEF Confirmed
  <2>2. pending_buffer' \in 0 .. next_id /\ quit' = "no"
    BY <1>1, <1>2 DEF Asked, Running
  <2> QED
    BY <1>2, <2>1, <2>2, AskStep
<1> QED
  BY <1>3, <1>4

\* The buffers saved before n are those of the list, saved.
LEMMA SavedStep ==
    ASSUME IInv, next_id' = next_id, NEW n, buffers' = SavedBelow(n)
    PROVE  Listed' /\ SameList(buffers, buffers') /\ Ids(buffers') = Ids(buffers)
<1>1. Listed
  BY DEF IInv
<1>2. /\ next_id \in Nat /\ Len(buffers) \in Nat /\ DOMAIN buffers = 1 .. Len(buffers)
      /\ \A i \in 1 .. Len(buffers) : buffers[i] \in Buffer(next_id)
  BY <1>1, ListFacts
<1>3. /\ DOMAIN buffers' = DOMAIN buffers
      /\ \A i \in DOMAIN buffers : buffers'[i] \in {buffers[i], [buffers[i] EXCEPT !.modified = FALSE]}
  BY DEF SavedBelow
<1>4. \A i \in DOMAIN buffers :
          /\ buffers'[i] \in Buffer(next_id) /\ buffers'[i].id = buffers[i].id
          /\ buffers'[i].text = buffers[i].text /\ buffers'[i].point = buffers[i].point
  BY <1>2, <1>3, ZenonT(60) DEF Buffer
<1>5. SameList(buffers, buffers')
  BY <1>3, <1>4 DEF SameList
<1>6. buffers' \in Seq(Buffer(next_id)) /\ Len(buffers') = Len(buffers)
  <2>1. buffers' = [i \in 1 .. Len(buffers) |-> buffers'[i]]
    BY <1>2 DEF SavedBelow
  <2>2. \A i \in 1 .. Len(buffers) : buffers'[i] \in Buffer(next_id)
    BY <1>2, <1>4
  <2> QED
    BY <1>2, <2>1, <2>2
<1>7. \A i \in DOMAIN buffers' : PointInside(buffers'[i])
  BY <1>1, <1>3, <1>4 DEF Listed, ListOf, PointInside
<1>8. Distinct(buffers') /\ Ids(buffers') = Ids(buffers)
  BY <1>1, <1>5, SameIds DEF Listed, ListOf
<1>9. Listed'
  BY <1>1, <1>6, <1>7, <1>8 DEF Listed, ListOf
<1> QED
  BY <1>5, <1>8, <1>9

LEMMA SavedAndShown ==
    ASSUME IInv, next_id' = next_id, NEW n, buffers' = SavedBelow(n),
           NEW i \in DOMAIN buffers, Switch(i), active_pane' = active_pane
    PROVE  /\ Listed' /\ Shown' /\ KilledStep
<1>1. Listed' /\ SameList(buffers, buffers') /\ Ids(buffers') = Ids(buffers)
  BY SavedStep
<1>2. /\ i \in DOMAIN buffers' /\ buffers[i].id = buffers'[i].id
      /\ buffers[i].id \in Ids(buffers')
  BY <1>1 DEF SameList, Ids
<1>3. Shown'
  <2>1. Show(i, buffers[i].id) /\ Shown
    BY DEF Switch, IInv
  <2> QED
    BY <1>1, <1>2, <2>1, ShowStep
<1>4. KilledStep
  BY <1>1 DEF KilledStep, Ids
<1> QED
  BY <1>1, <1>3, <1>4

LEMMA SaveAllAndQuitStep ==
    ASSUME IInv, SaveAllAndQuit
    PROVE  IInv' /\ KilledStep
<1>1. Listed /\ Shown /\ Asked
  BY DEF IInv
<1>2. /\ buffers' = SavedBelow(Len(buffers) + 1) /\ prompt_command' = "" /\ quit' = "saved"
      /\ Switch(current) /\ UNCHANGED <<next_id, active_pane, pending_buffer>>
  BY DEF SaveAllAndQuit
<1>3. Listed' /\ Shown' /\ KilledStep
  BY <1>1, <1>2, SavedAndShown DEF Shown
<1>4. Asked'
  BY <1>1, <1>2 DEF Asked
<1>5. Modified' = {}
  <2> SUFFICES ASSUME NEW i \in DOMAIN buffers', buffers'[i].modified PROVE FALSE
    BY DEF Modified
  <2>1. i \in DOMAIN buffers
    BY <1>2 DEF SavedBelow
  <2>2. i < Len(buffers) + 1 /\ buffers[i] \in Buffer(next_id)
    BY <1>1, <2>1, ListFacts
  <2>3. buffers'[i] = IF buffers[i].modified THEN [buffers[i] EXCEPT !.modified = FALSE]
                                             ELSE buffers[i]
    BY <1>2, <2>1, <2>2 DEF SavedBelow, ToSave, Modified
  <2> QED
    BY <2>2, <2>3 DEF Buffer
<1>6. QuitSavesAll'
  BY <1>5 DEF QuitSavesAll
<1> QED
  BY <1>3, <1>4, <1>6 DEF IInv

LEMMA SaveAllFailsStep ==
    ASSUME IInv, NEW n, SaveAllFails(n)
    PROVE  IInv' /\ KilledStep
<1>1. Listed /\ Shown /\ Asked
  BY DEF IInv
<1>2. /\ Running /\ n \in DOMAIN buffers /\ buffers' = SavedBelow(n) /\ prompt_command' = ""
      /\ Switch(n) /\ UNCHANGED <<next_id, active_pane, pending_buffer, quit>>
  BY DEF SaveAllFails, ToSave, Modified
<1>3. Listed' /\ Shown' /\ KilledStep
  BY <1>2, SavedAndShown
<1>4. Asked'
  BY <1>1, <1>2 DEF Asked
<1>5. QuitSavesAll'
  BY <1>2 DEF QuitSavesAll, Running
<1> QED
  BY <1>3, <1>4, <1>5 DEF IInv

\* Cancel, SaveBuffersKillTerminal, DiscardAndQuit and KillEmacs.
LEMMA QuestionStep ==
    ASSUME IInv,
           \/ Cancel
           \/ SaveBuffersKillTerminal
           \/ DiscardAndQuit
           \/ KillEmacs
    PROVE  IInv' /\ KilledStep
<1>1. Asked
  BY DEF IInv
<1>2. CASE Cancel
  BY <1>1, <1>2, AskStep DEF Cancel, Asked, Running
<1>3. CASE SaveBuffersKillTerminal
  <2>1. /\ UNCHANGED <<buffers, current, next_id, panes, active_pane, pending_buffer>> /\ quit = "no"
        /\ \/ prompt_command' = "quit-confirm" /\ quit' = quit
           \/ Modified = {} /\ quit' = "clean" /\ prompt_command' = prompt_command
    BY <1>3 DEF SaveBuffersKillTerminal, Running
  <2> QED
    BY <1>1, <2>1, AskStep DEF Asked
<1>4. CASE DiscardAndQuit
  BY <1>1, <1>4, AskStep DEF DiscardAndQuit, Asked
<1>5. CASE KillEmacs
  BY <1>1, <1>5, AskStep DEF KillEmacs, Asked
<1> QED
  BY <1>2, <1>3, <1>4, <1>5

-----------------------------------------------------------------------------
(***************************************************************************)
(* The theorems.                                                           *)
(***************************************************************************)
LEMMA IInvInit == Init => IInv
<1> SUFFICES ASSUME Init PROVE IInv
  OBVIOUS
<1> DEFINE b == Fresh(Scratch, NoFile, <<>>, 1)
           q == [buffer |-> 1, point |-> 0]
<1>1. Scratch \in Names /\ NoFile \in Files \cup {NoFile} /\ <<>> \in Texts
  BY NameAssumption, EmptySize
<1>2. b \in Buffer(1) /\ b.id = 1 /\ PointInside(b)
  <2>1. b \in Buffer(0 + 1) /\ b.id = 0 + 1 /\ PointInside(b)
    BY <1>1, FreshBuffer
  <2> QED
    BY <2>1, 0 + 1 = 1
<1>3. buffers = <<b>> /\ panes = <<q>> /\ next_id = 1 /\ current = 1 /\ active_pane = 1
  BY DEF Init
<1> HIDE DEF b
<1>4. buffers \in Seq(Buffer(1)) /\ Len(buffers) = 1 /\ DOMAIN buffers = 1 .. 1 /\ buffers[1] = b
  BY <1>2, <1>3
<1>5. Listed
  <2>1. 1 \in 1 .. MaxId /\ 1 \in 1 .. MaxBuffers
    BY BoundAssumption
  <2>2. Distinct(buffers) /\ \A i \in DOMAIN buffers : PointInside(buffers[i])
    BY <1>2, <1>4 DEF Distinct
  <2> QED
    BY <1>3, <1>4, <2>1, <2>2 DEF Listed, ListOf
<1>6. Ids(buffers) = {1}
  BY <1>2, <1>4 DEF Ids
<1>7. q \in [buffer : Ids(buffers), point : Nat] /\ q.buffer = 1
  BY <1>6
<1> HIDE DEF q
<1>8. /\ panes \in Seq([buffer : Ids(buffers), point : Nat]) /\ Len(panes) = 1
      /\ DOMAIN panes = 1 .. 1 /\ panes[1] = q
  BY <1>3, <1>7
<1>9. Shown
  BY <1>2, <1>3, <1>4, <1>7, <1>8, BoundAssumption DEF Shown
<1>10. Asked
  <2>1. 0 \in 0 .. 1
    OBVIOUS
  <2> QED
    BY <1>3, <2>1 DEF Init, Asked
<1>11. QuitSavesAll
  BY DEF Init, QuitSavesAll
<1> QED
  BY <1>5, <1>9, <1>10, <1>11 DEF IInv

LEMMA IInvNext == IInv /\ [Next]_vars => IInv' /\ KilledStep
<1> SUFFICES ASSUME IInv, [Next]_vars PROVE IInv' /\ KilledStep
  OBVIOUS
<1>1. ASSUME UNCHANGED vars PROVE IInv' /\ KilledStep
  <2>1. Listed' /\ Shown' /\ Asked'
    BY <1>1 DEF IInv, vars, Listed, Shown, Asked
  <2>2. QuitSavesAll'
    BY <1>1 DEF IInv, vars, QuitSavesAll, Modified
  <2>3. KilledStep
    BY <1>1 DEF vars, KilledStep, Ids
  <2> QED
    BY <2>1, <2>2, <2>3 DEF IInv
<1>2. ASSUME NEW f \in Files, NEW t \in Texts, OpenFile(f, t) PROVE IInv' /\ KilledStep
  BY <1>2, OpenFileStep
<1>3. ASSUME NEW n \in Names, SwitchToBuffer(n) PROVE IInv' /\ KilledStep
  BY <1>3, SwitchToBufferStep
<1>4. ASSUME NEW n \in {-1, 1}, NextBuffer(n) PROVE IInv' /\ KilledStep
  BY <1>4, NextBufferStep
<1>5. ASSUME NEW n \in Names, NEW t \in Texts, ShowText(n, t) PROVE IInv' /\ KilledStep
  BY <1>5, ShowTextStep
<1>6. ASSUME NEW n \in Names, NEW t \in Texts, LogText(n, t) PROVE IInv' /\ KilledStep
  BY <1>6, LogTextStep
<1>7. ASSUME NEW k \in 1 .. MaxChars + 1, NEW l \in 1 .. MaxChars + 1, NEW c \in Texts, Edit(k, l, c)
      PROVE  IInv' /\ KilledStep
  BY <1>7, EditStep
<1>8. ASSUME NEW p \in Positions, MovePoint(p) PROVE IInv' /\ KilledStep
  BY <1>8, MovePointStep
<1>9. ASSUME NEW f \in Files, Save(f) PROVE IInv' /\ KilledStep
  BY <1>9, SaveStep
<1>10. ASSUME SplitWindow PROVE IInv' /\ KilledStep
  BY <1>10, SplitWindowStep
<1>11. ASSUME NEW n \in {-1, 1}, OtherWindow(n) PROVE IInv' /\ KilledStep
  BY <1>11, OtherWindowStep
<1>12. ASSUME NEW p \in 1 .. MaxPanes, NEW at \in Positions, Click(p, at) PROVE IInv' /\ KilledStep
  BY <1>12, ClickStep
<1>13. ASSUME DeleteOtherWindows PROVE IInv' /\ KilledStep
  BY <1>13, DeleteOtherWindowsStep
<1>14. ASSUME DeleteWindow PROVE IInv' /\ KilledStep
  BY <1>14, DeleteWindowStep
<1>15. ASSUME NEW n \in Names, KillBuffer(n) PROVE IInv' /\ KilledStep
  BY <1>15, KillBufferStep
<1>16. ASSUME ConfirmKill PROVE IInv' /\ KilledStep
  BY <1>16, ConfirmKillStep
<1>17. ASSUME Cancel \/ SaveBuffersKillTerminal \/ DiscardAndQuit \/ KillEmacs
       PROVE  IInv' /\ KilledStep
  BY <1>17, QuestionStep
<1>18. ASSUME SaveAllAndQuit PROVE IInv' /\ KilledStep
  BY <1>18, SaveAllAndQuitStep
<1>19. ASSUME NEW n \in 1 .. MaxBuffers, SaveAllFails(n) PROVE IInv' /\ KilledStep
  BY <1>19, SaveAllFailsStep
<1> QED
  BY <1>1, <1>2, <1>3, <1>4, <1>5, <1>6, <1>7, <1>8, <1>9, <1>10, <1>11, <1>12, <1>13,
     <1>14, <1>15, <1>16, <1>17, <1>18, <1>19 DEF Next

LEMMA IInvAlways == Spec => []IInv
BY IInvInit, IInvNext, PTL DEF Spec

\* Every pane shows a buffer there is, and the active one the current buffer,
\* however many buffers and panes come and go.
THEOREM PanesAlwaysShowBuffers == Spec => []PanesShowBuffers
BY IInvAlways, IInvGivesTypes, PTL

\* A modified buffer goes away only when it was asked about.
THEOREM ModifiedIsAskedFor == Spec => KilledOnlyWhenAsked
<1>1. IInv /\ [Next]_vars => [ \A i \in DOMAIN buffers :
            buffers[i].modified /\ buffers[i].id \notin Ids(buffers')
            => prompt_command = "kill-confirm" /\ pending_buffer = buffers[i].id ]_vars
  BY IInvNext DEF KilledStep
<1> QED
  BY <1>1, IInvAlways, PTL DEF Spec, KilledOnlyWhenAsked

\* An editor that stops because all is saved leaves nothing unsaved.
THEOREM QuitLeavesNothing == Spec => []QuitSavesAll
BY IInvAlways, PTL DEF IInv
=============================================================================
