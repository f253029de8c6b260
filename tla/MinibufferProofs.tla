-------------------------- MODULE MinibufferProofs --------------------------
(***************************************************************************)
(* editor_find finds the nearest occurrence of any word in any text, with  *)
(* any word overlapping itself; what an incremental search shows is true;  *)
(* and replacing everything replaces what stood there when it began.       *)
(***************************************************************************)
EXTENDS Minibuffer, SequenceTheorems, WellFoundedInduction, TLAPS

-----------------------------------------------------------------------------
(***************************************************************************)
(* Functions that are defined by descent.                                  *)
(***************************************************************************)
\* Induction over the natural numbers, for the members of a set.
LEMMA SetInduction ==
    ASSUME NEW S, 0 \in S, \A n \in Nat : n \in S => n + 1 \in S
    PROVE  Nat \subseteq S
<1> DEFINE R == OpToRel(<, Nat)
           T == {n \in Nat : n \notin S}
<1> SUFFICES ASSUME T # {} PROVE FALSE
  OBVIOUS
<1>1. \A x, y \in Nat : y < x => <<y, x>> \in R
  BY DEF OpToRel
<1>2. IsWellFoundedOn(R, Nat)
  BY NatLessThanWellFounded
<1>3. \E x \in T : \A y \in T : ~(<<y, x>> \in R)
  <2> HIDE DEF R
  <2> QED
    BY <1>2, WFMin
<1>4. PICK x \in T : \A y \in T : ~(<<y, x>> \in R)
  BY <1>3
<1>5. x # 0 /\ x \in Nat
  OBVIOUS
<1>6. x - 1 \in Nat /\ x - 1 < x
  BY <1>5
<1>7. x - 1 \notin S
  BY <1>5, <1>6, (x - 1) + 1 = x
<1> HIDE DEF R
<1>8. <<x - 1, x>> \in R
  BY <1>1, <1>5, <1>6
<1> QED
  BY <1>4, <1>6, <1>7, <1>8

\* Induction from all smaller numbers.
LEMMA StrongInduction ==
    ASSUME NEW S, \A n \in Nat : (\A k \in 0 .. n - 1 : k \in S) => n \in S
    PROVE  Nat \subseteq S
<1> DEFINE T == {n \in Nat : \A k \in 0 .. n - 1 : k \in S}
<1>1. 0 \in T
  OBVIOUS
<1>2. ASSUME NEW n \in Nat, n \in T
      PROVE  n + 1 \in T
  <2>1. n \in S
    BY <1>2
  <2>2. \A k \in 0 .. (n + 1) - 1 : k = n \/ k \in 0 .. n - 1
    OBVIOUS
  <2> QED
    BY <1>2, <2>1, <2>2
<1>3. Nat \subseteq T
  <2> HIDE DEF T
  <2> QED
    BY <1>1, <1>2, SetInduction
<1> QED
  BY <1>3

\* Every descent over D ends: outside of stop, next goes to a smaller member,
\* and step says what becomes of the value there.
Descent(D, V, stop, base, step, next, size) ==
    /\ \A x \in D : size[x] \in Nat
    /\ \A x \in D : x \in stop => base[x] \in V
    /\ \A x \in D : x \notin stop =>
            step[x] \in [V -> V] /\ next[x] \in D /\ size[next[x]] < size[x]

\* f is the function defined by it, at the members of E.
Descends(f, E, V, stop, base, step, next) ==
    /\ f \in [E -> V]
    /\ \A x \in E : f[x] = IF x \in stop THEN base[x] ELSE step[x][f[next[x]]]

\* The members from which it is short.
Below(D, size, n) == {x \in D : size[x] < n}

LEMMA DescendsFurther ==
    ASSUME NEW D, NEW V, NEW stop, NEW base, NEW step, NEW next, NEW size,
           Descent(D, V, stop, base, step, next, size), NEW n \in Nat,
           NEW g, Descends(g, Below(D, size, n), V, stop, base, step, next)
    PROVE  \E h : Descends(h, Below(D, size, n + 1), V, stop, base, step, next)
<1> DEFINE A == Below(D, size, n)
           B == Below(D, size, n + 1)
           h == [x \in B |-> IF x \in stop THEN base[x] ELSE step[x][g[next[x]]]]
<1>1. \A x \in B : x \in D /\ size[x] < n + 1 /\ size[x] \in Nat
  BY DEF Descent, Below
<1>2. \A x \in B : x \notin stop => step[x] \in [V -> V] /\ next[x] \in D
                                    /\ size[next[x]] < size[x] /\ size[next[x]] \in Nat
  BY DEF Descent, Below
<1>3. \A x \in B : x \notin stop => next[x] \in A
  BY <1>1, <1>2 DEF Below
<1>4. A \subseteq B
  BY DEF Descent, Below
<1>5. g \in [A -> V] /\ \A x \in A : g[x] = IF x \in stop THEN base[x] ELSE step[x][g[next[x]]]
  BY DEF Descends
<1>6. \A x \in B : x \in stop => base[x] \in V
  BY <1>1 DEF Descent
<1> HIDE DEF A, B
<1>7. h \in [B -> V]
  BY <1>2, <1>3, <1>5, <1>6
<1>8. \A x \in A : h[x] = g[x]
  BY <1>4, <1>5
<1>9. \A x \in B : h[x] = IF x \in stop THEN base[x] ELSE step[x][h[next[x]]]
  BY <1>3, <1>8
<1>10. Descends(h, B, V, stop, base, step, next)
  BY <1>7, <1>9, Zenon DEF Descends
<1> QED
  BY <1>10 DEF B

\* There is such a function.
LEMMA DescentExists ==
    ASSUME NEW D, NEW V, NEW stop, NEW base, NEW step, NEW next, NEW size,
           Descent(D, V, stop, base, step, next, size),
           NEW bound \in Nat, \A x \in D : size[x] < bound
    PROVE  \E f : Descends(f, D, V, stop, base, step, next)
<1> DEFINE S == {n \in Nat : \E f : Descends(f, Below(D, size, n), V, stop, base, step, next)}
<1>1. 0 \in S
  <2>1. Below(D, size, 0) = {}
    BY DEF Descent, Below
  <2>2. Descends([x \in {} |-> x], {}, V, stop, base, step, next)
    BY DEF Descends
  <2> QED
    BY <2>1, <2>2
<1>2. ASSUME NEW n \in Nat, n \in S
      PROVE  n + 1 \in S
  <2>1. PICK g : Descends(g, Below(D, size, n), V, stop, base, step, next)
    BY <1>2
  <2>2. \E h : Descends(h, Below(D, size, n + 1), V, stop, base, step, next)
    BY <2>1, DescendsFurther, Zenon
  <2> QED
    BY <2>2
<1>3. bound \in S
  <2> HIDE DEF S
  <2>1. Nat \subseteq S
    BY <1>1, <1>2, SetInduction
  <2> QED
    BY <2>1
<1>4. Below(D, size, bound) = D
  BY DEF Below
<1> QED
  BY <1>3, <1>4

\* What steps like it wherever its value has the type is defined by it.
LEMMA DescentTyped ==
    ASSUME NEW D, NEW V, NEW stop, NEW base, NEW step, NEW next, NEW size,
           Descent(D, V, stop, base, step, next, size),
           NEW f, f = [x \in D |-> f[x]],
           \A x \in D : x \in stop => f[x] = base[x],
           \A x \in D : x \notin stop /\ f[next[x]] \in V => f[x] = step[x][f[next[x]]]
    PROVE  Descends(f, D, V, stop, base, step, next)
<1> DEFINE S == {n \in Nat : \A x \in D : size[x] < n => f[x] \in V}
<1>1. 0 \in S
  BY DEF Descent
<1>2. ASSUME NEW n \in Nat, n \in S
      PROVE  n + 1 \in S
  <2> SUFFICES ASSUME NEW x \in D, size[x] < n + 1
               PROVE  f[x] \in V
    OBVIOUS
  <2>1. CASE x \in stop
    BY <2>1 DEF Descent
  <2>2. CASE x \notin stop
    <3>1. /\ step[x] \in [V -> V] /\ next[x] \in D /\ size[next[x]] < size[x]
          /\ size[x] \in Nat /\ size[next[x]] \in Nat
      BY <2>2 DEF Descent
    <3>2. size[next[x]] < n
      BY <3>1
    <3>3. f[next[x]] \in V
      BY <1>2, <3>1, <3>2
    <3>4. f[x] = step[x][f[next[x]]]
      BY <2>2, <3>3
    <3> QED
      BY <3>1, <3>3, <3>4
  <2> QED
    BY <2>1, <2>2
<1>3. Nat \subseteq S
  <2> HIDE DEF S
  <2> QED
    BY <1>1, <1>2, SetInduction
<1>4. ASSUME NEW x \in D
      PROVE  f[x] \in V
  <2>1. size[x] \in Nat /\ size[x] + 1 \in Nat /\ size[x] < size[x] + 1
    BY DEF Descent
  <2> QED
    BY <1>3, <2>1
<1>5. ASSUME NEW x \in D
      PROVE  f[x] = IF x \in stop THEN base[x] ELSE step[x][f[next[x]]]
  <2>1. x \notin stop => next[x] \in D
    BY DEF Descent
  <2> QED
    BY <1>4, <2>1
<1>6. f \in [D -> V]
  BY <1>4
<1> QED
  BY <1>5, <1>6 DEF Descends

-----------------------------------------------------------------------------
(***************************************************************************)
(* Beginnings of a word that a text ends with.                             *)
(***************************************************************************)
\* The first k characters of w are the last of the first i characters of t,
\* those before b not counted.
Ends(w, t, b, i, k) == k \in 0 .. i - b /\ k <= Len(w) /\ \A x \in 1 .. k : w[x] = t[i - k + x]

\* No more of them are, up to a number.
Longest(w, t, b, i, most, k) ==
    k <= most /\ Ends(w, t, b, i, k) /\ \A n \in 0 .. most : Ends(w, t, b, i, n) => n <= k

\* What p says of the first n characters of w: how many of them end it again.
Borders(w, p, n) == \A i \in 1 .. n : Longest(w, w, 1, i, Len(w), p[i - 1])

LEMMA EndsTyped ==
    ASSUME NEW w, NEW t, NEW b \in Nat, NEW i \in Nat, NEW k, Ends(w, t, b, i, k)
    PROVE  k \in Nat /\ k <= i - b /\ k <= i
BY DEF Ends

\* One more matches when the next character does.
LEMMA EndsGrow ==
    ASSUME NEW w, NEW t, NEW b \in Nat, NEW i \in Nat, NEW k, Ends(w, t, b, i, k),
           Len(w) \in Nat, k < Len(w), w[k + 1] = t[i + 1]
    PROVE  Ends(w, t, b, i + 1, k + 1)
<1>1. k \in Nat /\ k <= i - b
  BY DEF Ends
<1>2. k + 1 \in 0 .. (i + 1) - b /\ k + 1 <= Len(w)
  BY <1>1
<1>3. ASSUME NEW x \in 1 .. k + 1
      PROVE  w[x] = t[(i + 1) - (k + 1) + x]
  <2>1. CASE x = k + 1
    <3>1. (i + 1) - (k + 1) + x = i + 1
      BY <1>1, <2>1
    <3> QED
      BY <2>1, <3>1
  <2>2. CASE x # k + 1
    <3>1. x \in 1 .. k /\ (i + 1) - (k + 1) + x = i - k + x
      BY <1>1, <2>2
    <3> QED
      BY <3>1 DEF Ends
  <2> QED
    BY <2>1, <2>2
<1> QED
  BY <1>2, <1>3 DEF Ends

\* And the other way round.
LEMMA EndsShrink ==
    ASSUME NEW w, NEW t, NEW b \in Nat, NEW i \in Nat, NEW k, Ends(w, t, b, i + 1, k),
           Len(w) \in Nat, k # 0
    PROVE  k - 1 \in Nat /\ k - 1 < Len(w) /\ Ends(w, t, b, i, k - 1) /\ w[k] = t[i + 1]
<1>1. k \in Nat /\ k <= (i + 1) - b /\ k <= Len(w)
  BY DEF Ends
<1>2. w[k] = t[i + 1]
  <2>1. k \in 1 .. k /\ (i + 1) - k + k = i + 1
    BY <1>1
  <2> QED
    BY <2>1 DEF Ends
<1>3. ASSUME NEW x \in 1 .. k - 1
      PROVE  w[x] = t[i - (k - 1) + x]
  <2>1. x \in 1 .. k /\ (i + 1) - k + x = i - (k - 1) + x
    BY <1>1
  <2> QED
    BY <2>1 DEF Ends
<1>4. k - 1 \in 0 .. i - b /\ k - 1 <= Len(w)
  BY <1>1
<1> QED
  BY <1>1, <1>2, <1>3, <1>4 DEF Ends

\* A beginning of a beginning that ends it ends the text.
LEMMA EndsWithin ==
    ASSUME NEW w, NEW t, NEW b \in Nat, NEW i \in Nat, NEW x, Ends(w, t, b, i, x),
           Len(w) \in Nat, NEW y, Ends(w, w, 1, x, y)
    PROVE  Ends(w, t, b, i, y) /\ y < x
<1>1. x \in Nat /\ x <= i - b /\ x <= Len(w) /\ y \in Nat /\ y <= x - 1
  BY DEF Ends
<1>2. ASSUME NEW z \in 1 .. y
      PROVE  w[z] = t[i - y + z]
  <2>1. x - y + z \in 1 .. x /\ i - x + (x - y + z) = i - y + z
    BY <1>1
  <2>2. w[z] = w[x - y + z]
    BY DEF Ends
  <2>3. w[x - y + z] = t[i - x + (x - y + z)]
    BY <2>1 DEF Ends
  <2> QED
    BY <2>1, <2>2, <2>3
<1>3. y \in 0 .. i - b /\ y <= Len(w) /\ y < x
  BY <1>1
<1> QED
  BY <1>2, <1>3 DEF Ends

\* A shorter one ends the longer one.
LEMMA EndsShorter ==
    ASSUME NEW w, NEW t, NEW b \in Nat, NEW i \in Nat, NEW x, Ends(w, t, b, i, x),
           Len(w) \in Nat, NEW k, Ends(w, t, b, i, k), k < x
    PROVE  Ends(w, w, 1, x, k)
<1>1. x \in Nat /\ x <= Len(w) /\ k \in Nat /\ k <= Len(w) /\ x <= i - b
  BY DEF Ends
<1>2. ASSUME NEW z \in 1 .. k
      PROVE  w[z] = w[x - k + z]
  <2>1. x - k + z \in 1 .. x /\ i - x + (x - k + z) = i - k + z
    BY <1>1
  <2>2. w[z] = t[i - k + z]
    BY DEF Ends
  <2>3. w[x - k + z] = t[i - x + (x - k + z)]
    BY <2>1 DEF Ends
  <2> QED
    BY <2>1, <2>2, <2>3
<1>3. k \in 0 .. x - 1
  BY <1>1
<1> QED
  BY <1>1, <1>2, <1>3 DEF Ends

\* There is one longest.
LEMMA LongestIsOne ==
    ASSUME NEW w, NEW t, NEW b \in Nat, NEW i \in Nat, NEW most \in Nat,
           NEW j, Longest(w, t, b, i, most, j), NEW k, Longest(w, t, b, i, most, k)
    PROVE  j = k
<1>1. j \in Nat /\ k \in Nat
  BY EndsTyped DEF Longest
<1>2. j \in 0 .. most /\ k \in 0 .. most
  BY <1>1 DEF Longest
<1>3. j <= k /\ k <= j
  BY <1>2 DEF Longest
<1> QED
  BY <1>1, <1>3

-----------------------------------------------------------------------------
(***************************************************************************)
(* Reading one more character.                                             *)
(***************************************************************************)
LEMMA BordersTyped ==
    ASSUME NEW w, NEW p, NEW j \in Nat, Borders(w, p, j), NEW x \in 1 .. j
    PROVE  /\ p[x - 1] \in 0 .. x - 1
           /\ Ends(w, w, 1, x, p[x - 1])
           /\ \A k \in 0 .. Len(w) : Ends(w, w, 1, x, k) => k <= p[x - 1]
<1>1. Longest(w, w, 1, x, Len(w), p[x - 1])
  BY DEF Borders
<1>2. Ends(w, w, 1, x, p[x - 1])
  BY <1>1 DEF Longest
<1> QED
  BY <1>1, <1>2 DEF Longest, Ends

\* What the loop of Advance goes through.
Retried(w, p, j, c, f) ==
    \A x \in 0 .. j : f[x] = IF c = w[x + 1] THEN x + 1 ELSE IF x = 0 THEN 0 ELSE f[p[x - 1]]

LEMMA AdvanceRetries ==
    ASSUME NEW w \in Seq(Chars), NEW p, NEW j \in Nat, j < Len(w), Borders(w, p, j), NEW c
    PROVE  \E f : /\ Advance(w, p, j, c) = f[j]
                  /\ f \in [0 .. j -> 0 .. Len(w)]
                  /\ Retried(w, p, j, c, f)
<1> DEFINE D == 0 .. j
           V == 0 .. Len(w)
           stop == {x \in D : c = w[x + 1] \/ x = 0}
           base == [x \in D |-> IF c = w[x + 1] THEN x + 1 ELSE 0]
           step == [x \in D |-> [v \in V |-> v]]
           next == [x \in D |-> p[x - 1]]
           size == [x \in D |-> x]
           Def(s) == s = [i \in 0 .. j |->
                            IF c = w[i + 1] THEN i + 1 ELSE IF i = 0 THEN 0 ELSE s[p[i - 1]]]
           f == CHOOSE s : Def(s)
<1>1. Advance(w, p, j, c) = f[j]
  BY DEF Advance
<1>2. Len(w) \in Nat
  OBVIOUS
<1>3. \A x \in D : x \notin stop => p[x - 1] \in D /\ p[x - 1] < x
  <2> SUFFICES ASSUME NEW x \in D, x # 0 PROVE p[x - 1] \in D /\ p[x - 1] < x
    OBVIOUS
  <2>1. x \in 1 .. j
    OBVIOUS
  <2>2. p[x - 1] \in 0 .. x - 1
    BY <2>1, BordersTyped
  <2> QED
    BY <2>1, <2>2
<1>4. Descent(D, V, stop, base, step, next, size)
  <2>1. \A x \in D : size[x] \in Nat
    OBVIOUS
  <2>2. \A x \in D : x \in stop => base[x] \in V
    BY <1>2
  <2>3. \A x \in D : x \notin stop =>
            step[x] \in [V -> V] /\ next[x] \in D /\ size[next[x]] < size[x]
    BY <1>3
  <2> QED
    BY <2>1, <2>2, <2>3, Zenon DEF Descent
<1>5. \E g : Descends(g, D, V, stop, base, step, next)
  <2>1. j + 1 \in Nat /\ \A x \in D : size[x] < j + 1
    OBVIOUS
  <2> HIDE DEF D, V, stop, base, step, next, size
  <2> QED
    BY <1>4, <2>1, DescentExists, Zenon
<1>6. PICK g : Descends(g, D, V, stop, base, step, next)
  BY <1>5
<1>7. Def(g)
  <2>1. g \in [D -> V]
    BY <1>6 DEF Descends
  <2>2. ASSUME NEW x \in D
        PROVE  g[x] = IF c = w[x + 1] THEN x + 1 ELSE IF x = 0 THEN 0 ELSE g[p[x - 1]]
    <3>1. g[x] = IF x \in stop THEN base[x] ELSE step[x][g[next[x]]]
      <4> HIDE DEF D, V, stop, base, step, next
      <4> QED
        BY <1>6 DEF Descends
    <3>2. CASE x \in stop
      BY <3>1, <3>2
    <3>3. CASE x \notin stop
      <4>1. next[x] = p[x - 1] /\ p[x - 1] \in D
        BY <1>3, <3>3
      <4>2. g[p[x - 1]] \in V
        BY <2>1, <4>1
      <4>3. step[x][g[p[x - 1]]] = g[p[x - 1]]
        BY <4>2
      <4> QED
        BY <3>1, <3>3, <4>1, <4>3
    <3> QED
      BY <3>2, <3>3
  <2>3. g = [x \in D |-> g[x]]
    BY <2>1
  <2> QED
    BY <2>2, <2>3, Zenon
<1>8. Def(f)
  <2> HIDE DEF Def
  <2> QED
    BY <1>7
<1> HIDE DEF f
<1>9. \A x \in D : f[x] = IF c = w[x + 1] THEN x + 1 ELSE IF x = 0 THEN 0 ELSE f[p[x - 1]]
  BY <1>8, Zenon
<1>10. f \in [D -> V]
  <2>1. f = [x \in D |-> f[x]]
    BY <1>8
  <2>2. \A x \in D : x \in stop => f[x] = base[x]
    BY <1>9
  <2>3. \A x \in D : x \notin stop /\ f[next[x]] \in V => f[x] = step[x][f[next[x]]]
    BY <1>9
  <2> HIDE DEF Def, D, V, stop, base, step, next, size
  <2>4. Descends(f, D, V, stop, base, step, next)
    BY <1>4, <2>1, <2>2, <2>3, DescentTyped, Zenon
  <2> QED
    BY <2>4 DEF Descends
<1> HIDE DEF Def
<1> QED
  BY <1>1, <1>9, <1>10, Zenon DEF Retried

LEMMA AdvanceTyped ==
    ASSUME NEW w \in Seq(Chars), NEW p, NEW j \in Nat, j < Len(w), Borders(w, p, j), NEW c
    PROVE  Advance(w, p, j, c) \in 0 .. Len(w)
<1>1. PICK f : Advance(w, p, j, c) = f[j] /\ f \in [0 .. j -> 0 .. Len(w)]
  BY AdvanceRetries
<1> QED
  BY <1>1

\* The longest beginning stays known when a character is read.
LEMMA AdvanceLongest ==
    ASSUME NEW w \in Seq(Chars), NEW t, NEW b \in Nat, NEW i \in Nat, b <= i,
           NEW p, NEW j \in Nat, j < Len(w), Borders(w, p, j),
           Longest(w, t, b, i, Len(w) - 1, j)
    PROVE  Longest(w, t, b, i + 1, Len(w), Advance(w, p, j, t[i + 1]))
<1> DEFINE c == t[i + 1]
           m == Len(w)
           Best(x) == \A k \in 0 .. m - 1 : Ends(w, t, b, i, k) /\ w[k + 1] = c => k <= x
<1>1. m \in Nat
  OBVIOUS
<1>2. PICK f : /\ Advance(w, p, j, c) = f[j]
               /\ f \in [0 .. j -> 0 .. m]
               /\ Retried(w, p, j, c, f)
  BY AdvanceRetries
<1> DEFINE S == {x \in Nat : x <= j /\ Ends(w, t, b, i, x) /\ Best(x)
                                => Longest(w, t, b, i + 1, m, f[x])}
<1>3. ASSUME NEW x \in Nat, \A k \in 0 .. x - 1 : k \in S
      PROVE  x \in S
  <2> SUFFICES ASSUME x <= j, Ends(w, t, b, i, x), Best(x)
               PROVE  Longest(w, t, b, i + 1, m, f[x])
    OBVIOUS
  <2>1. x \in 0 .. j /\ x < m
    BY <1>1
  <2>2. f[x] = IF c = w[x + 1] THEN x + 1 ELSE IF x = 0 THEN 0 ELSE f[p[x - 1]]
    BY <1>2, <2>1 DEF Retried
  <2>3. CASE c = w[x + 1]
    <3>1. Ends(w, t, b, i + 1, x + 1)
      BY <1>1, <2>1, <2>3, EndsGrow
    <3>2. ASSUME NEW n \in 0 .. m, Ends(w, t, b, i + 1, n)
          PROVE  n <= x + 1
      <4>1. CASE n = 0
        BY <4>1
      <4>2. CASE n # 0
        <5>1. n - 1 \in Nat /\ n - 1 < m /\ Ends(w, t, b, i, n - 1) /\ w[n] = c
          BY <1>1, <3>2, <4>2, EndsShrink
        <5>2. n - 1 \in 0 .. m - 1 /\ (n - 1) + 1 = n
          BY <1>1, <5>1
        <5>3. n - 1 <= x
          BY <5>1, <5>2
        <5> QED
          BY <5>1, <5>3
      <4> QED
        BY <4>1, <4>2
    <3>3. f[x] = x + 1 /\ x + 1 <= m
      BY <1>1, <2>1, <2>2, <2>3
    <3> QED
      BY <3>1, <3>2, <3>3 DEF Longest
  <2>4. CASE c # w[x + 1] /\ x = 0
    <3>1. Ends(w, t, b, i + 1, 0)
      BY <1>1 DEF Ends
    <3>2. ASSUME NEW n \in 0 .. m, Ends(w, t, b, i + 1, n)
          PROVE  n <= 0
      <4> SUFFICES ASSUME n # 0 PROVE FALSE
        OBVIOUS
      <4>1. n - 1 \in Nat /\ n - 1 < m /\ Ends(w, t, b, i, n - 1) /\ w[n] = c
        BY <1>1, <3>2, EndsShrink
      <4>2. n - 1 \in 0 .. m - 1 /\ (n - 1) + 1 = n
        BY <1>1, <4>1
      <4>3. n - 1 <= 0
        BY <2>4, <4>1, <4>2
      <4>4. n = 1
        BY <4>1, <4>3
      <4> QED
        BY <2>4, <4>1, <4>4
    <3>3. f[x] = 0
      BY <2>2, <2>4
    <3> QED
      BY <1>1, <3>1, <3>2, <3>3 DEF Longest
  <2>5. CASE c # w[x + 1] /\ x # 0
    <3> DEFINE y == p[x - 1]
    <3>1. x \in 1 .. j
      BY <2>1, <2>5
    <3>2. /\ y \in 0 .. x - 1 /\ Ends(w, w, 1, x, y)
          /\ \A k \in 0 .. m : Ends(w, w, 1, x, k) => k <= y
      BY <3>1, BordersTyped
    <3> HIDE DEF y
    <3>3. Ends(w, t, b, i, y)
      BY <1>1, <3>2, EndsWithin
    <3>4. ASSUME NEW k \in 0 .. m - 1, Ends(w, t, b, i, k), w[k + 1] = c
          PROVE  k <= y
      <4>1. k <= x
        BY <3>4
      <4>2. k # x
        BY <2>5, <3>4
      <4>3. k < x /\ k \in 0 .. m
        BY <1>1, <4>1, <4>2
      <4>4. Ends(w, w, 1, x, k)
        BY <1>1, <3>4, <4>3, EndsShorter
      <4> QED
        BY <3>2, <4>3, <4>4
    <3>5. y \in S /\ y <= j
      BY <1>3, <2>1, <3>2
    <3>6. Longest(w, t, b, i + 1, m, f[y])
      BY <3>3, <3>4, <3>5
    <3> QED
      BY <2>2, <2>5, <3>6 DEF y
  <2> QED
    BY <2>3, <2>4, <2>5
<1>4. Nat \subseteq S
  <2> HIDE DEF S
  <2> QED
    BY <1>3, StrongInduction
<1>5. Ends(w, t, b, i, j) /\ Best(j)
  BY DEF Longest
<1>6. Longest(w, t, b, i + 1, m, f[j])
  BY <1>4, <1>5
<1> QED
  BY <1>2, <1>6

-----------------------------------------------------------------------------
(***************************************************************************)
(* The failure function.                                                   *)
(***************************************************************************)
\* What begins again behind the next character.
LEMMA BordersGrow ==
    ASSUME NEW w \in Seq(Chars), NEW p, NEW i \in Nat, i # 0, i < Len(w), Borders(w, p, i)
    PROVE  /\ p[i - 1] \in 0 .. i - 1
           /\ Longest(w, w, 1, i + 1, Len(w), Advance(w, p, p[i - 1], w[i + 1]))
<1>1. Len(w) \in Nat /\ i \in 1 .. i
  OBVIOUS
<1>2. /\ p[i - 1] \in 0 .. i - 1 /\ Ends(w, w, 1, i, p[i - 1])
      /\ \A k \in 0 .. Len(w) : Ends(w, w, 1, i, k) => k <= p[i - 1]
  BY <1>1, BordersTyped
<1> DEFINE j == p[i - 1]
<1>3. j \in Nat /\ j < Len(w) /\ j <= i /\ j <= Len(w) - 1
  BY <1>1, <1>2
<1>4. Longest(w, w, 1, i, Len(w) - 1, j)
  <2>1. \A k \in 0 .. Len(w) - 1 : k \in 0 .. Len(w)
    BY <1>1
  <2> QED
    BY <1>2, <1>3, <2>1 DEF Longest
<1>5. Borders(w, p, j)
  BY <1>3 DEF Borders
<1>6. 1 \in Nat /\ 1 <= i
  BY <1>1
<1> HIDE DEF j
<1>7. Longest(w, w, 1, i + 1, Len(w), Advance(w, p, j, w[i + 1]))
  BY <1>3, <1>4, <1>5, <1>6, AdvanceLongest
<1> QED
  BY <1>2, <1>7 DEF j

\* One character does not begin again in itself.
LEMMA FirstBorder ==
    ASSUME NEW w \in Seq(Chars), w # <<>>
    PROVE  Longest(w, w, 1, 1, Len(w), 0)
<1>1. Len(w) \in Nat /\ Len(w) # 0
  OBVIOUS
<1> QED
  BY <1>1 DEF Longest, Ends

\* A correct table, made from the left.
Table(w, g, n) == g = [i \in 0 .. n - 1 |-> g[i]] /\ Borders(w, g, n)

LEMMA TableGrows ==
    ASSUME NEW w \in Seq(Chars), NEW n \in Nat, n < Len(w), NEW g, Table(w, g, n)
    PROVE  \E h : Table(w, h, n + 1)
<1> DEFINE new == IF n = 0 THEN 0 ELSE Advance(w, g, g[n - 1], w[n + 1])
           h == [i \in 0 .. (n + 1) - 1 |-> IF i < n THEN g[i] ELSE new]
<1>1. Len(w) \in Nat
  OBVIOUS
<1>2. Longest(w, w, 1, n + 1, Len(w), new)
  <2>1. CASE n = 0
    <3>1. w # <<>> /\ n + 1 = 1
      BY <2>1
    <3> QED
      BY <2>1, <3>1, FirstBorder
  <2>2. CASE n # 0
    BY <2>2, BordersGrow DEF Table
  <2> QED
    BY <2>1, <2>2
<1> HIDE DEF new
<1>3. \A i \in 1 .. n + 1 : i = n + 1 \/ i \in 1 .. n
  OBVIOUS
<1>4. \A i \in 1 .. n : h[i - 1] = g[i - 1]
  OBVIOUS
<1>5. h[(n + 1) - 1] = new
  OBVIOUS
<1>6. h = [i \in 0 .. (n + 1) - 1 |-> h[i]]
  OBVIOUS
<1> HIDE DEF h
<1>7. Borders(w, h, n + 1)
  BY <1>2, <1>3, <1>4, <1>5 DEF Borders, Table
<1> QED
  BY <1>6, <1>7 DEF Table

LEMMA TableExists ==
    ASSUME NEW w \in Seq(Chars)
    PROVE  \E g : Table(w, g, Len(w))
<1> DEFINE S == {n \in Nat : n <= Len(w) => \E g : Table(w, g, n)}
<1>1. 0 \in S
  <2>1. Table(w, [i \in {} |-> 0], 0)
    <3>1. 0 .. 0 - 1 = {} /\ 1 .. 0 = {}
      OBVIOUS
    <3>2. [i \in {} |-> 0] = [i \in {} |-> [k \in {} |-> 0][i]]
      OBVIOUS
    <3> QED
      BY <3>1, <3>2 DEF Table, Borders
  <2> QED
    BY <2>1
<1>2. ASSUME NEW n \in Nat, n \in S
      PROVE  n + 1 \in S
  <2> SUFFICES ASSUME n + 1 <= Len(w) PROVE \E g : Table(w, g, n + 1)
    OBVIOUS
  <2>1. n < Len(w) /\ n <= Len(w)
    OBVIOUS
  <2>2. PICK g : Table(w, g, n)
    BY <1>2, <2>1
  <2> QED
    BY <2>1, <2>2, TableGrows
<1>3. Nat \subseteq S
  <2> HIDE DEF S
  <2> QED
    BY <1>1, <1>2, SetInduction
<1>4. Len(w) \in Nat /\ Len(w) <= Len(w)
  OBVIOUS
<1> QED
  BY <1>3, <1>4

\* The failure function is one.
LEMMA FailureIsTable ==
    ASSUME NEW w \in Seq(Chars)
    PROVE  Borders(w, Failure(w), Len(w))
<1> DEFINE m == Len(w)
           Def(s) == s = [i \in 0 .. Len(w) - 1 |->
                            IF i = 0 THEN 0 ELSE Advance(w, s, s[i - 1], w[i + 1])]
           f == CHOOSE s : Def(s)
<1>1. Failure(w) = f
  BY DEF Failure
<1>2. m \in Nat
  OBVIOUS
<1>3. PICK g : Table(w, g, m)
  BY TableExists
<1>4. Def(g)
  <2>1. ASSUME NEW i \in 0 .. m - 1
        PROVE  g[i] = IF i = 0 THEN 0 ELSE Advance(w, g, g[i - 1], w[i + 1])
    <3>1. i + 1 \in 1 .. m /\ (i + 1) - 1 = i /\ i + 1 \in Nat /\ 1 \in Nat /\ i \in Nat
      BY <1>2
    <3>2. Longest(w, w, 1, i + 1, m, g[i])
      BY <1>3, <3>1 DEF Table, Borders
    <3>3. CASE i = 0
      <4>1. w # <<>> /\ i + 1 = 1
        BY <3>3
      <4>2. Longest(w, w, 1, i + 1, m, 0)
        BY <4>1, FirstBorder
      <4>3. g[i] = 0
        BY <1>2, <3>1, <3>2, <4>2, LongestIsOne, Zenon
      <4> QED
        BY <3>3, <4>3
    <3>4. CASE i # 0
      <4>1. Borders(w, g, i) /\ i < m
        <5>1. i < m /\ \A k \in 1 .. i : k \in 1 .. m
          BY <1>2
        <5>2. \A k \in 1 .. m : Longest(w, w, 1, k, m, g[k - 1])
          BY <1>3 DEF Table, Borders
        <5> HIDE DEF m
        <5>3. \A k \in 1 .. i : Longest(w, w, 1, k, m, g[k - 1])
          BY <5>1, <5>2, Zenon
        <5> QED
          BY <5>1, <5>3 DEF Borders, m
      <4>2. Longest(w, w, 1, i + 1, m, Advance(w, g, g[i - 1], w[i + 1]))
        BY <3>1, <3>4, <4>1, BordersGrow
      <4>3. g[i] = Advance(w, g, g[i - 1], w[i + 1])
        BY <1>2, <3>1, <3>2, <4>2, LongestIsOne
      <4> QED
        BY <3>4, <4>3
    <3> QED
      BY <3>3, <3>4
  <2>2. g = [i \in 0 .. m - 1 |-> g[i]]
    BY <1>3 DEF Table
  <2> QED
    BY <2>1, <2>2, Zenon
<1>5. Def(f)
  <2> HIDE DEF Def
  <2> QED
    BY <1>4
<1> HIDE DEF f
<1>6. \A i \in 0 .. m - 1 : f[i] = IF i = 0 THEN 0 ELSE Advance(w, f, f[i - 1], w[i + 1])
  BY <1>5, Zenon
<1> HIDE DEF Def
<1> DEFINE S == {n \in Nat : n <= m => Borders(w, f, n)}
<1>7. 0 \in S
  BY DEF Borders
<1>8. ASSUME NEW n \in Nat, n \in S
      PROVE  n + 1 \in S
  <2> SUFFICES ASSUME n + 1 <= m PROVE Borders(w, f, n + 1)
    OBVIOUS
  <2>1. n < m /\ n <= m /\ n \in 0 .. m - 1 /\ (n + 1) - 1 = n
    BY <1>2
  <2> HIDE DEF m
  <2>4. Borders(w, f, n)
    BY <1>8, <2>1
  <2> USE DEF m
  <2>2. Longest(w, w, 1, n + 1, m, f[n])
    <3>1. CASE n = 0
      <4>1. w # <<>> /\ n + 1 = 1
        BY <2>1, <3>1
      <4>2. f[n] = 0
        BY <1>6, <2>1, <3>1
      <4> QED
        BY <4>1, <4>2, FirstBorder
    <3>2. CASE n # 0
      <4>1. f[n] = Advance(w, f, f[n - 1], w[n + 1])
        BY <1>6, <2>1, <3>2
      <4> QED
        BY <2>1, <2>4, <3>2, <4>1, BordersGrow
    <3> QED
      BY <3>1, <3>2
  <2>3. \A i \in 1 .. n + 1 : i = n + 1 \/ i \in 1 .. n
    OBVIOUS
  <2> QED
    BY <2>1, <2>2, <2>3, <2>4 DEF Borders
<1>9. Nat \subseteq S
  <2> HIDE DEF S
  <2> QED
    BY <1>7, <1>8, SetInduction
<1> QED
  BY <1>1, <1>2, <1>9

-----------------------------------------------------------------------------
(***************************************************************************)
(* The scan.                                                               *)
(***************************************************************************)
\* w stands in t at position at.
At(w, t, at) == \A x \in 1 .. Len(w) : w[x] = t[at + x]

\* It does so nowhere from a on, as far as position i.
Clear(w, t, a, i) == \A at \in Nat : a <= at /\ at + Len(w) <= i => ~At(w, t, at)

\* What the scan from off knows at position i: the longest beginning, and the
\* first match or the last one so far.
Seen(w, t, backward, off, i, s) ==
    /\ s.result = NotFound => Clear(w, t, off, i)
    /\ s.result # NotFound =>
        /\ s.result \in Nat /\ off <= s.result /\ s.result + Len(w) <= i
        /\ At(w, t, s.result)
        /\ backward => Clear(w, t, s.result + 1, i)
        /\ ~backward => Clear(w, t, off, s.result + Len(w) - 1)
    /\ backward \/ s.result = NotFound => Longest(w, t, off, i, Len(w) - 1, s.matched)

ScanStates(w) == [matched : 0 .. Len(w) - 1, result : Int]

LEMMA WordTyped ==
    ASSUME NEW w \in Seq(Chars), w # <<>>
    PROVE  Len(w) \in Nat /\ Len(w) >= 1
OBVIOUS

LEMMA FailureTyped ==
    ASSUME NEW w \in Seq(Chars), w # <<>>
    PROVE  /\ Failure(w)[Len(w) - 1] \in 0 .. Len(w) - 1
           /\ Ends(w, w, 1, Len(w), Failure(w)[Len(w) - 1])
           /\ \A k \in 0 .. Len(w) : Ends(w, w, 1, Len(w), k) => k <= Failure(w)[Len(w) - 1]
<1>1. Len(w) \in Nat /\ Len(w) \in 1 .. Len(w)
  BY WordTyped
<1> QED
  BY <1>1, FailureIsTable, BordersTyped

LEMMA ReadAdvances ==
    ASSUME NEW w \in Seq(Chars), w # <<>>, NEW last \in ScanStates(w), NEW c
    PROVE  /\ last.matched \in Nat /\ last.matched < Len(w)
           /\ Borders(w, Failure(w), last.matched)
           /\ Advance(w, Failure(w), last.matched, c) \in 0 .. Len(w)
<1>1. Len(w) \in Nat /\ Len(w) >= 1
  BY WordTyped
<1>2. last.matched \in 0 .. Len(w) - 1
  BY DEF ScanStates
<1>3. last.matched \in Nat /\ last.matched < Len(w)
  BY <1>1, <1>2
<1>4. \A i \in 1 .. last.matched : i \in 1 .. Len(w)
  BY <1>1, <1>3
<1>5. Borders(w, Failure(w), last.matched)
  BY <1>4, FailureIsTable DEF Borders
<1> QED
  BY <1>3, <1>5, AdvanceTyped

LEMMA ReadTyped ==
    ASSUME NEW w \in Seq(Chars), w # <<>>, NEW last \in ScanStates(w), NEW backward,
           NEW i \in Int, NEW c
    PROVE  Read(w, Failure(w), backward, last, i, c) \in ScanStates(w)
<1> DEFINE matched == Advance(w, Failure(w), last.matched, c)
<1>1. Len(w) \in Nat /\ Len(w) >= 1
  BY WordTyped
<1>2. matched \in 0 .. Len(w)
  BY ReadAdvances
<1>3. last.result \in Int
  BY DEF ScanStates
<1>4. Failure(w)[Len(w) - 1] \in 0 .. Len(w) - 1
  BY FailureTyped
<1> HIDE DEF matched
<1>5. matched < Len(w) => [matched |-> matched, result |-> last.result] \in ScanStates(w)
  BY <1>1, <1>2, <1>3 DEF ScanStates
<1>6. [matched |-> Failure(w)[Len(w) - 1], result |-> i - Len(w)] \in ScanStates(w)
  BY <1>1, <1>4 DEF ScanStates
<1> QED
  BY <1>5, <1>6 DEF Read, matched

\* A word that ends the text stands there.
LEMMA EndsIsAt ==
    ASSUME NEW w, Len(w) \in Nat, NEW t, NEW off \in Nat, NEW i \in Nat
    PROVE  /\ Ends(w, t, off, i, Len(w)) => /\ i - Len(w) \in Nat /\ off <= i - Len(w)
                                             /\ At(w, t, i - Len(w))
           /\ \A at \in Nat : off <= at /\ at + Len(w) = i /\ At(w, t, at)
                                 => Ends(w, t, off, i, Len(w))
<1>1. ASSUME Ends(w, t, off, i, Len(w))
      PROVE  i - Len(w) \in Nat /\ off <= i - Len(w) /\ At(w, t, i - Len(w))
  BY <1>1 DEF Ends, At
<1>2. ASSUME NEW at \in Nat, off <= at, at + Len(w) = i, At(w, t, at)
      PROVE  Ends(w, t, off, i, Len(w))
  <2>1. Len(w) \in 0 .. i - off /\ i - Len(w) = at
    BY <1>2
  <2> QED
    BY <1>2, <2>1 DEF Ends, At
<1> QED
  BY <1>1, <1>2

\* Nothing new ends here.
LEMMA ClearGrows ==
    ASSUME NEW w, Len(w) \in Nat, NEW t, NEW off \in Nat, NEW a \in Nat, off <= a,
           NEW i \in Nat, Clear(w, t, a, i), ~Ends(w, t, off, i + 1, Len(w))
    PROVE  Clear(w, t, a, i + 1)
<1> SUFFICES ASSUME NEW at \in Nat, a <= at, at + Len(w) <= i + 1, At(w, t, at)
             PROVE  FALSE
  BY DEF Clear
<1>1. CASE at + Len(w) <= i
  BY <1>1 DEF Clear
<1>2. CASE at + Len(w) = i + 1
  <2>1. off <= at /\ i + 1 \in Nat
    OBVIOUS
  <2> QED
    BY <1>2, <2>1, EndsIsAt
<1> QED
  BY <1>1, <1>2

\* Behind a match, the longest beginning is the longest that begins again.
LEMMA LongestBehind ==
    ASSUME NEW w \in Seq(Chars), w # <<>>, NEW t, NEW off \in Nat, NEW i \in Nat,
           Ends(w, t, off, i, Len(w))
    PROVE  Longest(w, t, off, i, Len(w) - 1, Failure(w)[Len(w) - 1])
<1> DEFINE m == Len(w)
           k == Failure(w)[m - 1]
<1>1. m \in Nat /\ m >= 1
  BY WordTyped
<1>2. /\ k \in 0 .. m - 1 /\ Ends(w, w, 1, m, k)
      /\ \A n \in 0 .. m : Ends(w, w, 1, m, n) => n <= k
  BY FailureTyped
<1> HIDE DEF k
<1>3. Ends(w, t, off, i, k)
  BY <1>1, <1>2, EndsWithin
<1>4. ASSUME NEW n \in 0 .. m - 1, Ends(w, t, off, i, n)
      PROVE  n <= k
  <2>1. n < m /\ n \in 0 .. m
    BY <1>1
  <2>2. Ends(w, w, 1, m, n)
    BY <1>1, <1>4, <2>1, EndsShorter
  <2> QED
    BY <1>2, <2>1, <2>2
<1>5. k <= m - 1
  BY <1>2
<1> QED
  BY <1>3, <1>4, <1>5 DEF Longest, k

\* Reading a character keeps what is known.
LEMMA ReadSees ==
    ASSUME NEW w \in Seq(Chars), w # <<>>, NEW t, NEW backward \in BOOLEAN,
           NEW off \in Nat, NEW i \in Nat, off <= i,
           NEW last \in ScanStates(w), Seen(w, t, backward, off, i, last)
    PROVE  Seen(w, t, backward, off, i + 1,
                Read(w, Failure(w), backward, last, i + 1, t[i + 1]))
<1> DEFINE m == Len(w)
           k == Advance(w, Failure(w), last.matched, t[i + 1])
           new == Read(w, Failure(w), backward, last, i + 1, t[i + 1])
<1>1. m \in Nat /\ m >= 1 /\ last.result \in Int
  BY WordTyped DEF ScanStates
<1>2. CASE ~backward /\ last.result # NotFound
  <2>1. new = last
    BY <1>2 DEF Read
  <2>2. /\ last.result \in Nat /\ off <= last.result /\ last.result + m <= i
        /\ At(w, t, last.result) /\ Clear(w, t, off, last.result + m - 1)
    BY <1>2 DEF Seen
  <2>3. last.result + m <= i + 1
    BY <1>1, <2>2
  <2> QED
    BY <1>2, <2>1, <2>2, <2>3 DEF Seen
<1>3. CASE backward \/ last.result = NotFound
  <2>1. Longest(w, t, off, i, m - 1, last.matched)
    BY <1>3 DEF Seen
  <2>2. last.matched \in Nat /\ last.matched < m /\ Borders(w, Failure(w), last.matched)
        /\ k \in 0 .. m
    BY ReadAdvances
  <2>3. Longest(w, t, off, i + 1, m, k)
    BY <2>1, <2>2, AdvanceLongest
  <2>4. CASE k < m
    <3>1. new = [matched |-> k, result |-> last.result]
      BY <1>3, <2>4 DEF Read
    <3>2. new.matched = k /\ new.result = last.result
      BY <3>1
    <3>3. ~Ends(w, t, off, i + 1, m)
      <4>1. m \in 0 .. m /\ ~(m <= k)
        BY <1>1, <2>2, <2>4
      <4> QED
        BY <2>3, <4>1 DEF Longest
    <3>4. Longest(w, t, off, i + 1, m - 1, k)
      <4>1. k <= m - 1 /\ \A n \in 0 .. m - 1 : n \in 0 .. m
        BY <1>1, <2>2, <2>4
      <4> QED
        BY <2>3, <4>1 DEF Longest
    <3>5. ASSUME last.result = NotFound
          PROVE  Clear(w, t, off, i + 1)
      <4>1. Clear(w, t, off, i) /\ off <= off
        BY <3>5 DEF Seen
      <4> QED
        BY <1>1, <3>3, <4>1, ClearGrows
    <3>6. ASSUME last.result # NotFound
          PROVE  /\ last.result \in Nat /\ off <= last.result /\ last.result + m <= i + 1
                 /\ At(w, t, last.result) /\ Clear(w, t, last.result + 1, i + 1)
      <4>1. /\ last.result \in Nat /\ off <= last.result /\ last.result + m <= i
            /\ At(w, t, last.result) /\ Clear(w, t, last.result + 1, i)
        BY <1>3, <3>6 DEF Seen
      <4>2. last.result + 1 \in Nat /\ off <= last.result + 1 /\ last.result + m <= i + 1
        BY <1>1, <4>1
      <4>3. Clear(w, t, last.result + 1, i + 1)
        BY <1>1, <3>3, <4>1, <4>2, ClearGrows
      <4> QED
        BY <4>1, <4>2, <4>3
    <3>7. last.result # NotFound => backward
      BY <1>3
    <3>8. Seen(w, t, backward, off, i + 1, new)
      <4> HIDE DEF new, k
      <4> QED
        BY <3>2, <3>4, <3>5, <3>6, <3>7 DEF Seen
    <3> QED
      BY <3>8
  <2>5. CASE ~(k < m)
    <3>1. k = m
      BY <1>1, <2>2, <2>5
    <3>2. new = [matched |-> Failure(w)[m - 1], result |-> (i + 1) - m]
      BY <1>3, <2>5 DEF Read
    <3>3. new.matched = Failure(w)[m - 1] /\ new.result = (i + 1) - m
      BY <3>2
    <3>4. Ends(w, t, off, i + 1, m)
      BY <2>3, <3>1 DEF Longest
    <3>5. (i + 1) - m \in Nat /\ off <= (i + 1) - m /\ At(w, t, (i + 1) - m)
      <4>1. i + 1 \in Nat
        OBVIOUS
      <4> QED
        BY <1>1, <3>4, <4>1, EndsIsAt
    <3>6. (i + 1) - m # NotFound
      BY <3>5 DEF NotFound
    <3>7. Longest(w, t, off, i + 1, m - 1, Failure(w)[m - 1])
      BY <3>4, LongestBehind
    <3>8. Clear(w, t, (i + 1) - m + 1, i + 1)
      BY <1>1, <3>5 DEF Clear
    <3>9. ~backward => Clear(w, t, off, (i + 1) - m + m - 1)
      <4>1. (i + 1) - m + m - 1 = i
        BY <1>1
      <4>2. ~backward => Clear(w, t, off, i)
        BY <1>3 DEF Seen
      <4> QED
        BY <4>1, <4>2
    <3>10. (i + 1) - m + m <= i + 1
      BY <1>1
    <3>11. Seen(w, t, backward, off, i + 1, new)
      <4> DEFINE r == (i + 1) - m
      <4>1. /\ r \in Nat /\ off <= r /\ At(w, t, r) /\ r # NotFound /\ Clear(w, t, r + 1, i + 1)
            /\ ~backward => Clear(w, t, off, r + m - 1)
            /\ r + m <= i + 1
        BY <3>5, <3>6, <3>8, <3>9, <3>10
      <4>2. new.matched = Failure(w)[m - 1] /\ new.result = r
        BY <3>3
      <4> HIDE DEF new, k, r
      <4> QED
        BY <3>7, <4>1, <4>2 DEF Seen
    <3> QED
      BY <3>11
  <2> QED
    BY <2>4, <2>5
<1> QED
  BY <1>2, <1>3

\* The scan of t from off to limit, and what it finds.
Scan(w, t, backward, off, limit) ==
    LET scan[i \in off .. limit] ==
            IF i = off THEN [matched |-> 0, result |-> NotFound]
            ELSE Read(w, Failure(w), backward, scan[i - 1], i, t[i])
    IN  scan[limit]

Scanned(w, t, backward, off, limit, f) ==
    /\ f \in [off .. limit -> ScanStates(w)]
    /\ \A i \in off .. limit :
            f[i] = IF i = off THEN [matched |-> 0, result |-> NotFound]
                   ELSE Read(w, Failure(w), backward, f[i - 1], i, t[i])

LEMMA ScanRuns ==
    ASSUME NEW w \in Seq(Chars), w # <<>>, NEW t, NEW backward,
           NEW off \in Nat, NEW limit \in Nat, off <= limit
    PROVE  \E f : /\ Scan(w, t, backward, off, limit) = f[limit]
                  /\ Scanned(w, t, backward, off, limit, f)
<1> DEFINE D == off .. limit
           V == ScanStates(w)
           first == [matched |-> 0, result |-> NotFound]
           stop == {off}
           base == [i \in D |-> first]
           step == [i \in D |-> [v \in V |-> Read(w, Failure(w), backward, v, i, t[i])]]
           next == [i \in D |-> i - 1]
           size == [i \in D |-> i]
           Def(s) == s = [i \in off .. limit |->
                            IF i = off THEN [matched |-> 0, result |-> NotFound]
                            ELSE Read(w, Failure(w), backward, s[i - 1], i, t[i])]
           f == CHOOSE s : Def(s)
<1>1. Scan(w, t, backward, off, limit) = f[limit]
  BY DEF Scan
<1>2. first \in V
  BY WordTyped DEF ScanStates, NotFound
<1>3. \A i \in D : i \in Int /\ i \in Nat /\ (i # off => i - 1 \in D /\ i - 1 < i)
  OBVIOUS
<1>4. \A i \in D : \A v \in V : Read(w, Failure(w), backward, v, i, t[i]) \in V
  BY <1>3, ReadTyped
<1>5. Descent(D, V, stop, base, step, next, size)
  <2> HIDE DEF first, D, V
  <2>1. \A x \in D : size[x] \in Nat
    BY <1>3
  <2>2. \A x \in D : x \in stop => base[x] \in V
    BY <1>2
  <2>3. \A x \in D : x \notin stop => next[x] \in D /\ size[next[x]] < size[x]
    BY <1>3
  <2>4. \A x \in D : step[x] \in [V -> V]
    BY <1>4
  <2> HIDE DEF stop, base, step, next, size
  <2> QED
    BY <2>1, <2>2, <2>3, <2>4, Zenon DEF Descent
<1>6. \E g : Descends(g, D, V, stop, base, step, next)
  <2>1. limit + 1 \in Nat /\ \A x \in D : size[x] < limit + 1
    OBVIOUS
  <2> HIDE DEF D, V, stop, base, step, next, size
  <2> QED
    BY <1>5, <2>1, DescentExists, Zenon
<1>7. PICK g : Descends(g, D, V, stop, base, step, next)
  BY <1>6
<1>8. Def(g)
  <2>1. g \in [D -> V]
    BY <1>7 DEF Descends
  <2>2. ASSUME NEW i \in D
        PROVE  g[i] = IF i = off THEN first ELSE Read(w, Failure(w), backward, g[i - 1], i, t[i])
    <3>1. g[i] = IF i \in stop THEN base[i] ELSE step[i][g[next[i]]]
      <4> HIDE DEF D, V, stop, base, step, next
      <4> QED
        BY <1>7 DEF Descends
    <3> HIDE DEF first, D, V
    <3>2. CASE i = off
      BY <3>1, <3>2
    <3>3. CASE i # off
      <4>1. next[i] = i - 1 /\ i - 1 \in D
        BY <1>3, <3>3
      <4>2. g[i - 1] \in V
        BY <2>1, <4>1
      <4>3. step[i][g[i - 1]] = Read(w, Failure(w), backward, g[i - 1], i, t[i])
        BY <4>2
      <4> QED
        BY <3>1, <3>3, <4>1, <4>3
    <3> QED
      BY <3>2, <3>3
  <2>3. g = [i \in D |-> g[i]]
    BY <2>1
  <2> QED
    BY <2>2, <2>3, Zenon
<1>9. Def(f)
  <2> HIDE DEF Def
  <2> QED
    BY <1>8
<1> HIDE DEF f
<1>10. \A i \in D : f[i] = IF i = off THEN first
                           ELSE Read(w, Failure(w), backward, f[i - 1], i, t[i])
  BY <1>9, Zenon
<1>11. f \in [D -> V]
  <2>1. f = [x \in D |-> f[x]]
    BY <1>9, <1>10, Zenon
  <2> HIDE DEF first, D, V, Def
  <2>2. \A x \in D : x \in stop => f[x] = base[x]
    BY <1>10
  <2>3. \A x \in D : x \notin stop /\ f[next[x]] \in V => f[x] = step[x][f[next[x]]]
    BY <1>10
  <2> HIDE DEF stop, base, step, next, size
  <2>4. Descends(f, D, V, stop, base, step, next)
    BY <1>5, <2>1, <2>2, <2>3, DescentTyped, Zenon
  <2> QED
    BY <2>4 DEF Descends
<1> HIDE DEF Def
<1> QED
  BY <1>1, <1>10, <1>11, Zenon DEF Scanned

LEMMA ScanSees ==
    ASSUME NEW w \in Seq(Chars), w # <<>>, NEW t, NEW backward \in BOOLEAN,
           NEW off \in Nat, NEW limit \in Nat, off <= limit
    PROVE  /\ Scan(w, t, backward, off, limit) \in ScanStates(w)
           /\ Seen(w, t, backward, off, limit, Scan(w, t, backward, off, limit))
<1>1. PICK f : /\ Scan(w, t, backward, off, limit) = f[limit]
               /\ Scanned(w, t, backward, off, limit, f)
  BY ScanRuns
<1>2. \A i \in off .. limit : f[i] \in ScanStates(w)
  BY <1>1 DEF Scanned
<1> DEFINE S == {n \in Nat : n \in off .. limit => Seen(w, t, backward, off, n, f[n])}
<1>3. Seen(w, t, backward, off, off, f[off])
  <2>1. off \in off .. limit
    OBVIOUS
  <2>2. f[off] = [matched |-> 0, result |-> NotFound]
    BY <1>1, <2>1 DEF Scanned
  <2>3. f[off].matched = 0 /\ f[off].result = NotFound
    BY <2>2
  <2>4. Len(w) \in Nat /\ Len(w) >= 1
    BY WordTyped
  <2>5. Clear(w, t, off, off)
    BY <2>4 DEF Clear
  <2>6. Longest(w, t, off, off, Len(w) - 1, 0)
    BY <2>4 DEF Longest, Ends
  <2> QED
    BY <2>3, <2>5, <2>6 DEF Seen
<1>4. 0 \in S
  <2>1. 0 \in off .. limit => off = 0
    OBVIOUS
  <2> QED
    BY <1>3, <2>1
<1>5. ASSUME NEW n \in Nat, n \in S
      PROVE  n + 1 \in S
  <2> SUFFICES ASSUME n + 1 \in off .. limit
               PROVE  Seen(w, t, backward, off, n + 1, f[n + 1])
    OBVIOUS
  <2>1. CASE n + 1 = off
    BY <1>3, <2>1
  <2>2. CASE n + 1 # off
    <3>1. n \in off .. limit /\ off <= n /\ (n + 1) - 1 = n
      BY <2>2
    <3>2. Seen(w, t, backward, off, n, f[n]) /\ f[n] \in ScanStates(w)
      BY <1>2, <1>5, <3>1
    <3>3. f[n + 1] = Read(w, Failure(w), backward, f[n], n + 1, t[n + 1])
      <4>1. f[n + 1] = IF n + 1 = off THEN [matched |-> 0, result |-> NotFound]
                       ELSE Read(w, Failure(w), backward, f[(n + 1) - 1], n + 1, t[n + 1])
        BY <1>1 DEF Scanned
      <4> QED
        BY <2>2, <3>1, <4>1
    <3>4. Seen(w, t, backward, off, n + 1, Read(w, Failure(w), backward, f[n], n + 1, t[n + 1]))
      BY <3>1, <3>2, ReadSees
    <3> QED
      BY <3>3, <3>4
  <2> QED
    BY <2>1, <2>2
<1>6. Nat \subseteq S
  <2> HIDE DEF S
  <2> QED
    BY <1>4, <1>5, SetInduction
<1>7. limit \in off .. limit
  OBVIOUS
<1> QED
  BY <1>1, <1>2, <1>6, <1>7

-----------------------------------------------------------------------------
(***************************************************************************)
(* What editor_find promises.                                              *)
(***************************************************************************)
\* r is the first place of w in t from start on.
IsFirst(t, w, start, r) ==
    IF r = NotFound
    THEN \A at \in Nat : Occurs(t, w, at) => at < start
    ELSE /\ r \in Nat /\ Occurs(t, w, r) /\ start <= r
         /\ \A at \in Nat : Occurs(t, w, at) /\ start <= at => r <= at

\* r is the last place of w in t that ends by start.
IsLast(t, w, start, r) ==
    IF r = NotFound
    THEN \A at \in Nat : Occurs(t, w, at) => at + Len(w) > start
    ELSE /\ r \in Nat /\ Occurs(t, w, r) /\ r + Len(w) <= start
         /\ \A at \in Nat : Occurs(t, w, at) /\ at + Len(w) <= start => at <= r

\* Occurrence, character by character.
LEMMA OccursIsAt ==
    ASSUME NEW t \in Seq(Chars), NEW w \in Seq(Chars), NEW at \in Nat
    PROVE  Occurs(t, w, at) <=> at + Len(w) <= Len(t) /\ At(w, t, at)
<1>1. Len(t) \in Nat /\ Len(w) \in Nat
  OBVIOUS
<1> DEFINE u == SubSeq(t, at + 1, at + Len(w))
<1> SUFFICES ASSUME at + Len(w) <= Len(t)
             PROVE  u = w <=> At(w, t, at)
  BY DEF Occurs
<1>2. u \in Seq(Chars) /\ Len(u) = Len(w)
  BY <1>1
<1>3. \A x \in 1 .. Len(w) : u[x] = t[at + x]
  BY <1>1
<1> HIDE DEF u
<1>4. u = w => At(w, t, at)
  BY <1>3 DEF At
<1>5. At(w, t, at) => u = w
  <2> SUFFICES ASSUME At(w, t, at) PROVE u = w
    OBVIOUS
  <2>1. \A x \in 1 .. Len(w) : u[x] = w[x]
    BY <1>3 DEF At
  <2> QED
    BY <1>2, <2>1, SeqEqual
<1> QED
  BY <1>4, <1>5

\* The search is the scan of a part of the text.
LEMMA FindScans ==
    ASSUME NEW w \in Seq(Chars), w # <<>>, NEW t \in Seq(Chars), NEW start \in Nat
    PROVE  /\ \E off \in Nat : /\ off <= Len(t) /\ off <= start
                               /\ off = start \/ off = Len(t)
                               /\ Find(t, w, start, FALSE) = Scan(w, t, FALSE, off, Len(t)).result
           /\ \E limit \in Nat : /\ limit <= Len(t) /\ limit <= start
                                 /\ limit = start \/ limit = Len(t)
                                 /\ Find(t, w, start, TRUE) = Scan(w, t, TRUE, 0, limit).result
<1> DEFINE from == IF start > Len(t) THEN Len(t) ELSE start
<1>1. from \in Nat /\ from <= Len(t) /\ from <= start /\ (from = start \/ from = Len(t))
  OBVIOUS
<1>2. Find(t, w, start, FALSE) = Scan(w, t, FALSE, from, Len(t)).result
  BY DEF Find, Scan
<1>3. Find(t, w, start, TRUE) = Scan(w, t, TRUE, 0, from).result
  BY DEF Find, Scan
<1> HIDE DEF from
<1> QED
  BY <1>1, <1>2, <1>3

\* Forward, the first occurrence from a position on is found.
LEMMA FindsFirst ==
    ASSUME NEW w \in Seq(Chars), w # <<>>, NEW t \in Seq(Chars), NEW start \in Nat
    PROVE  IsFirst(t, w, start, Find(t, w, start, FALSE))
<1>1. PICK off \in Nat : /\ off <= Len(t) /\ off <= start
                         /\ off = start \/ off = Len(t)
                         /\ Find(t, w, start, FALSE) = Scan(w, t, FALSE, off, Len(t)).result
  BY FindScans
<1> DEFINE s == Scan(w, t, FALSE, off, Len(t))
           r == s.result
<1>2. Len(t) \in Nat /\ Len(w) \in Nat /\ Len(w) >= 1 /\ FALSE \in BOOLEAN
  BY WordTyped
<1>3. s \in ScanStates(w) /\ Seen(w, t, FALSE, off, Len(t), s)
  BY <1>1, <1>2, ScanSees
<1>4. \A at \in Nat : Occurs(t, w, at) <=> at + Len(w) <= Len(t) /\ At(w, t, at)
  BY OccursIsAt
<1> HIDE DEF s
<1>5. CASE r = NotFound
  <2>1. Clear(w, t, off, Len(t))
    BY <1>3, <1>5 DEF Seen
  <2>2. ASSUME NEW at \in Nat, Occurs(t, w, at)
        PROVE  at < start
    <3>1. at + Len(w) <= Len(t) /\ At(w, t, at)
      BY <1>4, <2>2
    <3>2. ~(off <= at)
      BY <2>1, <3>1 DEF Clear
    <3> QED
      BY <1>1, <1>2, <3>2
  <2>3. IsFirst(t, w, start, r)
    <3> HIDE DEF r
    <3> QED
      BY <1>5, <2>2 DEF IsFirst
  <2> QED
    BY <1>1, <2>3 DEF s
<1>6. CASE r # NotFound
  <2>1. /\ r \in Nat /\ off <= r /\ r + Len(w) <= Len(t) /\ At(w, t, r)
        /\ Clear(w, t, off, r + Len(w) - 1)
    BY <1>3, <1>6 DEF Seen
  <2> HIDE DEF r
  <2>2. Occurs(t, w, r)
    BY <1>4, <2>1
  <2>3. start <= r
    BY <1>1, <1>2, <2>1
  <2>4. ASSUME NEW at \in Nat, Occurs(t, w, at), start <= at
        PROVE  r <= at
    <3>1. At(w, t, at) /\ off <= at
      BY <1>1, <1>4, <2>4
    <3>2. ~(at + Len(w) <= r + Len(w) - 1)
      BY <2>1, <3>1 DEF Clear
    <3> QED
      BY <1>2, <2>1, <3>2
  <2>5. IsFirst(t, w, start, r)
    BY <1>6, <2>1, <2>2, <2>3, <2>4 DEF IsFirst
  <2> QED
    BY <1>1, <2>5 DEF s, r
<1> QED
  BY <1>5, <1>6

\* Backward, the last one that ends by it.
LEMMA FindsLast ==
    ASSUME NEW w \in Seq(Chars), w # <<>>, NEW t \in Seq(Chars), NEW start \in Nat
    PROVE  IsLast(t, w, start, Find(t, w, start, TRUE))
<1>1. PICK limit \in Nat : /\ limit <= Len(t) /\ limit <= start
                           /\ limit = start \/ limit = Len(t)
                           /\ Find(t, w, start, TRUE) = Scan(w, t, TRUE, 0, limit).result
  BY FindScans
<1> DEFINE s == Scan(w, t, TRUE, 0, limit)
           r == s.result
<1>2. Len(t) \in Nat /\ Len(w) \in Nat /\ Len(w) >= 1 /\ TRUE \in BOOLEAN /\ 0 \in Nat /\ 0 <= limit
  BY WordTyped
<1>3. s \in ScanStates(w) /\ Seen(w, t, TRUE, 0, limit, s)
  BY <1>2, ScanSees
<1>4. \A at \in Nat : Occurs(t, w, at) <=> at + Len(w) <= Len(t) /\ At(w, t, at)
  BY OccursIsAt
<1> HIDE DEF s
<1>5. CASE r = NotFound
  <2>1. Clear(w, t, 0, limit)
    BY <1>3, <1>5 DEF Seen
  <2>2. ASSUME NEW at \in Nat, Occurs(t, w, at)
        PROVE  at + Len(w) > start
    <3>1. at + Len(w) <= Len(t) /\ At(w, t, at)
      BY <1>4, <2>2
    <3>2. ~(at + Len(w) <= limit)
      BY <2>1, <3>1 DEF Clear
    <3> QED
      BY <1>1, <1>2, <3>1, <3>2
  <2>3. IsLast(t, w, start, r)
    <3> HIDE DEF r
    <3> QED
      BY <1>5, <2>2 DEF IsLast
  <2> QED
    BY <1>1, <2>3 DEF s
<1>6. CASE r # NotFound
  <2>1. /\ r \in Nat /\ r + Len(w) <= limit /\ At(w, t, r) /\ Clear(w, t, r + 1, limit)
    BY <1>3, <1>6 DEF Seen
  <2> HIDE DEF r
  <2>2. Occurs(t, w, r)
    <3>1. r + Len(w) <= Len(t)
      BY <1>1, <1>2, <2>1
    <3> QED
      BY <1>4, <2>1, <3>1
  <2>3. r + Len(w) <= start
    BY <1>1, <1>2, <2>1
  <2>4. ASSUME NEW at \in Nat, Occurs(t, w, at), at + Len(w) <= start
        PROVE  at <= r
    <3>1. At(w, t, at) /\ at + Len(w) <= limit
      BY <1>1, <1>4, <2>4
    <3>2. ~(r + 1 <= at)
      BY <2>1, <3>1 DEF Clear
    <3> QED
      BY <2>1, <3>2
  <2>5. IsLast(t, w, start, r)
    BY <1>6, <2>1, <2>2, <2>3, <2>4 DEF IsLast
  <2> QED
    BY <1>1, <2>5 DEF s, r
<1> QED
  BY <1>5, <1>6

-----------------------------------------------------------------------------
(***************************************************************************)
(* The prompts: what holds of them at every step.                          *)
(***************************************************************************)
\* What a search with input w shows of a text: where w stands at point or,
\* that it stands nowhere on from where the search began.
Shown(t, w, p, failed, origin, backward) ==
    IF ~failed
    THEN Occurs(t, w, IF backward THEN p ELSE p - Len(w))
    ELSE \A at \in 0 .. Len(t) :
            Occurs(t, w, at) => IF backward THEN at + Len(w) > origin ELSE at < origin

\* The types, and what they need: words go back into the minibuffer, point goes
\* back to where a search began, and no replacement is of nothing.
Typed ==
    /\ TypeOK
    /\ all \in BOOLEAN
    /\ Len(last_search) <= MaxInput /\ Len(search_good) <= MaxInput
    /\ prompt_command \in {"query-to", "replace-to"} => replace_from # <<>>
    /\ Searching /\ alone => search_origin <= Len(text)

ShowsMatch ==
    Searching /\ alone /\ input # <<>> =>
        IF Unlooked THEN point = search_origin
        ELSE Shown(text, input, point, search_failed, search_origin, search_backward)

\* With nobody else there, what is asked about stands where it is asked about.
AsksOfMatch == Stepping /\ alone => Occurs(text, replace_from, replace_at)

\* Text t with every w from position p on replaced by s.
Rewritten(t, w, s, p) ==
    LET rest[i \in 0 .. Len(t)] ==
            IF i = Len(t) THEN <<>>
            ELSE IF Occurs(t, w, i) THEN s \o rest[i + Len(w)]
            ELSE <<t[i + 1]>> \o rest[i + 1]
    IN  SubSeq(t, 1, p) \o rest[p]

LEMMA AllReplacedIs ==
    ASSUME NEW t, NEW p PROVE AllReplaced(t, p) = Rewritten(t, replace_from, replace_to, p)
BY DEF AllReplaced, Rewritten

\* With what the loop has still to replace replaced, the text is what it promised;
\* in a read-only buffer it is still the one the loop began with.
LoopPromise ==
    all /\ alone =>
        /\ Rewritten(text, replace_from, replace_to, replace_at)
               = Rewritten(before.text, replace_from, replace_to, before.at)
        /\ readonly => text = before.text

PromptInv == Typed /\ ShowsMatch /\ AsksOfMatch /\ LoopPromise

LEMMA ShowsIsProperty == Typed /\ ShowsMatch => SearchShowsMatch
BY DEF Typed, ShowsMatch, SearchShowsMatch, Shown

\* What editor_find returns is in the text.
LEMMA FindTyped ==
    ASSUME NEW w \in Seq(Chars), w # <<>>, NEW t \in Seq(Chars), NEW start \in Nat,
           NEW backward \in BOOLEAN, Find(t, w, start, backward) # NotFound
    PROVE  /\ Find(t, w, start, backward) \in Nat
           /\ Find(t, w, start, backward) + Len(w) <= Len(t)
           /\ Occurs(t, w, Find(t, w, start, backward))
<1>1. CASE backward
  BY <1>1, FindsLast DEF IsLast, Occurs
<1>2. CASE ~backward
  BY <1>2, FindsFirst DEF IsFirst, Occurs
<1> QED
  BY <1>1, <1>2

\* One that fails to find, from where the search began.
LEMMA MissShown ==
    ASSUME NEW w \in Seq(Chars), w # <<>>, NEW t \in Seq(Chars), NEW start \in Nat,
           NEW backward \in BOOLEAN, Find(t, w, start, backward) = NotFound, NEW p
    PROVE  Shown(t, w, p, TRUE, start, backward)
<1>0. Len(t) \in Nat /\ \A at \in 0 .. Len(t) : at \in Nat
  OBVIOUS
<1>1. CASE backward
  <2>1. \A at \in Nat : Occurs(t, w, at) => at + Len(w) > start
    BY <1>1, FindsLast DEF IsLast
  <2> QED
    BY <1>0, <1>1, <2>1 DEF Shown
<1>2. CASE ~backward
  <2>1. \A at \in Nat : Occurs(t, w, at) => at < start
    BY <1>2, FindsFirst DEF IsFirst
  <2> QED
    BY <1>0, <1>2, <2>1 DEF Shown
<1> QED
  BY <1>1, <1>2

\* One that fails to find from the end of the text.
LEMMA MissEverywhere ==
    ASSUME NEW w \in Seq(Chars), w # <<>>, NEW t \in Seq(Chars), NEW origin \in Nat,
           NEW backward \in BOOLEAN, NEW p,
           Find(t, w, IF backward THEN Len(t) ELSE 0, backward) = NotFound
    PROVE  Shown(t, w, p, TRUE, origin, backward)
<1>0. Len(t) \in Nat /\ 0 \in Nat /\ \A at \in 0 .. Len(t) : at \in Nat
  OBVIOUS
<1>1. CASE backward
  <2>1. Find(t, w, Len(t), TRUE) = NotFound
    BY <1>1
  <2>2. \A at \in Nat : Occurs(t, w, at) => at + Len(w) > Len(t)
    BY <1>0, <2>1, FindsLast DEF IsLast
  <2>3. \A at \in Nat : ~Occurs(t, w, at)
    BY <1>0, <2>2, WordTyped DEF Occurs
  <2> QED
    BY <1>0, <2>3 DEF Shown
<1>2. CASE ~backward
  <2>1. Find(t, w, 0, FALSE) = NotFound
    BY <1>2
  <2>2. \A at \in Nat : Occurs(t, w, at) => at < 0
    BY <1>0, <2>1, FindsFirst DEF IsFirst
  <2>3. \A at \in Nat : ~Occurs(t, w, at)
    BY <2>2
  <2> QED
    BY <1>0, <2>3 DEF Shown
<1> QED
  BY <1>1, <1>2

\* What a search leaves.
LEMMA SearchResult ==
    ASSUME NEW repeat \in BOOLEAN, NEW needle \in Seq(Chars), needle # <<>>,
           NEW p \in Nat, NEW backward \in BOOLEAN,
           text \in Seq(Chars), search_origin \in Nat,
           search_failed \in BOOLEAN, search_wrapped \in BOOLEAN,
           SearchUpdate(repeat, needle, p, backward)
    PROVE  /\ point' \in Nat /\ (point' = p \/ point' <= Len(text))
           /\ search_failed' \in BOOLEAN /\ search_wrapped' \in BOOLEAN
           /\ search_good' = search_good \/ search_good' = needle
           /\ ~search_failed' => search_good' = needle
           /\ Shown(text, needle, point', search_failed', search_origin, backward)
<1> DEFINE start == IF repeat THEN From(needle, p, backward) ELSE search_origin
           first == Find(text, needle, start, backward)
           wraps == repeat /\ first = NotFound
           end == IF backward THEN Len(text) ELSE 0
           at == IF wraps THEN Find(text, needle, end, backward) ELSE first
<1>1. /\ search_wrapped' = (search_wrapped \/ wraps)
      /\ search_failed' = (at = NotFound)
      /\ IF at = NotFound
         THEN point' = p /\ search_good' = search_good
         ELSE /\ point' = IF backward THEN at ELSE at + Len(needle)
              /\ search_good' = needle
  BY DEF SearchUpdate
<1>2. Len(text) \in Nat /\ Len(needle) \in Nat /\ Len(needle) >= 1
  BY WordTyped
<1>3. start \in Nat /\ end \in Nat
  <2>1. From(needle, p, backward) \in Nat
    BY <1>2 DEF From
  <2> QED
    BY <1>2, <2>1
<1> HIDE DEF start, end
<1>4. at # NotFound => at \in Nat /\ at + Len(needle) <= Len(text) /\ Occurs(text, needle, at)
  BY <1>3, FindTyped
<1>5. CASE at # NotFound
  <2>1. point' = (IF backward THEN at ELSE at + Len(needle)) /\ ~search_failed'
        /\ search_good' = needle
    BY <1>1, <1>5
  <2> HIDE DEF at, wraps
  <2>2. point' \in Nat /\ point' <= Len(text)
    BY <1>2, <1>4, <1>5, <2>1
  <2>3. at = IF backward THEN point' ELSE point' - Len(needle)
    BY <1>2, <1>4, <1>5, <2>1
  <2>4. Shown(text, needle, point', search_failed', search_origin, backward)
    BY <1>4, <1>5, <2>1, <2>3 DEF Shown
  <2>5. search_failed' \in BOOLEAN /\ search_wrapped' \in BOOLEAN
    BY <1>1
  <2> QED
    BY <2>1, <2>2, <2>4, <2>5
<1>6. CASE at = NotFound
  <2>1. point' = p /\ search_failed' = TRUE /\ search_good' = search_good
    BY <1>1, <1>6
  <2>2. Shown(text, needle, point', TRUE, search_origin, backward)
    <3>1. CASE repeat
      <4>1. Find(text, needle, end, backward) = NotFound
        BY <1>6, <3>1
      <4> QED
        BY <4>1, MissEverywhere DEF end
    <3>2. CASE ~repeat
      <4>1. Find(text, needle, search_origin, backward) = NotFound
        BY <1>6, <3>2 DEF start
      <4> QED
        BY <4>1, MissShown
    <3> QED
      BY <3>1, <3>2
  <2>3. search_wrapped' \in BOOLEAN
    BY <1>1
  <2> QED
    BY <2>1, <2>2, <2>3
<1> QED
  BY <1>5, <1>6

-----------------------------------------------------------------------------
(***************************************************************************)
(* Keys of a search and of the prompts that ask for a word.                *)
(***************************************************************************)
\* What no key of a prompt changes as long as the prompt stays open.
PromptStays ==
    /\ Key
    /\ UNCHANGED <<text, mark, prompt_command, search_origin, last_search, query>>

\* What the minibuffer and the search may become.
Input(new, at) == new \in Seq(Chars) /\ Len(new) <= MaxInput /\ at \in 0 .. Len(new)

Looking(p, backward, failed, wrapped, good) ==
    /\ p \in Nat /\ (alone => p <= Len(text))
    /\ backward \in BOOLEAN /\ failed \in BOOLEAN /\ wrapped \in BOOLEAN
    /\ good \in Seq(Chars) /\ Len(good) <= MaxInput

LEMMA StaysTyped ==
    ASSUME Typed, PromptStays, Input(input', input_point'),
           Looking(point', search_backward', search_failed', search_wrapped', search_good')
    PROVE  Typed'
BY DEF Typed, TypeOK, PromptStays, Key, Input, Looking, query, Searching, Asking, Stepping

LEMMA StaysOther ==
    ASSUME AsksOfMatch, LoopPromise, PromptStays
    PROVE  AsksOfMatch' /\ LoopPromise'
<1>1. /\ text' = text /\ prompt_command' = prompt_command /\ alone' = alone /\ all' = all
      /\ before' = before /\ readonly' = readonly
      /\ replace_from' = replace_from /\ replace_to' = replace_to /\ replace_at' = replace_at
  BY DEF PromptStays, Key, query
<1>2. AsksOfMatch'
  BY <1>1, Zenon DEF AsksOfMatch, Stepping
<1>3. LoopPromise'
  BY <1>1, Zenon DEF LoopPromise
<1> QED
  BY <1>2, <1>3

\* What is typed of them.
LEMMA NowTyped ==
    ASSUME Typed
    PROVE  /\ Input(input, input_point) /\ Input(last_search, Len(last_search))
           /\ Input(search_good, Len(search_good)) /\ Input(<<>>, 0)
           /\ Looking(point, search_backward, search_failed, search_wrapped, search_good)
           /\ text \in Seq(Chars) /\ search_origin \in Nat
<1>1. \A s \in Seq(Chars) : Len(s) \in Nat /\ Len(s) \in 0 .. Len(s)
  OBVIOUS
<1>2. MaxInput \in Nat /\ <<>> \in Seq(Chars) /\ Len(<<>>) = 0
  BY BoundAssumption
<1>3. /\ input \in Seq(Chars) /\ Len(input) <= MaxInput /\ input_point \in 0 .. Len(input)
      /\ last_search \in Seq(Chars) /\ Len(last_search) <= MaxInput
      /\ search_good \in Seq(Chars) /\ Len(search_good) <= MaxInput
      /\ text \in Seq(Chars) /\ search_origin \in Nat
  BY DEF Typed, TypeOK
<1>4. Looking(point, search_backward, search_failed, search_wrapped, search_good)
  BY DEF Typed, TypeOK, Looking
<1>5. Input(input, input_point) /\ Input(last_search, Len(last_search))
      /\ Input(search_good, Len(search_good))
  BY <1>1, <1>3, Zenon DEF Input
<1>6. Input(<<>>, 0)
  BY <1>2 DEF Input
<1> QED
  BY <1>3, <1>4, <1>5, <1>6

\* A search that went on shows what is true.
LEMMA SearchKeeps ==
    ASSUME Typed, AsksOfMatch, LoopPromise, PromptStays, Searching,
           NEW repeat \in BOOLEAN, NEW needle, needle # <<>>, Input(needle, input_point'),
           NEW p \in Nat, alone => p <= Len(text),
           input' = needle, search_backward' \in BOOLEAN,
           SearchUpdate(repeat, needle, p, search_backward')
    PROVE  PromptInv'
<1>1. /\ text \in Seq(Chars) /\ search_origin \in Nat /\ needle \in Seq(Chars)
      /\ Len(needle) <= MaxInput
      /\ search_failed \in BOOLEAN /\ search_wrapped \in BOOLEAN
      /\ search_good \in Seq(Chars) /\ Len(search_good) <= MaxInput
  BY NowTyped DEF Input, Looking
<1>2. /\ point' \in Nat /\ (point' = p \/ point' <= Len(text))
      /\ search_failed' \in BOOLEAN /\ search_wrapped' \in BOOLEAN
      /\ search_good' = search_good \/ search_good' = needle
      /\ ~search_failed' => search_good' = needle
      /\ Shown(text, needle, point', search_failed', search_origin, search_backward')
  BY <1>1, SearchResult, Zenon
<1>3. Looking(point', search_backward', search_failed', search_wrapped', search_good')
  BY <1>1, <1>2 DEF Looking
<1>4. Typed'
  BY <1>3, StaysTyped
<1>5. ShowsMatch'
  <2>1. text' = text /\ search_origin' = search_origin
    BY DEF PromptStays
  <2>2. ~Unlooked'
    BY <1>2 DEF Unlooked
  <2> QED
    BY <1>2, <2>1, <2>2, Zenon DEF ShowsMatch
<1> QED
  BY <1>4, <1>5, StaysOther DEF PromptInv

\* A key that edits the input.
LEMMA EditedKeeps ==
    ASSUME PromptInv, InputKey, NEW new, NEW at, Input(new, at), Edited(new, at)
    PROVE  PromptInv'
<1>1. /\ PromptStays /\ search_backward' = search_backward
      /\ Typed /\ AsksOfMatch /\ LoopPromise /\ ShowsMatch
      /\ input' = new /\ input_point' = at
  BY DEF PromptInv, InputKey, PromptStays, Key, Edited
<1>2. Looking(point, search_backward, search_failed, search_wrapped, search_good)
      /\ search_origin \in Nat
  BY <1>1, NowTyped
<1>3. CASE ~Searching
  <2>1. /\ point' = point /\ search_failed' = search_failed
        /\ search_wrapped' = search_wrapped /\ search_good' = search_good
    BY <1>3 DEF Edited, found
  <2>2. Typed'
    BY <1>1, <1>2, <2>1, StaysTyped
  <2>3. ~Searching'
    BY <1>1, <1>3 DEF PromptStays, Searching
  <2>4. ShowsMatch'
    BY <2>3 DEF ShowsMatch
  <2> QED
    BY <1>1, <2>2, <2>4, StaysOther DEF PromptInv
<1>4. CASE Searching /\ new = <<>>
  <2>1. /\ point' = search_origin /\ search_failed' = search_failed
        /\ search_wrapped' = search_wrapped /\ search_good' = search_good
    BY <1>4 DEF Edited, found
  <2>2. alone => search_origin <= Len(text)
    BY <1>1, <1>4 DEF Typed
  <2>3. Looking(point', search_backward', search_failed', search_wrapped', search_good')
    BY <1>1, <1>2, <2>1, <2>2 DEF Looking
  <2>4. Typed'
    BY <1>1, <2>3, StaysTyped
  <2>5. ShowsMatch'
    BY <1>1, <1>4 DEF ShowsMatch
  <2> QED
    BY <1>1, <2>4, <2>5, StaysOther DEF PromptInv
<1>5. CASE Searching /\ new # <<>>
  <2>1. SearchUpdate(FALSE, new, search_origin, search_backward')
    BY <1>1, <1>5 DEF Edited
  <2>2. alone => search_origin <= Len(text)
    BY <1>1, <1>5 DEF Typed
  <2>3. Input(new, input_point') /\ search_backward' \in BOOLEAN /\ FALSE \in BOOLEAN
    BY <1>1, <1>2 DEF Looking
  <2> QED
    BY <1>1, <1>2, <1>5, <2>1, <2>2, <2>3, SearchKeeps
<1> QED
  BY <1>3, <1>4, <1>5

\* Inputs with one character more or less, or cut off.
LEMMA InputsTyped ==
    ASSUME Typed
    PROVE  /\ input \in Seq(Chars) /\ Len(input) \in Nat /\ Len(input) <= MaxInput
           /\ input_point \in 0 .. Len(input) /\ MaxInput \in Nat
<1>1. input \in Seq(Chars) /\ Len(input) <= MaxInput /\ input_point \in 0 .. Len(input)
  BY DEF Typed, TypeOK
<1>2. Len(input) \in Nat /\ MaxInput \in Nat
  BY <1>1, BoundAssumption
<1> QED
  BY <1>1, <1>2

LEMMA WithTyped ==
    ASSUME Typed, Fits, NEW c \in Chars
    PROVE  Input(With(c), input_point + 1)
<1>1. /\ input \in Seq(Chars) /\ Len(input) \in Nat /\ Len(input) <= MaxInput
      /\ input_point \in 0 .. Len(input) /\ MaxInput \in Nat
  BY InputsTyped
<1> DEFINE u == SubSeq(input, 1, input_point)
           v == SubSeq(input, input_point + 1, Len(input))
<1>2. u \in Seq(Chars) /\ Len(u) = input_point
  BY <1>1
<1>3. v \in Seq(Chars) /\ Len(v) = Len(input) - input_point
  BY <1>1
<1> HIDE DEF u, v
<1>4. u \o <<c>> \o v \in Seq(Chars) /\ Len(u \o <<c>> \o v) = Len(input) + 1
  BY <1>1, <1>2, <1>3
<1>5. Len(input) + 1 <= MaxInput /\ input_point + 1 \in 0 .. Len(input) + 1
  BY <1>1 DEF Fits
<1> QED
  BY <1>4, <1>5 DEF Input, With, u, v

LEMMA WithoutTyped ==
    ASSUME Typed, NEW i \in 1 .. Len(input), NEW at \in 0 .. Len(input) - 1
    PROVE  Input(Without(input, i), at)
<1>1. input \in Seq(Chars) /\ Len(input) \in Nat /\ Len(input) <= MaxInput /\ MaxInput \in Nat
  BY InputsTyped
<1> DEFINE u == SubSeq(input, 1, i - 1)
           v == SubSeq(input, i + 1, Len(input))
<1>2. u \in Seq(Chars) /\ Len(u) = i - 1
  BY <1>1
<1>3. v \in Seq(Chars) /\ Len(v) = Len(input) - i
  BY <1>1
<1> HIDE DEF u, v
<1>4. u \o v \in Seq(Chars) /\ Len(u \o v) = Len(input) - 1
  BY <1>1, <1>2, <1>3
<1>5. Len(input) - 1 <= MaxInput
  BY <1>1
<1> QED
  BY <1>4, <1>5 DEF Input, Without, u, v

LEMMA InsertStep ==
    ASSUME PromptInv, NEW c \in Chars, Insert(c)
    PROVE  PromptInv'
<1>1. Typed /\ InputKey /\ Input(input, input_point)
  BY NowTyped DEF PromptInv, Insert
<1>2. CASE Fits
  <2>1. Edited(With(c), input_point + 1) /\ Input(With(c), input_point + 1)
    BY <1>1, <1>2, WithTyped DEF Insert
  <2> QED
    BY <1>1, <2>1, EditedKeeps
<1>3. CASE ~Fits
  <2>1. Edited(input, input_point)
    BY <1>3 DEF Insert
  <2> QED
    BY <1>1, <2>1, EditedKeeps
<1> QED
  BY <1>2, <1>3

LEMMA PasteStep ==
    ASSUME PromptInv, NEW c \in Chars, Paste(c)
    PROVE  PromptInv'
<1>1. /\ PromptStays /\ search_backward' = search_backward /\ Fits
      /\ Typed /\ AsksOfMatch /\ LoopPromise /\ ShowsMatch
      /\ input' = With(c) /\ input_point' = input_point + 1
  BY DEF PromptInv, InputKey, PromptStays, Key, Paste
<1>2. /\ Looking(point, search_backward, search_failed, search_wrapped, search_good)
      /\ Input(With(c), input_point')
  BY <1>1, NowTyped, WithTyped
<1>3. CASE ~Searching
  <2>1. /\ point' = point /\ search_failed' = search_failed
        /\ search_wrapped' = search_wrapped /\ search_good' = search_good
    BY <1>3 DEF Paste, found
  <2>2. Typed'
    BY <1>1, <1>2, <2>1, StaysTyped
  <2>3. ~Searching'
    BY <1>1, <1>3 DEF PromptStays, Searching
  <2>4. ShowsMatch'
    BY <2>3 DEF ShowsMatch
  <2> QED
    BY <1>1, <2>2, <2>4, StaysOther DEF PromptInv
<1>4. CASE Searching
  <2>1. SearchUpdate(FALSE, With(c), point, search_backward')
    BY <1>1, <1>4 DEF Paste
  <2>2. point \in Nat /\ (alone => point <= Len(text)) /\ search_backward' \in BOOLEAN
        /\ FALSE \in BOOLEAN
    BY <1>1, <1>2 DEF Looking
  <2>3. With(c) # <<>>
    <3>1. /\ input \in Seq(Chars) /\ Len(input) \in Nat /\ input_point \in 0 .. Len(input)
      BY <1>1, InputsTyped
    <3> DEFINE u == SubSeq(input, 1, input_point)
               v == SubSeq(input, input_point + 1, Len(input))
    <3>2. u \in Seq(Chars) /\ v \in Seq(Chars)
      BY <3>1
    <3> HIDE DEF u, v
    <3>3. Len(u \o <<c>> \o v) = Len(u) + 1 + Len(v) /\ Len(u) \in Nat /\ Len(v) \in Nat
      BY <3>2
    <3>4. u \o <<c>> \o v # <<>>
      BY <3>3
    <3> QED
      BY <3>4 DEF With, u, v
  <2> QED
    BY <1>1, <1>2, <1>4, <2>1, <2>2, <2>3, SearchKeeps
<1> QED
  BY <1>3, <1>4

LEMMA DeleteBackwardStep ==
    ASSUME PromptInv, DeleteBackward
    PROVE  PromptInv'
<1>1. Typed /\ InputKey /\ Input(input, input_point)
  BY NowTyped DEF PromptInv, DeleteBackward
<1>2. CASE input_point > 0
  <2>1. input_point \in 1 .. Len(input) /\ input_point - 1 \in 0 .. Len(input) - 1
    BY <1>1, <1>2, InputsTyped
  <2>2. Edited(Without(input, input_point), input_point - 1)
    BY <1>2 DEF DeleteBackward
  <2>3. Input(Without(input, input_point), input_point - 1)
    BY <1>1, <2>1, WithoutTyped
  <2> QED
    BY <1>1, <2>2, <2>3, EditedKeeps
<1>3. CASE ~(input_point > 0)
  <2>1. Edited(input, input_point)
    BY <1>3 DEF DeleteBackward
  <2> QED
    BY <1>1, <2>1, EditedKeeps
<1> QED
  BY <1>2, <1>3

LEMMA DeleteForwardStep ==
    ASSUME PromptInv, DeleteForward
    PROVE  PromptInv'
<1>1. Typed /\ InputKey /\ Input(input, input_point)
  BY NowTyped DEF PromptInv, DeleteForward
<1>2. CASE input_point < Len(input)
  <2>1. input_point + 1 \in 1 .. Len(input) /\ input_point \in 0 .. Len(input) - 1
    BY <1>1, <1>2, InputsTyped
  <2>2. Edited(Without(input, input_point + 1), input_point)
    BY <1>2 DEF DeleteForward
  <2>3. Input(Without(input, input_point + 1), input_point)
    BY <1>1, <2>1, WithoutTyped
  <2> QED
    BY <1>1, <2>2, <2>3, EditedKeeps
<1>3. CASE ~(input_point < Len(input))
  <2>1. Edited(input, input_point)
    BY <1>3 DEF DeleteForward
  <2> QED
    BY <1>1, <2>1, EditedKeeps
<1> QED
  BY <1>2, <1>3

LEMMA KillInputStep ==
    ASSUME PromptInv, KillInput
    PROVE  PromptInv'
<1>1. Typed /\ InputKey /\ Edited(SubSeq(input, 1, input_point), input_point)
  BY DEF PromptInv, KillInput
<1>2. /\ input \in Seq(Chars) /\ Len(input) \in Nat /\ Len(input) <= MaxInput
      /\ input_point \in 0 .. Len(input) /\ MaxInput \in Nat
  BY <1>1, InputsTyped
<1>3. /\ SubSeq(input, 1, input_point) \in Seq(Chars)
      /\ Len(SubSeq(input, 1, input_point)) = input_point
  BY <1>2
<1>4. Input(SubSeq(input, 1, input_point), input_point)
  BY <1>2, <1>3 DEF Input
<1> QED
  BY <1>1, <1>4, EditedKeeps

LEMMA MoveInputStep ==
    ASSUME PromptInv, NEW at \in 0 .. MaxInput, MoveInput(at)
    PROVE  PromptInv'
<1>1. Typed /\ InputKey /\ Edited(input, at) /\ at \in 0 .. Len(input)
  BY DEF PromptInv, MoveInput
<1>2. Input(input, at)
  BY <1>1, InputsTyped DEF Input
<1> QED
  BY <1>1, <1>2, EditedKeeps

-----------------------------------------------------------------------------
(***************************************************************************)
(* Texts in which words are replaced.                                      *)
(***************************************************************************)
\* Behind position b, u goes on as t does behind a.
GoesOn(t, a, u, b) == \A x \in 1 .. Len(t) - a : u[b + x] = t[a + x]

Grouped(x, y, z) == (x \o y) \o z = x \o (y \o z)

LEMMA Regroup ==
    ASSUME NEW x \in Seq(Chars), NEW y \in Seq(Chars), NEW z \in Seq(Chars)
    PROVE  Grouped(x, y, z)
BY ConcatAssociative DEF Grouped

\* One replacement: what stands before it, and what behind it.
LEMMA ReplacedTyped ==
    ASSUME NEW t \in Seq(Chars), NEW s \in Seq(Chars), NEW at \in Nat, NEW count \in Nat,
           at + count <= Len(t)
    PROVE  /\ Replaced(t, at, count, s) \in Seq(Chars)
           /\ Len(Replaced(t, at, count, s)) = Len(t) - count + Len(s)
           /\ SubSeq(Replaced(t, at, count, s), 1, at + Len(s)) = SubSeq(t, 1, at) \o s
           /\ GoesOn(t, at + count, Replaced(t, at, count, s), at + Len(s))
<1> DEFINE u == SubSeq(t, 1, at)
           v == SubSeq(t, at + count + 1, Len(t))
           us == u \o s
           r == us \o v
<1>1. Len(t) \in Nat /\ Len(s) \in Nat
  OBVIOUS
<1>2. u \in Seq(Chars) /\ Len(u) = at
  BY <1>1
<1>3. /\ v \in Seq(Chars) /\ Len(v) = Len(t) - (at + count)
      /\ \A x \in 1 .. Len(t) - (at + count) : v[x] = t[at + count + x]
  <2>1. v \in Seq(Chars)
    BY <1>1
  <2>2. Len(v) = Len(t) - (at + count)
    BY <1>1
  <2>3. \A x \in 1 .. Len(t) - (at + count) : v[x] = t[at + count + x]
    <3> SUFFICES ASSUME NEW x \in 1 .. Len(t) - (at + count)
                 PROVE  v[x] = t[at + count + x]
      OBVIOUS
    <3>1. x \in 1 .. Len(t) - (at + count + 1) + 1 /\ (at + count + 1) + x - 1 = at + count + x
      BY <1>1
    <3>2. v[x] = t[(at + count + 1) + x - 1]
      BY <1>1, <3>1
    <3> QED
      BY <3>1, <3>2
  <2> QED
    BY <2>1, <2>2, <2>3
<1>4. Replaced(t, at, count, s) = r
  BY DEF Replaced
<1> HIDE DEF u, v
<1>5. us \in Seq(Chars) /\ Len(us) = at + Len(s)
  BY <1>1, <1>2
<1> HIDE DEF us
<1>6. /\ r \in Seq(Chars) /\ Len(r) = at + Len(s) + Len(v)
      /\ \A i \in 1 .. at + Len(s) : r[i] = us[i]
      /\ \A x \in 1 .. Len(v) : r[at + Len(s) + x] = v[x]
  <2>0. us \in Seq(Chars) /\ v \in Seq(Chars)
    BY <1>3, <1>5
  <2>1. r \in Seq(Chars) /\ Len(r) = Len(us) + Len(v)
    BY <2>0, ConcatProperties, Zenon
  <2>2. \A i \in 1 .. Len(us) : r[i] = us[i]
    BY <2>0
  <2>3. \A x \in 1 .. Len(v) : r[Len(us) + x] = v[x]
    BY <2>0
  <2> HIDE DEF r
  <2> QED
    BY <1>5, <2>1, <2>2, <2>3
<1> HIDE DEF r
<1>7. SubSeq(r, 1, at + Len(s)) = us
  <2> DEFINE z == SubSeq(r, 1, at + Len(s))
  <2>1. at + Len(s) \in Nat /\ at + Len(s) <= Len(r) /\ Len(v) \in Nat
    BY <1>1, <1>3, <1>6
  <2>2. /\ z \in Seq(Chars) /\ Len(z) = at + Len(s)
        /\ \A i \in 1 .. at + Len(s) : z[i] = r[i]
    BY <1>6, <2>1
  <2> HIDE DEF z
  <2>3. \A i \in 1 .. Len(z) : z[i] = us[i]
    BY <1>6, <2>2
  <2>4. z = us
    BY <1>5, <2>2, <2>3, SeqEqual
  <2> QED
    BY <2>4 DEF z
<1>8. Len(r) = Len(t) - count + Len(s)
  BY <1>1, <1>3, <1>6
<1>9. GoesOn(t, at + count, r, at + Len(s))
  BY <1>3, <1>6 DEF GoesOn
<1> QED
  BY <1>4, <1>6, <1>7, <1>8, <1>9 DEF us, u

\* A position follows it and stays in the text.
LEMMA RelocatedTyped ==
    ASSUME NEW p \in Int, NEW at \in Nat, NEW removed \in Nat, NEW added \in Nat,
           NEW n \in Nat, at + removed <= n
    PROVE  /\ Relocated(p, at, removed, added) \in Int
           /\ p \in Nat => Relocated(p, at, removed, added) \in Nat
           /\ p <= n => Relocated(p, at, removed, added) <= n - removed + added
BY DEF Relocated

\* What the recursion of Rewritten goes through.
Rests(t, w, s, f) ==
    /\ f \in [0 .. Len(t) -> Seq(Chars)]
    /\ \A i \in 0 .. Len(t) :
            f[i] = IF i = Len(t) THEN <<>>
                   ELSE IF Occurs(t, w, i) THEN s \o f[i + Len(w)]
                   ELSE <<t[i + 1]>> \o f[i + 1]

LEMMA RestRuns ==
    ASSUME NEW t \in Seq(Chars), NEW w \in Seq(Chars), w # <<>>, NEW s \in Seq(Chars)
    PROVE  \E f : /\ Rests(t, w, s, f)
                  /\ \A p : Rewritten(t, w, s, p) = SubSeq(t, 1, p) \o f[p]
<1> DEFINE n == Len(t)
           D == 0 .. n
           V == Seq(Chars)
           stop == {n}
           base == [i \in D |-> <<>>]
           step == [i \in D |-> [v \in V |-> IF Occurs(t, w, i) THEN s \o v
                                             ELSE <<t[i + 1]>> \o v]]
           next == [i \in D |-> IF Occurs(t, w, i) THEN i + Len(w) ELSE i + 1]
           size == [i \in D |-> n - i]
           Def(z) == z = [i \in 0 .. Len(t) |->
                            IF i = Len(t) THEN <<>>
                            ELSE IF Occurs(t, w, i) THEN s \o z[i + Len(w)]
                            ELSE <<t[i + 1]>> \o z[i + 1]]
           f == CHOOSE z : Def(z)
<1>1. \A p : Rewritten(t, w, s, p) = SubSeq(t, 1, p) \o f[p]
  BY DEF Rewritten
<1>2. n \in Nat /\ Len(w) \in Nat /\ Len(w) >= 1 /\ <<>> \in V
  BY WordTyped
<1>3. \A i \in D : i \notin stop => next[i] \in D /\ i < next[i]
  <2> SUFFICES ASSUME NEW i \in D, i # n
               PROVE  next[i] \in D /\ i < next[i]
    OBVIOUS
  <2>1. CASE Occurs(t, w, i)
    <3>1. i + Len(w) <= n
      BY <2>1 DEF Occurs
    <3> QED
      BY <1>2, <2>1, <3>1
  <2>2. CASE ~Occurs(t, w, i)
    BY <1>2, <2>2
  <2> QED
    BY <2>1, <2>2
<1>4. \A i \in D : i \notin stop => step[i] \in [V -> V]
  <2> SUFFICES ASSUME NEW i \in D, i # n, NEW v \in V
               PROVE  (IF Occurs(t, w, i) THEN s \o v ELSE <<t[i + 1]>> \o v) \in V
    OBVIOUS
  <2>1. i + 1 \in 1 .. n
    BY <1>2
  <2>2. t[i + 1] \in Chars
    BY <2>1
  <2>3. s \o v \in V /\ <<t[i + 1]>> \o v \in V
    BY <2>2
  <2> QED
    BY <2>3
<1>5. Descent(D, V, stop, base, step, next, size)
  <2>1. \A x \in D : size[x] \in Nat
    BY <1>2
  <2>2. \A x \in D : base[x] \in V
    BY <1>2
  <2>3. \A x \in D : x \notin stop => next[x] \in D /\ size[next[x]] < size[x]
    <3> SUFFICES ASSUME NEW x \in D, x \notin stop
                 PROVE  next[x] \in D /\ size[next[x]] < size[x]
      OBVIOUS
    <3>1. next[x] \in D /\ x < next[x]
      BY <1>3
    <3>2. size[next[x]] = n - next[x] /\ size[x] = n - x
      BY <3>1
    <3> HIDE DEF size, next
    <3> QED
      BY <1>2, <3>1, <3>2
  <2> HIDE DEF stop, base, step, next, size, D, V
  <2> QED
    BY <1>4, <2>1, <2>2, <2>3, Zenon DEF Descent
<1>6. \E g : Descends(g, D, V, stop, base, step, next)
  <2>1. n + 1 \in Nat /\ \A x \in D : size[x] < n + 1
    BY <1>2
  <2> HIDE DEF D, V, stop, base, step, next, size
  <2> QED
    BY <1>5, <2>1, DescentExists, Zenon
<1>7. PICK g : Descends(g, D, V, stop, base, step, next)
  BY <1>6
<1>8. \A i \in D : i \notin stop => next[i] = (IF Occurs(t, w, i) THEN i + Len(w) ELSE i + 1)
  OBVIOUS
<1>9. \A i \in D : \A v \in V : step[i][v] = (IF Occurs(t, w, i) THEN s \o v ELSE <<t[i + 1]>> \o v)
  OBVIOUS
<1>10. Def(g)
  <2>1. g \in [D -> V]
    BY <1>7 DEF Descends
  <2>2. ASSUME NEW i \in D
        PROVE  g[i] = IF i = n THEN <<>>
                      ELSE IF Occurs(t, w, i) THEN s \o g[i + Len(w)]
                      ELSE <<t[i + 1]>> \o g[i + 1]
    <3>1. g[i] = IF i \in stop THEN base[i] ELSE step[i][g[next[i]]]
      <4> HIDE DEF D, V, stop, base, step, next
      <4> QED
        BY <1>7 DEF Descends
    <3>2. CASE i = n
      BY <3>1, <3>2
    <3>3. CASE i # n
      <4>1. i \notin stop
        BY <3>3
      <4>2. g[next[i]] \in V
        BY <1>3, <2>1, <4>1
      <4> HIDE DEF step, next, stop, V, D
      <4>3. step[i][g[next[i]]] = IF Occurs(t, w, i) THEN s \o g[next[i]]
                                  ELSE <<t[i + 1]>> \o g[next[i]]
        BY <1>9, <4>2
      <4> QED
        BY <1>8, <3>1, <3>3, <4>1, <4>3
    <3> QED
      BY <3>2, <3>3
  <2>3. g = [i \in D |-> g[i]]
    BY <2>1
  <2> HIDE DEF V, stop, base, step, next, size
  <2> QED
    BY <2>2, <2>3, Zenon
<1>11. Def(f)
  <2> HIDE DEF Def
  <2> QED
    BY <1>10
<1> HIDE DEF f
<1>12. \A i \in D : f[i] = IF i = n THEN <<>>
                           ELSE IF Occurs(t, w, i) THEN s \o f[i + Len(w)]
                           ELSE <<t[i + 1]>> \o f[i + 1]
  BY <1>11, Zenon
<1>13. f \in [D -> V]
  <2>1. f = [x \in D |-> f[x]]
    BY <1>11, <1>12, Zenon
  <2>2. \A x \in D : x \in stop => f[x] = base[x]
    <3> HIDE DEF Def
    <3> QED
      BY <1>12
  <2>3. \A x \in D : x \notin stop /\ f[next[x]] \in V => f[x] = step[x][f[next[x]]]
    <3> SUFFICES ASSUME NEW x \in D, x \notin stop, f[next[x]] \in V
                 PROVE  f[x] = step[x][f[next[x]]]
      OBVIOUS
    <3>1. x # n
      OBVIOUS
    <3> HIDE DEF Def, D, V, stop, step, next
    <3>2. f[x] = IF Occurs(t, w, x) THEN s \o f[next[x]] ELSE <<t[x + 1]>> \o f[next[x]]
      BY <1>8, <1>12, <3>1
    <3> QED
      BY <1>9, <3>2
  <2> HIDE DEF Def, D, V, stop, base, step, next, size
  <2>4. Descends(f, D, V, stop, base, step, next)
    BY <1>5, <2>1, <2>2, <2>3, DescentTyped, Zenon
  <2> QED
    BY <2>4 DEF Descends
<1> HIDE DEF Def
<1> QED
  BY <1>1, <1>12, <1>13, Zenon DEF Rests

\* Behind the same positions of texts that go on alike, the same is left.
LEMMA OccursAlike ==
    ASSUME NEW t \in Seq(Chars), NEW u \in Seq(Chars), NEW w \in Seq(Chars),
           NEW a \in Nat, NEW b \in Nat, Len(t) - a = Len(u) - b,
           GoesOn(t, a, u, b), NEW k \in Nat
    PROVE  Occurs(t, w, a + k) <=> Occurs(u, w, b + k)
<1>1. Len(t) \in Nat /\ Len(u) \in Nat /\ Len(w) \in Nat /\ a + k \in Nat /\ b + k \in Nat
  OBVIOUS
<1>2. (a + k) + Len(w) <= Len(t) <=> (b + k) + Len(w) <= Len(u)
  BY <1>1
<1>3. ASSUME (a + k) + Len(w) <= Len(t)
      PROVE  At(w, t, a + k) <=> At(w, u, b + k)
  <2>1. \A x \in 1 .. Len(w) : k + x \in 1 .. Len(t) - a /\ a + (k + x) = (a + k) + x
                               /\ b + (k + x) = (b + k) + x
    BY <1>1, <1>3
  <2>2. \A x \in 1 .. Len(w) : u[(b + k) + x] = t[(a + k) + x]
    <3> SUFFICES ASSUME NEW x \in 1 .. Len(w) PROVE u[(b + k) + x] = t[(a + k) + x]
      OBVIOUS
    <3>1. u[b + (k + x)] = t[a + (k + x)]
      BY <2>1 DEF GoesOn
    <3> QED
      BY <2>1, <3>1
  <2> QED
    BY <2>2 DEF At
<1>4. Occurs(t, w, a + k) <=> (a + k) + Len(w) <= Len(t) /\ At(w, t, a + k)
  BY <1>1, OccursIsAt
<1>5. Occurs(u, w, b + k) <=> (b + k) + Len(w) <= Len(u) /\ At(w, u, b + k)
  BY <1>1, OccursIsAt
<1> QED
  BY <1>2, <1>3, <1>4, <1>5

LEMMA RestsAlike ==
    ASSUME NEW t \in Seq(Chars), NEW u \in Seq(Chars), NEW w \in Seq(Chars), w # <<>>, NEW s,
           NEW f, Rests(t, w, s, f), NEW g, Rests(u, w, s, g),
           NEW a \in Nat, NEW b \in Nat, a <= Len(t), b <= Len(u), Len(t) - a = Len(u) - b,
           GoesOn(t, a, u, b)
    PROVE  g[b] = f[a]
<1>1. Len(t) \in Nat /\ Len(u) \in Nat /\ Len(w) \in Nat /\ Len(w) >= 1
  BY WordTyped
<1> DEFINE d == Len(t) - a
           T == {n \in Nat : \A k \in 0 .. d : d - k = n => g[b + k] = f[a + k]}
<1>2. ASSUME NEW n \in Nat, \A j \in 0 .. n - 1 : j \in T
      PROVE  n \in T
  <2> SUFFICES ASSUME NEW k \in 0 .. d, d - k = n
               PROVE  g[b + k] = f[a + k]
    OBVIOUS
  <2>1. /\ a + k \in 0 .. Len(t) /\ b + k \in 0 .. Len(u) /\ k \in Nat
        /\ (a + k = Len(t) <=> b + k = Len(u))
    BY <1>1
  <2>2. Occurs(t, w, a + k) <=> Occurs(u, w, b + k)
    BY <2>1, OccursAlike
  <2>3. f[a + k] = IF a + k = Len(t) THEN <<>>
                   ELSE IF Occurs(t, w, a + k) THEN s \o f[(a + k) + Len(w)]
                   ELSE <<t[(a + k) + 1]>> \o f[(a + k) + 1]
    BY <2>1 DEF Rests
  <2>4. g[b + k] = IF b + k = Len(u) THEN <<>>
                   ELSE IF Occurs(u, w, b + k) THEN s \o g[(b + k) + Len(w)]
                   ELSE <<u[(b + k) + 1]>> \o g[(b + k) + 1]
    BY <2>1 DEF Rests
  <2>5. CASE a + k = Len(t)
    BY <2>1, <2>3, <2>4, <2>5
  <2>6. CASE a + k # Len(t) /\ Occurs(t, w, a + k)
    <3>1. (a + k) + Len(w) <= Len(t)
      BY <2>6 DEF Occurs
    <3>2. k + Len(w) \in 0 .. d /\ d - (k + Len(w)) \in 0 .. n - 1
      BY <1>1, <2>1, <3>1
    <3>3. g[b + (k + Len(w))] = f[a + (k + Len(w))]
      BY <1>2, <3>2
    <3>4. b + (k + Len(w)) = (b + k) + Len(w) /\ a + (k + Len(w)) = (a + k) + Len(w)
      BY <1>1
    <3>5. g[(b + k) + Len(w)] = f[(a + k) + Len(w)]
      BY <3>3, <3>4
    <3> QED
      BY <2>1, <2>2, <2>3, <2>4, <2>6, <3>5
  <2>7. CASE a + k # Len(t) /\ ~Occurs(t, w, a + k)
    <3>1. k + 1 \in 0 .. d /\ d - (k + 1) \in 0 .. n - 1 /\ k + 1 \in 1 .. d
      BY <1>1, <2>1, <2>7
    <3>2. g[b + (k + 1)] = f[a + (k + 1)]
      BY <1>2, <3>1
    <3>3. u[b + (k + 1)] = t[a + (k + 1)]
      BY <3>1 DEF GoesOn
    <3>4. b + (k + 1) = (b + k) + 1 /\ a + (k + 1) = (a + k) + 1
      OBVIOUS
    <3>5. g[(b + k) + 1] = f[(a + k) + 1] /\ u[(b + k) + 1] = t[(a + k) + 1]
      BY <3>2, <3>3, <3>4
    <3> QED
      BY <2>1, <2>2, <2>3, <2>4, <2>7, <3>5
  <2> QED
    BY <2>5, <2>6, <2>7
<1>3. Nat \subseteq T
  <2> HIDE DEF T
  <2> QED
    BY <1>2, StrongInduction
<1>4. d \in Nat /\ 0 \in 0 .. d /\ d - 0 = d /\ b + 0 = b /\ a + 0 = a
  BY <1>1
<1>5. d \in T
  BY <1>3, <1>4
<1>6. g[b + 0] = f[a + 0]
  BY <1>4, <1>5
<1> QED
  BY <1>4, <1>6

\* Where no word stands, nothing is replaced.
LEMMA RewrittenSkipsOne ==
    ASSUME NEW t \in Seq(Chars), NEW w \in Seq(Chars), w # <<>>, NEW s \in Seq(Chars),
           NEW i \in 0 .. Len(t) - 1, ~Occurs(t, w, i)
    PROVE  Rewritten(t, w, s, i) = Rewritten(t, w, s, i + 1)
<1>1. PICK f : Rests(t, w, s, f) /\ \A p : Rewritten(t, w, s, p) = SubSeq(t, 1, p) \o f[p]
  BY RestRuns
<1>2. Len(t) \in Nat /\ i \in 0 .. Len(t) /\ i + 1 \in 0 .. Len(t) /\ i # Len(t) /\ i \in Nat
      /\ i + 1 \in 1 .. Len(t)
  OBVIOUS
<1>3. f[i] = <<t[i + 1]>> \o f[i + 1] /\ f[i + 1] \in Seq(Chars)
  BY <1>1, <1>2 DEF Rests
<1>4. t[i + 1] \in Chars /\ SubSeq(t, 1, i) \in Seq(Chars)
  BY <1>2
<1>5. SubSeq(t, 1, i) \o <<t[i + 1]>> = SubSeq(t, 1, i + 1)
  <2> DEFINE u == SubSeq(t, 1, i) \o <<t[i + 1]>>
             v == SubSeq(t, 1, i + 1)
  <2>1. /\ SubSeq(t, 1, i) \in Seq(Chars) /\ Len(SubSeq(t, 1, i)) = i
        /\ \A k \in 1 .. i : SubSeq(t, 1, i)[k] = t[k]
    BY <1>2
  <2>2. v \in Seq(Chars) /\ Len(v) = i + 1 /\ \A k \in 1 .. i + 1 : v[k] = t[k]
    BY <1>2
  <2>3. u \in Seq(Chars) /\ Len(u) = i + 1 /\ u[i + 1] = t[i + 1]
        /\ \A k \in 1 .. i : u[k] = SubSeq(t, 1, i)[k]
    <3> DEFINE x == SubSeq(t, 1, i)
               c == t[i + 1]
    <3>1. x \in Seq(Chars) /\ Len(x) = i /\ c \in Chars
      BY <1>4, <2>1
    <3>2. u = x \o <<c>>
      OBVIOUS
    <3> HIDE DEF x, c, u
    <3>3. u = Append(x, c)
      BY <3>1, <3>2
    <3>4. u \in Seq(Chars) /\ Len(u) = i + 1
      BY <3>1, <3>3
    <3>5. u[i + 1] = c /\ \A k \in 1 .. i : u[k] = x[k]
      BY <1>2, <3>1, <3>3
    <3> QED
      BY <3>4, <3>5 DEF x, c
  <2> HIDE DEF u, v
  <2>4. \A k \in 1 .. Len(u) : k = i + 1 \/ k \in 1 .. i
    BY <1>2, <2>3
  <2>5. \A k \in 1 .. Len(u) : u[k] = v[k]
    BY <1>2, <2>1, <2>2, <2>3, <2>4
  <2>6. u = v
    BY <2>2, <2>3, <2>5, SeqEqual
  <2> QED
    BY <2>6 DEF u, v
<1>6. (SubSeq(t, 1, i) \o <<t[i + 1]>>) \o f[i + 1] = SubSeq(t, 1, i) \o (<<t[i + 1]>> \o f[i + 1])
  <2> DEFINE x == SubSeq(t, 1, i)
             y == <<t[i + 1]>>
             z == f[i + 1]
  <2>1. y \in Seq(Chars)
    BY <1>4
  <2>2. z \in Seq(Chars) /\ x \in Seq(Chars)
    BY <1>3, <1>4
  <2> HIDE DEF x, y, z
  <2>3. Grouped(x, y, z)
    BY <2>1, <2>2, Regroup
  <2> QED
    BY <2>3 DEF x, y, z, Grouped
<1> QED
  BY <1>1, <1>3, <1>5, <1>6, Zenon

LEMMA RewrittenSkips ==
    ASSUME NEW t \in Seq(Chars), NEW w \in Seq(Chars), w # <<>>, NEW s \in Seq(Chars),
           NEW p \in Nat, NEW q \in Nat, p <= q, q <= Len(t),
           \A at \in Nat : p <= at /\ at < q => ~Occurs(t, w, at)
    PROVE  Rewritten(t, w, s, p) = Rewritten(t, w, s, q)
<1> DEFINE S == {n \in Nat : p <= n /\ n <= q => Rewritten(t, w, s, p) = Rewritten(t, w, s, n)}
<1>1. 0 \in S
  <2>1. p <= 0 => p = 0
    OBVIOUS
  <2> QED
    BY <2>1
<1>2. ASSUME NEW n \in Nat, n \in S
      PROVE  n + 1 \in S
  <2> SUFFICES ASSUME p <= n + 1, n + 1 <= q
               PROVE  Rewritten(t, w, s, p) = Rewritten(t, w, s, n + 1)
    OBVIOUS
  <2>1. CASE p = n + 1
    BY <2>1
  <2>2. CASE p # n + 1
    <3>1. p <= n /\ n < q /\ n <= q /\ n \in 0 .. Len(t) - 1
      BY <2>2
    <3>2. ~Occurs(t, w, n)
      BY <3>1
    <3>3. Rewritten(t, w, s, n) = Rewritten(t, w, s, n + 1)
      BY <3>1, <3>2, RewrittenSkipsOne
    <3>4. Rewritten(t, w, s, p) = Rewritten(t, w, s, n)
      BY <1>2, <3>1
    <3> QED
      BY <3>3, <3>4
  <2> QED
    BY <2>1, <2>2
<1>3. Nat \subseteq S
  <2> HIDE DEF S
  <2> QED
    BY <1>1, <1>2, SetInduction
<1>4. q \in S
  BY <1>3
<1> QED
  BY <1>4

\* Where none stands from here on, the text is done.
LEMMA RewrittenEnds ==
    ASSUME NEW t \in Seq(Chars), NEW w \in Seq(Chars), w # <<>>, NEW s \in Seq(Chars),
           NEW p \in Nat, p <= Len(t), \A at \in Nat : Occurs(t, w, at) => at < p
    PROVE  Rewritten(t, w, s, p) = t
<1>1. PICK f : Rests(t, w, s, f) /\ \A q : Rewritten(t, w, s, q) = SubSeq(t, 1, q) \o f[q]
  BY RestRuns
<1>2. Len(t) \in Nat /\ Len(t) <= Len(t) /\ Len(t) \in 0 .. Len(t)
  OBVIOUS
<1>3. \A at \in Nat : p <= at /\ at < Len(t) => ~Occurs(t, w, at)
  OBVIOUS
<1>4. Rewritten(t, w, s, p) = Rewritten(t, w, s, Len(t))
  BY <1>2, <1>3, RewrittenSkips
<1>5. f[Len(t)] = <<>>
  BY <1>1, <1>2 DEF Rests
<1>6. SubSeq(t, 1, Len(t)) = t
  BY SubSeqFull
<1>7. t \o <<>> = t
  BY ConcatEmptySeq
<1> QED
  BY <1>1, <1>4, <1>5, <1>6, <1>7

\* Replacing the word that stands here leaves as much to replace behind it.
LEMMA RewrittenReplaced ==
    ASSUME NEW t \in Seq(Chars), NEW w \in Seq(Chars), w # <<>>, NEW s \in Seq(Chars),
           NEW at \in Nat, Occurs(t, w, at)
    PROVE  Rewritten(Replaced(t, at, Len(w), s), w, s, at + Len(s)) = Rewritten(t, w, s, at)
<1> DEFINE u == Replaced(t, at, Len(w), s)
           a == at + Len(w)
           b == at + Len(s)
<1>1. /\ Len(t) \in Nat /\ Len(w) \in Nat /\ Len(w) >= 1 /\ Len(s) \in Nat /\ a <= Len(t)
  BY WordTyped DEF Occurs
<1>2. /\ u \in Seq(Chars) /\ Len(u) = Len(t) - Len(w) + Len(s)
      /\ SubSeq(u, 1, b) = SubSeq(t, 1, at) \o s
      /\ GoesOn(t, a, u, b)
  <2> DEFINE count == Len(w)
  <2>1. count \in Nat /\ at + count <= Len(t)
    BY <1>1
  <2> HIDE DEF count
  <2>2. /\ Replaced(t, at, count, s) \in Seq(Chars)
        /\ Len(Replaced(t, at, count, s)) = Len(t) - count + Len(s)
        /\ SubSeq(Replaced(t, at, count, s), 1, at + Len(s)) = SubSeq(t, 1, at) \o s
        /\ GoesOn(t, at + count, Replaced(t, at, count, s), at + Len(s))
    BY <2>1, ReplacedTyped
  <2> QED
    BY <2>2, Zenon DEF count
<1> HIDE DEF u
<1>3. PICK f : Rests(t, w, s, f) /\ \A p : Rewritten(t, w, s, p) = SubSeq(t, 1, p) \o f[p]
  BY RestRuns
<1>4. PICK g : Rests(u, w, s, g) /\ \A p : Rewritten(u, w, s, p) = SubSeq(u, 1, p) \o g[p]
  BY <1>2, RestRuns
<1>5. a \in Nat /\ b \in Nat /\ b <= Len(u) /\ Len(t) - a = Len(u) - b
  BY <1>1, <1>2
<1> HIDE DEF a, b
<1>6. g[b] = f[a]
  <2>1. a <= Len(t)
    BY <1>1 DEF a
  <2>2. u \in Seq(Chars) /\ GoesOn(t, a, u, b)
    BY <1>2
  <2>3. Rests(t, w, s, f) /\ Rests(u, w, s, g)
    BY <1>3, <1>4
  <2> QED
    BY <1>5, <2>1, <2>2, <2>3, RestsAlike
<1>7. f[at] = s \o f[a] /\ f[a] \in Seq(Chars) /\ SubSeq(t, 1, at) \in Seq(Chars)
  <2>1. at \in 0 .. Len(t) /\ at # Len(t) /\ a \in 0 .. Len(t)
    BY <1>1, <1>5 DEF a
  <2>2. f[at] = s \o f[a] /\ f[a] \in Seq(Chars)
    BY <1>3, <2>1 DEF Rests, a
  <2>3. SubSeq(t, 1, at) \in Seq(Chars)
    BY <2>1
  <2> QED
    BY <2>2, <2>3
<1>8. (SubSeq(t, 1, at) \o s) \o f[a] = SubSeq(t, 1, at) \o (s \o f[a])
  <2> DEFINE x == SubSeq(t, 1, at)
             z == f[a]
  <2>1. x \in Seq(Chars) /\ z \in Seq(Chars)
    BY <1>7
  <2> HIDE DEF x, z
  <2>2. Grouped(x, s, z)
    BY <2>1, Regroup
  <2> QED
    BY <2>2 DEF x, z, Grouped
<1>9. Rewritten(u, w, s, b) = Rewritten(t, w, s, at)
  BY <1>2, <1>3, <1>4, <1>6, <1>7, <1>8, Zenon
<1> QED
  BY <1>9 DEF u, b

-----------------------------------------------------------------------------
(***************************************************************************)
(* Going on, going back and leaving.                                       *)
(***************************************************************************)
LEMMA RepeatStep ==
    ASSUME PromptInv, NEW backward \in BOOLEAN, Repeat(backward)
    PROVE  PromptInv'
<1> DEFINE needle == IF input = <<>> THEN last_search ELSE input
<1>1. /\ PromptStays /\ Searching /\ search_backward' = backward
      /\ Typed /\ AsksOfMatch /\ LoopPromise /\ ShowsMatch
      /\ input' = needle
      /\ input_point' = IF input = <<>> THEN Len(needle) ELSE input_point
      /\ IF needle = <<>> THEN UNCHANGED <<point, found>>
                          ELSE SearchUpdate(TRUE, needle, point, backward)
  BY DEF PromptInv, PromptStays, Repeat
<1>2. /\ Looking(point, search_backward, search_failed, search_wrapped, search_good)
      /\ Input(input, input_point) /\ Input(last_search, Len(last_search))
  BY <1>1, NowTyped
<1>3. Input(needle, input_point')
  <2>1. CASE input = <<>>
    BY <1>1, <1>2, <2>1
  <2>2. CASE input # <<>>
    BY <1>1, <1>2, <2>2
  <2> QED
    BY <2>1, <2>2
<1> HIDE DEF needle
<1>4. CASE needle = <<>>
  <2>1. /\ point' = point /\ search_failed' = search_failed
        /\ search_wrapped' = search_wrapped /\ search_good' = search_good
    BY <1>1, <1>4 DEF found
  <2>2. Looking(point', search_backward', search_failed', search_wrapped', search_good')
    BY <1>1, <1>2, <2>1 DEF Looking
  <2>3. Typed'
    BY <1>1, <1>3, <2>2, StaysTyped
  <2>4. ShowsMatch'
    BY <1>1, <1>4 DEF ShowsMatch
  <2> QED
    BY <1>1, <2>3, <2>4, StaysOther DEF PromptInv
<1>5. CASE needle # <<>>
  <2>1. SearchUpdate(TRUE, needle, point, search_backward')
    BY <1>1, <1>5
  <2>2. point \in Nat /\ (alone => point <= Len(text)) /\ search_backward' \in BOOLEAN
        /\ TRUE \in BOOLEAN
    BY <1>1, <1>2 DEF Looking
  <2> QED
    BY <1>1, <1>3, <1>5, <2>1, <2>2, SearchKeeps
<1> QED
  BY <1>4, <1>5

LEMMA BackToGoodStep ==
    ASSUME PromptInv, BackToGood
    PROVE  PromptInv'
<1>1. /\ PromptStays /\ Searching /\ search_backward' = search_backward
      /\ Typed /\ AsksOfMatch /\ LoopPromise /\ ShowsMatch
      /\ input' = search_good /\ input_point' = Len(search_good) /\ Looked(search_good)
  BY DEF PromptInv, PromptStays, BackToGood
<1>2. /\ Looking(point, search_backward, search_failed, search_wrapped, search_good)
      /\ Input(search_good, input_point')
  BY <1>1, NowTyped
<1>3. CASE search_good = <<>>
  <2>1. /\ point' = point /\ search_failed' = FALSE
        /\ search_wrapped' = search_wrapped /\ search_good' = search_good
    BY <1>1, <1>3 DEF Looked
  <2>2. Looking(point', search_backward', search_failed', search_wrapped', search_good')
    BY <1>1, <1>2, <2>1 DEF Looking
  <2>3. Typed'
    BY <1>1, <1>2, <2>2, StaysTyped
  <2>4. ShowsMatch'
    BY <1>1, <1>3 DEF ShowsMatch
  <2> QED
    BY <1>1, <2>3, <2>4, StaysOther DEF PromptInv
<1>4. CASE search_good # <<>>
  <2>1. SearchUpdate(FALSE, search_good, point, search_backward')
    BY <1>1, <1>4 DEF Looked
  <2>2. point \in Nat /\ (alone => point <= Len(text)) /\ search_backward' \in BOOLEAN
        /\ FALSE \in BOOLEAN
    BY <1>1, <1>2 DEF Looking
  <2> QED
    BY <1>1, <1>2, <1>4, <2>1, <2>2, SearchKeeps
<1> QED
  BY <1>3, <1>4

\* A prompt with no input yet shows nothing, and one that does not ask about a
\* replacement promises nothing.
LEMMA NothingShown ==
    ASSUME input' = <<>>, ~Stepping', ~all'
    PROVE  ShowsMatch' /\ AsksOfMatch' /\ LoopPromise'
BY DEF ShowsMatch, AsksOfMatch, LoopPromise

LEMMA NoInput ==
    /\ MaxInput \in Nat /\ MaxPrompts \in Nat
    /\ <<>> \in Seq(Chars) /\ Len(<<>>) = 0 /\ 0 \in 0 .. Len(<<>>) /\ Len(<<>>) <= MaxInput
<1>1. MaxInput \in Nat /\ MaxPrompts \in Nat
  BY BoundAssumption
<1>2. <<>> \in Seq(Chars) /\ Len(<<>>) = 0 /\ 0 \in 0 .. Len(<<>>)
  OBVIOUS
<1> QED
  BY <1>1, <1>2

LEMMA PromptKinds ==
    ASSUME NEW c, c \in {"", "isearch-forward", "isearch-backward",
                         "query-from", "query-to", "replace-from", "replace-to"}
    PROVE  /\ c # "query-step"
           /\ \/ c = ""
              \/ c \in {"isearch-forward", "isearch-backward"}
              \/ c \in {"query-from", "query-to", "replace-from", "replace-to"}
OBVIOUS

\* What a prompt that asks nothing of the text needs to be typed.
OtherKinds == {"", "isearch-forward", "isearch-backward",
               "query-from", "query-to", "replace-from", "replace-to"}

LEMMA OpenedTyped ==
    ASSUME input' \in Seq(Chars), Len(input') <= MaxInput, input_point' \in 0 .. Len(input'),
           all' = FALSE, prompt_command' \in OtherKinds,
           prompt_command' \in {"query-to", "replace-to"} => replace_from' # <<>>,
           text' \in Seq(Chars), mark' \in Int, point' \in Nat, readonly' \in BOOLEAN,
           alone' \in BOOLEAN, alone' => point' <= Len(text'),
           Searching' /\ alone' => search_origin' <= Len(text'),
           search_origin' \in Nat, replace_at' \in Nat, search_backward' \in BOOLEAN,
           search_failed' \in BOOLEAN, search_wrapped' \in BOOLEAN,
           search_good' \in Seq(Chars), Len(search_good') <= MaxInput,
           last_search' \in Seq(Chars), Len(last_search') <= MaxInput,
           replace_from' \in Seq(Chars), replace_to' \in Seq(Chars),
           prompts' \in 0 .. MaxPrompts
    PROVE  Typed'
<1>1. ~Stepping' /\ (prompt_command' = "" \/ Searching' \/ Asking')
  BY PromptKinds, Zenon DEF Stepping, Searching, Asking, OtherKinds
<1>2. TypeOK'
  BY <1>1 DEF TypeOK
<1> QED
  BY <1>2 DEF Typed

\* What holds of the rest of the prompt is typed once it has been cleared.
LEMMA ClearedTyped ==
    ASSUME input' = <<>>, input_point' = 0, all' = FALSE,
           prompt_command' \in {"", "isearch-forward", "isearch-backward",
                                "query-from", "query-to", "replace-from", "replace-to"},
           prompt_command' \in {"query-to", "replace-to"} => replace_from' # <<>>,
           text' \in Seq(Chars), mark' \in Int, point' \in Nat, readonly' \in BOOLEAN,
           alone' \in BOOLEAN, alone' => point' <= Len(text'),
           Searching' /\ alone' => search_origin' <= Len(text'),
           search_origin' \in Nat, replace_at' \in Nat, search_backward' \in BOOLEAN,
           search_failed' \in BOOLEAN, search_wrapped' \in BOOLEAN,
           search_good' \in Seq(Chars), Len(search_good') <= MaxInput,
           last_search' \in Seq(Chars), Len(last_search') <= MaxInput,
           replace_from' \in Seq(Chars), replace_to' \in Seq(Chars),
           prompts' \in 0 .. MaxPrompts
    PROVE  Typed'
<1>1. <<>> \in Seq(Chars) /\ Len(<<>>) <= MaxInput /\ 0 \in 0 .. Len(<<>>)
  BY NoInput, Zenon
<1>2. input' \in Seq(Chars) /\ Len(input') <= MaxInput /\ input_point' \in 0 .. Len(input')
  BY <1>1, Zenon
<1>3. prompt_command' \in OtherKinds
  BY DEF OtherKinds
<1> QED
  BY <1>2, <1>3, OpenedTyped, Zenon

\* The facts about the state that these steps start from.
LEMMA Facts ==
    ASSUME Typed
    PROVE  /\ text \in Seq(Chars) /\ mark \in Int /\ point \in Nat /\ alone \in BOOLEAN
           /\ alone => point <= Len(text)
           /\ readonly \in BOOLEAN
           /\ Searching /\ alone => search_origin <= Len(text)
           /\ search_origin \in Nat /\ replace_at \in Nat /\ search_backward \in BOOLEAN
           /\ search_failed \in BOOLEAN /\ search_wrapped \in BOOLEAN
           /\ search_good \in Seq(Chars) /\ Len(search_good) <= MaxInput
           /\ last_search \in Seq(Chars) /\ Len(last_search) <= MaxInput
           /\ input \in Seq(Chars) /\ Len(input) <= MaxInput
           /\ replace_from \in Seq(Chars) /\ replace_to \in Seq(Chars)
           /\ prompts \in 0 .. MaxPrompts
           /\ all => Stepping
           /\ Stepping \/ prompt_command \in {"query-to", "replace-to"} => replace_from # <<>>
BY DEF Typed, TypeOK

LEMMA StartSearchStep ==
    ASSUME PromptInv, NEW backward \in BOOLEAN,
           NEW arg \in Seq(Chars), Len(arg) <= MaxInput, StartSearch(backward, arg)
    PROVE  PromptInv'
<1>1. Typed /\ ~all
  BY DEF PromptInv, StartSearch, Opened
<1>2. /\ input' = arg /\ input_point' = Len(arg) /\ all' = FALSE
      /\ prompt_command' \in {"isearch-forward", "isearch-backward"}
      /\ text' = text /\ mark' = mark /\ point' = point /\ last_search' = last_search
      /\ search_origin' = point /\ search_backward' = backward
      /\ search_failed' = FALSE /\ search_wrapped' = FALSE /\ search_good' = <<>>
      /\ replace_from' = replace_from /\ replace_to' = replace_to /\ replace_at' = replace_at
      /\ alone' = (point <= Len(text)) /\ prompts < MaxPrompts /\ prompts' = prompts + 1
      /\ readonly' = readonly
  BY <1>1 DEF StartSearch, Opened, PromptWith, buffer, query, Typed
<1>3. ~Stepping' /\ prompts' \in 0 .. MaxPrompts
  BY <1>1, <1>2, Facts, BoundAssumption DEF Stepping
<1>4. /\ text' \in Seq(Chars) /\ mark' \in Int /\ point' \in Nat /\ alone' \in BOOLEAN
      /\ readonly' \in BOOLEAN /\ (alone' => point' <= Len(text'))
      /\ search_origin' \in Nat /\ (Searching' /\ alone' => search_origin' <= Len(text'))
  BY <1>1, <1>2, Facts
<1>5. /\ search_backward' \in BOOLEAN /\ search_failed' \in BOOLEAN
      /\ search_wrapped' \in BOOLEAN
      /\ search_good' \in Seq(Chars) /\ Len(search_good') <= MaxInput
      /\ last_search' \in Seq(Chars) /\ Len(last_search') <= MaxInput
  BY <1>1, <1>2, Facts, NoInput, Zenon
<1>6. replace_from' \in Seq(Chars) /\ replace_to' \in Seq(Chars) /\ replace_at' \in Nat
  BY <1>1, <1>2, Facts
<1>7. /\ prompt_command' \in OtherKinds
      /\ prompt_command' \in {"query-to", "replace-to"} => replace_from' # <<>>
  BY <1>2 DEF OtherKinds
<1>8. input' \in Seq(Chars) /\ Len(input') <= MaxInput /\ input_point' \in 0 .. Len(input')
  <2>1. Len(arg) \in Nat
    OBVIOUS
  <2> QED
    BY <1>2, <2>1
<1>9. Typed'
  BY <1>2, <1>3, <1>4, <1>5, <1>6, <1>7, <1>8, OpenedTyped, Zenon
<1>10. ShowsMatch'
  <2>1. input' # <<>> => Unlooked'
    BY <1>2 DEF Unlooked
  <2>2. point' = search_origin'
    BY <1>2
  <2> QED
    BY <2>1, <2>2, Zenon DEF ShowsMatch
<1>11. AsksOfMatch' /\ LoopPromise'
  BY <1>2, <1>3 DEF AsksOfMatch, LoopPromise
<1> QED
  BY <1>9, <1>10, <1>11 DEF PromptInv

LEMMA StartReplaceStep ==
    ASSUME PromptInv, NEW cmd \in {"query-from", "replace-from"}, StartReplace(cmd)
    PROVE  PromptInv'
<1>1. Typed /\ ~all
  BY DEF PromptInv, StartReplace, Opened
<1>2. /\ input' = <<>> /\ input_point' = 0 /\ all' = FALSE
      /\ prompt_command' \in {"query-from", "replace-from"}
      /\ text' = text /\ mark' = mark /\ point' = point /\ last_search' = last_search
      /\ search_origin' = search_origin /\ search_backward' = search_backward
      /\ search_failed' = search_failed /\ search_wrapped' = search_wrapped
      /\ search_good' = search_good
      /\ replace_from' = replace_from /\ replace_to' = replace_to /\ replace_at' = replace_at
      /\ alone' = (point <= Len(text)) /\ prompts < MaxPrompts /\ prompts' = prompts + 1
      /\ readonly' = readonly
  BY <1>1 DEF StartReplace, Opened, Prompt, PromptWith, buffer, search, found, query, Typed
<1>3. ~Stepping' /\ ~Searching' /\ prompts' \in 0 .. MaxPrompts
  <2>1. ~Stepping' /\ ~Searching'
    BY <1>2 DEF Stepping, Searching
  <2>2. prompts \in 0 .. MaxPrompts /\ MaxPrompts \in Nat
    BY <1>1, Facts, NoInput, Zenon
  <2> QED
    BY <1>2, <2>1, <2>2
<1>4. /\ text' \in Seq(Chars) /\ mark' \in Int /\ point' \in Nat /\ alone' \in BOOLEAN
      /\ readonly' \in BOOLEAN /\ (alone' => point' <= Len(text'))
      /\ search_origin' \in Nat /\ (Searching' /\ alone' => search_origin' <= Len(text'))
  BY <1>1, <1>2, <1>3, Facts
<1>5. /\ search_backward' \in BOOLEAN /\ search_failed' \in BOOLEAN
      /\ search_wrapped' \in BOOLEAN
      /\ search_good' \in Seq(Chars) /\ Len(search_good') <= MaxInput
      /\ last_search' \in Seq(Chars) /\ Len(last_search') <= MaxInput
  BY <1>1, <1>2, Facts, Zenon
<1>6. replace_from' \in Seq(Chars) /\ replace_to' \in Seq(Chars) /\ replace_at' \in Nat
  BY <1>1, <1>2, Facts
<1>7. /\ prompt_command' \in {"", "isearch-forward", "isearch-backward",
                              "query-from", "query-to", "replace-from", "replace-to"}
      /\ prompt_command' \in {"query-to", "replace-to"} => replace_from' # <<>>
  BY <1>2
<1>8. Typed'
  BY <1>1, <1>2, <1>3, <1>4, <1>5, <1>6, <1>7, ClearedTyped, Zenon
<1> QED
  BY <1>2, <1>3, <1>8, NothingShown DEF PromptInv

\* A key closes the prompt.
Closes == Key /\ PromptClear /\ all' = all

LEMMA ClosedTyped ==
    ASSUME Typed, Closes, text' = text, mark' \in Int,
           point' \in Nat, alone => point' <= Len(text),
           UNCHANGED <<search_origin, search_backward, found>>,
           last_search' \in Seq(Chars), Len(last_search') <= MaxInput,
           replace_at' = replace_at,
           replace_from' \in Seq(Chars), replace_to' = replace_to
    PROVE  Typed' /\ ShowsMatch' /\ AsksOfMatch' /\ LoopPromise'
<1>1. /\ input' = <<>> /\ input_point' = 0 /\ all' = FALSE /\ prompt_command' = ""
      /\ prompts' = prompts /\ alone' = alone
      /\ search_origin' = search_origin /\ search_backward' = search_backward
      /\ search_failed' = search_failed /\ search_wrapped' = search_wrapped
      /\ search_good' = search_good /\ readonly' = readonly
  BY DEF Closes, Key, PromptClear, Prompt, PromptWith, found, Typed
<1>2. ~Stepping' /\ ~Searching'
  BY <1>1 DEF Stepping, Searching
<1>3. Typed'
  BY <1>1, <1>2, Facts, ClearedTyped
<1> QED
  BY <1>1, <1>2, <1>3, NothingShown

LEMMA KeyboardQuitStep ==
    ASSUME PromptInv, KeyboardQuit
    PROVE  PromptInv'
<1>1. /\ Typed /\ Closes /\ text' = text /\ mark' = mark
      /\ UNCHANGED <<search_origin, search_backward, found>>
      /\ last_search' = last_search /\ replace_at' = replace_at
      /\ replace_from' = replace_from /\ replace_to' = replace_to
      /\ point' = IF Searching THEN search_origin ELSE point
  BY DEF PromptInv, KeyboardQuit, Closes, search, query
<1>2. point' \in Nat /\ (alone => point' <= Len(text))
  BY <1>1, Facts
<1> QED
  BY <1>1, <1>2, Facts, ClosedTyped DEF PromptInv

LEMMA AcceptSearchStep ==
    ASSUME PromptInv, AcceptSearch
    PROVE  PromptInv'
<1>1. /\ Typed /\ Closes /\ text' = text /\ mark' = search_origin /\ point' = point
      /\ UNCHANGED <<search_origin, search_backward, found>>
      /\ last_search' = input /\ replace_at' = replace_at
      /\ replace_from' = replace_from /\ replace_to' = replace_to
  BY DEF PromptInv, AcceptSearch, Closes, found, query
<1>2. mark' \in Int
  BY <1>1, Facts
<1> QED
  BY <1>1, <1>2, Facts, ClosedTyped DEF PromptInv

LEMMA LeaveSearchStep ==
    ASSUME PromptInv, NEW p \in 0 .. Len(text), LeaveSearch(p)
    PROVE  PromptInv'
<1>1. /\ Typed /\ Closes /\ text' = text /\ mark' = mark /\ point' = p
      /\ UNCHANGED <<search_origin, search_backward, found>>
      /\ last_search' = input /\ replace_at' = replace_at
      /\ replace_from' = replace_from /\ replace_to' = replace_to
  BY DEF PromptInv, LeaveSearch, Closes, found, query
<1>2. p \in Nat /\ p <= Len(text)
  BY <1>1, Facts
<1> QED
  BY <1>1, <1>2, Facts, ClosedTyped DEF PromptInv

LEMMA QuitReplaceStep ==
    ASSUME PromptInv, QuitReplace
    PROVE  PromptInv'
<1>1. /\ Typed /\ Closes /\ text' = text /\ mark' = mark /\ point' = point
      /\ UNCHANGED <<search_origin, search_backward, found>>
      /\ last_search' = last_search /\ replace_at' = replace_at
      /\ replace_from' = replace_from /\ replace_to' = replace_to
  BY DEF PromptInv, QuitReplace, Closes, buffer, search, query
<1> QED
  BY <1>1, Facts, ClosedTyped DEF PromptInv

LEMMA AcceptFromStep ==
    ASSUME PromptInv, AcceptFrom
    PROVE  PromptInv'
<1>1. /\ Typed /\ Key /\ text' = text /\ mark' = mark /\ point' = point
      /\ search_origin' = search_origin /\ search_backward' = search_backward
      /\ search_failed' = search_failed /\ search_wrapped' = search_wrapped
      /\ search_good' = search_good
      /\ last_search' = last_search /\ replace_at' = replace_at /\ replace_to' = replace_to
      /\ all' = all
  BY DEF PromptInv, AcceptFrom, buffer, search, found
<1>2. /\ all' = FALSE /\ prompts' = prompts /\ alone' = alone /\ readonly' = readonly
      /\ input' = <<>> /\ input_point' = 0
  BY <1>1 DEF AcceptFrom, Key, Prompt, PromptWith, PromptClear, Typed
<1>3. CASE input = <<>>
  <2>1. prompt_command' = "" /\ replace_from' = replace_from
    BY <1>3 DEF AcceptFrom, PromptClear, Prompt, PromptWith
  <2>2. ~Stepping' /\ ~Searching'
    BY <2>1 DEF Stepping, Searching
  <2>3. Typed'
    BY <1>1, <1>2, <2>1, <2>2, Facts, ClearedTyped
  <2> QED
    BY <1>2, <2>2, <2>3, NothingShown DEF PromptInv
<1>4. CASE input # <<>>
  <2>1. prompt_command' \in {"query-to", "replace-to"} /\ replace_from' = input
    BY <1>4 DEF AcceptFrom, Prompt, PromptWith
  <2>2. ~Stepping' /\ ~Searching'
    BY <2>1 DEF Stepping, Searching
  <2>3. Typed'
    BY <1>1, <1>2, <1>4, <2>1, <2>2, Facts, ClearedTyped
  <2> QED
    BY <1>2, <2>2, <2>3, NothingShown DEF PromptInv
<1> QED
  BY <1>3, <1>4

-----------------------------------------------------------------------------
(***************************************************************************)
(* Replacing.                                                              *)
(***************************************************************************)
\* No occurrence of w in t from p on: the prompt ends.
Ended(t, p, w) ==
    /\ prompt_command' = "" /\ all' = FALSE /\ point' = p
    /\ \A at \in Nat : Occurs(t, w, at) => at < p

\* The first one from p on is asked about.
Asked(t, p, w, looping) ==
    /\ prompt_command' = "query-step" /\ all' = looping
    /\ point' <= Len(t)
    /\ p <= replace_at' /\ Occurs(t, w, replace_at')
    /\ \A at \in Nat : p <= at /\ at < replace_at' => ~Occurs(t, w, at)

LEMMA QueryResult ==
    ASSUME NEW t \in Seq(Chars), NEW p \in Nat, NEW m \in Int,
           NEW w \in Seq(Chars), w # <<>>, NEW looping \in BOOLEAN,
           QueryNext(t, p, m, w, looping), replace_at \in Nat
    PROVE  /\ input' = <<>> /\ input_point' = 0
           /\ mark' \in Int /\ point' \in Nat /\ replace_at' \in Nat
           /\ Ended(t, p, w) \/ Asked(t, p, w, looping)
<1> DEFINE at == Find(t, w, p, FALSE)
<1>1. IsFirst(t, w, p, at)
  BY FindsFirst, Zenon
<1>2. ASSUME at # NotFound
      PROVE  at \in Nat /\ at + Len(w) <= Len(t)
  BY <1>2, FindTyped
<1>3. IF at = NotFound
      THEN /\ PromptClear /\ all' = FALSE /\ point' = p /\ mark' = m
           /\ replace_at' = replace_at
      ELSE /\ Prompt("query-step") /\ all' = looping /\ replace_at' = at
           /\ point' = at + Len(w) /\ mark' = at
  BY DEF QueryNext
<1> HIDE DEF at
<1>4. CASE at = NotFound
  <2>1. \A x \in Nat : Occurs(t, w, x) => x < p
    BY <1>1, <1>4 DEF IsFirst
  <2>2. Ended(t, p, w)
    BY <1>3, <1>4, <2>1 DEF Ended, PromptClear, Prompt, PromptWith
  <2> QED
    BY <1>3, <1>4, <2>2 DEF PromptClear, Prompt, PromptWith
<1>5. CASE at # NotFound
  <2>1. at \in Nat /\ at + Len(w) <= Len(t) /\ Len(w) \in Nat
    BY <1>2, <1>5, WordTyped
  <2>2. replace_at' = at /\ point' = at + Len(w) /\ mark' = at /\ Prompt("query-step")
        /\ all' = looping
    BY <1>3, <1>5
  <2>3. p <= at /\ Occurs(t, w, at) /\ \A x \in Nat : Occurs(t, w, x) /\ p <= x => at <= x
    BY <1>1, <1>5 DEF IsFirst
  <2>4. \A x \in Nat : p <= x /\ x < at => ~Occurs(t, w, x)
    BY <2>1, <2>3
  <2>5. Asked(t, p, w, looping)
    BY <2>1, <2>2, <2>3, <2>4 DEF Asked, Prompt, PromptWith
  <2> QED
    BY <2>1, <2>2, <2>5 DEF Prompt, PromptWith
<1> QED
  BY <1>4, <1>5

\* What a prompt that replaces leaves alone.
Replacing ==
    /\ UNCHANGED <<readonly, search, replace_from, prompts, alone>>
    /\ replace_to' \in Seq(Chars)

LEMMA ReplacingTyped ==
    ASSUME Typed, Replacing
    PROVE  /\ search_origin' \in Nat /\ search_backward' \in BOOLEAN
           /\ search_failed' \in BOOLEAN /\ search_wrapped' \in BOOLEAN
           /\ search_good' \in Seq(Chars) /\ Len(search_good') <= MaxInput
           /\ last_search' \in Seq(Chars) /\ Len(last_search') <= MaxInput
           /\ replace_from' \in Seq(Chars) /\ replace_from' = replace_from
           /\ replace_to' \in Seq(Chars)
           /\ prompts' \in 0 .. MaxPrompts /\ alone' \in BOOLEAN /\ alone' = alone
           /\ readonly' \in BOOLEAN
<1>1. /\ search_origin' = search_origin /\ search_backward' = search_backward
      /\ search_failed' = search_failed /\ search_wrapped' = search_wrapped
      /\ search_good' = search_good /\ last_search' = last_search
      /\ replace_from' = replace_from /\ prompts' = prompts /\ alone' = alone
      /\ readonly' = readonly
  BY DEF Replacing, search, found
<1> QED
  BY <1>1, Facts, Zenon DEF Replacing

\* The prompt has closed, or asks about the next occurrence.
LEMMA QueryTyped ==
    ASSUME Typed, Replacing, replace_from # <<>>,
           text' \in Seq(Chars), NEW p \in Nat, p <= Len(text') \/ ~alone,
           NEW m \in Int, NEW looping \in BOOLEAN,
           QueryNext(text', p, m, replace_from, looping)
    PROVE  /\ Typed' /\ ShowsMatch' /\ AsksOfMatch'
           /\ Ended(text', p, replace_from) \/ Asked(text', p, replace_from, looping)
<1>1. replace_from \in Seq(Chars) /\ replace_at \in Nat
  BY Facts
<1>2. /\ input' = <<>> /\ input_point' = 0
      /\ mark' \in Int /\ point' \in Nat /\ replace_at' \in Nat
      /\ Ended(text', p, replace_from) \/ Asked(text', p, replace_from, looping)
  BY <1>1, QueryResult
<1>3. /\ search_origin' \in Nat /\ search_backward' \in BOOLEAN
      /\ search_failed' \in BOOLEAN /\ search_wrapped' \in BOOLEAN
      /\ search_good' \in Seq(Chars) /\ Len(search_good') <= MaxInput
      /\ last_search' \in Seq(Chars) /\ Len(last_search') <= MaxInput
      /\ replace_from' \in Seq(Chars) /\ replace_from' = replace_from
      /\ replace_to' \in Seq(Chars)
      /\ prompts' \in 0 .. MaxPrompts /\ alone' \in BOOLEAN /\ alone' = alone
      /\ readonly' \in BOOLEAN
  BY ReplacingTyped
<1>4. ShowsMatch'
  BY <1>2 DEF ShowsMatch
<1>5. CASE Ended(text', p, replace_from)
  <2>1. prompt_command' = "" /\ all' = FALSE /\ point' = p
    BY <1>5 DEF Ended
  <2>2. ~Searching' /\ ~Stepping'
    BY <2>1 DEF Searching, Stepping
  <2>3. /\ alone' => point' <= Len(text')
        /\ Searching' /\ alone' => search_origin' <= Len(text')
    BY <1>3, <2>1, <2>2
  <2>4. /\ prompt_command' \in {"", "isearch-forward", "isearch-backward",
                                "query-from", "query-to", "replace-from", "replace-to"}
        /\ prompt_command' \in {"query-to", "replace-to"} => replace_from' # <<>>
    BY <2>1
  <2>5. Typed'
    BY <1>2, <1>3, <2>1, <2>3, <2>4, ClearedTyped, Zenon
  <2> QED
    BY <1>2, <1>4, <2>2, <2>5 DEF AsksOfMatch
<1>6. CASE Asked(text', p, replace_from, looping)
  <2>1. prompt_command' = "query-step" /\ all' = looping /\ point' <= Len(text')
        /\ Occurs(text', replace_from, replace_at')
    BY <1>6 DEF Asked
  <2>2. ~Searching' /\ Stepping'
    BY <2>1 DEF Searching, Stepping
  <2>3. input' \in Seq(Chars) /\ Len(input') <= MaxInput /\ input_point' \in 0 .. Len(input')
    BY <1>2, NoInput, Zenon
  <2>4. TypeOK'
    BY <1>2, <1>3, <2>1, <2>2, <2>3 DEF TypeOK
  <2>5. Typed'
    <3>1. all' \in BOOLEAN /\ prompt_command' \notin {"query-to", "replace-to"}
      BY <2>1
    <3> QED
      BY <1>3, <2>2, <2>4, <3>1 DEF Typed
  <2>6. AsksOfMatch'
    BY <1>3, <2>1, Zenon DEF AsksOfMatch
  <2> QED
    BY <1>2, <1>4, <2>5, <2>6
<1> QED
  BY <1>2, <1>5, <1>6

LEMMA AcceptToStep ==
    ASSUME PromptInv, AcceptTo
    PROVE  PromptInv'
<1> DEFINE looping == prompt_command = "replace-to"
<1>1. /\ Typed /\ Key /\ replace_to' = input /\ text' = text
      /\ prompt_command \in {"query-to", "replace-to"}
      /\ QueryNext(text, point, mark, replace_from, looping)
      /\ before' = IF all' THEN [text |-> text, at |-> replace_at'] ELSE Nothing
  BY DEF PromptInv, AcceptTo
<1>2. looping \in BOOLEAN
  OBVIOUS
<1> HIDE DEF looping
<1>3. Replacing
  BY <1>1, Facts DEF AcceptTo, Key, Replacing
<1>4. /\ text \in Seq(Chars) /\ point \in Nat /\ mark \in Int
      /\ point <= Len(text) \/ ~alone
  BY <1>1, Facts
<1>5. replace_from # <<>>
  BY <1>1, Facts
<1>6. QueryNext(text', point, mark, replace_from, looping) /\ text' \in Seq(Chars)
      /\ (point <= Len(text') \/ ~alone)
  BY <1>1, <1>4
<1>7. Typed' /\ ShowsMatch' /\ AsksOfMatch'
  BY <1>1, <1>2, <1>3, <1>4, <1>5, <1>6, QueryTyped
<1>8. LoopPromise'
  <2>1. CASE all'
    <3>1. before'.text = text' /\ before'.at = replace_at'
      BY <1>1, <2>1
    <3> QED
      BY <3>1, Zenon DEF LoopPromise
  <2>2. CASE ~all'
    BY <2>2 DEF LoopPromise
  <2> QED
    BY <2>1, <2>2
<1> QED
  BY <1>7, <1>8 DEF PromptInv

LEMMA SkipStep ==
    ASSUME PromptInv, Skip
    PROVE  PromptInv'
<1>1. /\ Typed /\ Key /\ Stepping /\ text' = text /\ replace_to' = replace_to
      /\ QueryNext(text, point, mark, replace_from, FALSE)
  BY DEF PromptInv, Skip
<1>2. Replacing
  BY <1>1, Facts DEF Skip, Key, Replacing
<1>3. /\ text \in Seq(Chars) /\ point \in Nat /\ mark \in Int
      /\ point <= Len(text) \/ ~alone
  BY <1>1, Facts
<1>4. replace_from # <<>>
  BY <1>1, Facts
<1>5. QueryNext(text', point, mark, replace_from, FALSE) /\ text' \in Seq(Chars)
      /\ (point <= Len(text') \/ ~alone) /\ FALSE \in BOOLEAN
  BY <1>1, <1>3
<1>6. /\ Typed' /\ ShowsMatch' /\ AsksOfMatch'
      /\ Ended(text', point, replace_from) \/ Asked(text', point, replace_from, FALSE)
  BY <1>1, <1>2, <1>3, <1>4, <1>5, QueryTyped
<1>7. ~all'
  BY <1>6 DEF Ended, Asked
<1>8. LoopPromise'
  BY <1>7 DEF LoopPromise
<1> QED
  BY <1>6, <1>8 DEF PromptInv

LEMMA ReplaceAllStep ==
    ASSUME PromptInv, ReplaceAll
    PROVE  PromptInv'
<1>1. /\ Typed /\ AsksOfMatch /\ Key /\ Stepping /\ all' = TRUE
      /\ before' = [text |-> text, at |-> replace_at]
      /\ UNCHANGED <<buffer, minibuffer, search, replace_from, replace_to, replace_at>>
      /\ prompts' = prompts /\ alone' = alone /\ readonly' = readonly
  BY DEF PromptInv, ReplaceAll, Key
<1>2. /\ text' = text /\ mark' = mark /\ point' = point
      /\ prompt_command' = prompt_command /\ input' = input /\ input_point' = input_point
      /\ replace_from' = replace_from /\ replace_to' = replace_to /\ replace_at' = replace_at
      /\ search_origin' = search_origin /\ search_backward' = search_backward
      /\ search_failed' = search_failed /\ search_wrapped' = search_wrapped
      /\ search_good' = search_good /\ last_search' = last_search
  BY <1>1 DEF buffer, minibuffer, search, found
<1>3. Stepping' /\ ~Searching'
  BY <1>1, <1>2 DEF Stepping, Searching
<1>4. Typed'
  <2>1. TypeOK'
    BY <1>1, <1>2, <1>3 DEF Typed, TypeOK, Asking, Searching
  <2> QED
    BY <1>1, <1>2, <1>3, <2>1 DEF Typed
<1>5. ShowsMatch'
  BY <1>3 DEF ShowsMatch
<1>6. AsksOfMatch'
  BY <1>1, <1>2, Zenon DEF AsksOfMatch, Stepping
<1>7. LoopPromise'
  <2>1. before'.text = text' /\ before'.at = replace_at'
    BY <1>1, <1>2
  <2> QED
    BY <2>1, Zenon DEF LoopPromise
<1> QED
  BY <1>4, <1>5, <1>6, <1>7 DEF PromptInv

\* A replacement where the question was asked: nothing else that stood behind it
\* is lost or missed.
LEMMA HereResult ==
    ASSUME Typed, AsksOfMatch, Stepping, NEW looping \in BOOLEAN,
           ReplaceHere(looping), Replacing, replace_to' = replace_to
    PROVE  /\ Typed' /\ ShowsMatch' /\ AsksOfMatch'
           /\ all' => looping
           /\ all' /\ alone =>
                Rewritten(text', replace_from, replace_to, replace_at')
                    = Rewritten(text, replace_from, replace_to, replace_at)
           /\ ~all' /\ looping /\ alone =>
                text' = IF readonly THEN text
                        ELSE Rewritten(text, replace_from, replace_to, replace_at)
           /\ all' => ~readonly
<1> DEFINE count == Len(replace_from)
           next == Replaced(text, replace_at, count, replace_to)
           m == Relocated(mark, replace_at, count, Len(replace_to))
<1>1. /\ text \in Seq(Chars) /\ replace_from \in Seq(Chars) /\ replace_to \in Seq(Chars)
      /\ replace_at \in Nat /\ mark \in Int /\ point \in Nat
      /\ alone => point <= Len(text)
      /\ replace_from # <<>>
  BY Facts
<1>2. Len(text) \in Nat /\ count \in Nat /\ Len(replace_to) \in Nat
  BY <1>1
<1>3. IF readonly \/ replace_at + count > Len(text)
      THEN /\ PromptClear /\ all' = FALSE
           /\ text' = text /\ point' = point /\ mark' = mark /\ replace_at' = replace_at
      ELSE /\ text' = next
           /\ QueryNext(text', Behind, m, replace_from, looping)
  BY DEF ReplaceHere, Refused, buffer
<1>4. alone => Occurs(text, replace_from, replace_at)
  BY DEF AsksOfMatch
<1>5. alone => replace_at + count <= Len(text)
  BY <1>4 DEF Occurs
<1> HIDE DEF count
<1>6. CASE readonly \/ replace_at + count > Len(text)
  <2>1. alone => readonly
    BY <1>1, <1>2, <1>5, <1>6
  <2>2. /\ PromptClear /\ all' = FALSE
        /\ text' = text /\ point' = point /\ mark' = mark /\ replace_at' = replace_at
    BY <1>3, <1>6
  <2>3. /\ search_origin' \in Nat /\ search_backward' \in BOOLEAN
        /\ search_failed' \in BOOLEAN /\ search_wrapped' \in BOOLEAN
        /\ search_good' \in Seq(Chars) /\ Len(search_good') <= MaxInput
        /\ last_search' \in Seq(Chars) /\ Len(last_search') <= MaxInput
        /\ replace_from' \in Seq(Chars) /\ replace_to' \in Seq(Chars)
        /\ prompts' \in 0 .. MaxPrompts /\ alone' \in BOOLEAN /\ alone' = alone
        /\ readonly' \in BOOLEAN
    BY ReplacingTyped
  <2>4. prompt_command' = "" /\ input' = <<>> /\ input_point' = 0
    BY <2>2 DEF PromptClear, Prompt, PromptWith
  <2>5. ~Stepping' /\ ~Searching' /\ ~all'
    BY <2>2, <2>4 DEF Stepping, Searching
  <2>6. /\ alone' => point' <= Len(text')
        /\ Searching' /\ alone' => search_origin' <= Len(text')
    BY <1>1, <2>2, <2>3, <2>5
  <2>7. /\ prompt_command' \in {"", "isearch-forward", "isearch-backward",
                                "query-from", "query-to", "replace-from", "replace-to"}
        /\ prompt_command' \in {"query-to", "replace-to"} => replace_from' # <<>>
    BY <2>4
  <2>8. text' \in Seq(Chars) /\ mark' \in Int /\ point' \in Nat /\ replace_at' \in Nat
    BY <1>1, <2>2, Zenon
  <2>9. Typed'
    BY <2>2, <2>3, <2>4, <2>6, <2>7, <2>8, ClearedTyped, Zenon
  <2> QED
    BY <2>1, <2>2, <2>4, <2>5, <2>9, NothingShown
<1>7. CASE ~(readonly \/ replace_at + count > Len(text))
  <2>1. text' = next /\ QueryNext(text', Behind, m, replace_from, looping)
    BY <1>3, <1>7, Zenon
  <2>2. replace_at + count <= Len(text)
    BY <1>1, <1>2, <1>7
  <2>3. next \in Seq(Chars) /\ Len(next) = Len(text) - count + Len(replace_to)
    <3>1. /\ Replaced(text, replace_at, count, replace_to) \in Seq(Chars)
          /\ Len(Replaced(text, replace_at, count, replace_to))
                = Len(text) - count + Len(replace_to)
      <4>1. /\ text \in Seq(Chars) /\ replace_to \in Seq(Chars)
            /\ replace_at \in Nat /\ count \in Nat
        BY <1>1, <1>2
      <4> QED
        BY <2>2, <4>1, ReplacedTyped
    <3> QED
      BY <3>1, Zenon
  <2>4. m \in Int
    BY <1>1, <1>2, <2>2, RelocatedTyped
  <2> HIDE DEF m, next
  <2>5. Behind \in Nat /\ Behind <= Len(text') /\ Behind = replace_at + Len(replace_to)
    BY <1>1, <1>2, <2>1, <2>2, <2>3 DEF Behind
  <2>6. text' \in Seq(Chars)
    BY <2>1, <2>3
  <2>7. /\ Typed' /\ ShowsMatch' /\ AsksOfMatch'
        /\ Ended(text', Behind, replace_from) \/ Asked(text', Behind, replace_from, looping)
    BY <1>1, <2>1, <2>4, <2>5, <2>6, QueryTyped
  <2>8. all' => looping
    BY <2>7 DEF Ended, Asked
  <2>9. alone => Rewritten(text', replace_from, replace_to, Behind)
                     = Rewritten(text, replace_from, replace_to, replace_at)
    <3> SUFFICES ASSUME alone
                 PROVE  Rewritten(text', replace_from, replace_to, Behind)
                            = Rewritten(text, replace_from, replace_to, replace_at)
      OBVIOUS
    <3>1. Rewritten(Replaced(text, replace_at, Len(replace_from), replace_to), replace_from,
                    replace_to, replace_at + Len(replace_to))
              = Rewritten(text, replace_from, replace_to, replace_at)
      BY <1>1, <1>4, RewrittenReplaced
    <3>2. text' = Replaced(text, replace_at, Len(replace_from), replace_to)
      BY <2>1 DEF next, count
    <3> QED
      BY <2>5, <3>1, <3>2, Zenon
  <2>10. ASSUME all', alone
         PROVE  Rewritten(text', replace_from, replace_to, replace_at')
                    = Rewritten(text, replace_from, replace_to, replace_at)
    <3>1. Asked(text', Behind, replace_from, looping)
      BY <2>7, <2>10 DEF Ended
    <3>2. /\ replace_at' \in Nat
      BY <2>7 DEF Typed, TypeOK
    <3>3. /\ Behind <= replace_at' /\ Occurs(text', replace_from, replace_at')
          /\ \A at \in Nat : Behind <= at /\ at < replace_at' => ~Occurs(text', replace_from, at)
      BY <3>1 DEF Asked
    <3>4. replace_at' <= Len(text')
      <4>1. Len(text') \in Nat /\ Len(replace_from) \in Nat
        BY <1>1, <2>6
      <4> QED
        BY <3>2, <3>3, <4>1 DEF Occurs
    <3>5. Rewritten(text', replace_from, replace_to, Behind)
              = Rewritten(text', replace_from, replace_to, replace_at')
      BY <1>1, <2>5, <2>6, <3>2, <3>3, <3>4, RewrittenSkips
    <3> QED
      BY <2>9, <2>10, <3>5, Zenon
  <2>11. ASSUME ~all', looping, alone
         PROVE  text' = Rewritten(text, replace_from, replace_to, replace_at)
    <3>1. Ended(text', Behind, replace_from)
      BY <2>7, <2>11 DEF Asked
    <3>2. \A at \in Nat : Occurs(text', replace_from, at) => at < Behind
      BY <3>1 DEF Ended
    <3>3. Rewritten(text', replace_from, replace_to, Behind) = text'
      BY <1>1, <2>5, <2>6, <3>2, RewrittenEnds
    <3> QED
      BY <2>9, <2>11, <3>3, Zenon
  <2> QED
    BY <1>7, <2>7, <2>8, <2>10, <2>11
<1> QED
  BY <1>6, <1>7

LEMMA ReplaceOneStep ==
    ASSUME PromptInv, ReplaceOne
    PROVE  PromptInv'
<1>1. /\ Typed /\ AsksOfMatch /\ Key /\ Stepping /\ ReplaceHere(FALSE)
      /\ replace_to' = replace_to
  BY DEF PromptInv, ReplaceOne
<1>2. Replacing /\ FALSE \in BOOLEAN
  BY <1>1, Facts DEF ReplaceOne, Key, Replacing
<1>3. Typed' /\ ShowsMatch' /\ AsksOfMatch' /\ ~all'
  BY <1>1, <1>2, HereResult, Zenon
<1>4. LoopPromise'
  BY <1>3 DEF LoopPromise
<1> QED
  BY <1>3, <1>4 DEF PromptInv

LEMMA ReplaceNextResult ==
    ASSUME PromptInv, ReplaceNext
    PROVE  /\ Typed' /\ ShowsMatch' /\ AsksOfMatch'
           /\ all' /\ alone =>
                Rewritten(text', replace_from, replace_to, replace_at')
                    = Rewritten(text, replace_from, replace_to, replace_at)
           /\ ~all' /\ alone =>
                text' = IF readonly THEN text
                        ELSE Rewritten(text, replace_from, replace_to, replace_at)
           /\ all' => ~readonly
<1>1. /\ Typed /\ AsksOfMatch /\ all /\ ReplaceHere(TRUE) /\ replace_to' = replace_to
  BY DEF PromptInv, ReplaceNext
<1>2. Stepping
  BY <1>1, Facts
<1>3. Replacing /\ TRUE \in BOOLEAN
  BY <1>1, Facts DEF ReplaceNext, Replacing
<1> QED
  BY <1>1, <1>2, <1>3, HereResult, Zenon

LEMMA ReplaceNextStep ==
    ASSUME PromptInv, ReplaceNext
    PROVE  PromptInv'
<1>1. /\ LoopPromise /\ all /\ alone' = alone
      /\ replace_from' = replace_from /\ replace_to' = replace_to
      /\ before' = IF all' THEN before ELSE Nothing
      /\ readonly' = readonly
  BY DEF PromptInv, ReplaceNext
<1>2. /\ Typed' /\ ShowsMatch' /\ AsksOfMatch'
      /\ all' /\ alone =>
           Rewritten(text', replace_from, replace_to, replace_at')
               = Rewritten(text, replace_from, replace_to, replace_at)
      /\ all' => ~readonly
  BY ReplaceNextResult, Zenon
<1>3. LoopPromise'
  <2>1. ASSUME all', alone'
        PROVE  Rewritten(text', replace_from', replace_to', replace_at')
                   = Rewritten(before'.text, replace_from', replace_to', before'.at)
    <3>1. before' = before /\ alone
      BY <1>1, <2>1
    <3>2. Rewritten(text, replace_from, replace_to, replace_at)
              = Rewritten(before.text, replace_from, replace_to, before.at)
      BY <1>1, <3>1, Zenon DEF LoopPromise
    <3> QED
      BY <1>1, <1>2, <2>1, <3>1, <3>2, Zenon
  <2>2. all' => ~readonly'
    BY <1>1, <1>2
  <2> QED
    BY <2>1, <2>2, Zenon DEF LoopPromise
<1> QED
  BY <1>2, <1>3 DEF PromptInv

\* The end of the loop is what it promised.
LEMMA LoopKeepsPromise ==
    ASSUME PromptInv, ReplaceNext, ~all', alone
    PROVE  text' = IF readonly THEN before.text ELSE AllReplaced(before.text, before.at)
<1>1. text' = IF readonly THEN text
              ELSE Rewritten(text, replace_from, replace_to, replace_at)
  BY ReplaceNextResult, Zenon
<1>2. /\ Rewritten(text, replace_from, replace_to, replace_at)
             = Rewritten(before.text, replace_from, replace_to, before.at)
      /\ readonly => text = before.text
  BY DEF PromptInv, LoopPromise, ReplaceNext
<1>3. AllReplaced(before.text, before.at)
          = Rewritten(before.text, replace_from, replace_to, before.at)
  BY AllReplacedIs, Zenon
<1> QED
  BY <1>1, <1>2, <1>3

-----------------------------------------------------------------------------
(***************************************************************************)
(* Everybody else.                                                         *)
(***************************************************************************)
LEMMA ForeignKeeps ==
    ASSUME PromptInv, Foreign, text' \in Seq(Chars), mark' \in Int, point' \in Nat,
           alone => point' <= Len(text')
    PROVE  PromptInv'
<1>1. /\ Typed /\ ~all /\ (alone' = (alone /\ prompt_command = ""))
      /\ prompt_command' = prompt_command /\ input' = input /\ input_point' = input_point
      /\ replace_from' = replace_from /\ replace_to' = replace_to /\ replace_at' = replace_at
      /\ search_origin' = search_origin /\ search_backward' = search_backward
      /\ search_failed' = search_failed /\ search_wrapped' = search_wrapped
      /\ search_good' = search_good /\ last_search' = last_search
      /\ all' = all /\ prompts' = prompts /\ readonly' = readonly
  BY DEF PromptInv, Foreign, minibuffer, search, found, query
<1>2. alone' => alone /\ ~Searching' /\ ~Stepping'
  BY <1>1 DEF Searching, Stepping
<1>3. alone' \in BOOLEAN
  <2>1. alone \in BOOLEAN
    BY <1>1, Facts
  <2> QED
    BY <1>1, <2>1
<1>4. TypeOK'
  <2>1. /\ (Searching' <=> Searching) /\ (Asking' <=> Asking) /\ (Stepping' <=> Stepping)
    BY <1>1 DEF Searching, Asking, Stepping
  <2>2. alone' => point' <= Len(text')
    BY <1>2
  <2> QED
    BY <1>1, <1>3, <2>1, <2>2 DEF Typed, TypeOK
<1>5. Typed'
  BY <1>1, <1>2, <1>4 DEF Typed
<1>6. ShowsMatch' /\ AsksOfMatch' /\ LoopPromise'
  BY <1>1, <1>2 DEF ShowsMatch, AsksOfMatch, LoopPromise
<1> QED
  BY <1>5, <1>6 DEF PromptInv

LEMMA ClickStep ==
    ASSUME PromptInv, NEW p \in 0 .. Len(text), Click(p)
    PROVE  PromptInv'
<1>1. Foreign /\ text' = text /\ mark' = mark /\ point' = p
  BY DEF Click
<1>2. text \in Seq(Chars) /\ mark \in Int
  BY Facts DEF PromptInv
<1>3. p \in Nat /\ p <= Len(text)
  BY <1>2
<1> QED
  BY <1>1, <1>2, <1>3, ForeignKeeps

LEMMA ClientReplaceStep ==
    ASSUME PromptInv, NEW at \in 0 .. MaxText, NEW count \in 0 .. MaxText,
           ClientReplace(at, count)
    PROVE  PromptInv'
<1>1. /\ Foreign /\ at + count <= Len(text)
      /\ text' = Replaced(text, at, count, <<>>)
      /\ point' = Relocated(point, at, count, 0) /\ mark' = Relocated(mark, at, count, 0)
  <2>1. at + count <= Len(text)
    <3>1. at \in Nat /\ count \in Nat /\ Len(text) \in Nat
      BY Facts, BoundAssumption DEF PromptInv
    <3>2. ~(at + count > Len(text))
      BY DEF ClientReplace, Refused
    <3> QED
      BY <3>1, <3>2
  <2> QED
    BY <2>1 DEF ClientReplace
<1>2. text \in Seq(Chars) /\ mark \in Int /\ point \in Nat /\ (alone => point <= Len(text))
  BY Facts DEF PromptInv
<1>3. at \in Nat /\ count \in Nat /\ Len(text) \in Nat /\ 0 \in Nat
  BY <1>2, BoundAssumption
<1>4. <<>> \in Seq(Chars) /\ Len(<<>>) = 0
  BY NoInput, Zenon
<1>5. text' \in Seq(Chars) /\ Len(text') = Len(text) - count + 0
  <2>1. /\ Replaced(text, at, count, <<>>) \in Seq(Chars)
        /\ Len(Replaced(text, at, count, <<>>)) = Len(text) - count + Len(<<>>)
    <3> DEFINE none == <<>>
    <3>1. none \in Seq(Chars)
      BY <1>4
    <3>2. at + count <= Len(text)
      BY <1>1
    <3> HIDE DEF none
    <3>3. /\ Replaced(text, at, count, none) \in Seq(Chars)
          /\ Len(Replaced(text, at, count, none)) = Len(text) - count + Len(none)
      BY <1>2, <1>3, <3>1, <3>2, ReplacedTyped
    <3> QED
      BY <3>3 DEF none
  <2> QED
    BY <1>1, <1>4, <2>1
<1>6. mark' \in Int
  BY <1>1, <1>2, <1>3, RelocatedTyped
<1>7. point' \in Nat /\ (point <= Len(text) => point' <= Len(text) - count + 0)
  <2>1. point \in Int
    BY <1>2
  <2>2. /\ Relocated(point, at, count, 0) \in Nat
        /\ point <= Len(text) => Relocated(point, at, count, 0) <= Len(text) - count + 0
    BY <1>1, <1>2, <1>3, <2>1, RelocatedTyped
  <2> QED
    BY <1>1, <2>2
<1>8. alone => point' <= Len(text')
  BY <1>2, <1>5, <1>7
<1> QED
  BY <1>1, <1>5, <1>6, <1>7, <1>8, ForeignKeeps

LEMMA ToggleReadOnlyStep ==
    ASSUME PromptInv, ToggleReadOnly
    PROVE  PromptInv'
<1>1. /\ Typed /\ ShowsMatch /\ AsksOfMatch /\ ~all /\ readonly' = ~readonly
      /\ text' = text /\ mark' = mark /\ point' = point
      /\ prompt_command' = prompt_command /\ input' = input /\ input_point' = input_point
      /\ replace_from' = replace_from /\ replace_to' = replace_to /\ replace_at' = replace_at
      /\ search_origin' = search_origin /\ search_backward' = search_backward
      /\ search_failed' = search_failed /\ search_wrapped' = search_wrapped
      /\ search_good' = search_good /\ last_search' = last_search
      /\ all' = all /\ before' = before /\ prompts' = prompts /\ alone' = alone
  BY DEF PromptInv, ToggleReadOnly, buffer, minibuffer, search, found, query
<1>2. readonly' \in BOOLEAN
  BY <1>1
<1>3. (Searching' <=> Searching) /\ (Asking' <=> Asking) /\ (Stepping' <=> Stepping)
  BY <1>1 DEF Searching, Asking, Stepping
<1>4. Typed'
  BY <1>1, <1>2, <1>3 DEF Typed, TypeOK
<1>5. ShowsMatch' = ShowsMatch
  BY <1>1 DEF ShowsMatch, Unlooked, Shown, Occurs, Searching
<1>6. AsksOfMatch' = AsksOfMatch
  BY <1>1 DEF AsksOfMatch, Stepping, Occurs
<1>7. LoopPromise'
  BY <1>1 DEF LoopPromise
<1> QED
  BY <1>1, <1>4, <1>5, <1>6, <1>7 DEF PromptInv

-----------------------------------------------------------------------------
(***************************************************************************)
(* The invariant, and the theorems.                                        *)
(***************************************************************************)
LEMMA WordsTyped ==
    ASSUME NEW n \in Nat, NEW w \in [1 .. n -> Chars]
    PROVE  w \in Seq(Chars) /\ Len(w) = n
<1>1. w \in Seq(Chars)
  BY SeqDef
<1>2. DOMAIN w = 1 .. n /\ DOMAIN w = 1 .. Len(w) /\ Len(w) \in Nat
  BY <1>1, LenProperties
<1> QED
  BY <1>1, <1>2

LEMMA LetterTyped ==
    ASSUME NEW s \in {<<>>} \cup [1 .. 1 -> Chars]
    PROVE  s \in Seq(Chars) /\ Len(s) <= MaxInput
<1>1. CASE s = <<>>
  BY <1>1, NoInput, Zenon
<1>2. CASE s \in [1 .. 1 -> Chars]
  <2>1. s \in Seq(Chars) /\ Len(s) = 1
    BY <1>2, WordsTyped, 1 \in Nat
  <2>2. MaxInput >= 1 /\ MaxInput \in Nat
    BY BoundAssumption
  <2> QED
    BY <2>1, <2>2
<1> QED
  BY <1>1, <1>2

LEMMA PromptInit ==
    ASSUME Init
    PROVE  PromptInv
<1>a. point \in 0 .. Len(text) /\ mark = -1
  BY DEF Init
<1>b. search_origin = 0 /\ replace_at = 0 /\ prompts = 0
  BY DEF Init
<1>1. /\ text \in Texts
      /\ last_search \in {<<>>} \cup [1 .. 1 -> Chars]
      /\ prompt_command = "" /\ input = <<>> /\ input_point = 0 /\ all = FALSE
      /\ search_good = <<>> /\ replace_from = <<>> /\ replace_to = <<>> /\ replace_at = 0
      /\ search_origin = 0 /\ search_backward = FALSE
      /\ search_failed = FALSE /\ search_wrapped = FALSE
      /\ prompts = 0 /\ alone = TRUE /\ readonly = FALSE
  BY DEF Init
<1>2. text \in Seq(Chars)
  BY <1>1, TextAssumption, Zenon
<1>3. point \in Nat /\ point <= Len(text)
  BY <1>a, <1>2
<1>4. last_search \in Seq(Chars) /\ Len(last_search) <= MaxInput
  BY <1>1, LetterTyped, Zenon
<1>5. <<>> \in Seq(Chars) /\ Len(<<>>) <= MaxInput /\ 0 \in 0 .. Len(<<>>)
      /\ MaxPrompts \in Nat
  BY NoInput, Zenon
<1>6. ~Searching /\ ~Asking /\ ~Stepping
  BY <1>1 DEF Searching, Asking, Stepping
<1>7. mark \in Int /\ search_origin \in Nat /\ replace_at \in Nat
  BY <1>a, <1>b
<1>8. prompts \in 0 .. MaxPrompts
  <2>1. MaxPrompts \in Nat
    BY <1>5
  <2> QED
    BY <1>b, <2>1
<1>9. input \in Seq(Chars) /\ Len(input) <= MaxInput /\ input_point \in 0 .. Len(input)
      /\ search_good \in Seq(Chars) /\ Len(search_good) <= MaxInput
      /\ replace_from \in Seq(Chars) /\ replace_to \in Seq(Chars)
  BY <1>1, <1>5, Zenon
<1>10. /\ search_backward \in BOOLEAN /\ search_failed \in BOOLEAN
       /\ search_wrapped \in BOOLEAN /\ alone \in BOOLEAN /\ all \in BOOLEAN /\ ~all
       /\ readonly \in BOOLEAN
  BY <1>1
<1>11. TypeOK
  BY <1>1, <1>2, <1>3, <1>4, <1>6, <1>7, <1>8, <1>9, <1>10, Zenon DEF TypeOK
<1>12. Typed
  BY <1>1, <1>4, <1>6, <1>9, <1>10, <1>11 DEF Typed
<1> QED
  BY <1>1, <1>6, <1>12 DEF PromptInv, ShowsMatch, AsksOfMatch, LoopPromise

LEMMA PromptStutters ==
    ASSUME PromptInv, UNCHANGED vars
    PROVE  PromptInv'
<1>1. /\ text' = text /\ mark' = mark /\ point' = point
      /\ prompt_command' = prompt_command /\ input' = input /\ input_point' = input_point
      /\ replace_from' = replace_from /\ replace_to' = replace_to /\ replace_at' = replace_at
      /\ search_origin' = search_origin /\ search_backward' = search_backward
      /\ search_failed' = search_failed /\ search_wrapped' = search_wrapped
      /\ search_good' = search_good /\ last_search' = last_search
      /\ all' = all /\ before' = before /\ prompts' = prompts /\ alone' = alone
      /\ readonly' = readonly
  BY DEF vars, buffer, minibuffer, search, found, query
<1>2. Typed' = Typed
  BY <1>1 DEF Typed, TypeOK, Searching, Asking, Stepping
<1>3. ShowsMatch' = ShowsMatch
  BY <1>1 DEF ShowsMatch, Unlooked, Shown, Occurs, Searching
<1>4. AsksOfMatch' = AsksOfMatch
  BY <1>1 DEF AsksOfMatch, Stepping, Occurs
<1>5. LoopPromise' = LoopPromise
  BY <1>1 DEF LoopPromise, Rewritten, Occurs
<1> QED
  BY <1>2, <1>3, <1>4, <1>5 DEF PromptInv

LEMMA PromptNext ==
    ASSUME PromptInv, [Next]_vars
    PROVE  PromptInv'
<1>1. ASSUME NEW backward \in BOOLEAN, NEW n \in 0 .. MaxInput, NEW arg \in [1 .. n -> Chars],
             StartSearch(backward, arg)
      PROVE  PromptInv'
  <2>1. n \in Nat /\ n <= MaxInput
    BY BoundAssumption
  <2>2. arg \in Seq(Chars) /\ Len(arg) <= MaxInput
    BY <2>1, WordsTyped
  <2> QED
    BY <1>1, <2>2, StartSearchStep
<1>2. ASSUME NEW cmd \in {"query-from", "replace-from"}, StartReplace(cmd) PROVE PromptInv'
  BY <1>2, StartReplaceStep, Zenon
<1>3. ASSUME NEW c \in Chars, Insert(c) PROVE PromptInv'
  BY <1>3, InsertStep
<1>4. ASSUME NEW c \in Chars, Paste(c) PROVE PromptInv'
  BY <1>4, PasteStep
<1>5. CASE DeleteBackward
  BY <1>5, DeleteBackwardStep
<1>6. CASE DeleteForward
  BY <1>6, DeleteForwardStep
<1>7. CASE KillInput
  BY <1>7, KillInputStep
<1>8. ASSUME NEW at \in 0 .. MaxInput, MoveInput(at) PROVE PromptInv'
  BY <1>8, MoveInputStep
<1>9. ASSUME NEW backward \in BOOLEAN, Repeat(backward) PROVE PromptInv'
  BY <1>9, RepeatStep
<1>10. CASE BackToGood
  BY <1>10, BackToGoodStep
<1>11. CASE KeyboardQuit
  BY <1>11, KeyboardQuitStep
<1>12. CASE AcceptSearch
  BY <1>12, AcceptSearchStep
<1>13. ASSUME NEW p \in 0 .. Len(text), LeaveSearch(p) PROVE PromptInv'
  BY <1>13, LeaveSearchStep
<1>14. CASE AcceptFrom
  BY <1>14, AcceptFromStep
<1>15. CASE AcceptTo
  BY <1>15, AcceptToStep
<1>16. CASE ReplaceOne
  BY <1>16, ReplaceOneStep
<1>17. CASE ReplaceAll
  BY <1>17, ReplaceAllStep
<1>18. CASE ReplaceNext
  BY <1>18, ReplaceNextStep
<1>19. CASE Skip
  BY <1>19, SkipStep
<1>20. CASE QuitReplace
  BY <1>20, QuitReplaceStep
<1>21. ASSUME NEW p \in 0 .. Len(text), Click(p) PROVE PromptInv'
  BY <1>21, ClickStep
<1>22. ASSUME NEW at \in 0 .. MaxText, NEW count \in 0 .. MaxText, ClientReplace(at, count)
       PROVE  PromptInv'
  BY <1>22, ClientReplaceStep
<1>23. CASE UNCHANGED vars
  BY <1>23, PromptStutters
<1>24. CASE ToggleReadOnly
  BY <1>24, ToggleReadOnlyStep
<1> QED
  BY <1>1, <1>2, <1>3, <1>4, <1>5, <1>6, <1>7, <1>8, <1>9, <1>10, <1>11, <1>12, <1>13,
     <1>14, <1>15, <1>16, <1>17, <1>18, <1>19, <1>20, <1>21, <1>22, <1>23, <1>24, Zenon DEF Next

\* What a search shows is true, what a query asks about is there, and a loop has
\* left to do what it promised: the inductive invariant of the prompts.
THEOREM PromptsAreTrue == Spec => []PromptInv
<1>1. Init => PromptInv
  BY PromptInit
<1>2. PromptInv /\ [Next]_vars => PromptInv'
  BY PromptNext
<1> QED
  BY <1>1, <1>2, PTL DEF Spec

\* After any typing, deleting, repeating, turning round and going back, the input
\* of an incremental search stands where point is, or the search says that it
\* fails and it stands nowhere on from where it began (search_update); but for
\* an argument it was opened with, until the first key (isearch-forward).
THEOREM SearchesShowMatches == Spec => []SearchShowsMatch
<1>1. PromptInv => SearchShowsMatch
  BY ShowsIsProperty DEF PromptInv
<1> QED
  BY <1>1, PromptsAreTrue, PTL

\* When the loop of "!" or replace-string ends, the text is the one it began with,
\* every occurrence behind where it began replaced, once, or untouched if the
\* buffer is read-only (the loop of prompt_key, editor_replace).
THEOREM ReplacesAll == Spec => ReplaceAllReplaces
<1>1. ASSUME PromptInv, [Next]_vars
      PROVE  [ all /\ ~all' /\ alone =>
                   text' = IF readonly THEN before.text
                           ELSE AllReplaced(before.text, before.at) ]_vars
  <2> SUFFICES ASSUME Next, all, ~all', alone
               PROVE  text' = IF readonly THEN before.text
                              ELSE AllReplaced(before.text, before.at)
    BY <1>1
  <2>1. ReplaceNext
    BY DEF Next, StartSearch, StartReplace, Opened, Insert, Paste, DeleteBackward,
           DeleteForward, KillInput, MoveInput, InputKey, Repeat, BackToGood, KeyboardQuit,
           AcceptSearch, LeaveSearch, AcceptFrom, AcceptTo, ReplaceOne, ReplaceAll, Skip,
           QuitReplace, Key, Click, ClientReplace, Foreign, ToggleReadOnly
  <2> QED
    BY <1>1, <2>1, LoopKeepsPromise
<1> QED
  BY <1>1, PromptsAreTrue, PTL DEF Spec, ReplaceAllReplaces

-----------------------------------------------------------------------------
LEMMA NearestAfter ==
    ASSUME NEW w \in Seq(Chars), w # <<>>, NEW t \in Seq(Chars), NEW start \in Nat, NEW after,
           after = {at \in start .. Len(t) : Occurs(t, w, at)}
    PROVE  IF after = {} THEN Find(t, w, start, FALSE) = NotFound
                         ELSE /\ Find(t, w, start, FALSE) \in after
                              /\ \A at \in after : Find(t, w, start, FALSE) <= at
<1> DEFINE r == Find(t, w, start, FALSE)
<1>1. IsFirst(t, w, start, r)
  BY FindsFirst
<1>2. Len(t) \in Nat /\ Len(w) \in Nat
  OBVIOUS
<1>3. \A at \in after : at \in Nat /\ start <= at /\ Occurs(t, w, at)
  OBVIOUS
<1>4. \A at \in Nat : Occurs(t, w, at) /\ start <= at => at \in after
  BY <1>2 DEF Occurs
<1> HIDE DEF r
<1>5. CASE r = NotFound
  <2>1. \A at \in Nat : Occurs(t, w, at) => at < start
    BY <1>1, <1>5 DEF IsFirst
  <2>2. after = {}
    BY <1>3, <2>1
  <2> QED
    BY <1>5, <2>2 DEF r
<1>6. CASE r # NotFound
  <2>1. /\ r \in Nat /\ Occurs(t, w, r) /\ start <= r
        /\ \A at \in Nat : Occurs(t, w, at) /\ start <= at => r <= at
    BY <1>1, <1>6 DEF IsFirst
  <2>2. r \in after
    BY <1>4, <2>1
  <2>3. \A at \in after : r <= at
    BY <1>3, <2>1
  <2> QED
    BY <2>2, <2>3 DEF r
<1> QED
  BY <1>5, <1>6

LEMMA NearestAhead ==
    ASSUME NEW w \in Seq(Chars), w # <<>>, NEW t \in Seq(Chars), NEW start \in Nat, NEW ahead,
           ahead = {at \in 0 .. start - Len(w) : Occurs(t, w, at)}
    PROVE  IF ahead = {} THEN Find(t, w, start, TRUE) = NotFound
                         ELSE /\ Find(t, w, start, TRUE) \in ahead
                              /\ \A at \in ahead : at <= Find(t, w, start, TRUE)
<1> DEFINE r == Find(t, w, start, TRUE)
<1>1. IsLast(t, w, start, r)
  BY FindsLast
<1>2. Len(t) \in Nat /\ Len(w) \in Nat
  OBVIOUS
<1>3. \A at \in ahead : at \in Nat /\ at + Len(w) <= start /\ Occurs(t, w, at)
  BY <1>2
<1>4. \A at \in Nat : Occurs(t, w, at) /\ at + Len(w) <= start => at \in ahead
  BY <1>2
<1> HIDE DEF r
<1>5. CASE r = NotFound
  <2>1. \A at \in Nat : Occurs(t, w, at) => at + Len(w) > start
    BY <1>1, <1>5 DEF IsLast
  <2>2. ahead = {}
    BY <1>2, <1>3, <2>1
  <2> QED
    BY <1>5, <2>2 DEF r
<1>6. CASE r # NotFound
  <2>1. /\ r \in Nat /\ Occurs(t, w, r) /\ r + Len(w) <= start
        /\ \A at \in Nat : Occurs(t, w, at) /\ at + Len(w) <= start => at <= r
    BY <1>1, <1>6 DEF IsLast
  <2>2. r \in ahead
    BY <1>4, <2>1
  <2>3. \A at \in ahead : at <= r
    BY <1>3, <2>1
  <2> QED
    BY <2>2, <2>3 DEF r
<1> QED
  BY <1>5, <1>6

\* editor_find: forward, the first occurrence from a position on, and backward
\* the last one that ends by it, whatever the text, and however the word overlaps
\* itself (the lemmas FindsFirst and FindsLast say so of words of any length).
THEOREM SearchFindsNearest == Spec => []FindsNearest
<1>1. ASSUME text \in Seq(Chars), NEW k \in 1 .. 3, NEW needle \in [1 .. k -> Chars],
             NEW start \in 0 .. Len(text)
      PROVE  LET after == {at \in start .. Len(text) : Occurs(text, needle, at)}
                 ahead == {at \in 0 .. start - Len(needle) : Occurs(text, needle, at)}
                 next == Find(text, needle, start, FALSE)
                 last == Find(text, needle, start, TRUE)
             IN  /\ IF after = {} THEN next = NotFound
                                  ELSE next \in after /\ \A at \in after : next <= at
                 /\ IF ahead = {} THEN last = NotFound
                                  ELSE last \in ahead /\ \A at \in ahead : at <= last
  <2> DEFINE after == {at \in start .. Len(text) : Occurs(text, needle, at)}
             ahead == {at \in 0 .. start - Len(needle) : Occurs(text, needle, at)}
  <2>1. k \in Nat /\ k >= 1
    OBVIOUS
  <2>2. needle \in Seq(Chars) /\ Len(needle) = k
    BY <2>1, WordsTyped
  <2>3. needle # <<>>
    BY <2>1, <2>2
  <2>4. start \in Nat
    BY <1>1
  <2>5. /\ IF after = {} THEN Find(text, needle, start, FALSE) = NotFound
                         ELSE /\ Find(text, needle, start, FALSE) \in after
                              /\ \A at \in after : Find(text, needle, start, FALSE) <= at
    BY <1>1, <2>2, <2>3, <2>4, NearestAfter
  <2>6. /\ IF ahead = {} THEN Find(text, needle, start, TRUE) = NotFound
                         ELSE /\ Find(text, needle, start, TRUE) \in ahead
                              /\ \A at \in ahead : at <= Find(text, needle, start, TRUE)
    BY <1>1, <2>2, <2>3, <2>4, NearestAhead
  <2> QED
    BY <2>5, <2>6, Zenon
<1>2. text \in Seq(Chars) => FindsNearest
  <2> SUFFICES ASSUME text \in Seq(Chars),
                      NEW needle \in UNION {[1 .. n -> Chars] : n \in 1 .. 3},
                      NEW start \in 0 .. Len(text)
               PROVE  LET after == {at \in start .. Len(text) : Occurs(text, needle, at)}
                          ahead == {at \in 0 .. start - Len(needle) : Occurs(text, needle, at)}
                          next == Find(text, needle, start, FALSE)
                          last == Find(text, needle, start, TRUE)
                      IN  /\ IF after = {} THEN next = NotFound
                                           ELSE next \in after /\ \A at \in after : next <= at
                          /\ IF ahead = {} THEN last = NotFound
                                           ELSE last \in ahead /\ \A at \in ahead : at <= last
    BY Zenon DEF FindsNearest
  <2>1. PICK k \in 1 .. 3 : needle \in [1 .. k -> Chars]
    OBVIOUS
  <2> QED
    BY <1>1, <2>1, Zenon
<1>3. PromptInv => text \in Seq(Chars)
  BY Facts DEF PromptInv
<1> QED
  BY <1>2, <1>3, PromptsAreTrue, PTL

=============================================================================
