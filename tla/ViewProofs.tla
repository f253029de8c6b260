----------------------------- MODULE ViewProofs -----------------------------
(***************************************************************************)
(* What a buffer keeps for drawing is what there would be without it: the  *)
(* trusted lexical states are a chain of scans of the lines there are now, *)
(* the checkpoints are columns counted from the beginning of their line,   *)
(* whatever lines, modes, widths and scanner there are; and a click finds  *)
(* the cursor, however the window is divided.                              *)
(***************************************************************************)
EXTENDS View, SequenceTheorems, WellFoundedInduction, TLAPS

\* Induction over the natural numbers, for the members of a set.
LEMMA SetInduction ==
    ASSUME NEW S, 0 \in S, \A n \in Nat : n \in S => n + 1 \in S
    PROVE  Nat \subseteq S
<1> DEFINE R == OpToRel(<, Nat)
           T == {n \in Nat : n \notin S}
<1> SUFFICES ASSUME T # {} PROVE FALSE
  OBVIOUS
<1>1. \A x, y \in Nat : y < x => <<y, x>> \in R
  BY DEF OpToRel
<1>2. IsWellFoundedOn(R, Nat)
  BY NatLessThanWellFounded
<1>3. \E x \in T : \A y \in T : ~(<<y, x>> \in R)
  <2> HIDE DEF R
  <2> QED
    BY <1>2, WFMin
<1>4. PICK x \in T : \A y \in T : ~(<<y, x>> \in R)
  BY <1>3
<1>5. x # 0 /\ x \in Nat
  OBVIOUS
<1>6. x - 1 \in Nat /\ x - 1 < x
  BY <1>5
<1>7. x - 1 \notin S
  BY <1>5, <1>6, (x - 1) + 1 = x
<1> HIDE DEF R
<1>8. <<x - 1, x>> \in R
  BY <1>1, <1>5, <1>6
<1> QED
  BY <1>4, <1>6, <1>7, <1>8

IInv == TypeOK /\ CacheIsChained

\* Texts are the sequences of one to MaxLines lines.
LEMMA TextsAreSequences ==
    ASSUME NEW t
    PROVE  t \in Texts <=> t \in Seq(Line) /\ Len(t) \in 1 .. MaxLines
<1>1. ASSUME t \in Texts PROVE t \in Seq(Line) /\ Len(t) \in 1 .. MaxLines
  <2>1. PICK n \in 1 .. MaxLines : t \in [1 .. n -> Line]
    BY <1>1 DEF Texts
  <2> QED BY <2>1, MaxLinesAssumption
<1>2. ASSUME t \in Seq(Line), Len(t) \in 1 .. MaxLines PROVE t \in Texts
  <2>1. t \in [1 .. Len(t) -> Line]
    BY <1>2
  <2> QED BY <1>2, <2>1 DEF Texts
<1> QED BY <1>1, <1>2

\* Concatenation adds lengths and leaves the first sequence in front.
LEMMA ConcatenationKeepsHead ==
    ASSUME NEW a \in Seq(Line), NEW b \in Seq(Line)
    PROVE  /\ a \o b \in Seq(Line)
           /\ Len(a \o b) = Len(a) + Len(b)
           /\ \A k \in 1 .. Len(a) : (a \o b)[k] = a[k]
           /\ \A k \in 1 .. Len(b) : (a \o b)[Len(a) + k] = b[k]
OBVIOUS

\* An edit from line r on leaves the lines before r as they are, and a text.
LEMMA EditKeepsHead ==
    ASSUME NEW t \in Texts, NEW new \in Texts, NEW r \in Nat, NEW q \in Nat,
           r <= q, q < Len(t), r + Len(new) + (Len(t) - q - 1) <= MaxLines
    PROVE  LET u == Edited(t, r, q, new)
           IN  /\ u \in Texts
               /\ Len(u) > r
               /\ \A k \in 1 .. r : u[k] = t[k]
               /\ u[r + 1] = new[1]
<1> DEFINE u == Edited(t, r, q, new)
           head == SubSeq(t, 1, r)
           tail == SubSeq(t, q + 2, Len(t))
<1>1. t \in Seq(Line) /\ new \in Seq(Line) /\ Len(new) \in Nat \ {0} /\ Len(t) \in Nat
  BY TextsAreSequences, MaxLinesAssumption
<1>2. head \in Seq(Line) /\ Len(head) = r /\ \A k \in 1 .. r : head[k] = t[k]
  BY <1>1
<1>3. tail \in Seq(Line) /\ Len(tail) = Len(t) - q - 1
  BY <1>1
<1> HIDE DEF head, tail
<1> DEFINE both == head \o new
<1>4. /\ both \in Seq(Line) /\ Len(both) = r + Len(new)
      /\ \A k \in 1 .. r : both[k] = head[k]
      /\ both[r + 1] = new[1]
  <2>1. both \in Seq(Line) /\ Len(both) = r + Len(new) /\ \A k \in 1 .. r : both[k] = head[k]
    BY <1>1, <1>2, ConcatenationKeepsHead
  <2>2. 1 \in 1 .. Len(new) /\ \A k \in 1 .. Len(new) : both[r + k] = new[k]
    BY <1>1, <1>2, ConcatenationKeepsHead
  <2> QED
    BY <2>1, <2>2
<1>5. u = both \o tail
  BY DEF head, tail, Edited
<1> HIDE DEF both, u
<1>6. u \in Seq(Line) /\ Len(u) = Len(both) + Len(tail) /\ \A k \in 1 .. Len(both) : u[k] = both[k]
  BY <1>3, <1>4, <1>5, ConcatenationKeepsHead
<1>7. Len(u) = r + Len(new) + (Len(t) - q - 1)
  BY <1>3, <1>4, <1>6
<1>8. Len(u) \in 1 .. MaxLines /\ Len(u) > r
  BY <1>1, <1>7, MaxLinesAssumption
<1>9. \A k \in 1 .. r : u[k] = t[k]
  BY <1>1, <1>2, <1>4, <1>6
<1>10. u[r + 1] = new[1]
  <2>1. r + 1 \in 1 .. Len(both)
    BY <1>1, <1>4
  <2> QED
    BY <1>4, <1>6, <2>1
<1> QED BY <1>6, <1>8, <1>9, <1>10, TextsAreSequences DEF u

-----------------------------------------------------------------------------
LEMMA InitEstablishes == Init => IInv
<1> SUFFICES ASSUME Init PROVE IInv
  OBVIOUS
<1>1. Len(lines) \in Nat
  BY TextsAreSequences, MaxLinesAssumption DEF Init
<1> QED BY <1>1, KindAssumption, StateAssumption DEF Init, IInv, TypeOK, CacheIsChained

LEMMA StepPreserves == IInv /\ [Next]_vars => IInv'
<1> SUFFICES ASSUME IInv, [Next]_vars PROVE IInv'
  OBVIOUS
<1> USE MaxLinesAssumption, StateAssumption
<1>1. /\ lines \in Texts /\ Len(lines) \in 1 .. MaxLines /\ lines \in Seq(Line)
      /\ kind \in Kind /\ lex_states \in [0 .. MaxLines -> State]
      /\ lex_valid \in 0 .. Len(lines) /\ row \in -1 .. Len(lines) - 1
  BY TextsAreSequences DEF IInv, TypeOK
<1>2. ASSUME NEW r \in 0 .. MaxLines - 1, NEW q \in 0 .. MaxLines - 1, NEW new \in Texts,
             Edit(r, q, new)
      PROVE  IInv'
  <2>1. lines' \in Texts /\ Len(lines') > r /\ \A k \in 1 .. r : lines'[k] = lines[k]
    BY <1>1, <1>2, EditKeepsHead DEF Edit
  <2>2. Len(lines') \in Nat
    BY <2>1, TextsAreSequences
  <2>3. lex_valid' \in 0 .. r + 1 /\ lex_valid' <= lex_valid
    BY <1>1, <1>2 DEF Edit, Invalidated
  <2>4. TypeOK'
    BY <1>1, <1>2, <2>1, <2>2, <2>3 DEF Edit, TypeOK, Idle
  <2>5. CacheIsChained'
    BY <1>1, <1>2, <2>1, <2>2, <2>3 DEF Edit, IInv, CacheIsChained, Ends, LineAt
  <2> QED BY <2>4, <2>5 DEF IInv
<1>3. ASSUME NEW new \in Texts, Log(new) PROVE IInv'
  <2>1. Len(new) \in 1 .. MaxLines
    BY TextsAreSequences
  <2> QED BY <1>1, <1>3, <2>1 DEF Log, Idle, IInv, TypeOK, CacheIsChained
<1>4. ASSUME NEW k \in Kind, SetMode(k) PROVE IInv'
  BY <1>1, <1>4 DEF SetMode, Restarted, Idle, IInv, TypeOK, CacheIsChained
<1>5. ASSUME NEW r \in 0 .. MaxLines - 1, LineSpans(r) PROVE IInv'
  BY <1>1, <1>5 DEF LineSpans, Idle, IInv, TypeOK, CacheIsChained, Ends, LineAt
<1>6. \* A state computed from the last trusted one joins the chain.
      ASSUME lex_valid > 0, lex_valid < Len(lines),
             lex_states' = [lex_states EXCEPT ![lex_valid] = Ends(lex_valid - 1)],
             lex_valid' = lex_valid + 1, UNCHANGED <<lines, kind>>,
             row' \in -1 .. Len(lines) - 1
      PROVE  IInv'
  <2>1. LineAt(lex_valid - 1) \in Line
    BY <1>1, <1>6 DEF LineAt
  <2>2. Ends(lex_valid - 1) \in State
    BY <1>1, <1>6, <2>1, ScanAssumption DEF Ends
  <2>3. TypeOK'
    BY <1>1, <1>6, <2>2 DEF TypeOK
  <2>4. CacheIsChained'
    BY <1>1, <1>6 DEF IInv, CacheIsChained, Ends, LineAt
  <2> QED BY <2>3, <2>4 DEF IInv
<1>7. CASE StateAt
  BY <1>1, <1>6, <1>7 DEF StateAt, Idle, IInv, TypeOK
<1>8. CASE Drawn
  <2>1. CASE IsNext
    <3>1. lex_states' = [lex_states EXCEPT ![lex_valid] = Ends(lex_valid - 1)]
      BY <1>1, <1>8, <2>1 DEF Drawn, IsNext
    <3> QED BY <1>1, <1>6, <1>8, <2>1, <3>1 DEF Drawn, IsNext, Idle
  <2>2. CASE ~IsNext
    BY <1>1, <1>8, <2>2 DEF Drawn, Idle, IInv, TypeOK, CacheIsChained, Ends, LineAt
  <2> QED BY <2>1, <2>2
<1>9. CASE UNCHANGED vars
  BY <1>9 DEF vars, IInv, TypeOK, CacheIsChained, Ends, LineAt
<1> QED BY <1>2, <1>3, <1>4, <1>5, <1>7, <1>8, <1>9 DEF Next

\* Positions stay in their ranges, for any number of lines.
THEOREM TypeCorrect == Spec => []TypeOK
<1>1. IInv => TypeOK
  BY DEF IInv
<1> QED BY InitEstablishes, StepPreserves, <1>1, PTL DEF Spec

\* However edits, mode changes and drawing follow each other, each trusted
\* state is the one scan leaves the line before it in (editor_lex_invalidate
\* drops enough, editor_line_spans keeps nothing else).
THEOREM ChainKept == Spec => []CacheIsChained
<1>1. IInv => CacheIsChained
  BY DEF IInv
<1> QED BY InitEstablishes, StepPreserves, <1>1, PTL DEF Spec

-----------------------------------------------------------------------------
(***************************************************************************)
(* The scan from the top.                                                  *)
(***************************************************************************)
\* g holds the states in which lines 0 to n begin.
Begins(g, n) ==
    /\ g = [q \in 0 .. n |-> g[q]]
    /\ g[0] = NORMAL
    /\ \A q \in 1 .. n : g[q] = Scan(kind, LineAt(q - 1), g[q - 1])

\* Scanning one line more.
LEMMA BeginsExtend ==
    ASSUME NEW n \in Nat, NEW g, Begins(g, n)
    PROVE  \E h : Begins(h, n + 1)
<1> DEFINE e == Scan(kind, LineAt(n), g[n])
           h == [q \in 0 .. n + 1 |-> IF q = n + 1 THEN e ELSE g[q]]
<1>1. h = [q \in 0 .. n + 1 |-> h[q]] /\ h[0] = NORMAL /\ h[n + 1] = e
  BY DEF Begins
<1>2. ASSUME NEW q \in 1 .. n PROVE h[q] = g[q] /\ h[q - 1] = g[q - 1]
  BY DEF Begins
<1>3. h[n] = g[n]
  OBVIOUS
<1>4. ASSUME NEW q \in 1 .. n + 1 PROVE h[q] = Scan(kind, LineAt(q - 1), h[q - 1])
  <2>1. CASE q = n + 1
    <3>1. q - 1 = n
      BY <2>1
    <3> QED BY <1>1, <1>3, <2>1, <3>1
  <2>2. CASE q # n + 1
    <3>1. q \in 1 .. n
      BY <2>2
    <3> HIDE DEF h
    <3> QED BY <1>2, <3>1 DEF Begins
  <2> QED BY <2>1, <2>2
<1> HIDE DEF h
<1> QED BY <1>1, <1>4 DEF Begins

LEMMA BeginsExist == \E g : Begins(g, MaxLines)
<1> DEFINE S == {n \in Nat : \E g : Begins(g, n)}
<1>1. 0 \in S
  <2>1. Begins([q \in 0 .. 0 |-> NORMAL], 0)
    BY DEF Begins
  <2> QED BY <2>1
<1>2. \A n \in Nat : n \in S => n + 1 \in S
  BY BeginsExtend
<1>3. Nat \subseteq S
  <2> HIDE DEF S
  <2> QED BY <1>1, <1>2, SetInduction
<1> QED BY <1>3, MaxLinesAssumption

\* FromTop is the scan that its definition looks like.
LEMMA FromTopScans == \E g : Begins(g, MaxLines) /\ \A r : FromTop(r) = g[r]
<1> DEFINE Def(s) == s = [q \in 0 .. MaxLines |->
                            IF q = 0 THEN NORMAL ELSE Scan(kind, LineAt(q - 1), s[q - 1])]
           f == CHOOSE s : Def(s)
<1>1. PICK g : Begins(g, MaxLines)
  BY BeginsExist
<1>2. Def(g)
  <2>1. \A q \in 0 .. MaxLines :
           g[q] = IF q = 0 THEN NORMAL ELSE Scan(kind, LineAt(q - 1), g[q - 1])
    <3> SUFFICES ASSUME NEW q \in 0 .. MaxLines
                 PROVE  g[q] = IF q = 0 THEN NORMAL ELSE Scan(kind, LineAt(q - 1), g[q - 1])
      OBVIOUS
    <3>1. CASE q = 0
      BY <1>1, <3>1 DEF Begins
    <3>2. CASE q # 0
      <4>1. q \in 1 .. MaxLines
        BY <3>2, MaxLinesAssumption
      <4>2. g[q] = Scan(kind, LineAt(q - 1), g[q - 1])
        BY <1>1, <4>1 DEF Begins
      <4> QED BY <3>2, <4>2
    <3> QED BY <3>1, <3>2
  <2>2. g = [q \in 0 .. MaxLines |-> g[q]]
    BY <1>1 DEF Begins
  <2> QED BY <2>1, <2>2, Zenon
<1>3. Def(f)
  <2> HIDE DEF Def
  <2> QED BY <1>2
<1>4. \A r : FromTop(r) = f[r]
  BY DEF FromTop
<1>5. Begins(f, MaxLines)
  <2> HIDE DEF f
  <2>1. f = [q \in 0 .. MaxLines |-> f[q]] /\ f[0] = NORMAL
    BY <1>3, MaxLinesAssumption
  <2>2. \A q \in 1 .. MaxLines : f[q] = Scan(kind, LineAt(q - 1), f[q - 1])
    BY <1>3, MaxLinesAssumption
  <2> QED BY <2>1, <2>2 DEF Begins
<1> QED BY <1>4, <1>5

\* A chain of scans that starts at the top is the scan from the top.
LEMMA ChainIsFresh == IInv => DrawnFresh
<1> SUFFICES ASSUME IInv, ~Idle, row < lex_valid
             PROVE  lex_states[row] = FromTop(row)
  BY DEF DrawnFresh
<1>1. PICK g : Begins(g, MaxLines) /\ \A r : FromTop(r) = g[r]
  BY FromTopScans
<1>2. lex_valid \in Nat /\ lex_valid <= MaxLines /\ row \in Nat
  BY TextsAreSequences, MaxLinesAssumption DEF IInv, TypeOK, Idle
<1> DEFINE S == {n \in Nat : n < lex_valid => lex_states[n] = g[n]}
<1>3. 0 \in S
  BY <1>1, <1>2 DEF IInv, CacheIsChained, Begins
<1>4. ASSUME NEW n \in Nat, n \in S PROVE n + 1 \in S
  <2> SUFFICES ASSUME n + 1 < lex_valid PROVE lex_states[n + 1] = g[n + 1]
    OBVIOUS
  <2>1. n + 1 \in 1 .. lex_valid - 1 /\ n + 1 \in 1 .. MaxLines /\ (n + 1) - 1 = n
    BY <1>2, MaxLinesAssumption
  <2>2. lex_states[n + 1] = Ends(n)
    BY <2>1 DEF IInv, CacheIsChained
  <2>3. g[n + 1] = Scan(kind, LineAt(n), g[n])
    BY <1>1, <2>1 DEF Begins
  <2>4. lex_states[n] = g[n]
    BY <1>2, <1>4
  <2> QED BY <2>2, <2>3, <2>4 DEF Ends
<1>5. Nat \subseteq S
  <2> HIDE DEF S
  <2> QED BY <1>3, <1>4, SetInduction
<1> QED BY <1>1, <1>2, <1>5

\* A line is drawn in the state that a scan of the whole text from its top
\* gives it, though the cache scanned its lines at different times and kept
\* some through edits (state_at, syntax.c:7).
THEOREM DrawnStatesAreFresh == Spec => []DrawnFresh
<1> QED BY InitEstablishes, StepPreserves, ChainIsFresh, PTL DEF Spec

-----------------------------------------------------------------------------
(***************************************************************************)
(* Recursive functions.                                                    *)
(***************************************************************************)
\* f applies the functions step[a + 1], step[a + 2] ... one after the other.
Runs(f, S, a, b, first, step) ==
    /\ f \in [a .. b -> S]
    /\ f[a] = first
    /\ \A i \in a + 1 .. b : f[i] = step[i][f[i - 1]]

LEMMA RunsExist ==
    ASSUME NEW S, NEW a \in Nat, NEW b \in Nat, a <= b, NEW first \in S,
           NEW step \in [a + 1 .. b -> [S -> S]]
    PROVE  \E f : Runs(f, S, a, b, first, step)
<1> DEFINE P(m) == \E f : Runs(f, S, a, m, first, step)
           T == {m \in Nat : m \in a .. b => P(m)}
<1>1. P(a)
  <2>1. Runs([i \in a .. a |-> first], S, a, a, first, step)
    BY DEF Runs
  <2> QED
    BY <2>1
<1>2. 0 \in T
  <2>1. 0 \in a .. b => a = 0
    OBVIOUS
  <2> HIDE DEF P
  <2> QED
    BY <1>1, <2>1
<1>3. \A m \in Nat : m \in T => m + 1 \in T
  <2> HIDE DEF P
  <2> SUFFICES ASSUME NEW m \in Nat, m + 1 \in a .. b, m \in a .. b => P(m)
               PROVE  P(m + 1)
    OBVIOUS
  <2> USE DEF P
  <2>1. CASE m + 1 = a
    BY <1>1, <2>1
  <2>2. CASE m + 1 # a
    <3>1. m \in a .. b /\ m + 1 \in a + 1 .. b
      BY <2>2
    <3>2. PICK f : Runs(f, S, a, m, first, step)
      BY <3>1
    <3> DEFINE g == [i \in a .. m + 1 |-> IF i = m + 1 THEN step[m + 1][f[m]] ELSE f[i]]
    <3>3. f[m] \in S
      BY <3>1, <3>2 DEF Runs
    <3>4. step[m + 1][f[m]] \in S
      BY <3>1, <3>3
    <3>5. f \in [a .. m -> S] /\ f[a] = first
      BY <3>2 DEF Runs
    <3>6. g \in [a .. m + 1 -> S] /\ g[a] = first
      BY <2>2, <3>1, <3>4, <3>5
    <3>7. ASSUME NEW i \in a + 1 .. m + 1 PROVE g[i] = step[i][g[i - 1]]
      <4>1. CASE i = m + 1
        <5>1. i - 1 = m /\ g[m] = f[m]
          BY <3>1, <4>1
        <5> QED
          BY <4>1, <5>1
      <4>2. CASE i # m + 1
        <5>1. i \in a + 1 .. m /\ i \in a .. m /\ i - 1 \in a .. m
          BY <4>2
        <5>2. g[i] = f[i] /\ g[i - 1] = f[i - 1]
          BY <5>1
        <5> QED
          BY <3>2, <5>1, <5>2 DEF Runs
      <4> QED
        BY <4>1, <4>2
    <3> HIDE DEF g
    <3> QED
      BY <3>6, <3>7 DEF Runs
  <2> QED
    BY <2>1, <2>2
<1>4. Nat \subseteq T
  <2> HIDE DEF T
  <2> QED
    BY <1>2, <1>3, SetInduction
<1>5. P(b)
  <2> HIDE DEF P
  <2> QED
    BY <1>4
<1> QED
  BY <1>5

\* f is a function of the numbers from a to b.
IsOver(f, a, b) == f = [i \in a .. b |-> f[i]]

\* What looks as if it did so, does.
LEMMA RunsTyped ==
    ASSUME NEW S, NEW a \in Nat, NEW b \in Nat, a <= b, NEW first \in S,
           NEW step \in [a + 1 .. b -> [S -> S]], NEW f,
           IsOver(f, a, b), f[a] = first,
           \A i \in a + 1 .. b : f[i - 1] \in S => f[i] = step[i][f[i - 1]]
    PROVE  Runs(f, S, a, b, first, step)
<1> DEFINE T == {m \in Nat : m \in a .. b => f[m] \in S}
<1>1. 0 \in T
  <2>1. 0 \in a .. b => a = 0
    OBVIOUS
  <2> QED
    BY <2>1
<1>2. \A m \in Nat : m \in T => m + 1 \in T
  <2> SUFFICES ASSUME NEW m \in Nat, m + 1 \in a .. b, m \in a .. b => f[m] \in S
               PROVE  f[m + 1] \in S
    OBVIOUS
  <2>1. CASE m + 1 = a
    BY <2>1
  <2>2. CASE m + 1 # a
    <3>1. m \in a .. b /\ m + 1 \in a + 1 .. b /\ (m + 1) - 1 = m
      BY <2>2
    <3>2. f[m] \in S /\ f[m + 1] = step[m + 1][f[m]]
      BY <3>1
    <3> QED
      BY <3>1, <3>2
  <2> QED
    BY <2>1, <2>2
<1>3. Nat \subseteq T
  <2> HIDE DEF T
  <2> QED
    BY <1>1, <1>2, SetInduction
<1>4. \A m \in a .. b : f[m] \in S
  BY <1>3
<1>5. ASSUME NEW i \in a + 1 .. b PROVE f[i] = step[i][f[i - 1]]
  <2>1. i - 1 \in a .. b
    OBVIOUS
  <2> QED
    BY <1>4, <2>1
<1>6. f \in [a .. b -> S]
  BY <1>4 DEF IsOver
<1> QED
  BY <1>5, <1>6 DEF Runs

\* f and g are the same from m to n.
Agree(f, g, m, n) == \A i \in m .. n : g[i] = f[i]

\* Two that apply the same functions go the same way as long as they do.
LEMMA RunsOnly ==
    ASSUME NEW S, NEW a \in Nat, NEW b \in Nat, NEW c \in Nat, a <= b, b <= c,
           NEW first, NEW step, NEW more,
           NEW f, Runs(f, S, a, b, first, step), NEW g, Runs(g, S, a, c, first, more),
           Agree(step, more, a + 1, b)
    PROVE  Agree(f, g, a, b)
<1> DEFINE T == {i \in Nat : i \in a .. b => g[i] = f[i]}
<1>1. f[a] = first /\ g[a] = first
  BY DEF Runs
<1>2. 0 \in T
  <2>1. 0 \in a .. b => a = 0
    OBVIOUS
  <2> QED
    BY <1>1, <2>1
<1>3. \A i \in Nat : i \in T => i + 1 \in T
  <2> SUFFICES ASSUME NEW i \in Nat, i + 1 \in a .. b, i \in a .. b => g[i] = f[i]
               PROVE  g[i + 1] = f[i + 1]
    OBVIOUS
  <2>1. CASE i + 1 = a
    BY <1>1, <2>1
  <2>2. CASE i + 1 # a
    <3>1. i \in a .. b /\ i + 1 \in a + 1 .. b /\ i + 1 \in a + 1 .. c /\ (i + 1) - 1 = i
      BY <2>2
    <3>2. f[i + 1] = step[i + 1][f[i]] /\ g[i + 1] = more[i + 1][g[i]]
      BY <3>1 DEF Runs
    <3>3. more[i + 1] = step[i + 1] /\ g[i] = f[i]
      BY <3>1 DEF Agree
    <3> QED
      BY <3>2, <3>3
  <2> QED
    BY <2>1, <2>2
<1>4. Nat \subseteq T
  <2> HIDE DEF T
  <2> QED
    BY <1>2, <1>3, SetInduction
<1> QED
  BY <1>4 DEF Agree

-----------------------------------------------------------------------------
(***************************************************************************)
(* Where lines begin.                                                      *)
(***************************************************************************)
\* Where line r of ls begins, counted from 0.
StartAt(ls, r) ==
    LET start[q \in 0 .. r] == IF q = 0 THEN 0 ELSE start[q - 1] + Len(ls[(q - 1) + 1]) + 1
    IN  start[r]

EndAt(ls, r) == StartAt(ls, r) + Len(ls[r + 1])

LEMMA StartIs == \A r : LineStart(r) = StartAt(lines, r)
BY DEF LineStart, StartAt, LineAt

LEMMA StartIsNext == ASSUME NEW r PROVE LineStart(r)' = StartAt(lines', r)
BY DEF LineStart, StartAt, LineAt

StartSteps(ls, n) == [i \in 0 + 1 .. n |-> [x \in Nat |-> x + Len(ls[i]) + 1]]

LEMMA LinesTyped ==
    ASSUME NEW ls \in Seq(Line)
    PROVE  /\ Len(ls) \in Nat
           /\ \A i \in 1 .. Len(ls) : ls[i] \in Seq(Char) /\ Len(ls[i]) \in Nat
<1>1. \A i \in 1 .. Len(ls) : ls[i] \in Line
  OBVIOUS
<1>2. \A l \in Line : l \in Seq(Char) /\ Len(l) \in Nat
  BY LineAssumption
<1> QED
  BY <1>1, <1>2

LEMMA StartStepsTyped ==
    ASSUME NEW ls \in Seq(Line), NEW n \in 0 .. Len(ls)
    PROVE  /\ StartSteps(ls, n) \in [0 + 1 .. n -> [Nat -> Nat]]
           /\ \A i \in 1 .. n, x \in Nat : StartSteps(ls, n)[i][x] = x + Len(ls[i]) + 1
<1>1. \A i \in 0 + 1 .. n, x \in Nat : x + Len(ls[i]) + 1 \in Nat
  BY LinesTyped
<1>2. \A i \in 0 + 1 .. n : [x \in Nat |-> x + Len(ls[i]) + 1] \in [Nat -> Nat]
  BY <1>1
<1> QED
  BY <1>2 DEF StartSteps

LEMMA StartRuns ==
    ASSUME NEW ls \in Seq(Line), NEW n \in 0 .. Len(ls)
    PROVE  \E f : Runs(f, Nat, 0, n, 0, StartSteps(ls, n)) /\ StartAt(ls, n) = f[n]
<1> DEFINE step == StartSteps(ls, n)
           Def(s) == s = [q \in 0 .. n |->
                            IF q = 0 THEN 0 ELSE s[q - 1] + Len(ls[(q - 1) + 1]) + 1]
           f == CHOOSE s : Def(s)
<1>1. n \in Nat /\ step \in [0 + 1 .. n -> [Nat -> Nat]]
  <2>1. n \in Nat
    BY LinesTyped
  <2>2. step \in [0 + 1 .. n -> [Nat -> Nat]]
    BY StartStepsTyped
  <2> QED
    BY <2>1, <2>2
<1>2. \A i \in 1 .. n : \A x \in Nat : step[i][x] = x + Len(ls[(i - 1) + 1]) + 1
  <2>1. \A i \in 1 .. n : (i - 1) + 1 = i
    OBVIOUS
  <2>2. \A i \in 1 .. n, x \in Nat : step[i][x] = x + Len(ls[i]) + 1
    BY StartStepsTyped
  <2> HIDE DEF step
  <2> QED
    BY <2>1, <2>2
<1>3. StartAt(ls, n) = f[n]
  BY DEF StartAt
<1> HIDE DEF step
<1>4. PICK g : Runs(g, Nat, 0, n, 0, step)
  <2>1. 0 \in Nat /\ 0 <= n
    BY <1>1
  <2> QED
    BY <1>1, <2>1, RunsExist
<1>5. Def(g)
  <2>1. /\ g[0] = 0 /\ \A i \in 0 .. n : g[i] \in Nat
        /\ \A i \in 1 .. n : g[i] = step[i][g[i - 1]]
    BY <1>4 DEF Runs
  <2>2. ASSUME NEW q \in 0 .. n
        PROVE  g[q] = IF q = 0 THEN 0 ELSE g[q - 1] + Len(ls[(q - 1) + 1]) + 1
    <3>1. CASE q = 0
      BY <2>1, <3>1
    <3>2. CASE q # 0
      <4>1. q \in 1 .. n /\ q - 1 \in 0 .. n
        BY <1>1, <3>2
      <4>2. g[q] = step[q][g[q - 1]] /\ g[q - 1] \in Nat
        BY <2>1, <4>1
      <4> QED
        BY <1>2, <3>2, <4>1, <4>2
    <3> QED
      BY <3>1, <3>2
  <2>3. g = [q \in 0 .. n |-> g[q]]
    BY <1>4 DEF Runs
  <2> QED
    BY <2>2, <2>3, Zenon
<1>6. Def(f)
  <2> HIDE DEF Def
  <2> QED
    BY <1>5
<1> HIDE DEF f
<1>7. IsOver(f, 0, n)
  <2>1. f = [q \in 0 .. n |-> f[q]]
    BY <1>6
  <2> QED
    BY <2>1 DEF IsOver
<1>8. f[0] = 0 /\ \A i \in 1 .. n : f[i] = f[i - 1] + Len(ls[(i - 1) + 1]) + 1
  <2> HIDE DEF Def
  <2>1. \A q \in 0 .. n : f[q] = IF q = 0 THEN 0 ELSE f[q - 1] + Len(ls[(q - 1) + 1]) + 1
    BY <1>6, Zenon DEF Def
  <2>2. 0 \in 0 .. n /\ \A i \in 1 .. n : i \in 0 .. n /\ i # 0
    BY <1>1
  <2> QED
    BY <2>1, <2>2, Zenon
<1>9. Runs(f, Nat, 0, n, 0, step)
  <2>1. \A i \in 1 .. n : f[i - 1] \in Nat => f[i] = step[i][f[i - 1]]
    BY <1>2, <1>8
  <2>2. \A i \in 0 + 1 .. n : f[i - 1] \in Nat => f[i] = step[i][f[i - 1]]
    BY <2>1
  <2>3. 0 \in Nat /\ 0 <= n
    BY <1>1
  <2> HIDE DEF Def
  <2> QED
    BY <1>1, <1>7, <1>8, <2>2, <2>3, RunsTyped
<1> QED
  BY <1>3, <1>9 DEF step

\* Each line begins after the newline of the line before it.
LEMMA StartGrows ==
    ASSUME NEW ls \in Seq(Line)
    PROVE  /\ StartAt(ls, 0) = 0
           /\ \A n \in 0 .. Len(ls) : StartAt(ls, n) \in Nat
           /\ \A n \in 0 .. Len(ls) - 1 : StartAt(ls, n + 1) = EndAt(ls, n) + 1
<1>1. ASSUME NEW n \in 0 .. Len(ls)
      PROVE  StartAt(ls, n) \in Nat /\ (n = 0 => StartAt(ls, n) = 0)
  <2>1. PICK f : Runs(f, Nat, 0, n, 0, StartSteps(ls, n)) /\ StartAt(ls, n) = f[n]
    BY StartRuns
  <2>2. n \in 0 .. n
    BY LinesTyped
  <2> QED
    BY <2>1, <2>2 DEF Runs
<1>2. ASSUME NEW n \in 0 .. Len(ls) - 1
      PROVE  StartAt(ls, n + 1) = EndAt(ls, n) + 1
  <2>1. n \in 0 .. Len(ls) /\ n + 1 \in 0 .. Len(ls) /\ n \in Nat /\ n + 1 \in Nat
    BY LinesTyped
  <2>2. PICK f : Runs(f, Nat, 0, n, 0, StartSteps(ls, n)) /\ StartAt(ls, n) = f[n]
    BY <2>1, StartRuns
  <2>3. PICK g : /\ Runs(g, Nat, 0, n + 1, 0, StartSteps(ls, n + 1))
                 /\ StartAt(ls, n + 1) = g[n + 1]
    BY <2>1, StartRuns
  <2>4. Agree(StartSteps(ls, n), StartSteps(ls, n + 1), 0 + 1, n)
    BY <2>1 DEF Agree, StartSteps
  <2>5. Agree(f, g, 0, n)
    <3>1. 0 \in Nat /\ 0 <= n /\ n <= n + 1
      BY <2>1
    <3> QED
      BY <2>1, <2>2, <2>3, <2>4, <3>1, RunsOnly
  <2>6. g[n] = f[n] /\ f[n] \in Nat
    BY <2>1, <2>2, <2>5 DEF Agree, Runs
  <2>7. g[n + 1] = StartSteps(ls, n + 1)[n + 1][g[n]]
    <3>1. n + 1 \in 0 + 1 .. n + 1 /\ (n + 1) - 1 = n
      BY <2>1
    <3> QED
      BY <2>3, <3>1 DEF Runs
  <2>8. StartSteps(ls, n + 1)[n + 1][g[n]] = g[n] + Len(ls[n + 1]) + 1
    <3>1. n + 1 \in 1 .. n + 1 /\ g[n] \in Nat
      BY <2>1, <2>6
    <3>2. \A i \in 1 .. n + 1, x \in Nat : StartSteps(ls, n + 1)[i][x] = x + Len(ls[i]) + 1
      BY <2>1, StartStepsTyped, Zenon
    <3> QED
      BY <2>6, <3>1, <3>2, Zenon
  <2> QED
    BY <2>2, <2>3, <2>6, <2>7, <2>8 DEF EndAt
<1>3. 0 \in 0 .. Len(ls)
  BY LinesTyped
<1> QED
  BY <1>1, <1>2, <1>3

LEMMA EndsTyped ==
    ASSUME NEW ls \in Seq(Line), NEW n \in 0 .. Len(ls) - 1
    PROVE  /\ n + 1 \in 1 .. Len(ls) /\ ls[n + 1] \in Seq(Char) /\ Len(ls[n + 1]) \in Nat
           /\ StartAt(ls, n) \in Nat /\ EndAt(ls, n) \in Nat /\ StartAt(ls, n) <= EndAt(ls, n)
           /\ EndAt(ls, n) = StartAt(ls, n) + Len(ls[n + 1])
<1>1. n \in 0 .. Len(ls) /\ n + 1 \in 1 .. Len(ls)
  BY LinesTyped
<1>2. ls[n + 1] \in Seq(Char) /\ Len(ls[n + 1]) \in Nat /\ StartAt(ls, n) \in Nat
  BY <1>1, LinesTyped, StartGrows
<1> QED
  BY <1>1, <1>2 DEF EndAt

\* A line before another ends before it begins.
LEMMA StartsOrdered ==
    ASSUME NEW ls \in Seq(Line), NEW m \in 0 .. Len(ls) - 1, NEW n \in 0 .. Len(ls), m < n
    PROVE  EndAt(ls, m) < StartAt(ls, n)
<1> DEFINE T == {k \in Nat : k \in m + 1 .. Len(ls) => EndAt(ls, m) < StartAt(ls, k)}
<1>1. 0 \in T
  OBVIOUS
<1>2. \A k \in Nat : k \in T => k + 1 \in T
  <2> SUFFICES ASSUME NEW k \in Nat, k + 1 \in m + 1 .. Len(ls),
                      k \in m + 1 .. Len(ls) => EndAt(ls, m) < StartAt(ls, k)
               PROVE  EndAt(ls, m) < StartAt(ls, k + 1)
    OBVIOUS
  <2>1. k \in 0 .. Len(ls) - 1
    BY LinesTyped
  <2>2. StartAt(ls, k + 1) = EndAt(ls, k) + 1 /\ EndAt(ls, k) \in Nat
    BY <2>1, StartGrows, EndsTyped
  <2>3. CASE k = m
    BY <2>2, <2>3
  <2>4. CASE k # m
    <3>1. k \in m + 1 .. Len(ls)
      BY <2>1, <2>4, LinesTyped
    <3>2. StartAt(ls, k) <= EndAt(ls, k) /\ StartAt(ls, k) \in Nat /\ EndAt(ls, m) \in Nat
      BY <2>1, EndsTyped
    <3> QED
      BY <2>2, <3>1, <3>2
  <2> QED
    BY <2>3, <2>4
<1>3. Nat \subseteq T
  <2> HIDE DEF T
  <2> QED
    BY <1>1, <1>2, SetInduction
<1>4. n \in Nat /\ n \in m + 1 .. Len(ls)
  BY LinesTyped
<1> QED
  BY <1>3, <1>4

\* Lines of the same length before it leave a line where it is.
LEMMA StartStays ==
    ASSUME NEW ls \in Seq(Line), NEW ms \in Seq(Line),
           NEW n \in 0 .. Len(ls), n <= Len(ms), \A i \in 1 .. n : ms[i] = ls[i]
    PROVE  StartAt(ms, n) = StartAt(ls, n)
<1>1. n \in Nat /\ n \in 0 .. Len(ms) /\ 0 \in Nat /\ 0 <= n /\ n <= n
  BY LinesTyped
<1>2. PICK f : Runs(f, Nat, 0, n, 0, StartSteps(ls, n)) /\ StartAt(ls, n) = f[n]
  BY StartRuns
<1>3. PICK g : Runs(g, Nat, 0, n, 0, StartSteps(ms, n)) /\ StartAt(ms, n) = g[n]
  BY <1>1, StartRuns
<1>4. Agree(StartSteps(ls, n), StartSteps(ms, n), 0 + 1, n)
  BY <1>1 DEF Agree, StartSteps
<1>5. Agree(f, g, 0, n)
  BY <1>1, <1>2, <1>3, <1>4, RunsOnly
<1> QED
  BY <1>1, <1>2, <1>3, <1>5 DEF Agree

\* A position is in one line.
InLine(ls, r, p) == r \in 0 .. Len(ls) - 1 /\ StartAt(ls, r) <= p /\ p <= EndAt(ls, r)

LEMMA InOneLine ==
    ASSUME NEW ls \in Seq(Line), NEW p \in Nat, NEW q, InLine(ls, q, p), NEW r, InLine(ls, r, p)
    PROVE  q = r
<1>1. q \in 0 .. Len(ls) - 1 /\ r \in 0 .. Len(ls) - 1
  BY DEF InLine
<1>2. q \in 0 .. Len(ls) /\ r \in 0 .. Len(ls)
  BY <1>1, LinesTyped
<1>3. /\ StartAt(ls, q) \in Nat /\ EndAt(ls, q) \in Nat
      /\ StartAt(ls, r) \in Nat /\ EndAt(ls, r) \in Nat
  BY <1>1, EndsTyped
<1>4. ~(q < r)
  <2> SUFFICES ASSUME q < r PROVE FALSE
    OBVIOUS
  <2>1. EndAt(ls, q) < StartAt(ls, r)
    BY <1>1, <1>2, StartsOrdered
  <2> QED
    BY <1>3, <2>1 DEF InLine
<1>5. ~(r < q)
  <2> SUFFICES ASSUME r < q PROVE FALSE
    OBVIOUS
  <2>1. EndAt(ls, r) < StartAt(ls, q)
    BY <1>1, <1>2, StartsOrdered
  <2> QED
    BY <1>3, <2>1 DEF InLine
<1> QED
  BY <1>1, <1>4, <1>5

\* A position up to the end of line n is in a line.
LEMMA InSomeLine ==
    ASSUME NEW ls \in Seq(Line), NEW n \in 0 .. Len(ls) - 1, NEW p \in 0 .. EndAt(ls, n)
    PROVE  \E r : InLine(ls, r, p)
<1> DEFINE T == {k \in Nat : k <= Len(ls) - 1 /\ p <= EndAt(ls, k) => \E r : InLine(ls, r, p)}
<1>1. Len(ls) \in Nat /\ p \in Nat
  BY LinesTyped, EndsTyped
<1>2. 0 \in T
  <2> SUFFICES ASSUME 0 <= Len(ls) - 1, p <= EndAt(ls, 0) PROVE \E r : InLine(ls, r, p)
    OBVIOUS
  <2>1. 0 \in 0 .. Len(ls) - 1 /\ StartAt(ls, 0) <= p
    BY <1>1, StartGrows
  <2> QED
    BY <2>1 DEF InLine
<1>3. \A k \in Nat : k \in T => k + 1 \in T
  <2> SUFFICES ASSUME NEW k \in Nat, k + 1 <= Len(ls) - 1, p <= EndAt(ls, k + 1),
                      k <= Len(ls) - 1 /\ p <= EndAt(ls, k) => \E r : InLine(ls, r, p)
               PROVE  \E r : InLine(ls, r, p)
    OBVIOUS
  <2>1. k \in 0 .. Len(ls) - 1 /\ k + 1 \in 0 .. Len(ls) - 1
    BY <1>1
  <2>2. StartAt(ls, k + 1) = EndAt(ls, k) + 1 /\ EndAt(ls, k) \in Nat
    BY <2>1, StartGrows, EndsTyped
  <2>3. CASE p <= EndAt(ls, k)
    BY <2>1, <2>3
  <2>4. CASE ~(p <= EndAt(ls, k))
    <3>1. StartAt(ls, k + 1) <= p
      BY <1>1, <2>2, <2>4
    <3>2. InLine(ls, k + 1, p)
      BY <2>1, <3>1 DEF InLine
    <3> QED
      BY <3>2
  <2> QED
    BY <2>3, <2>4
<1>4. Nat \subseteq T
  <2> HIDE DEF T
  <2> QED
    BY <1>2, <1>3, SetInduction
<1>5. n \in Nat /\ n <= Len(ls) - 1 /\ p <= EndAt(ls, n)
  BY <1>1, EndsTyped
<1> QED
  BY <1>4, <1>5

-----------------------------------------------------------------------------
(***************************************************************************)
(* Columns.                                                                *)
(***************************************************************************)
\* The column after c at column x, with tab stops every tw columns.
ColumnAfter(tw, x, c) == IF c = TAB THEN x + tw - (x % tw) ELSE x + Width(c)

\* The column of position b of the line l that begins at s, counted from position a
\* and its column.
ScanAt(l, tw, s, a, b, first) ==
    LET column[p \in a .. b] ==
            IF p = a THEN first ELSE ColumnAfter(tw, column[p - 1], l[p - s])
    IN  column[b]

LEMMA ScanIs ==
    \A r, a, b, first :
        ScanColumns(r, a, b, first) = ScanAt(lines[r + 1], tab_width, LineStart(r), a, b, first)
BY DEF ScanColumns, ScanAt, After, ColumnAfter, LineAt

ScanSteps(l, tw, s, a, b) ==
    [p \in a + 1 .. b |-> [x \in Nat |-> ColumnAfter(tw, x, l[p - s])]]

\* The columns from a to b of line l, which begins at s.
Scans(l, tw, s, a, b) ==
    /\ l \in Seq(Char) /\ tw \in Nat \ {0}
    /\ s \in Nat /\ a \in Nat /\ b \in Nat
    /\ s <= a /\ a <= b /\ b <= s + Len(l)

LEMMA AfterTyped ==
    ASSUME NEW tw \in Nat \ {0}, NEW x \in Nat, NEW c \in Char
    PROVE  ColumnAfter(tw, x, c) \in Nat
<1>1. x % tw \in 0 .. tw - 1
  OBVIOUS
<1>2. x + tw - (x % tw) \in Nat
  BY <1>1
<1>3. x + Width(c) \in Nat
  BY WidthAssumption
<1> QED
  BY <1>2, <1>3 DEF ColumnAfter

LEMMA ScanStepsTyped ==
    ASSUME NEW l, NEW tw, NEW s, NEW a, NEW b, Scans(l, tw, s, a, b)
    PROVE  /\ ScanSteps(l, tw, s, a, b) \in [a + 1 .. b -> [Nat -> Nat]]
           /\ \A p \in a + 1 .. b, x \in Nat :
                  ScanSteps(l, tw, s, a, b)[p][x] = ColumnAfter(tw, x, l[p - s])
<1>1. \A p \in a + 1 .. b : l[p - s] \in Char
  <2>1. \A p \in a + 1 .. b : p - s \in 1 .. Len(l)
    BY DEF Scans
  <2>2. \A i \in 1 .. Len(l) : l[i] \in Char
    BY DEF Scans
  <2> QED
    BY <2>1, <2>2
<1>2. \A p \in a + 1 .. b, x \in Nat : ColumnAfter(tw, x, l[p - s]) \in Nat
  BY <1>1, AfterTyped DEF Scans
<1>3. \A p \in a + 1 .. b : [x \in Nat |-> ColumnAfter(tw, x, l[p - s])] \in [Nat -> Nat]
  BY <1>2
<1> QED
  BY <1>3 DEF ScanSteps

LEMMA ScanRuns ==
    ASSUME NEW l, NEW tw, NEW s, NEW a, NEW b, Scans(l, tw, s, a, b), NEW first \in Nat
    PROVE  \E f : /\ Runs(f, Nat, a, b, first, ScanSteps(l, tw, s, a, b))
                  /\ ScanAt(l, tw, s, a, b, first) = f[b]
<1> DEFINE step == ScanSteps(l, tw, s, a, b)
           Def(t) == t = [p \in a .. b |->
                            IF p = a THEN first ELSE ColumnAfter(tw, t[p - 1], l[p - s])]
           f == CHOOSE t : Def(t)
<1>1. a \in Nat /\ b \in Nat /\ a <= b
  BY DEF Scans
<1>2. step \in [a + 1 .. b -> [Nat -> Nat]]
  BY ScanStepsTyped
<1>3. \A p \in a + 1 .. b, x \in Nat : step[p][x] = ColumnAfter(tw, x, l[p - s])
  BY ScanStepsTyped
<1>4. ScanAt(l, tw, s, a, b, first) = f[b]
  BY DEF ScanAt
<1> HIDE DEF step
<1>5. PICK g : Runs(g, Nat, a, b, first, step)
  BY <1>1, <1>2, RunsExist
<1>6. Def(g)
  <2>1. /\ g[a] = first /\ \A i \in a .. b : g[i] \in Nat
        /\ \A i \in a + 1 .. b : g[i] = step[i][g[i - 1]]
    BY <1>5 DEF Runs
  <2>2. ASSUME NEW p \in a .. b
        PROVE  g[p] = IF p = a THEN first ELSE ColumnAfter(tw, g[p - 1], l[p - s])
    <3>1. CASE p = a
      BY <2>1, <3>1
    <3>2. CASE p # a
      <4>1. p \in a + 1 .. b /\ p - 1 \in a .. b
        BY <1>1, <3>2
      <4>2. g[p] = step[p][g[p - 1]] /\ g[p - 1] \in Nat
        BY <2>1, <4>1
      <4> QED
        BY <1>3, <3>2, <4>1, <4>2
    <3> QED
      BY <3>1, <3>2
  <2>3. g = [p \in a .. b |-> g[p]]
    BY <1>5 DEF Runs
  <2> QED
    BY <2>2, <2>3, Zenon
<1>7. Def(f)
  <2> HIDE DEF Def
  <2> QED
    BY <1>6
<1> HIDE DEF f
<1>8. IsOver(f, a, b)
  <2>1. f = [p \in a .. b |-> f[p]]
    BY <1>7
  <2> QED
    BY <2>1 DEF IsOver
<1>9. f[a] = first /\ \A p \in a + 1 .. b : f[p] = ColumnAfter(tw, f[p - 1], l[p - s])
  <2> HIDE DEF Def
  <2>1. \A p \in a .. b : f[p] = IF p = a THEN first ELSE ColumnAfter(tw, f[p - 1], l[p - s])
    BY <1>7, Zenon DEF Def
  <2>2. a \in a .. b /\ \A i \in a + 1 .. b : i \in a .. b /\ i # a
    BY <1>1
  <2> QED
    BY <2>1, <2>2, Zenon
<1>10. \A i \in a + 1 .. b : f[i - 1] \in Nat => f[i] = step[i][f[i - 1]]
  BY <1>3, <1>9
<1>11. Runs(f, Nat, a, b, first, step)
  <2> HIDE DEF Def
  <2> QED
    BY <1>1, <1>2, <1>8, <1>9, <1>10, RunsTyped
<1> QED
  BY <1>4, <1>11 DEF step

\* One character after the other.
LEMMA ScanGrows ==
    ASSUME NEW l, NEW tw, NEW s, NEW a, NEW b, Scans(l, tw, s, a, b), NEW first \in Nat
    PROVE  /\ ScanAt(l, tw, s, a, b, first) \in Nat
           /\ b = a => ScanAt(l, tw, s, a, b, first) = first
           /\ b + 1 <= s + Len(l) =>
                  ScanAt(l, tw, s, a, b + 1, first)
                  = ColumnAfter(tw, ScanAt(l, tw, s, a, b, first), l[(b + 1) - s])
<1>1. PICK f : /\ Runs(f, Nat, a, b, first, ScanSteps(l, tw, s, a, b))
               /\ ScanAt(l, tw, s, a, b, first) = f[b]
  BY ScanRuns
<1>2. a \in Nat /\ b \in Nat /\ a <= b /\ b \in a .. b
  BY DEF Scans
<1>3. f[b] \in Nat /\ f[a] = first
  BY <1>1, <1>2 DEF Runs
<1>4. ASSUME b + 1 <= s + Len(l)
      PROVE  ScanAt(l, tw, s, a, b + 1, first)
             = ColumnAfter(tw, ScanAt(l, tw, s, a, b, first), l[(b + 1) - s])
  <2>1. Scans(l, tw, s, a, b + 1)
    BY <1>4 DEF Scans
  <2>2. PICK g : /\ Runs(g, Nat, a, b + 1, first, ScanSteps(l, tw, s, a, b + 1))
                 /\ ScanAt(l, tw, s, a, b + 1, first) = g[b + 1]
    BY <2>1, ScanRuns
  <2>3. Agree(ScanSteps(l, tw, s, a, b), ScanSteps(l, tw, s, a, b + 1), a + 1, b)
    BY <1>2 DEF Agree, ScanSteps
  <2>4. b + 1 \in Nat /\ b <= b + 1
    BY <1>2
  <2>5. Agree(f, g, a, b)
    BY <1>1, <1>2, <2>2, <2>3, <2>4, RunsOnly
  <2>6. g[b] = f[b]
    BY <1>2, <2>5 DEF Agree
  <2>7. b + 1 \in a + 1 .. b + 1 /\ (b + 1) - 1 = b
    BY <1>2
  <2>8. g[b + 1] = ScanSteps(l, tw, s, a, b + 1)[b + 1][g[b]]
    BY <2>2, <2>7 DEF Runs
  <2>9. ScanSteps(l, tw, s, a, b + 1)[b + 1][g[b]] = ColumnAfter(tw, g[b], l[(b + 1) - s])
    <3>1. \A p \in a + 1 .. b + 1, x \in Nat :
              ScanSteps(l, tw, s, a, b + 1)[p][x] = ColumnAfter(tw, x, l[p - s])
      BY <2>1, ScanStepsTyped
    <3>2. g[b] \in Nat
      BY <1>3, <2>6
    <3> QED
      BY <2>7, <3>1, <3>2
  <2> QED
    BY <1>1, <2>2, <2>6, <2>8, <2>9
<1> QED
  BY <1>1, <1>3, <1>4

OneMore(l, tw, s, a, b, first) ==
    ScanAt(l, tw, s, a, b + 1, first)
    = ColumnAfter(tw, ScanAt(l, tw, s, a, b, first), l[(b + 1) - s])

LEMMA ScanOneMore ==
    ASSUME NEW l, NEW tw, NEW s, NEW a, NEW b, Scans(l, tw, s, a, b), NEW first \in Nat,
           b + 1 <= s + Len(l)
    PROVE  OneMore(l, tw, s, a, b, first)
BY ScanGrows DEF OneMore

\* Counting on from a position and its column is counting from the beginning.
LEMMA ScanOn ==
    ASSUME NEW l, NEW tw, NEW s, NEW a, NEW b, NEW c, NEW first \in Nat,
           Scans(l, tw, s, a, b), Scans(l, tw, s, b, c)
    PROVE  ScanAt(l, tw, s, b, c, ScanAt(l, tw, s, a, b, first)) = ScanAt(l, tw, s, a, c, first)
<1> DEFINE x == ScanAt(l, tw, s, a, b, first)
           P(d) == ScanAt(l, tw, s, b, d, x) = ScanAt(l, tw, s, a, d, first)
           T == {d \in Nat : d \in b .. c => P(d)}
<1>1. /\ a \in Nat /\ b \in Nat /\ c \in Nat /\ a <= b /\ b <= c
      /\ x \in Nat /\ c <= s + Len(l) /\ s + Len(l) \in Nat
  <2>1. x \in Nat
    BY ScanGrows
  <2>2. Len(l) \in Nat
    BY LenProperties DEF Scans
  <2> HIDE DEF x
  <2> QED
    BY <2>1, <2>2 DEF Scans
<1>2. P(b)
  <2>1. Scans(l, tw, s, b, b)
    BY DEF Scans
  <2>2. b = b => ScanAt(l, tw, s, b, b, x) = x
    <3> HIDE DEF x
    <3> QED
      BY <1>1, <2>1, ScanGrows
  <2> QED
    BY <2>2
<1>3. 0 \in T
  <2>1. 0 \in b .. c => b = 0
    BY <1>1
  <2> HIDE DEF P
  <2> QED
    BY <1>2, <2>1
<1>4. \A d \in Nat : d \in T => d + 1 \in T
  <2> HIDE DEF P
  <2> SUFFICES ASSUME NEW d \in Nat, d + 1 \in b .. c, d \in b .. c => P(d)
               PROVE  P(d + 1)
    OBVIOUS
  <2>1. CASE d + 1 = b
    BY <1>2, <2>1
  <2>2. CASE d + 1 # b
    <3>1. d \in b .. c /\ d + 1 <= s + Len(l)
      BY <1>1, <2>2
    <3>2. P(d)
      BY <3>1
    <3>3. Scans(l, tw, s, a, d) /\ Scans(l, tw, s, b, d)
      BY <1>1, <3>1 DEF Scans
    <3>4. OneMore(l, tw, s, a, d, first)
      BY <3>1, <3>3, ScanOneMore
    <3>5. OneMore(l, tw, s, b, d, x)
      <4> HIDE DEF x
      <4> QED
        BY <1>1, <3>1, <3>3, ScanOneMore
    <3> QED
      BY <3>2, <3>4, <3>5 DEF P, OneMore
  <2> QED
    BY <2>1, <2>2
<1>5. Nat \subseteq T
  <2> HIDE DEF T
  <2> QED
    BY <1>3, <1>4, SetInduction
<1>6. P(c)
  <2> HIDE DEF P
  <2> QED
    BY <1>1, <1>5
<1> QED
  BY <1>6

\* Two lines that begin with the same characters.
SameStart(l, m, count) == \A i \in 1 .. count : m[i] = l[i]

\* Only the characters between matter.
LEMMA ScanSame ==
    ASSUME NEW l, NEW m, NEW tw, NEW s, NEW a, NEW b, NEW first \in Nat,
           Scans(l, tw, s, a, b), Scans(m, tw, s, a, b), SameStart(l, m, b - s)
    PROVE  ScanAt(m, tw, s, a, b, first) = ScanAt(l, tw, s, a, b, first)
<1>1. a \in Nat /\ b \in Nat /\ s \in Nat /\ s <= a /\ a <= b /\ b \in a .. b
  BY DEF Scans
<1>2. PICK f : /\ Runs(f, Nat, a, b, first, ScanSteps(l, tw, s, a, b))
               /\ ScanAt(l, tw, s, a, b, first) = f[b]
  BY ScanRuns
<1>3. PICK g : /\ Runs(g, Nat, a, b, first, ScanSteps(m, tw, s, a, b))
               /\ ScanAt(m, tw, s, a, b, first) = g[b]
  BY ScanRuns
<1>4. \A p \in a + 1 .. b : m[p - s] = l[p - s]
  <2>1. \A p \in a + 1 .. b : p - s \in 1 .. b - s
    BY <1>1
  <2> QED
    BY <2>1 DEF SameStart
<1>5. Agree(ScanSteps(l, tw, s, a, b), ScanSteps(m, tw, s, a, b), a + 1, b)
  BY <1>4 DEF Agree, ScanSteps
<1>6. Agree(f, g, a, b)
  <2>1. b <= b
    BY <1>1
  <2> QED
    BY <1>1, <1>2, <1>3, <1>5, <2>1, RunsOnly
<1> QED
  BY <1>1, <1>2, <1>3, <1>6 DEF Agree

-----------------------------------------------------------------------------
(***************************************************************************)
(* Checkpoints.                                                            *)
(***************************************************************************)
\* The column of position p of line r, counted from the beginning of the line.
ColumnIn(ls, tw, r, p) == ScanAt(ls[r + 1], tw, StartAt(ls, r), StartAt(ls, r), p, 0)

\* A position of line r and its column.
IsColumn(from, ls, tw, r) ==
    /\ from.point \in Nat /\ InLine(ls, r, from.point)
    /\ from.column = ColumnIn(ls, tw, r, from.point)

\* What a checkpoint holds is true of the lines ls and the tab width tw.
IsCheckpoint(cache, ls, tw) ==
    cache.valid => \E r : cache.line_start = StartAt(ls, r) /\ IsColumn(cache, ls, tw, r)

LEMMA LineScans ==
    ASSUME NEW ls \in Seq(Line), NEW tw \in Nat \ {0}, NEW r, NEW p \in Nat, InLine(ls, r, p)
    PROVE  /\ Scans(ls[r + 1], tw, StartAt(ls, r), StartAt(ls, r), p)
           /\ ColumnIn(ls, tw, r, p) \in Nat
<1>1. r \in 0 .. Len(ls) - 1 /\ StartAt(ls, r) <= p /\ p <= EndAt(ls, r)
  BY DEF InLine
<1>2. /\ ls[r + 1] \in Seq(Char) /\ StartAt(ls, r) \in Nat
      /\ EndAt(ls, r) = StartAt(ls, r) + Len(ls[r + 1])
  BY <1>1, EndsTyped
<1>3. Scans(ls[r + 1], tw, StartAt(ls, r), StartAt(ls, r), p)
  BY <1>1, <1>2 DEF Scans
<1> QED
  BY <1>3, ScanGrows DEF ColumnIn

\* The beginning of a line is at column 0.
LEMMA BeginningCounts ==
    ASSUME NEW ls \in Seq(Line), NEW tw \in Nat \ {0}, NEW r \in 0 .. Len(ls) - 1
    PROVE  /\ StartAt(ls, r) \in Nat /\ InLine(ls, r, StartAt(ls, r))
           /\ ColumnIn(ls, tw, r, StartAt(ls, r)) = 0
<1>1. StartAt(ls, r) \in Nat /\ InLine(ls, r, StartAt(ls, r))
  BY EndsTyped DEF InLine
<1>2. Scans(ls[r + 1], tw, StartAt(ls, r), StartAt(ls, r), StartAt(ls, r))
  BY <1>1, LineScans
<1> QED
  BY <1>1, <1>2, ScanGrows DEF ColumnIn

\* Counting on from a column of the line.
LEMMA CountOn ==
    ASSUME NEW ls \in Seq(Line), NEW tw \in Nat \ {0}, NEW r, NEW from, IsColumn(from, ls, tw, r),
           NEW p \in Nat, InLine(ls, r, p), from.point <= p
    PROVE  ScanAt(ls[r + 1], tw, StartAt(ls, r), from.point, p, from.column)
           = ColumnIn(ls, tw, r, p)
<1> DEFINE l == ls[r + 1]
           s == StartAt(ls, r)
           a == from.point
<1>1. a \in Nat /\ InLine(ls, r, a) /\ from.column = ScanAt(l, tw, s, s, a, 0)
  BY DEF IsColumn, ColumnIn
<1>2. Scans(l, tw, s, s, a) /\ Scans(l, tw, s, s, p)
  BY <1>1, LineScans
<1>3. Scans(l, tw, s, a, p)
  BY <1>2 DEF Scans
<1>4. ScanAt(l, tw, s, a, p, ScanAt(l, tw, s, s, a, 0)) = ScanAt(l, tw, s, s, p, 0)
  <2>1. 0 \in Nat
    OBVIOUS
  <2> HIDE DEF l, s, a
  <2> QED
    BY <1>2, <1>3, <2>1, ScanOn
<1> QED
  BY <1>1, <1>4 DEF ColumnIn

\* Where counting begins is a column of the line, at the checkpoint or at the
\* beginning.
LEMMA FromCounts ==
    ASSUME lines \in Seq(Line), tab_width \in Nat \ {0},
           NEW cache, IsCheckpoint(cache, lines, tab_width),
           NEW r \in 0 .. Len(lines) - 1, NEW usable \in BOOLEAN
    PROVE  /\ IsColumn(From(cache, r, usable), lines, tab_width, r)
           /\ \/ usable /\ From(cache, r, usable) = cache
              \/ /\ From(cache, r, usable).point = StartAt(lines, r)
                 /\ From(cache, r, usable).column = 0
<1>1. /\ StartAt(lines, r) \in Nat /\ InLine(lines, r, StartAt(lines, r))
      /\ ColumnIn(lines, tab_width, r, StartAt(lines, r)) = 0
  BY BeginningCounts
<1>2. LineStart(r) = StartAt(lines, r)
  BY StartIs
<1>3. CASE cache.valid /\ cache.line_start = LineStart(r) /\ usable
  <2>1. From(cache, r, usable) = cache
    BY <1>3 DEF From
  <2>2. PICK q : cache.line_start = StartAt(lines, q) /\ IsColumn(cache, lines, tab_width, q)
    BY <1>3 DEF IsCheckpoint
  <2>3. StartAt(lines, q) = StartAt(lines, r)
    BY <1>2, <1>3, <2>2
  <2>4. q \in 0 .. Len(lines) - 1
    BY <2>2 DEF IsColumn, InLine
  <2>5. InLine(lines, q, StartAt(lines, q))
    BY <2>4, BeginningCounts
  <2>6. q = r
    BY <1>1, <2>3, <2>5, InOneLine
  <2> QED
    BY <1>3, <2>1, <2>2, <2>6
<1>4. CASE ~(cache.valid /\ cache.line_start = LineStart(r) /\ usable)
  <2>1. From(cache, r, usable) = [NoCache EXCEPT !.point = StartAt(lines, r)]
    BY <1>2, <1>4 DEF From
  <2>2. /\ From(cache, r, usable).point = StartAt(lines, r)
        /\ From(cache, r, usable).column = 0
    BY <2>1 DEF NoCache
  <2> QED
    BY <1>1, <2>2 DEF IsColumn
<1> QED
  BY <1>3, <1>4

\* A position is in its line.
LEMMA LineFound ==
    ASSUME lines \in Seq(Line), Len(lines) \in Nat \ {0}, NEW p \in Positions
    PROVE  p \in Nat /\ InLine(lines, LineOf(p), p) /\ LineOf(p) \in Rows
<1>1. \A r : LineStart(r) = StartAt(lines, r) /\ LineEnd(r) = EndAt(lines, r)
  BY StartIs DEF LineEnd, EndAt, LineAt
<1>2. Len(lines) - 1 \in 0 .. Len(lines) - 1
  OBVIOUS
<1>3. p \in 0 .. EndAt(lines, Len(lines) - 1)
  BY <1>1 DEF Positions
<1>4. PICK r : InLine(lines, r, p)
  BY <1>2, <1>3, InSomeLine
<1>5. LineOf(p) \in Rows /\ LineStart(LineOf(p)) <= p /\ p <= LineEnd(LineOf(p))
  <2>1. r \in Rows /\ LineStart(r) <= p /\ p <= LineEnd(r)
    BY <1>1, <1>4 DEF InLine, Rows
  <2> QED
    BY <2>1 DEF LineOf
<1>6. p \in Nat
  BY <1>2, <1>3, EndsTyped
<1> QED
  BY <1>1, <1>5, <1>6 DEF InLine, Rows

\* The columns of a position with checkpoints and without are one.
LEMMA ColumnIs ==
    ASSUME lines \in Seq(Line), Len(lines) \in Nat \ {0}, tab_width \in Nat \ {0},
           IsCheckpoint(column_cache, lines, tab_width), NEW p \in Positions
    PROVE  /\ Column(p) = ColumnIn(lines, tab_width, LineOf(p), p)
           /\ FreshColumn(p) = ColumnIn(lines, tab_width, LineOf(p), p)
           /\ Column(p) \in Nat
<1> DEFINE r == LineOf(p)
           from == From(column_cache, r, column_cache.point <= p)
<1>1. p \in Nat /\ InLine(lines, r, p) /\ r \in 0 .. Len(lines) - 1
  BY LineFound DEF Rows
<1>2. /\ IsColumn(from, lines, tab_width, r)
      /\ \/ (column_cache.point <= p) /\ from = column_cache
         \/ from.point = StartAt(lines, r)
  <2>1. (column_cache.point <= p) \in BOOLEAN
    OBVIOUS
  <2> HIDE DEF r
  <2> QED
    BY <1>1, <2>1, FromCounts
<1>3. from.point <= p
  BY <1>1, <1>2 DEF InLine
<1>4. LineStart(r) = StartAt(lines, r)
  BY StartIs
<1>5. Column(p) = ScanAt(lines[r + 1], tab_width, LineStart(r), from.point, p, from.column)
  BY ScanIs DEF Column
<1>6. FreshColumn(p) = ScanAt(lines[r + 1], tab_width, LineStart(r), LineStart(r), p, 0)
  BY ScanIs DEF FreshColumn
<1>7. ScanAt(lines[r + 1], tab_width, StartAt(lines, r), from.point, p, from.column)
      = ColumnIn(lines, tab_width, r, p)
  <2> HIDE DEF from, r
  <2> QED
    BY <1>1, <1>2, <1>3, CountOn
<1>8. ColumnIn(lines, tab_width, r, p) \in Nat
  BY <1>1, LineScans
<1> QED
  BY <1>4, <1>5, <1>6, <1>7, <1>8 DEF ColumnIn

\* Counting to a column stops at the last position that is not past it.
UpTo(r, target) ==
    {p \in StartAt(lines, r) .. EndAt(lines, r) : ColumnIn(lines, tab_width, r, p) <= target}
IsLast(m, S) == m \in S /\ \A p \in S : m >= p
LastUpTo(r, target) == CHOOSE m : IsLast(m, UpTo(r, target))

\* A set of positions has a last one.
LEMMA LastExists ==
    ASSUME NEW e \in Nat, NEW S, S \subseteq 0 .. e, S # {}
    PROVE  \E m : IsLast(m, S)
<1> DEFINE T == {d \in Nat : \A n \in Nat : n + d = e /\ (\E p \in S : p >= n)
                                            => \E m : IsLast(m, S)}
<1>1. 0 \in T
  <2> SUFFICES ASSUME NEW n \in Nat, n + 0 = e, NEW p \in S, p >= n
               PROVE  \E m : IsLast(m, S)
    OBVIOUS
  <2>1. \A y \in S : y \in 0 .. e
    OBVIOUS
  <2>2. p = e /\ \A y \in S : e >= y
    BY <2>1
  <2>3. IsLast(e, S)
    BY <2>2 DEF IsLast
  <2> QED
    BY <2>3
<1>2. \A d \in Nat : d \in T => d + 1 \in T
  <2> SUFFICES ASSUME NEW d \in Nat, d \in T,
                      NEW n \in Nat, n + (d + 1) = e, NEW p \in S, p >= n
               PROVE  \E m : IsLast(m, S)
    OBVIOUS
  <2>1. n + 1 \in Nat /\ (n + 1) + d = e
    OBVIOUS
  <2>2. \A y \in S : y \in Nat
    OBVIOUS
  <2>3. CASE \E y \in S : y >= n + 1
    BY <2>1, <2>3
  <2>4. CASE ~\E y \in S : y >= n + 1
    <3>1. p = n /\ \A y \in S : n >= y
      BY <2>2, <2>4
    <3>2. IsLast(n, S)
      BY <3>1 DEF IsLast
    <3> QED
      BY <3>2
  <2> QED
    BY <2>3, <2>4
<1>3. Nat \subseteq T
  <2> HIDE DEF T
  <2> QED
    BY <1>1, <1>2, SetInduction
<1>4. e \in T
  BY <1>3
<1>5. PICK p : p \in S
  OBVIOUS
<1>6. 0 \in Nat /\ 0 + e = e /\ p >= 0
  BY <1>5
<1> QED
  BY <1>4, <1>5, <1>6

\* From a column of the line that is not past it, that is where it stops.
LEMMA ScanToStops ==
    ASSUME lines \in Seq(Line), tab_width \in Nat \ {0}, NEW r \in 0 .. Len(lines) - 1,
           NEW from, IsColumn(from, lines, tab_width, r),
           NEW target \in Nat, from.column <= target
    PROVE  /\ ScanTo(r, from.point, from.column, target) = LastUpTo(r, target)
           /\ LastUpTo(r, target) \in Nat /\ from.point <= LastUpTo(r, target)
           /\ InLine(lines, r, LastUpTo(r, target))
<1> DEFINE a == from.point
           s == StartAt(lines, r)
           e == EndAt(lines, r)
           G == UpTo(r, target)
           m == LastUpTo(r, target)
           A == {a} \union {p \in a .. e : ScanColumns(r, a, p, from.column) <= target}
<1>1. /\ a \in Nat /\ s <= a /\ a <= e /\ from.column = ColumnIn(lines, tab_width, r, a)
  BY DEF IsColumn, InLine
<1>2. s \in Nat /\ e \in Nat
  BY EndsTyped
<1>3. a \in G
  BY <1>1, <1>2 DEF UpTo
<1>4. G \subseteq s .. e /\ G \subseteq 0 .. e /\ G # {}
  BY <1>2, <1>3 DEF UpTo
<1>5. IsLast(m, G)
  <2>1. \E k : IsLast(k, G)
    <3> HIDE DEF G
    <3> QED
      BY <1>2, <1>4, LastExists
  <2> QED
    BY <2>1 DEF LastUpTo
<1>6. m \in G /\ \A p \in G : m >= p
  BY <1>5 DEF IsLast
<1>7. m \in Nat /\ s <= m /\ m <= e /\ a <= m
  BY <1>1, <1>2, <1>3, <1>4, <1>6
<1>8. \A p \in a .. e : ScanColumns(r, a, p, from.column) = ColumnIn(lines, tab_width, r, p)
  <2> SUFFICES ASSUME NEW p \in a .. e
               PROVE  ScanColumns(r, a, p, from.column) = ColumnIn(lines, tab_width, r, p)
    OBVIOUS
  <2>1. p \in Nat /\ InLine(lines, r, p) /\ from.point <= p
    BY <1>1, <1>2 DEF InLine
  <2>2. ScanAt(lines[r + 1], tab_width, s, from.point, p, from.column)
        = ColumnIn(lines, tab_width, r, p)
    BY <2>1, CountOn
  <2>3. LineStart(r) = s
    BY StartIs
  <2> QED
    BY <2>2, <2>3, ScanIs
<1>9. A \subseteq G
  <2>1. ASSUME NEW p \in a .. e, ScanColumns(r, a, p, from.column) <= target PROVE p \in G
    <3>1. p \in s .. e /\ ColumnIn(lines, tab_width, r, p) <= target
      BY <1>1, <1>2, <1>8, <2>1
    <3> QED
      BY <3>1 DEF UpTo
  <2> HIDE DEF G
  <2> QED
    BY <1>3, <2>1
<1>10. m \in A
  <2>1. ColumnIn(lines, tab_width, r, m) <= target
    BY <1>6 DEF UpTo
  <2>2. m \in a .. e
    BY <1>1, <1>2, <1>7
  <2> HIDE DEF m
  <2> QED
    BY <1>8, <2>1, <2>2
<1>11. Max(A) = m
  <2>1. \A x \in A : (\A y \in A : x >= y) => x = m
    <3> SUFFICES ASSUME NEW x \in A, \A y \in A : x >= y PROVE x = m
      OBVIOUS
    <3>1. x \in G /\ x >= m /\ m >= x
      <4> HIDE DEF A, G, m
      <4> QED
        BY <1>6, <1>9, <1>10
    <3>2. x \in Nat
      <4> HIDE DEF A, G, m
      <4> QED
        BY <1>2, <1>4, <3>1
    <3> HIDE DEF A, G, m
    <3> QED
      BY <1>7, <3>1, <3>2
  <2>2. m \in A /\ \A y \in A : m >= y
    <3> HIDE DEF A, G, m
    <3> QED
      BY <1>6, <1>9, <1>10
  <2> HIDE DEF A, G, m
  <2> QED
    BY <2>1, <2>2 DEF Max
<1>12. ScanTo(r, from.point, from.column, target) = Max(A)
  <2>1. LineEnd(r) = e
    BY StartIs DEF LineEnd, EndAt, LineAt
  <2> QED
    BY <2>1 DEF ScanTo
<1>13. InLine(lines, r, m)
  <2> HIDE DEF m
  <2> QED
    BY <1>7 DEF InLine
<1> QED
  BY <1>7, <1>11, <1>12, <1>13

\* So the position at a column is that which a count from the beginning finds.
LEMMA AtColumnIs ==
    ASSUME lines \in Seq(Line), tab_width \in Nat \ {0},
           IsCheckpoint(seek_cache, lines, tab_width),
           NEW r \in 0 .. Len(lines) - 1, NEW col \in Nat
    PROVE  /\ AtColumn(r, col) = ScanTo(r, LineStart(r), 0, col)
           /\ AtColumn(r, col) \in Nat /\ InLine(lines, r, AtColumn(r, col))
           /\ ReachedColumn(r, col) = ColumnIn(lines, tab_width, r, AtColumn(r, col))
<1> DEFINE from == From(seek_cache, r, seek_cache.column <= col)
           start == [NoCache EXCEPT !.point = StartAt(lines, r)]
<1>1. /\ IsColumn(from, lines, tab_width, r)
      /\ (seek_cache.column <= col /\ from = seek_cache) \/ from.column = 0
  <2>1. (seek_cache.column <= col) \in BOOLEAN
    OBVIOUS
  <2> QED
    BY <2>1, FromCounts
<1>2. from.column <= col
  BY <1>1
<1>3. start.point = StartAt(lines, r) /\ start.column = 0 /\ start.column <= col
  BY DEF NoCache
<1>4. IsColumn(start, lines, tab_width, r)
  BY <1>3, BeginningCounts DEF IsColumn
<1> HIDE DEF start, from
<1>5. ScanTo(r, start.point, start.column, col) = LastUpTo(r, col)
  BY <1>3, <1>4, ScanToStops
<1>6. /\ ScanTo(r, from.point, from.column, col) = LastUpTo(r, col)
      /\ LastUpTo(r, col) \in Nat /\ from.point <= LastUpTo(r, col)
      /\ InLine(lines, r, LastUpTo(r, col))
  BY <1>1, <1>2, ScanToStops
<1>7. AtColumn(r, col) = LastUpTo(r, col)
  BY <1>6 DEF AtColumn, from
<1>8. LineStart(r) = StartAt(lines, r)
  BY StartIs
<1>9. ReachedColumn(r, col)
      = ScanAt(lines[r + 1], tab_width, StartAt(lines, r), from.point, LastUpTo(r, col), from.column)
  BY <1>7, <1>8, ScanIs DEF ReachedColumn, from
<1>10. ReachedColumn(r, col) = ColumnIn(lines, tab_width, r, LastUpTo(r, col))
  BY <1>1, <1>6, <1>9, CountOn
<1> QED
  BY <1>3, <1>5, <1>6, <1>7, <1>8, <1>10

-----------------------------------------------------------------------------
(***************************************************************************)
(* Checkpoints stay true.                                                  *)
(***************************************************************************)
Counted ==
    /\ tab_width \in TabWidths
    /\ IsCheckpoint(column_cache, lines, tab_width)
    /\ IsCheckpoint(seek_cache, lines, tab_width)

ViewInv == IInv /\ Counted

LEMMA ViewTyped ==
    ASSUME ViewInv
    PROVE  /\ lines \in Texts /\ lines \in Seq(Line) /\ Len(lines) \in Nat \ {0}
           /\ tab_width \in Nat \ {0}
<1>1. lines \in Texts /\ tab_width \in TabWidths
  BY DEF ViewInv, Counted, IInv, TypeOK
<1> QED
  BY <1>1, TextsAreSequences, WidthAssumption, MaxLinesAssumption

LEMMA NoCheckpoint == \A ls, tw : IsCheckpoint(NoCache, ls, tw)
BY DEF IsCheckpoint, NoCache

\* A new one.
LEMMA CheckpointCounts ==
    ASSUME NEW cache, IsCheckpoint(cache, lines, tab_width),
           NEW r, NEW p \in Nat, InLine(lines, r, p),
           NEW col, col = ColumnIn(lines, tab_width, r, p)
    PROVE  IsCheckpoint(Checkpoint(cache, r, p, col), lines, tab_width)
<1> DEFINE new == [valid |-> TRUE, point |-> p, column |-> col, line_start |-> LineStart(r)]
<1>1. new.point = p /\ new.column = col /\ new.line_start = StartAt(lines, r)
  BY StartIs
<1> HIDE DEF new
<1>2. IsColumn(new, lines, tab_width, r)
  BY <1>1 DEF IsColumn
<1>3. IsCheckpoint(new, lines, tab_width)
  BY <1>1, <1>2 DEF IsCheckpoint
<1>4. Checkpoint(cache, r, p, col) \in {new, cache}
  BY DEF Checkpoint, new
<1> QED
  BY <1>3, <1>4

\* One that an edit keeps.
LEMMA KeptCounts ==
    ASSUME NEW ls \in Seq(Line), NEW ms \in Seq(Line), NEW tw \in Nat \ {0}, NEW cache,
           IsCheckpoint(cache, ls, tw),
           NEW r \in 0 .. Len(ls) - 1, r < Len(ms), \A k \in 1 .. r : ms[k] = ls[k],
           NEW c \in Nat, c <= Len(ls[r + 1]), c <= Len(ms[r + 1]),
           \A i \in 1 .. c : ms[r + 1][i] = ls[r + 1][i]
    PROVE  IsCheckpoint(Kept(cache, StartAt(ls, r) + c), ms, tw)
<1> SUFFICES ASSUME cache.valid, ~(StartAt(ls, r) + c < cache.point)
             PROVE  IsCheckpoint(cache, ms, tw)
  <2>1. CASE StartAt(ls, r) + c < cache.point
    BY <2>1, NoCheckpoint DEF Kept
  <2>2. CASE ~(StartAt(ls, r) + c < cache.point) /\ cache.valid
    BY <2>2 DEF Kept
  <2>3. CASE ~(StartAt(ls, r) + c < cache.point) /\ ~cache.valid
    BY <2>3 DEF Kept, IsCheckpoint
  <2> QED
    BY <2>1, <2>2, <2>3
<1>1. PICK q : cache.line_start = StartAt(ls, q) /\ IsColumn(cache, ls, tw, q)
  BY DEF IsCheckpoint
<1> DEFINE p == cache.point
           s == StartAt(ls, q)
<1>2. p \in Nat /\ InLine(ls, q, p) /\ q \in 0 .. Len(ls) - 1 /\ s <= p /\ p <= EndAt(ls, q)
  BY <1>1 DEF IsColumn, InLine
<1>3. /\ Len(ls) \in Nat /\ Len(ms) \in Nat /\ r \in 0 .. Len(ms) - 1
      /\ q \in 0 .. Len(ls) /\ r \in 0 .. Len(ls)
  BY <1>2, LinesTyped
<1>4. StartAt(ls, r) \in Nat /\ EndAt(ls, r) = StartAt(ls, r) + Len(ls[r + 1])
  BY EndsTyped
<1>5. p <= StartAt(ls, r) + c
  BY <1>2, <1>4
<1>6. q <= r
  <2> SUFFICES ASSUME r < q PROVE FALSE
    BY <1>2, <1>3
  <2>1. EndAt(ls, r) < s
    BY <1>3, StartsOrdered
  <2>2. s \in Nat /\ EndAt(ls, r) \in Nat /\ Len(ls[r + 1]) \in Nat
    BY <1>2, EndsTyped
  <2> DEFINE a == StartAt(ls, r)
             z == Len(ls[r + 1])
  <2>3. a \in Nat /\ z \in Nat /\ c <= z /\ a + z < s /\ s <= p /\ p <= a + c
    BY <1>2, <1>4, <1>5, <2>1, <2>2
  <2> HIDE DEF a, z, s, p
  <2> QED
    BY <1>2, <2>2, <2>3
<1>7. q \in 0 .. Len(ms) - 1 /\ q <= Len(ms) /\ \A i \in 1 .. q : ms[i] = ls[i]
  BY <1>2, <1>3, <1>6
<1>8. StartAt(ms, q) = s
  BY <1>3, <1>7, StartStays
<1>9. /\ p - s \in Nat /\ p - s <= Len(ms[q + 1])
      /\ \A i \in 1 .. p - s : ms[q + 1][i] = ls[q + 1][i]
  <2>1. s \in Nat /\ EndAt(ls, q) = s + Len(ls[q + 1])
    BY <1>2, EndsTyped
  <2>2. CASE q = r
    <3>1. p - s \in Nat /\ p - s <= c
      BY <1>2, <1>5, <2>1, <2>2
    <3>2. Len(ms[r + 1]) \in Nat
      BY <1>3, EndsTyped
    <3> QED
      BY <2>2, <3>1, <3>2
  <2>3. CASE q # r
    <3>1. q + 1 \in 1 .. r
      BY <1>2, <1>6, <2>3
    <3>2. ms[q + 1] = ls[q + 1]
      BY <3>1, Zenon
    <3>3. p - s \in Nat /\ p - s <= Len(ls[q + 1]) /\ Len(ls[q + 1]) \in Nat
      <4>1. Len(ls[q + 1]) \in Nat /\ s \in Nat
        BY <1>2, EndsTyped
      <4> HIDE DEF p, s
      <4> QED
        BY <1>2, <2>1, <4>1
    <3> QED
      BY <3>2, <3>3, Zenon
  <2> QED
    BY <2>2, <2>3
<1>10. InLine(ms, q, p)
  <2>1. EndAt(ms, q) = s + Len(ms[q + 1]) /\ Len(ms[q + 1]) \in Nat /\ s \in Nat
    BY <1>7, <1>8, EndsTyped
  <2>2. s <= p /\ p <= EndAt(ms, q)
    <3> HIDE DEF p, s
    <3> QED
      BY <1>2, <1>9, <2>1
  <2> QED
    BY <1>7, <1>8, <2>2, Zenon DEF InLine
<1>11. ColumnIn(ms, tw, q, p) = ColumnIn(ls, tw, q, p)
  <2>1. Scans(ls[q + 1], tw, s, s, p) /\ Scans(ms[q + 1], tw, s, s, p)
    BY <1>2, <1>8, <1>10, LineScans
  <2>2. ScanAt(ms[q + 1], tw, s, s, p, 0) = ScanAt(ls[q + 1], tw, s, s, p, 0)
    <3> HIDE DEF p, s
    <3>1. SameStart(ls[q + 1], ms[q + 1], p - s)
      BY <1>9 DEF SameStart
    <3>2. 0 \in Nat
      OBVIOUS
    <3> QED
      BY <2>1, <3>1, <3>2, ScanSame
  <2> QED
    BY <1>8, <2>2 DEF ColumnIn
<1>12. IsColumn(cache, ms, tw, q)
  BY <1>1, <1>2, <1>10, <1>11 DEF IsColumn
<1> QED
  BY <1>1, <1>8, <1>12 DEF IsCheckpoint

\* Of a line that changes, an edit keeps what it says that it keeps.
LEMMA EditTextCounts ==
    ASSUME ViewInv, NEW r \in 0 .. MaxLines - 1, NEW q \in 0 .. MaxLines - 1, NEW new \in Texts,
           NEW c \in 0 .. Len(new[1]), EditText(r, q, new, c)
    PROVE  /\ IsCheckpoint(column_cache', lines', tab_width')
           /\ IsCheckpoint(seek_cache', lines', tab_width')
<1>1. /\ lines \in Texts /\ lines \in Seq(Line) /\ tab_width \in Nat \ {0}
      /\ Len(lines) \in Nat /\ MaxLines \in Nat
  BY ViewTyped, MaxLinesAssumption
<1>2. /\ r <= q /\ q < Len(lines) /\ r + Len(new) + (Len(lines) - q - 1) <= MaxLines
      /\ lines' = Edited(lines, r, q, new)
  BY DEF EditText, Edit
<1>3. /\ lines' \in Texts /\ Len(lines') > r /\ \A k \in 1 .. r : lines'[k] = lines[k]
      /\ lines'[r + 1] = new[1]
  <2>1. r \in Nat /\ q \in Nat
    BY <1>1
  <2> QED
    BY <1>1, <1>2, <2>1, EditKeepsHead
<1>4. lines' \in Seq(Line) /\ Len(lines') \in Nat
  BY <1>3, TextsAreSequences, MaxLinesAssumption
<1>5. r \in 0 .. Len(lines) - 1 /\ r \in 0 .. Len(lines') - 1 /\ r < Len(lines')
  BY <1>1, <1>2, <1>3, <1>4
<1>6. /\ lines[r + 1] \in Seq(Char) /\ Len(lines[r + 1]) \in Nat
      /\ lines'[r + 1] \in Seq(Char) /\ Len(lines'[r + 1]) \in Nat
  BY <1>1, <1>4, <1>5, EndsTyped
<1>7. /\ c \in Nat /\ c <= Len(lines[r + 1]) /\ c <= Len(lines'[r + 1])
      /\ SubSeq(lines[r + 1], 1, c) = SubSeq(lines'[r + 1], 1, c)
  BY <1>3, <1>6 DEF EditText, LineAt
<1>8. \A i \in 1 .. c : lines'[r + 1][i] = lines[r + 1][i]
  <2> SUFFICES ASSUME NEW i \in 1 .. c PROVE lines'[r + 1][i] = lines[r + 1][i]
    OBVIOUS
  <2>1. SubSeq(lines[r + 1], 1, c)[i] = lines[r + 1][i]
    BY <1>6, <1>7
  <2>2. SubSeq(lines'[r + 1], 1, c)[i] = lines'[r + 1][i]
    BY <1>6, <1>7
  <2> QED
    BY <1>7, <2>1, <2>2
<1>9. /\ column_cache' = Kept(column_cache, StartAt(lines, r) + c)
      /\ seek_cache' = Kept(seek_cache, StartAt(lines, r) + c)
      /\ tab_width' = tab_width
  BY StartIs DEF EditText
<1>10. IsCheckpoint(Kept(column_cache, StartAt(lines, r) + c), lines', tab_width)
  <2>1. IsCheckpoint(column_cache, lines, tab_width)
    BY DEF ViewInv, Counted
  <2> QED
    BY <1>1, <1>3, <1>4, <1>5, <1>7, <1>8, <2>1, KeptCounts
<1>11. IsCheckpoint(Kept(seek_cache, StartAt(lines, r) + c), lines', tab_width)
  <2>1. IsCheckpoint(seek_cache, lines, tab_width)
    BY DEF ViewInv, Counted
  <2> QED
    BY <1>1, <1>3, <1>4, <1>5, <1>7, <1>8, <2>1, KeptCounts
<1> QED
  BY <1>9, <1>10, <1>11

\* A step of the view is a step of the lexical states.
LEMMA ViewStepsAreSteps ==
    ASSUME ViewInv, [ViewNext]_<<vars, columns>>
    PROVE  [Next]_vars
<1>1. Len(lines) \in Nat /\ Len(lines) <= MaxLines /\ MaxLines \in Nat
  BY ViewTyped, TextsAreSequences, MaxLinesAssumption
<1>2. ASSUME NEW r \in 0 .. MaxLines - 1, NEW q \in 0 .. MaxLines - 1, NEW new \in Texts,
             NEW c \in 0 .. Len(new[1]), EditText(r, q, new, c)
      PROVE  [Next]_vars
  BY <1>2 DEF EditText, Next
<1>3. ASSUME NEW new \in Texts, LogText(new) PROVE [Next]_vars
  BY <1>3 DEF LogText, Next
<1>4. ASSUME NEW n \in TabWidths, SetTabWidth(n) PROVE [Next]_vars
  BY <1>4 DEF SetTabWidth
<1>5. ASSUME NEW p \in Positions, EditorColumn(p) PROVE [Next]_vars
  BY <1>5 DEF EditorColumn
<1>6. ASSUME NEW r, NEW col, EditorAtColumn(r, col) PROVE [Next]_vars
  BY <1>6 DEF EditorAtColumn
<1>7. ASSUME NEW k \in Kind, SetMode(k) PROVE [Next]_vars
  BY <1>7 DEF Next
<1>8. ASSUME NEW r \in Rows, LineSpans(r) PROVE [Next]_vars
  <2>1. r \in 0 .. MaxLines - 1
    BY <1>1 DEF Rows
  <2> QED
    BY <1>8, <2>1 DEF Next
<1>9. CASE StateAt \/ Drawn
  BY <1>9 DEF Next
<1>10. CASE UNCHANGED <<vars, columns>>
  BY <1>10
<1> QED
  BY <1>2, <1>3, <1>4, <1>5, <1>6, <1>7, <1>8, <1>9, <1>10 DEF ViewNext

\* Steps that change neither the text nor the columns.
LEMMA ColumnsStay ==
    ASSUME ViewInv, UNCHANGED <<lines, columns>>
    PROVE  Counted'
BY DEF ViewInv, Counted, columns

LEMMA ViewStarts == ViewInit => ViewInv
BY InitEstablishes, NoCheckpoint DEF ViewInit, ViewInv, Counted

LEMMA ViewKeeps == ViewInv /\ [ViewNext]_<<vars, columns>> => ViewInv'
<1> SUFFICES ASSUME ViewInv, [ViewNext]_<<vars, columns>> PROVE ViewInv'
  OBVIOUS
<1>1. IInv'
  <2>1. [Next]_vars
    BY ViewStepsAreSteps
  <2> QED
    BY <2>1, StepPreserves DEF ViewInv
<1> SUFFICES Counted'
  BY <1>1 DEF ViewInv
<1>2. /\ lines \in Seq(Line) /\ tab_width \in Nat \ {0} /\ Len(lines) \in Nat \ {0}
      /\ tab_width \in TabWidths
      /\ IsCheckpoint(column_cache, lines, tab_width) /\ IsCheckpoint(seek_cache, lines, tab_width)
  BY ViewTyped DEF ViewInv, Counted
<1>3. ASSUME NEW r \in 0 .. MaxLines - 1, NEW q \in 0 .. MaxLines - 1, NEW new \in Texts,
             NEW c \in 0 .. Len(new[1]), EditText(r, q, new, c)
      PROVE  Counted'
  BY <1>2, <1>3, EditTextCounts DEF EditText, Counted
<1>4. ASSUME NEW new \in Texts, LogText(new) PROVE Counted'
  BY <1>2, <1>4, NoCheckpoint DEF LogText, Counted
<1>5. ASSUME NEW n \in TabWidths, SetTabWidth(n) PROVE Counted'
  BY <1>5, NoCheckpoint DEF SetTabWidth, Counted
<1>6. ASSUME NEW p \in Positions, EditorColumn(p) PROVE Counted'
  <2>1. p \in Nat /\ InLine(lines, LineOf(p), p)
    BY <1>2, LineFound
  <2>2. Column(p) = ColumnIn(lines, tab_width, LineOf(p), p)
    BY <1>2, ColumnIs
  <2>3. IsCheckpoint(Checkpoint(column_cache, LineOf(p), p, Column(p)), lines, tab_width)
    BY <1>2, <2>1, <2>2, CheckpointCounts
  <2> QED
    BY <1>2, <1>6, <2>3 DEF EditorColumn, vars, Counted
<1>7. ASSUME NEW r \in Rows, NEW col \in Nat, EditorAtColumn(r, col) PROVE Counted'
  <2>1. r \in 0 .. Len(lines) - 1
    BY DEF Rows
  <2>2. /\ AtColumn(r, col) \in Nat /\ InLine(lines, r, AtColumn(r, col))
        /\ ReachedColumn(r, col) = ColumnIn(lines, tab_width, r, AtColumn(r, col))
    BY <1>2, <2>1, AtColumnIs
  <2>3. IsCheckpoint(Checkpoint(seek_cache, r, AtColumn(r, col), ReachedColumn(r, col)),
                     lines, tab_width)
    BY <1>2, <2>2, CheckpointCounts
  <2> QED
    BY <1>2, <1>7, <2>3 DEF EditorAtColumn, vars, Counted
<1>8. CASE \E r \in Rows : \E p \in LineStart(r) .. LineEnd(r) : EditorAtColumn(r, Column(p))
  <2>0. PICK r \in Rows : \E p \in LineStart(r) .. LineEnd(r) : EditorAtColumn(r, Column(p))
    BY <1>8
  <2>1. PICK p \in LineStart(r) .. LineEnd(r) : EditorAtColumn(r, Column(p))
    BY <2>0
  <2>2. p \in Positions
    <3>1. LineStart(r) = StartAt(lines, r) /\ LineEnd(r) = EndAt(lines, r)
      BY StartIs DEF LineEnd, EndAt, LineAt
    <3>2. r \in 0 .. Len(lines) - 1 /\ Len(lines) - 1 \in 0 .. Len(lines) - 1
      BY <1>2 DEF Rows
    <3>3. /\ StartAt(lines, r) \in Nat /\ EndAt(lines, r) \in Nat
          /\ EndAt(lines, Len(lines) - 1) \in Nat
          /\ StartAt(lines, Len(lines) - 1) \in Nat
          /\ StartAt(lines, Len(lines) - 1) <= EndAt(lines, Len(lines) - 1)
      BY <1>2, <3>2, EndsTyped
    <3>4. EndAt(lines, r) <= EndAt(lines, Len(lines) - 1)
      <4>1. CASE r = Len(lines) - 1
        BY <3>3, <4>1
      <4>2. CASE r # Len(lines) - 1
        <5>1. r < Len(lines) - 1 /\ Len(lines) - 1 \in 0 .. Len(lines)
          BY <1>2, <3>2, <4>2
        <5>2. EndAt(lines, r) < StartAt(lines, Len(lines) - 1)
          BY <1>2, <3>2, <5>1, StartsOrdered
        <5> QED
          BY <3>3, <5>2
      <4> QED
        BY <4>1, <4>2
    <3>5. LineEnd(Len(lines) - 1) = EndAt(lines, Len(lines) - 1)
      BY StartIs DEF LineEnd, EndAt, LineAt
    <3> QED
      BY <3>1, <3>3, <3>4, <3>5 DEF Positions
  <2>3. Column(p) \in Nat
    BY <1>2, <2>2, ColumnIs
  <2> QED
    BY <1>7, <2>1, <2>3
<1>9. CASE \E k \in Kind : SetMode(k) /\ UNCHANGED columns
  <2>1. UNCHANGED <<lines, columns>>
    BY <1>9 DEF SetMode
  <2> QED
    BY <2>1, ColumnsStay
<1>10. CASE \E r \in Rows : LineSpans(r) /\ UNCHANGED columns
  <2>1. UNCHANGED <<lines, columns>>
    BY <1>10 DEF LineSpans
  <2> QED
    BY <2>1, ColumnsStay
<1>11. CASE (StateAt \/ Drawn) /\ UNCHANGED columns
  <2>1. UNCHANGED <<lines, columns>>
    BY <1>11 DEF StateAt, Drawn
  <2> QED
    BY <2>1, ColumnsStay
<1>12. CASE UNCHANGED <<vars, columns>>
  <2>1. UNCHANGED <<lines, columns>>
    BY <1>12 DEF vars
  <2> QED
    BY <2>1, ColumnsStay
<1> QED
  BY <1>3, <1>4, <1>5, <1>6, <1>8, <1>9, <1>10, <1>11, <1>12 DEF ViewNext

\* What is asked and edited between drawings is, for the lexical states, nothing or
\* an edit: so what holds of them there holds here.
THEOREM ViewImplementsLexCache == ViewSpec => Spec
<1>1. ViewInit => Init
  BY DEF ViewInit
<1> QED
  BY <1>1, ViewStarts, ViewKeeps, ViewStepsAreSteps, PTL DEF ViewSpec, Spec

\* The checkpoints do not change an answer, whatever was edited, undone, logged and
\* asked before: columns and positions are those that a count from the beginning
\* of the line gives (editor_column and editor_at_column_ex).
THEOREM CheckpointsAgree == ViewSpec => []ColumnsAgree
<1>1. ViewInv => ColumnsAgree
  <2> SUFFICES ASSUME ViewInv, NEW p \in Positions
               PROVE  /\ Column(p) = FreshColumn(p)
                      /\ AtColumn(LineOf(p), FreshColumn(p))
                         = ScanTo(LineOf(p), LineStart(LineOf(p)), 0, FreshColumn(p))
    BY DEF ColumnsAgree
  <2>1. /\ lines \in Seq(Line) /\ tab_width \in Nat \ {0} /\ Len(lines) \in Nat \ {0}
        /\ IsCheckpoint(column_cache, lines, tab_width)
        /\ IsCheckpoint(seek_cache, lines, tab_width)
    BY ViewTyped DEF ViewInv, Counted
  <2>2. Column(p) = FreshColumn(p) /\ FreshColumn(p) \in Nat
    BY <2>1, ColumnIs
  <2>3. LineOf(p) \in 0 .. Len(lines) - 1
    BY <2>1, LineFound DEF Rows
  <2> QED
    BY <2>1, <2>2, <2>3, AtColumnIs
<1> QED
  BY <1>1, ViewStarts, ViewKeeps, PTL DEF ViewSpec

-----------------------------------------------------------------------------
(***************************************************************************)
(* Panes and the cursor.                                                   *)
(***************************************************************************)
\* The quotient is what fits.
LEMMA Quotient ==
    ASSUME NEW a \in Nat, NEW n \in Nat \ {0}
    PROVE  a \div n \in Nat /\ n * (a \div n) <= a /\ a < n * (a \div n) + n
OBVIOUS

\* A multiple that fits is not larger than the quotient.
LEMMA QuotientIsLargest ==
    ASSUME NEW a \in Nat, NEW n \in Nat \ {0}, NEW q \in Nat, n * q <= a
    PROVE  q <= a \div n
<1> DEFINE d == a \div n
<1>1. d \in Nat /\ a < n * d + n
  BY Quotient
<1> HIDE DEF d
<1> SUFFICES ASSUME q >= d + 1 PROVE FALSE
  BY <1>1 DEF d
<1>2. n * q >= n * (d + 1)
  <2>1. q - (d + 1) \in Nat
    BY <1>1
  <2>2. n * (q - (d + 1)) >= 0
    BY <2>1
  <2>3. n * (q - (d + 1)) = n * q - n * (d + 1)
    BY <1>1
  <2>4. n * q \in Int /\ n * (d + 1) \in Int
    BY <1>1
  <2> QED
    BY <2>2, <2>3, <2>4
<1>3. n * (d + 1) = n * d + n
  BY <1>1
<1> QED
  BY <1>1, <1>2, <1>3

\* Of a length divided into n, where part k begins.
CutAt(size, n, k) == (k * size) \div n

\* A part is as long as they all can be.
LEMMA PartLength ==
    ASSUME NEW size \in Nat, NEW n \in Nat \ {0}, NEW k \in Nat
    PROVE  /\ CutAt(size, n, k) \in Nat
           /\ CutAt(size, n, k) + size \div n <= CutAt(size, n, k + 1)
<1> DEFINE a == k * size
           d == a \div n
           w == size \div n
<1>1. a \in Nat /\ (k + 1) * size = a + size
  OBVIOUS
<1> HIDE DEF a
<1>2. d \in Nat /\ n * d <= a /\ w \in Nat /\ n * w <= size
  BY <1>1, Quotient
<1> HIDE DEF d, w
<1>3. n * (d + w) = n * d + n * w
  BY <1>2
<1>4. n * (d + w) <= a + size
  BY <1>1, <1>2, <1>3
<1>5. d + w <= (a + size) \div n
  BY <1>1, <1>2, <1>4, QuotientIsLargest
<1> QED
  BY <1>1, <1>2, <1>5 DEF CutAt, d, w, a

\* Parts do not overlap.
LEMMA PartsOrdered ==
    ASSUME NEW size \in Nat, NEW n \in Nat \ {0}, NEW j \in Nat, NEW k \in Nat, j <= k
    PROVE  CutAt(size, n, j) <= CutAt(size, n, k)
<1> DEFINE T == {d \in Nat : CutAt(size, n, j) <= CutAt(size, n, j + d)}
<1>1. 0 \in T
  <2>1. j + 0 = j /\ CutAt(size, n, j) \in Nat
    BY PartLength
  <2> QED
    BY <2>1
<1>2. \A d \in Nat : d \in T => d + 1 \in T
  <2> SUFFICES ASSUME NEW d \in Nat, CutAt(size, n, j) <= CutAt(size, n, j + d)
               PROVE  CutAt(size, n, j) <= CutAt(size, n, j + (d + 1))
    OBVIOUS
  <2>1. j + d \in Nat /\ j + (d + 1) = (j + d) + 1 /\ (j + d) + 1 \in Nat
    OBVIOUS
  <2>2. /\ CutAt(size, n, j + d) + size \div n <= CutAt(size, n, (j + d) + 1)
        /\ CutAt(size, n, j + d) \in Nat /\ CutAt(size, n, (j + d) + 1) \in Nat
    BY <2>1, PartLength
  <2>3. CutAt(size, n, j) \in Nat /\ size \div n \in Nat
    BY PartLength, Quotient
  <2> QED
    BY <2>1, <2>2, <2>3
<1>3. Nat \subseteq T
  <2> HIDE DEF T
  <2> QED
    BY <1>1, <1>2, SetInduction
<1>4. k - j \in Nat /\ j + (k - j) = k
  OBVIOUS
<1>5. k - j \in T
  <2> HIDE DEF T
  <2> QED
    BY <1>3, <1>4
<1> QED
  BY <1>4, <1>5

\* The rectangle of pane i.
LEMMA PaneIs ==
    ASSUME NEW s \in Splits, NEW i \in Nat
    PROVE  LET n == PaneCount(s)
               cols == s.screen.cols
               rows == s.screen.rows - 1
               pane == Pane(s, i)
           IN  /\ s.vertical => /\ pane.x = CutAt(cols, n, i)
                                /\ pane.width = CutAt(cols, n, i + 1) - CutAt(cols, n, i)
                                /\ pane.y = 0 /\ pane.height = rows
               /\ ~s.vertical => /\ pane.x = 0 /\ pane.width = cols
                                 /\ pane.y = CutAt(rows, n, i)
                                 /\ pane.height = CutAt(rows, n, i + 1) - CutAt(rows, n, i)
               /\ pane.gutter \in {0, Gutter} /\ (pane.gutter # 0 => Gutter <= pane.width \div 2)
BY DEF Pane, CutAt

\* Panes have a column of text besides the line numbers, and a line of it.
LEMMA PaneShowsText ==
    ASSUME NEW s \in Splits, NEW i \in 0 .. PaneCount(s) - 1
    PROVE  /\ Pane(s, i).x \in Nat /\ Pane(s, i).y \in Nat
           /\ Pane(s, i).width \in Nat /\ Pane(s, i).height \in Nat /\ Pane(s, i).gutter \in Nat
           /\ Pane(s, i).width - Pane(s, i).gutter >= 1 /\ Pane(s, i).height - 1 >= 1
<1> DEFINE n == PaneCount(s)
           cols == s.screen.cols
           rows == s.screen.rows - 1
           pane == Pane(s, i)
<1>1. /\ cols \in Nat /\ rows \in Nat /\ cols >= 1 /\ rows >= 2
      /\ s.n \in Nat \ {0} /\ s.vertical \in BOOLEAN
      /\ MinPaneCols \in Nat /\ MinPaneCols >= 1 /\ MinPaneRows \in Nat /\ MinPaneRows >= 2
      /\ Gutter \in Nat
  BY ScreenAssumption DEF Splits
<1>2. n \in Nat \ {0} /\ i \in Nat /\ i + 1 \in Nat
  BY <1>1 DEF PaneCount
<1>3. s.vertical => cols \div n >= 1
  <2>1. CASE n = 1
    BY <1>1, <2>1
  <2>2. CASE n # 1
    <3>1. s.vertical => n = s.n /\ ~(cols \div s.n < MinPaneCols)
      BY <2>2 DEF PaneCount
    <3>2. cols \div n \in Nat
      BY <1>1, <1>2, Quotient
    <3> HIDE DEF n, cols
    <3> QED
      BY <1>1, <3>1, <3>2
  <2> QED
    BY <2>1, <2>2
<1>4. ~s.vertical => rows \div n >= 2
  <2>1. CASE n = 1
    BY <1>1, <2>1
  <2>2. CASE n # 1
    <3>1. ~s.vertical => n = s.n /\ ~(rows \div s.n < MinPaneRows)
      BY <2>2 DEF PaneCount
    <3>2. rows \div n \in Nat
      BY <1>1, <1>2, Quotient
    <3> HIDE DEF n, rows
    <3> QED
      BY <1>1, <3>1, <3>2
  <2> QED
    BY <2>1, <2>2
<1>5. /\ CutAt(cols, n, i) \in Nat /\ CutAt(cols, n, i + 1) \in Nat
      /\ CutAt(cols, n, i) + cols \div n <= CutAt(cols, n, i + 1)
      /\ CutAt(rows, n, i) \in Nat /\ CutAt(rows, n, i + 1) \in Nat
      /\ CutAt(rows, n, i) + rows \div n <= CutAt(rows, n, i + 1)
      /\ cols \div n \in Nat /\ rows \div n \in Nat
  <2> HIDE DEF cols, rows, n
  <2>1. cols \div n \in Nat /\ rows \div n \in Nat
    BY <1>1, <1>2, Quotient
  <2> QED
    BY <1>1, <1>2, <2>1, PartLength
<1>6. /\ s.vertical => /\ pane.x = CutAt(cols, n, i)
                       /\ pane.width = CutAt(cols, n, i + 1) - CutAt(cols, n, i)
                       /\ pane.y = 0 /\ pane.height = rows
      /\ ~s.vertical => /\ pane.x = 0 /\ pane.width = cols
                        /\ pane.y = CutAt(rows, n, i)
                        /\ pane.height = CutAt(rows, n, i + 1) - CutAt(rows, n, i)
      /\ pane.gutter \in {0, Gutter} /\ (pane.gutter # 0 => Gutter <= pane.width \div 2)
  BY <1>2, PaneIs
<1> HIDE DEF n, cols, rows, pane
<1>7. /\ pane.x \in Nat /\ pane.y \in Nat /\ pane.width \in Nat /\ pane.height \in Nat
      /\ pane.width >= 1 /\ pane.height >= 2
  <2>1. CASE s.vertical
    BY <1>1, <1>3, <1>5, <1>6, <2>1
  <2>2. CASE ~s.vertical
    BY <1>1, <1>4, <1>5, <1>6, <2>2
  <2> QED
    BY <2>1, <2>2
<1>8. pane.gutter \in Nat /\ pane.width - pane.gutter >= 1
  <2> DEFINE w == pane.width
  <2>1. w \in Nat /\ w >= 1
    BY <1>7
  <2> HIDE DEF w
  <2>2. w - w \div 2 >= 1
    BY <2>1
  <2>3. w \div 2 \in Nat
    BY <2>1
  <2> QED
    BY <1>1, <1>6, <2>1, <2>2, <2>3 DEF w
<1> QED
  BY <1>7, <1>8 DEF pane

\* What is scrolled to shows the line or column at.
LEMMA ScrolledShows ==
    ASSUME NEW first \in Nat, NEW at \in Nat, NEW size \in Nat, size >= 1
    PROVE  /\ Scrolled(first, at, size) \in Nat
           /\ Scrolled(first, at, size) <= at /\ at < Scrolled(first, at, size) + size
BY DEF Scrolled

LEMMA LargestOfTwo ==
    ASSUME NEW v \in Nat
    PROVE  Max({0, v}) = v
<1>1. \A x \in {0, v} : (\A y \in {0, v} : x >= y) => x = v
  OBVIOUS
<1>2. v \in {0, v} /\ \A y \in {0, v} : v >= y
  OBVIOUS
<1> QED
  BY <1>1, <1>2 DEF Max

\* The cell of the cursor is in the text of its pane, and names what is there.
Finds(s, i, line, column, top, left) ==
    LET pane == Pane(s, i)
        c == Cursor(pane, line, column, top, left)
    IN  /\ c.x \in Nat /\ c.y \in Nat
        /\ Hits(pane, c.x, c.y)
        /\ ClickedRow(pane, c.y, c.top) = line
        /\ ClickedColumn(pane, c.x, c.left) = column

LEMMA CursorShown ==
    ASSUME NEW s \in Splits, NEW i \in 0 .. PaneCount(s) - 1,
           NEW line \in Nat, NEW column \in Nat, NEW top \in Nat, NEW left \in Nat
    PROVE  Finds(s, i, line, column, top, left)
<1> DEFINE pane == Pane(s, i)
           t == Scrolled(top, line, pane.height - 1)
           l == Scrolled(left, column, pane.width - pane.gutter)
           c == Cursor(pane, line, column, top, left)
<1>1. /\ pane.x \in Nat /\ pane.y \in Nat
      /\ pane.width \in Nat /\ pane.height \in Nat /\ pane.gutter \in Nat
      /\ pane.width - pane.gutter >= 1 /\ pane.height - 1 >= 1
  BY PaneShowsText
<1> HIDE DEF pane
<1>2. pane.width - pane.gutter \in Nat /\ pane.height - 1 \in Nat
  BY <1>1
<1>3. t \in Nat /\ t <= line /\ line < t + (pane.height - 1)
  BY <1>1, <1>2, ScrolledShows
<1>4. l \in Nat /\ l <= column /\ column < l + (pane.width - pane.gutter)
  BY <1>1, <1>2, ScrolledShows
<1>5. /\ c.top = t /\ c.left = l
      /\ c.x = pane.x + pane.gutter + column - l /\ c.y = pane.y + line - t
  BY DEF Cursor
<1> HIDE DEF t, l, c
<1>6. c.x \in Nat /\ c.y \in Nat /\ Hits(pane, c.x, c.y)
  BY <1>1, <1>3, <1>4, <1>5 DEF Hits
<1>7. ClickedRow(pane, c.y, c.top) = line
  BY <1>1, <1>3, <1>5 DEF ClickedRow
<1>8. c.x - pane.x - pane.gutter = column - l /\ column - l \in Nat
  BY <1>1, <1>4, <1>5
<1>9. ClickedColumn(pane, c.x, c.left) = column
  <2>1. Max({0, c.x - pane.x - pane.gutter}) = column - l
    BY <1>8, LargestOfTwo
  <2> QED
    BY <1>4, <1>5, <2>1 DEF ClickedColumn
<1> QED
  BY <1>6, <1>7, <1>9 DEF Finds, c, pane

\* A cell is in one pane.
LEMMA HitsOnePane ==
    ASSUME NEW s \in Splits, NEW i \in 0 .. PaneCount(s) - 1, NEW j \in 0 .. PaneCount(s) - 1,
           NEW x \in Nat, NEW y \in Nat, Hits(Pane(s, i), x, y), Hits(Pane(s, j), x, y)
    PROVE  j = i
<1> DEFINE n == PaneCount(s)
           cols == s.screen.cols
           rows == s.screen.rows - 1
<1>1. /\ cols \in Nat /\ rows \in Nat /\ s.n \in Nat \ {0} /\ s.vertical \in BOOLEAN
  BY ScreenAssumption DEF Splits
<1>2. n \in Nat \ {0}
  BY <1>1 DEF PaneCount
<1>3. ASSUME NEW a \in 0 .. n - 1, NEW b \in 0 .. n - 1, a < b,
             Hits(Pane(s, a), x, y), Hits(Pane(s, b), x, y)
      PROVE  FALSE
  <2>1. a \in Nat /\ b \in Nat /\ a + 1 \in Nat /\ a + 1 <= b
    BY <1>2, <1>3
  <2>2. /\ CutAt(cols, n, a + 1) <= CutAt(cols, n, b)
        /\ CutAt(rows, n, a + 1) <= CutAt(rows, n, b)
    <3> HIDE DEF n, cols, rows
    <3> QED
      BY <1>1, <1>2, <2>1, PartsOrdered
  <2>3. /\ CutAt(cols, n, a) \in Nat /\ CutAt(cols, n, a + 1) \in Nat /\ CutAt(cols, n, b) \in Nat
        /\ CutAt(rows, n, a) \in Nat /\ CutAt(rows, n, a + 1) \in Nat /\ CutAt(rows, n, b) \in Nat
    <3> HIDE DEF n, cols, rows
    <3> QED
      BY <1>1, <1>2, <2>1, PartLength
  <2>4. CASE s.vertical
    <3>1. /\ Pane(s, a).x = CutAt(cols, n, a) /\ Pane(s, b).x = CutAt(cols, n, b)
          /\ Pane(s, a).width = CutAt(cols, n, a + 1) - CutAt(cols, n, a)
      BY <2>1, <2>4, PaneIs
    <3>2. x < Pane(s, a).x + Pane(s, a).width /\ Pane(s, b).x <= x
      BY <1>3 DEF Hits
    <3> HIDE DEF n, cols, rows
    <3> QED
      BY <2>2, <2>3, <3>1, <3>2
  <2>5. CASE ~s.vertical
    <3>1. /\ Pane(s, a).y = CutAt(rows, n, a) /\ Pane(s, b).y = CutAt(rows, n, b)
          /\ Pane(s, a).height = CutAt(rows, n, a + 1) - CutAt(rows, n, a)
      BY <2>1, <2>5, PaneIs
    <3>2. y < Pane(s, a).y + Pane(s, a).height - 1 /\ Pane(s, b).y <= y
      BY <1>3 DEF Hits
    <3> HIDE DEF n, cols, rows
    <3> QED
      BY <2>2, <2>3, <3>1, <3>2
  <2> QED
    BY <2>4, <2>5
<1>4. ~(i < j) /\ ~(j < i)
  BY <1>3
<1> QED
  BY <1>2, <1>4

\* A click on the cursor hits the pane that shows it and no other, and names the line
\* and the column of point (editor_snapshot, and mouse_point of the frontends),
\* however the window is divided, numbered and scrolled.
THEOREM ClicksFindCursor == ViewSpec => []ClickOnCursor
<1>1. ViewInv => ClickOnCursor
  <2> SUFFICES ASSUME ViewInv, NEW s \in Splits, NEW i \in 0 .. PaneCount(s) - 1,
                      NEW p \in Positions, NEW top \in Rows, NEW left \in {0, MinPaneCols}
               PROVE  LET pane == Pane(s, i)
                          c == Cursor(pane, LineOf(p), Column(p), top, left)
                      IN  /\ \A j \in 0 .. PaneCount(s) - 1 : Hits(Pane(s, j), c.x, c.y) <=> j = i
                          /\ ClickedRow(pane, c.y, c.top) = LineOf(p)
                          /\ ClickedColumn(pane, c.x, c.left) = Column(p)
    BY DEF ClickOnCursor
  <2> DEFINE pane == Pane(s, i)
             c == Cursor(pane, LineOf(p), Column(p), top, left)
  <2>1. /\ lines \in Seq(Line) /\ tab_width \in Nat \ {0} /\ Len(lines) \in Nat \ {0}
        /\ IsCheckpoint(column_cache, lines, tab_width)
    BY ViewTyped DEF ViewInv, Counted
  <2>2. LineOf(p) \in Nat /\ Column(p) \in Nat /\ top \in Nat /\ left \in Nat
    <3>1. Column(p) \in Nat
      BY <2>1, ColumnIs
    <3>2. LineOf(p) \in Rows
      BY <2>1, LineFound
    <3> QED
      BY <2>1, <3>1, <3>2, ScreenAssumption DEF Rows
  <2>3. /\ c.x \in Nat /\ c.y \in Nat /\ Hits(pane, c.x, c.y)
        /\ ClickedRow(pane, c.y, c.top) = LineOf(p)
        /\ ClickedColumn(pane, c.x, c.left) = Column(p)
    <3>1. Finds(s, i, LineOf(p), Column(p), top, left)
      BY <2>2, CursorShown
    <3> QED
      BY <3>1 DEF Finds
  <2> HIDE DEF c
  <2>4. ASSUME NEW j \in 0 .. PaneCount(s) - 1 PROVE Hits(Pane(s, j), c.x, c.y) <=> j = i
    BY <2>3, HitsOnePane
  <2> QED
    BY <2>3, <2>4 DEF c
<1> QED
  BY <1>1, ViewStarts, ViewKeeps, PTL DEF ViewSpec
=============================================================================
