-------------------------- MODULE EditBufferProofs --------------------------
(***************************************************************************)
(* Theorems about EditBuffer, for every set of bytes, every inputs and     *)
(* every bound.                                                            *)
(***************************************************************************)
EXTENDS EditBuffer, SequenceTheorems, TLAPS

-----------------------------------------------------------------------------
(***************************************************************************)
(* Byte strings.                                                           *)
(***************************************************************************)

\* A slice that lies inside a sequence is a sequence of its elements.
LEMMA SliceType ==
    ASSUME NEW S, NEW t \in Seq(S), NEW at \in Nat, NEW n \in Nat,
           at + n <= Len(t)
    PROVE  /\ Slice(t, at, n) \in Seq(S)
           /\ Len(Slice(t, at, n)) = n
           /\ \A i \in 1 .. n : Slice(t, at, n)[i] = t[at + i]
  <1>1. \A i \in 1 .. n : t[at + i] \in S
    OBVIOUS
  <1> QED
    BY <1>1 DEF Slice

\* Replacing bytes that lie inside a text gives a text, of the length expected.
LEMMA SpliceType ==
    ASSUME NEW S, NEW t \in Seq(S), NEW s \in Seq(S),
           NEW at \in Nat, NEW count \in Nat, at + count <= Len(t)
    PROVE  /\ Splice(t, at, count, s) \in Seq(S)
           /\ Len(Splice(t, at, count, s)) = Len(t) - count + Len(s)
           /\ \A i \in 1 .. Len(t) - count + Len(s) :
                Splice(t, at, count, s)[i] =
                    IF i <= at THEN t[i]
                    ELSE IF i <= at + Len(s) THEN s[i - at]
                    ELSE t[i - Len(s) + count]
  <1> DEFINE n == Len(t) - count + Len(s)
  <1>1. n \in Nat
    OBVIOUS
  <1>2. \A i \in 1 .. n :
           (IF i <= at THEN t[i]
            ELSE IF i <= at + Len(s) THEN s[i - at]
            ELSE t[i - Len(s) + count]) \in S
    <2> TAKE i \in 1 .. n
    <2>1. CASE i <= at
      BY <2>1
    <2>2. CASE i > at /\ i <= at + Len(s)
      BY <2>2
    <2>3. CASE i > at + Len(s)
      <3>1. i - Len(s) + count \in 1 .. Len(t)
        BY <2>3
      <3> QED
        BY <2>3, <3>1
    <2> QED
      BY <2>1, <2>2, <2>3
  <1> QED
    BY <1>1, <1>2 DEF Splice

\* An edit is undone by putting the removed bytes back over the added ones.
LEMMA SpliceInverse ==
    ASSUME NEW S, NEW t \in Seq(S), NEW s \in Seq(S),
           NEW at \in Nat, NEW count \in Nat, at + count <= Len(t)
    PROVE  Splice(Splice(t, at, count, s), at, Len(s), Slice(t, at, count)) = t
  <1> DEFINE u == Splice(t, at, count, s)
             r == Slice(t, at, count)
             v == Splice(u, at, Len(s), r)
  <1>1. /\ r \in Seq(S)
        /\ Len(r) = count
        /\ \A i \in 1 .. count : r[i] = t[at + i]
    BY SliceType
  <1>2. /\ u \in Seq(S)
        /\ Len(u) = Len(t) - count + Len(s)
        /\ \A i \in 1 .. Len(t) - count + Len(s) :
             u[i] = IF i <= at THEN t[i]
                    ELSE IF i <= at + Len(s) THEN s[i - at]
                    ELSE t[i - Len(s) + count]
    BY SpliceType
  <1>3. Len(s) \in Nat /\ at + Len(s) <= Len(u)
    BY <1>2
  <1> HIDE DEF u, r
  <1>4. /\ v \in Seq(S)
        /\ Len(v) = Len(u) - Len(s) + Len(r)
        /\ \A i \in 1 .. Len(u) - Len(s) + Len(r) :
             v[i] = IF i <= at THEN u[i]
                    ELSE IF i <= at + Len(r) THEN r[i - at]
                    ELSE u[i - Len(r) + Len(s)]
    <2> DEFINE w == Len(s)
    <2>1. /\ w \in Nat /\ at + w <= Len(u)
          /\ r \in Seq(S) /\ u \in Seq(S)
      BY <1>1, <1>2, <1>3
    <2> HIDE DEF w
    <2>2. /\ Splice(u, at, w, r) \in Seq(S)
          /\ Len(Splice(u, at, w, r)) = Len(u) - w + Len(r)
          /\ \A i \in 1 .. Len(u) - w + Len(r) :
               Splice(u, at, w, r)[i] =
                    IF i <= at THEN u[i]
                    ELSE IF i <= at + Len(r) THEN r[i - at]
                    ELSE u[i - Len(r) + w]
      BY <2>1, SpliceType
    <2> QED
      BY <2>2 DEF w
  <1> HIDE DEF v
  <1>5. Len(v) = Len(t)
    BY <1>1, <1>2, <1>4
  <1>6. \A i \in 1 .. Len(t) : v[i] = t[i]
    <2> TAKE i \in 1 .. Len(t)
    <2>0. i \in 1 .. Len(u) - Len(s) + Len(r)
      BY <1>1, <1>2
    <2>1. CASE i <= at
      <3>1. i \in 1 .. Len(t) - count + Len(s)
        BY <2>1
      <3> QED
        BY <2>0, <2>1, <3>1, <1>2, <1>4
    <2>2. CASE i > at /\ i <= at + count
      <3>1. i - at \in 1 .. count
        BY <2>2
      <3>2. v[i] = r[i - at]
        BY <2>0, <2>2, <1>1, <1>4
      <3>3. r[i - at] = t[at + (i - at)] /\ at + (i - at) = i
        BY <3>1, <1>1
      <3> QED
        BY <3>2, <3>3
    <2>3. CASE i > at + count
      <3> DEFINE j == i - Len(r) + Len(s)
      <3>1. /\ j \in 1 .. Len(t) - count + Len(s)
            /\ j > at + Len(s)
            /\ j - Len(s) + count = i
        BY <2>3, <1>1
      <3>2. v[i] = u[j]
        BY <2>0, <2>3, <1>1, <1>4
      <3> HIDE DEF j
      <3> QED
        BY <3>1, <3>2, <1>2
    <2> QED
      BY <2>1, <2>2, <2>3
  <1>7. v = t
    BY <1>4, <1>5, <1>6, SeqEqual
  <1> QED
    BY <1>7 DEF u, r, v

-----------------------------------------------------------------------------
(***************************************************************************)
(* The undo log.                                                           *)
(***************************************************************************)

\* Every record of the log names versions that exist.
StatesUsed ==
    \A i \in 1 .. Len(history) :
        /\ history[i].before_state \in 0 .. next_state
        /\ history[i].after_state \in 0 .. next_state

\* The inductive invariant: the log is a path of versions, the text and the
\* saved text are versions of it.
LogInv ==
    /\ TypeOK
    /\ StatesUsed
    /\ LogIsAPath
    /\ StateNamesText
    /\ saved_text = versions[saved_state]

\* relocate never leaves the natural numbers.
LEMMA RelocateType ==
    ASSUME NEW p \in Nat, NEW at \in Nat, NEW removed \in Nat, NEW added \in Nat,
           NEW right \in BOOLEAN
    PROVE  Relocate(p, at, removed, added, right) \in Nat
  BY DEF Relocate

\* The entries an edit keeps are the first history_pos ones, and the new
\* record comes after them.
LEMMA KeptAppend ==
    ASSUME NEW h \in Seq(Edit), NEW pos \in 0 .. Len(h), NEW d \in Edit
    PROVE  LET k == Append(Slice(h, 0, pos), d)
           IN  /\ k \in Seq(Edit)
               /\ Len(k) = pos + 1
               /\ \A i \in 1 .. pos : k[i] = h[i]
               /\ k[pos + 1] = d
  <1> DEFINE u == Slice(h, 0, pos)
  <1>1. /\ u \in Seq(Edit)
        /\ Len(u) = pos
        /\ \A i \in 1 .. pos : u[i] = h[0 + i]
    BY SliceType
  <1> HIDE DEF u
  <1>2. /\ Append(u, d) \in Seq(Edit)
        /\ Len(Append(u, d)) = pos + 1
        /\ \A i \in 1 .. pos : Append(u, d)[i] = u[i]
        /\ Append(u, d)[pos + 1] = d
    BY <1>1, AppendProperties
  <1>3. \A i \in 1 .. pos : Append(u, d)[i] = h[i]
    BY <1>1, <1>2
  <1> QED
    BY <1>2, <1>3 DEF u

\* The record an edit adds to the log.
NewRecord(at, count, s, g) ==
    [at |-> at, removed |-> Slice(text, at, count), added |-> s,
     before_point |-> point, after_point |-> Relocate(point, at, count, Len(s), TRUE),
     before_mark |-> mark, after_mark |-> Relocate(mark, at, count, Len(s), FALSE),
     group |-> g, before_state |-> state, after_state |-> next_state + 1]

\* The log once an edit is recorded.
LEMMA RecordKept ==
    ASSUME LogInv,
           NEW at \in Nat, NEW count \in Nat, NEW s \in Seq(Byte), NEW g \in Nat,
           at + count <= Len(text), Record(at, count, s, g)
    PROVE  /\ history' \in Seq(Edit)
           /\ Len(history') = history_pos + 1
           /\ \A i \in 1 .. history_pos : history'[i] = history[i]
           /\ history'[history_pos + 1] = NewRecord(at, count, s, g)
  <1> DEFINE d == NewRecord(at, count, s, g)
  <1>1. /\ text \in Seq(Byte) /\ point \in Nat /\ mark \in Nat
        /\ history \in Seq(Edit) /\ history_pos \in 0 .. Len(history)
        /\ next_state \in Nat /\ state \in Nat
    BY DEF LogInv, TypeOK
  <1>2. Slice(text, at, count) \in Seq(Byte) /\ Len(s) \in Nat
    BY <1>1, SliceType
  <1>3. /\ Relocate(point, at, count, Len(s), TRUE) \in Nat
        /\ Relocate(mark, at, count, Len(s), FALSE) \in Nat
    BY <1>1, <1>2, RelocateType
  <1>4. d \in Edit
    <2> DEFINE r == Slice(text, at, count)
               p == Relocate(point, at, count, Len(s), TRUE)
               m == Relocate(mark, at, count, Len(s), FALSE)
               n == next_state + 1
    <2>1. r \in Seq(Byte)
      BY <1>2
    <2>3. p \in Nat /\ m \in Nat
      BY <1>3
    <2>4. n \in Nat
      BY <1>1
    <2>2. d = [at |-> at, removed |-> r, added |-> s, before_point |-> point, after_point |-> p,
               before_mark |-> mark, after_mark |-> m, group |-> g, before_state |-> state,
               after_state |-> n]
      BY DEF NewRecord
    <2> HIDE DEF r, p, m, n, d
    <2> QED
      BY <1>1, <2>1, <2>2, <2>3, <2>4 DEF Edit
  <1>5. history' = Append(Slice(history, 0, history_pos), d)
    BY DEF Record, NewState, Kept, NewRecord
  <1> HIDE DEF d
  <1> QED
    BY <1>1, <1>4, <1>5, KeptAppend DEF d

\* An edit inside the text extends the path by one version.
LEMMA RecordStep ==
    ASSUME LogInv,
           NEW at \in Nat, NEW count \in Nat, NEW s \in Seq(Byte), NEW g \in Nat,
           at + count <= Len(text),
           Record(at, count, s, g)
    PROVE  /\ text' \in Seq(Byte)
           /\ mark' \in Nat
           /\ history' \in Seq(Edit)
           /\ history_pos' \in 0 .. Len(history')
           /\ next_state' \in Nat
           /\ state' = next_state'
           /\ next_state' = next_state + 1
           /\ versions' \in [0 .. next_state' -> Seq(Byte)]
           /\ \A i \in 0 .. next_state : versions'[i] = versions[i]
           /\ StatesUsed' /\ LogIsAPath' /\ StateNamesText'
  <1> DEFINE n == next_state + 1
             t == Splice(text, at, count, s)
             r == Slice(text, at, count)
             d == NewRecord(at, count, s, g)
  <1>1. /\ text \in Seq(Byte) /\ point \in Nat /\ mark \in Nat
        /\ history \in Seq(Edit) /\ history_pos \in 0 .. Len(history)
        /\ next_state \in Nat /\ state \in 0 .. next_state
        /\ versions \in [0 .. next_state -> Seq(Byte)]
        /\ text = versions[state]
    BY DEF LogInv, TypeOK, StateNamesText
  <1>2. /\ t \in Seq(Byte)
        /\ r \in Seq(Byte) /\ Len(r) = count
    <2>1. t \in Seq(Byte)
      BY <1>1, SpliceType
    <2>2. r \in Seq(Byte) /\ Len(r) = count
      BY <1>1, SliceType
    <2> QED
      BY <2>1, <2>2
  <1>3. /\ text' = t /\ next_state' = n /\ state' = n
        /\ mark' = Relocate(mark, at, count, Len(s), FALSE)
        /\ history_pos' = Len(history')
        /\ versions' = [i \in 0 .. n |-> IF i = n THEN t ELSE versions[i]]
    BY DEF Record, NewState, Kept
  <1> HIDE DEF t, r
  <1>5. /\ history' \in Seq(Edit)
        /\ Len(history') = history_pos + 1
        /\ \A i \in 1 .. history_pos : history'[i] = history[i]
        /\ history'[history_pos + 1] = d
    BY RecordKept
  <1>6. /\ d.at = at /\ d.removed = r /\ d.added = s
        /\ d.before_state = state /\ d.after_state = n
    BY DEF NewRecord, r
  <1> HIDE DEF d
  <1>7. /\ versions' \in [0 .. n -> Seq(Byte)]
        /\ versions'[n] = t
        /\ \A i \in 0 .. next_state : versions'[i] = versions[i]
    BY <1>1, <1>2, <1>3
  <1>8. mark' \in Nat
    <2>1. Len(s) \in Nat
      OBVIOUS
    <2> QED
      BY <1>1, <1>3, <2>1, RelocateType
  <1>9. StatesUsed'
    <2> SUFFICES ASSUME NEW i \in 1 .. Len(history')
                 PROVE  /\ history'[i].before_state \in 0 .. next_state'
                        /\ history'[i].after_state \in 0 .. next_state'
      BY DEF StatesUsed
    <2>0. /\ next_state \in Nat /\ next_state' = next_state + 1
          /\ state \in 0 .. next_state
      BY <1>1, <1>3
    <2>1. CASE i <= history_pos
      <3>1. i \in 1 .. Len(history) /\ history'[i] = history[i]
        BY <1>1, <1>5, <2>1
      <3>2. /\ history[i].before_state \in 0 .. next_state
            /\ history[i].after_state \in 0 .. next_state
        BY <3>1 DEF LogInv, StatesUsed
      <3> QED
        BY <2>0, <3>1, <3>2, SMTT(60)
    <2>2. CASE i = history_pos + 1
      <3>1. history'[i].before_state = state /\ history'[i].after_state = n
        BY <1>5, <1>6, <2>2
      <3> QED
        BY <2>0, <3>1
    <2>3. i <= history_pos \/ i = history_pos + 1
      BY <1>1, <1>5
    <2> QED
      BY <2>1, <2>2, <2>3
  <1>10. LogIsAPath'
    <2>1. ASSUME NEW i \in 1 .. Len(history')
          PROVE  LET e == history'[i]  old == versions'[e.before_state]
                 IN  /\ e.at + Len(e.removed) <= Len(old)
                     /\ e.removed = Slice(old, e.at, Len(e.removed))
                     /\ versions'[e.after_state]
                            = Splice(old, e.at, Len(e.removed), e.added)
      <3>1. CASE i <= history_pos
        <4>1. i \in 1 .. Len(history) /\ history'[i] = history[i]
          BY <1>1, <1>5, <3>1
        <4>2. /\ versions'[history[i].before_state] = versions[history[i].before_state]
              /\ versions'[history[i].after_state] = versions[history[i].after_state]
          BY <1>7, <4>1 DEF LogInv, StatesUsed
        <4> QED
          BY <4>1, <4>2 DEF LogInv, LogIsAPath
      <3>2. CASE i = history_pos + 1
        <4>1. history'[i] = d /\ versions'[state] = text
          BY <1>1, <1>5, <1>7, <3>2
        <4> QED
          BY <4>1, <1>2, <1>6, <1>7 DEF t, r
      <3> QED
        BY <1>1, <1>5, <3>1, <3>2
    <2>2. \A i \in 1 .. Len(history') - 1 :
             history'[i].after_state = history'[i + 1].before_state
      <3> TAKE i \in 1 .. Len(history') - 1
      <3>1. CASE i < history_pos
        <4>1. i \in 1 .. Len(history) - 1 /\ i + 1 \in 1 .. history_pos
          BY <1>1, <1>5, <3>1
        <4>2. history'[i] = history[i] /\ history'[i + 1] = history[i + 1]
          BY <1>1, <1>5, <4>1, <3>1
        <4> QED
          BY <4>1, <4>2 DEF LogInv, LogIsAPath
      <3>2. CASE i = history_pos
        BY <1>1, <1>5, <1>6, <3>2 DEF LogInv, LogIsAPath
      <3> QED
        BY <1>1, <1>5, <3>1, <3>2
    <2>3. history'[history_pos'].after_state = state' /\ history_pos' = Len(history')
      BY <1>1, <1>3, <1>5, <1>6
    <2> QED
      BY <2>1, <2>2, <2>3, <1>1, <1>5 DEF LogIsAPath
  <1>11. StateNamesText'
    BY <1>3, <1>7 DEF StateNamesText
  <1>12. history_pos' \in 0 .. Len(history')
    BY <1>1, <1>3, <1>5
  <1> HIDE DEF n
  <1>13. text' \in Seq(Byte) /\ next_state' = next_state + 1 /\ next_state' \in Nat
    BY <1>1, <1>2, <1>3 DEF n
  <1> QED
    BY <1>3, <1>5, <1>7, <1>8, <1>9, <1>10, <1>11, <1>12, <1>13

\* What the loop of undo leaves alone keeps its type.
LEMMA LoopKeeps ==
    ASSUME LogInv, LoopUnchanged
    PROVE  /\ readonly' \in BOOLEAN /\ saved_text' \in Seq(Byte)
           /\ saved_state' \in 0 .. next_state' /\ next_state' \in Nat
           /\ group' \in Nat /\ history' \in Seq(Edit)
           /\ versions' \in [0 .. next_state' -> Seq(Byte)]
           /\ saved_text' = versions'[saved_state']
           /\ StatesUsed'
  BY DEF LogInv, TypeOK, LoopUnchanged, StatesUsed

\* One iteration of undo or redo moves along the path.
LEMMA UndoEntryStep ==
    ASSUME LogInv, UndoEntry
    PROVE  LogInv'
  <1>1. /\ text \in Seq(Byte) /\ history \in Seq(Edit)
        /\ history_pos \in 0 .. Len(history)
        /\ next_state \in Nat /\ state \in 0 .. next_state
        /\ versions \in [0 .. next_state -> Seq(Byte)]
        /\ text = versions[state]
        /\ loop \in {"idle", "undo", "redo"} /\ loop # "idle"
        /\ loop_group \in Nat \cup {-1} /\ loop_left \in Nat
    BY DEF LogInv, TypeOK, StateNamesText, UndoEntry, Idle
  <1>2. /\ history' = history /\ versions' = versions /\ next_state' = next_state
        /\ loop' = loop /\ loop_group' = loop_group /\ loop_left' = loop_left
    BY DEF UndoEntry, LoopUnchanged
  <1>3. ASSUME NEW k \in 1 .. Len(history)
        PROVE  LET d == history[k]
                   old == versions[d.before_state]
                   new == versions[d.after_state]
               IN  /\ d.before_point \in Nat /\ d.after_point \in Nat
                   /\ d.before_mark \in Nat /\ d.after_mark \in Nat
                   /\ d.before_state \in 0 .. next_state
                   /\ d.after_state \in 0 .. next_state
                   /\ new = Splice(old, d.at, Len(d.removed), d.added)
                   /\ old = Splice(new, d.at, Len(d.added), d.removed)
    <2> DEFINE d == history[k]
               old == versions[d.before_state]
    <2>1. d \in Edit
      BY <1>1
    <2>2. /\ d.at \in Nat /\ d.removed \in Seq(Byte) /\ d.added \in Seq(Byte)
          /\ d.before_point \in Nat /\ d.after_point \in Nat
          /\ d.before_mark \in Nat /\ d.after_mark \in Nat
      BY <2>1 DEF Edit
    <2>3. d.before_state \in 0 .. next_state /\ d.after_state \in 0 .. next_state
      BY DEF LogInv, StatesUsed
    <2>4. /\ d.at + Len(d.removed) <= Len(old)
          /\ d.removed = Slice(old, d.at, Len(d.removed))
          /\ versions[d.after_state] = Splice(old, d.at, Len(d.removed), d.added)
      BY DEF LogInv, LogIsAPath
    <2>5. old \in Seq(Byte) /\ Len(d.removed) \in Nat
      <3>1. versions \in [0 .. next_state -> Seq(Byte)]
        BY <1>1
      <3>2. Len(d.removed) \in Nat
        BY <2>2
      <3> QED
        BY <2>3, <3>1, <3>2
    <2> HIDE DEF d, old
    <2>6. old = Splice(versions[d.after_state], d.at, Len(d.added), d.removed)
      BY <2>2, <2>4, <2>5, SpliceInverse
    <2> QED
      BY <2>2, <2>3, <2>4, <2>6 DEF d, old
  <1>4. /\ LogIsAPath' /\ StateNamesText'
        /\ text' \in Seq(Byte) /\ point' \in Nat /\ mark' \in Nat
        /\ history_pos' \in 0 .. Len(history') /\ state' \in 0 .. next_state'
    <2>1. CASE loop = "undo"
      <3> DEFINE d == history[history_pos]
      <3>1. history_pos \in 1 .. Len(history) /\ state = d.after_state
        BY <1>1, <2>1 DEF UndoEntry, InGroup, AtEnd, LogInv, LogIsAPath
      <3>2. /\ text' = Splice(text, d.at, Len(d.added), d.removed)
            /\ point' = d.before_point /\ mark' = d.before_mark
            /\ state' = d.before_state /\ history_pos' = history_pos - 1
        BY <2>1 DEF UndoEntry, NextEntry, Restored
      <3>3. text' = versions[d.before_state]
        BY <1>1, <1>3, <3>1, <3>2
      <3>4. history_pos' > 0 => history[history_pos'].after_state = d.before_state
        BY <1>1, <3>1, <3>2 DEF LogInv, LogIsAPath
      <3>5. history_pos' < Len(history) /\ history[history_pos' + 1] = d
        BY <1>1, <3>1, <3>2
      <3>6. /\ point' \in Nat /\ mark' \in Nat /\ state' \in 0 .. next_state
        BY <1>3, <3>1, <3>2
      <3> HIDE DEF d
      <3>7. LogIsAPath'
        BY <1>2, <3>2, <3>4, <3>5 DEF LogInv, LogIsAPath
      <3> QED
        BY <1>1, <1>2, <3>1, <3>2, <3>3, <3>6, <3>7 DEF StateNamesText
    <2>2. CASE loop = "redo"
      <3> DEFINE d == history[history_pos + 1]
      <3>1. history_pos + 1 \in 1 .. Len(history) /\ state = d.before_state
        BY <1>1, <2>2 DEF UndoEntry, InGroup, AtEnd, LogInv, LogIsAPath
      <3>2. /\ text' = Splice(text, d.at, Len(d.removed), d.added)
            /\ point' = d.after_point /\ mark' = d.after_mark
            /\ state' = d.after_state /\ history_pos' = history_pos + 1
        BY <2>2 DEF UndoEntry, NextEntry, Restored
      <3>3. text' = versions[d.after_state]
        BY <1>1, <1>3, <3>1, <3>2
      <3>4. history_pos' < Len(history) =>
                history[history_pos' + 1].before_state = d.after_state
        BY <1>1, <3>1, <3>2 DEF LogInv, LogIsAPath
      <3>5. history_pos' > 0 /\ history[history_pos'] = d
        BY <1>1, <3>1, <3>2
      <3>6. /\ point' \in Nat /\ mark' \in Nat /\ state' \in 0 .. next_state
        BY <1>3, <3>1, <3>2
      <3> HIDE DEF d
      <3>7. LogIsAPath'
        BY <1>2, <3>2, <3>4, <3>5 DEF LogInv, LogIsAPath
      <3> QED
        BY <1>1, <1>2, <3>1, <3>2, <3>3, <3>6, <3>7 DEF StateNamesText
    <2> QED
      BY <1>1, <2>1, <2>2
  <1>5. LoopUnchanged
    BY DEF UndoEntry
  <1> QED
    BY <1>1, <1>2, <1>4, <1>5, LoopKeeps DEF LogInv, TypeOK

\* The edit editor_set_text asks for lies inside the text.
LEMMA SetTextInside ==
    ASSUME LogInv, NEW s \in Seq(Byte), NEW h \in 0 .. Len(s), NEW t \in 0 .. Len(s),
           IsHead(h, s), IsTail(t, h, s)
    PROVE  /\ Len(text) - h - t \in Nat
           /\ h + (Len(text) - h - t) <= Len(text)
           /\ Slice(s, h, Len(s) - h - t) \in Seq(Byte)
  <1>1. text \in Seq(Byte)
    BY DEF LogInv, TypeOK
  <1>2. h <= Len(text)
    BY <1>1 DEF IsHead, IsLargest
  <1>3. t <= Len(text) - h /\ t <= Len(s) - h
    BY <1>1, <1>2 DEF IsTail, IsLargest
  <1>4. /\ Len(s) \in Nat /\ Len(text) \in Nat
        /\ Len(s) - h - t \in Nat /\ h + (Len(s) - h - t) <= Len(s)
    BY <1>1, <1>2, <1>3
  <1>5. Slice(s, h, Len(s) - h - t) \in Seq(Byte)
    <2> DEFINE n == Len(s) - h - t
    <2>1. n \in Nat /\ h + n <= Len(s)
      BY <1>4
    <2> HIDE DEF n
    <2>2. Slice(s, h, n) \in Seq(Byte)
      BY <2>1, SliceType
    <2> QED
      BY <2>2 DEF n
  <1> QED
    BY <1>1, <1>2, <1>3, <1>4, <1>5

\* An edit at `at`, kept inside the text by the code's own tests, preserves the
\* invariant if the command leaves point, the flags and the save alone.
LEMMA ReplaceStep ==
    ASSUME LogInv, NEW at \in Nat, NEW count \in Nat, NEW s \in Seq(Byte), NEW g \in Nat,
           Replace(at, count, s, g),
           group' \in Nat,
           UNCHANGED <<readonly, saved_state, saved_text, loop, loop_group, loop_left>>
    PROVE  LogInv'
  <1>1. CASE NoEdit
    BY <1>1 DEF NoEdit, LogInv, TypeOK, StatesUsed, LogIsAPath, StateNamesText
  <1>2. CASE /\ ~BadEdit(at, count, s)
             /\ Record(at, count, s, g)
             /\ point' = Relocate(point, at, count, Len(s), TRUE)
    <2>1. at + count <= Len(text)
      BY <1>2 DEF BadEdit, LogInv, TypeOK
    <2>2. /\ text' \in Seq(Byte) /\ mark' \in Nat /\ history' \in Seq(Edit)
          /\ history_pos' \in 0 .. Len(history')
          /\ next_state' \in Nat /\ state' = next_state'
          /\ next_state' = next_state + 1
          /\ versions' \in [0 .. next_state' -> Seq(Byte)]
          /\ \A i \in 0 .. next_state : versions'[i] = versions[i]
          /\ StatesUsed' /\ LogIsAPath' /\ StateNamesText'
      BY <1>2, <2>1, RecordStep
    <2>3. Len(s) \in Nat /\ point \in Nat
      BY DEF LogInv, TypeOK
    <2>4. point' \in Nat
      BY <1>2, <2>3, RelocateType
    <2>5. /\ saved_state \in 0 .. next_state /\ saved_state' = saved_state
          /\ saved_text' = saved_text /\ saved_text = versions[saved_state]
          /\ next_state \in Nat
      BY DEF LogInv, TypeOK
    <2>6. saved_state' \in 0 .. next_state' /\ saved_text' = versions'[saved_state']
      BY <2>2, <2>5
    <2> QED
      BY <2>2, <2>4, <2>6 DEF LogInv, TypeOK
  <1> QED
    BY <1>1, <1>2 DEF Replace

\* show_text, which edits and saves at once.
LEMMA ShowTextStep ==
    ASSUME LogInv, NEW s \in Seq(Byte), ShowText(s)
    PROVE  LogInv'
  <1>1. PICK g \in Groups :
           /\ group' = g
           /\ IF s = text
              THEN UNCHANGED <<text, mark, history, history_pos, state,
                               next_state, versions>>
              ELSE \E h, t \in 0 .. Len(s) :
                      /\ IsHead(h, s)
                      /\ IsTail(t, h, s)
                      /\ Record(h, Len(text) - h - t,
                                Slice(s, h, Len(s) - h - t), g)
    BY DEF ShowText
  <1>2. g \in Nat
    BY DEF Groups, LogInv, TypeOK
  <1>3. /\ point' = 0 /\ readonly' = TRUE
        /\ saved_state' = state' /\ saved_text' = text'
        /\ loop' = loop /\ loop_group' = loop_group /\ loop_left' = loop_left
    BY DEF ShowText
  <1>4. CASE s = text
    BY <1>1, <1>2, <1>3, <1>4
    DEF LogInv, TypeOK, StatesUsed, LogIsAPath, StateNamesText
  <1>5. CASE s # text
    <2>1. PICK h \in 0 .. Len(s), t \in 0 .. Len(s) :
             /\ IsHead(h, s)
             /\ IsTail(t, h, s)
             /\ Record(h, Len(text) - h - t, Slice(s, h, Len(s) - h - t), g)
      BY <1>1, <1>5
    <2> DEFINE c == Len(text) - h - t
               r == Slice(s, h, Len(s) - h - t)
    <2>2. c \in Nat /\ h + c <= Len(text) /\ r \in Seq(Byte) /\ h \in Nat
      BY <2>1, SetTextInside
    <2>3. Record(h, c, r, g)
      BY <2>1
    <2> HIDE DEF c, r
    <2>4. /\ text' \in Seq(Byte) /\ mark' \in Nat /\ history' \in Seq(Edit)
          /\ history_pos' \in 0 .. Len(history')
          /\ next_state' \in Nat /\ state' = next_state'
          /\ versions' \in [0 .. next_state' -> Seq(Byte)]
          /\ StatesUsed' /\ LogIsAPath' /\ StateNamesText'
      BY <1>2, <2>2, <2>3, RecordStep
    <2> QED
      BY <1>1, <1>2, <1>3, <2>4 DEF LogInv, TypeOK, StateNamesText
  <1> QED
    BY <1>4, <1>5

LEMMA LogInvInit == Init => LogInv
  BY InputAssumption
  DEF Init, LogInv, TypeOK, StatesUsed, LogIsAPath, StateNamesText

LEMMA LogInvNext == LogInv /\ [Next]_vars => LogInv'
  <1> SUFFICES ASSUME LogInv, [Next]_vars
               PROVE  LogInv'
    OBVIOUS
  <1>1. ASSUME NEW at \in 0 .. MaxSize, NEW count \in 0 .. MaxSize, NEW s \in Inputs,
               EditBytes(at, count, s)
        PROVE  LogInv'
    <2>1. at \in Nat /\ count \in Nat /\ s \in Seq(Byte)
      BY InputAssumption
    <2>2. PICK g \in Groups :
             /\ Replace(at, count, s, g)
             /\ group' = IF state' = state THEN group ELSE g
      BY <1>1 DEF EditBytes
    <2>3. g \in Nat /\ group' \in Nat
      BY <2>2 DEF Groups, LogInv, TypeOK
    <2>4. UNCHANGED <<readonly, saved_state, saved_text, loop, loop_group, loop_left>>
      BY <1>1 DEF EditBytes
    <2> QED
      BY <2>1, <2>2, <2>3, <2>4, ReplaceStep
  <1>2. ASSUME NEW s \in Inputs, ClientSetText(s)
        PROVE  LogInv'
    <2>1. PICK g \in Groups : SetText(s, g) /\ group' = g
      BY <1>2 DEF ClientSetText
    <2>2. g \in Nat /\ group' \in Nat
      BY <2>1 DEF Groups, LogInv, TypeOK
    <2>3. UNCHANGED <<readonly, saved_state, saved_text, loop, loop_group, loop_left>>
      BY <1>2 DEF ClientSetText
    <2>4. CASE NoEdit
      BY <2>2, <2>3, <2>4
      DEF NoEdit, LogInv, TypeOK, StatesUsed, LogIsAPath, StateNamesText
    <2>5. CASE \E h, t \in 0 .. Len(s) :
                  /\ IsHead(h, s)
                  /\ IsTail(t, h, s)
                  /\ Replace(h, Len(text) - h - t, Slice(s, h, Len(s) - h - t), g)
      <3>1. PICK h \in 0 .. Len(s), t \in 0 .. Len(s) :
               /\ IsHead(h, s)
               /\ IsTail(t, h, s)
               /\ Replace(h, Len(text) - h - t, Slice(s, h, Len(s) - h - t), g)
        BY <2>5
      <3> DEFINE c == Len(text) - h - t
                 r == Slice(s, h, Len(s) - h - t)
      <3>2. s \in Seq(Byte) /\ h \in Nat
        BY InputAssumption
      <3>3. c \in Nat /\ r \in Seq(Byte)
        BY <3>1, <3>2, SetTextInside
      <3>4. Replace(h, c, r, g)
        BY <3>1
      <3> HIDE DEF c, r
      <3> QED
        BY <2>2, <2>3, <3>2, <3>3, <3>4, ReplaceStep
    <2> QED
      BY <2>1, <2>4, <2>5 DEF SetText
  <1>3. ASSUME NEW s \in Inputs, ShowText(s)
        PROVE  LogInv'
    BY <1>3, ShowTextStep, InputAssumption
  <1>4. ASSUME CursorCommand, point' \in Nat, mark' \in Nat, readonly' \in BOOLEAN
        PROVE  LogInv'
    BY <1>4
    DEF CursorCommand, Contents, LogInv, TypeOK, StatesUsed, LogIsAPath, StateNamesText
  <1>5. ASSUME NEW p \in Positions, MovePoint(p)
        PROVE  LogInv'
    BY <1>4, <1>5, InputAssumption DEF MovePoint, LogInv, TypeOK
  <1>6. CASE SetMark
    BY <1>4, <1>6 DEF SetMark, LogInv, TypeOK
  <1>7. CASE ExchangePointAndMark
    BY <1>4, <1>7 DEF ExchangePointAndMark, LogInv, TypeOK
  <1>8. CASE MarkWholeBuffer
    BY <1>4, <1>8 DEF MarkWholeBuffer, LogInv, TypeOK
  <1>9. CASE ToggleReadOnly
    BY <1>4, <1>9 DEF ToggleReadOnly, LogInv, TypeOK
  <1>10. CASE Saved
    BY <1>10 DEF Saved, LogInv, TypeOK, StatesUsed, LogIsAPath, StateNamesText
  <1>11. ASSUME NEW dir \in {"undo", "redo"}, NEW n \in Counts, BeginUndo(dir, n)
         PROVE  LogInv'
    BY <1>11, InputAssumption, LoopKeeps
    DEF BeginUndo, LoopUnchanged, LogInv, TypeOK, LogIsAPath, StateNamesText
  <1>12. CASE NextGroup
    <2>1. loop_group' \in Nat
      <3>1. NextEntry \in Edit
        BY <1>12 DEF NextGroup, NextEntry, AtEnd, LogInv, TypeOK
      <3> QED
        BY <1>12, <3>1 DEF NextGroup, Edit
    <2> QED
      BY <1>12, <2>1, LoopKeeps
      DEF NextGroup, LoopUnchanged, LogInv, TypeOK, LogIsAPath, StateNamesText
  <1>13. CASE UndoEntry
    BY <1>13, UndoEntryStep
  <1>14. CASE EndUndo
    BY <1>14, LoopKeeps
    DEF EndUndo, LoopUnchanged, LogInv, TypeOK, LogIsAPath, StateNamesText
  <1>15. ASSUME NEW s \in Inputs, LogText(s)
         PROVE  LogInv'
    <2>1. s \in Seq(Byte)
      BY InputAssumption
    <2>2. /\ next_state' = next_state + 1 /\ next_state' \in Nat
          /\ history' = <<>> /\ history_pos' = 0
      BY <1>15 DEF LogText, NewState, LogInv, TypeOK
    <2>3. versions' \in [0 .. next_state' -> Seq(Byte)]
      BY <1>15, <2>1, <2>2 DEF LogText, NewState, LogInv, TypeOK
    <2>4. versions'[next_state'] = s
      BY <1>15, <2>2 DEF LogText
    <2>5. TypeOK'
      BY <1>15, <2>1, <2>2, <2>3 DEF LogText, LogInv, TypeOK
    <2>6. StatesUsed' /\ LogIsAPath'
      BY <2>2, <2>5 DEF StatesUsed, LogIsAPath, TypeOK
    <2> QED
      BY <1>15, <2>4, <2>5, <2>6 DEF LogText, LogInv, StateNamesText
  <1>16. CASE UNCHANGED vars
    BY <1>16 DEF vars, LogInv, TypeOK, StatesUsed, LogIsAPath, StateNamesText
  <1> QED
    BY <1>1, <1>2, <1>3, <1>5, <1>6, <1>7, <1>8, <1>9, <1>10, <1>11, <1>12,
       <1>13, <1>14, <1>15, <1>16
    DEF Next

\* The log is a path of texts through the current one, and every version id on
\* it names its text, in every reachable state and at any bounds.
THEOREM LogInvariant == Spec => []LogInv
  BY LogInvInit, LogInvNext, PTL DEF Spec

\* The variables keep their types in every reachable state, at any bounds:
\* in particular the undo log never indexes outside itself or the text.
THEOREM TypeCorrect == Spec => []TypeOK
  <1>1. LogInv => TypeOK
    BY DEF LogInv
  <1> QED
    BY <1>1, LogInvariant, PTL

\* A buffer the editor calls unmodified holds exactly the text last saved.
THEOREM CleanIsSaved == Spec => []CleanMeansSaved
  <1>1. LogInv => CleanMeansSaved
    BY DEF LogInv, StateNamesText, CleanMeansSaved
  <1> QED
    BY <1>1, LogInvariant, PTL

\* A version id names one text for ever.
THEOREM StateIdentifiesText == Spec => []StateNamesText
  <1>1. LogInv => StateNamesText
    BY DEF LogInv
  <1> QED
    BY <1>1, LogInvariant, PTL

\* Every record of the undo log can be reverted and applied again exactly.
THEOREM LogReverts == Spec => []LogIsAPath
  <1>1. LogInv => LogIsAPath
    BY DEF LogInv
  <1> QED
    BY <1>1, LogInvariant, PTL

-----------------------------------------------------------------------------
(***************************************************************************)
(* Characters.  A position that does not split one cuts a valid text into  *)
(* valid texts, and an edit between two such positions keeps every other   *)
(* position between characters.                                            *)
(***************************************************************************)
LEMMA ValidSplice ==
    ASSUME NEW t \in Seq(Byte), Valid(t), NEW s \in Seq(Byte), Valid(s),
           NEW at \in Nat, NEW count \in Nat, at + count <= Len(t),
           Boundary(t, at), Boundary(t, at + count)
    PROVE  Valid(Splice(t, at, count, s))
  <1> DEFINE u == Splice(t, at, count, s)
             n == Len(t)
             m == Len(s)
  <1>1. n \in Nat /\ m \in Nat
    OBVIOUS
  <1>2. /\ Len(u) = n - count + m
        /\ \A i \in 1 .. n - count + m :
              u[i] = IF i <= at THEN t[i]
                     ELSE IF i <= at + m THEN s[i - at] ELSE t[i - m + count]
    <2>1. /\ Splice(t, at, count, s) \in Seq(Byte)
          /\ Len(Splice(t, at, count, s)) = Len(t) - count + Len(s)
          /\ \A i \in 1 .. Len(t) - count + Len(s) :
                Splice(t, at, count, s)[i] =
                    IF i <= at THEN t[i]
                    ELSE IF i <= at + Len(s) THEN s[i - at]
                    ELSE t[i - Len(s) + count]
      <3> HIDE DEF u, n, m
      <3> QED
        BY SpliceType
    <2> QED
      BY <2>1
  <1>3. /\ \A i \in 1 .. n : t[i] \in Cont => i > 1 /\ t[i - 1] \in Lead
        /\ \A i \in 1 .. n : t[i] \in Lead => i < n /\ t[i + 1] \in Cont
        /\ \A i \in 1 .. m : s[i] \in Cont => i > 1 /\ s[i - 1] \in Lead
        /\ \A i \in 1 .. m : s[i] \in Lead => i < m /\ s[i + 1] \in Cont
    BY DEF Valid
  <1>4. at < n => t[at + 1] \notin Cont
    BY DEF Boundary
  <1>5. at + count < n => t[at + count + 1] \notin Cont
    BY DEF Boundary
  <1> HIDE DEF u, n, m
  <1>6. at + count <= n
    BY DEF n
  <1>7. ASSUME NEW i \in 1 .. n - count + m
        PROVE  /\ u[i] \in Cont => i > 1 /\ u[i - 1] \in Lead
               /\ u[i] \in Lead => i < n - count + m /\ u[i + 1] \in Cont
    <2>1. CASE i <= at
      <3>1. i \in 1 .. n /\ u[i] = t[i]
        BY <1>1, <1>2, <1>6, <2>1
      <3>2. i > 1 => u[i - 1] = t[i - 1]
        BY <1>1, <1>2, <1>6, <2>1
      <3>3. u[i] \in Cont => i > 1 /\ u[i - 1] \in Lead
        BY <1>3, <3>1, <3>2
      <3>4. ASSUME u[i] \in Lead PROVE i < n - count + m /\ u[i + 1] \in Cont
        <4>1. i < n /\ t[i + 1] \in Cont
          BY <1>3, <3>1, <3>4
        <4>2. i # at
          BY <1>4, <4>1
        <4>3. i + 1 \in 1 .. n - count + m /\ i + 1 <= at
          BY <1>1, <1>6, <2>1, <4>2
        <4> QED
          BY <1>1, <1>2, <4>1, <4>3
      <3> QED
        BY <3>3, <3>4
    <2>2. CASE i > at /\ i <= at + m
      <3>1. i - at \in 1 .. m /\ u[i] = s[i - at]
        BY <1>1, <1>2, <2>2
      <3>2. ASSUME u[i] \in Cont PROVE i > 1 /\ u[i - 1] \in Lead
        <4>1. i - at > 1 /\ s[(i - at) - 1] \in Lead
          BY <1>3, <3>1, <3>2
        <4>2. i - 1 \in 1 .. n - count + m /\ i - 1 > at /\ i - 1 <= at + m
              /\ (i - 1) - at = (i - at) - 1
          BY <1>1, <2>2, <4>1
        <4>3. u[i - 1] = s[(i - 1) - at]
          BY <1>2, <4>2
        <4> QED
          BY <1>1, <4>1, <4>2, <4>3
      <3>3. ASSUME u[i] \in Lead PROVE i < n - count + m /\ u[i + 1] \in Cont
        <4>1. i - at < m /\ s[(i - at) + 1] \in Cont
          BY <1>3, <3>1, <3>3
        <4>2. i + 1 \in 1 .. n - count + m /\ i + 1 > at /\ i + 1 <= at + m
              /\ (i + 1) - at = (i - at) + 1
          BY <1>1, <1>6, <2>2, <4>1
        <4>3. u[i + 1] = s[(i + 1) - at]
          BY <1>2, <4>2
        <4> QED
          BY <1>1, <4>1, <4>2, <4>3
      <3> QED
        BY <3>2, <3>3
    <2>3. CASE i > at + m
      <3> DEFINE j == i - m + count
      <3>1. j \in 1 .. n /\ u[i] = t[j] /\ j > at + count
        BY <1>1, <1>2, <1>6, <2>3
      <3>2. ASSUME u[i] \in Cont PROVE i > 1 /\ u[i - 1] \in Lead
        <4>1. j > 1 /\ t[j - 1] \in Lead /\ t[j] \in Cont
          BY <1>3, <3>1, <3>2
        <4>2. j # at + count + 1
          <5>1. j = at + count + 1 => at + count < n
            BY <1>1, <3>1
          <5> HIDE DEF j
          <5> QED
            BY <1>5, <4>1, <5>1
        <4>3. i - 1 \in 1 .. n - count + m /\ i - 1 > at + m /\ (i - 1) - m + count = j - 1
          BY <1>1, <2>3, <3>1, <4>2
        <4>4. u[i - 1] = t[(i - 1) - m + count]
          BY <1>1, <1>2, <4>3
        <4> QED
          BY <1>1, <4>1, <4>3, <4>4
      <3>3. ASSUME u[i] \in Lead PROVE i < n - count + m /\ u[i + 1] \in Cont
        <4>1. j < n /\ t[j + 1] \in Cont
          BY <1>3, <3>1, <3>3
        <4>2. i + 1 \in 1 .. n - count + m /\ i + 1 > at + m
          BY <1>1, <2>3, <3>1, <4>1, SMTT(60)
        <4>4. (i + 1) - m + count = j + 1 /\ i < i + 1
          BY <1>1
        <4>5. i < n - count + m
          BY <1>1, <2>3, <3>1, <4>1
        <4>3. u[i + 1] = t[(i + 1) - m + count]
          BY <1>1, <1>2, <4>2
        <4> QED
          BY <4>1, <4>3, <4>4, <4>5
      <3> QED
        BY <3>2, <3>3
    <2> QED
      BY <1>1, <2>1, <2>2, <2>3
  <1>8. Valid(u)
    BY <1>2, <1>7 DEF Valid
  <1> QED
    BY <1>8 DEF u

LEMMA BoundarySplice ==
    ASSUME NEW t \in Seq(Byte), NEW s \in Seq(Byte), Valid(s),
           NEW at \in Nat, NEW count \in Nat, at + count <= Len(t),
           Boundary(t, at), Boundary(t, at + count),
           NEW p \in Nat, Boundary(t, p), NEW right \in BOOLEAN
    PROVE  Boundary(Splice(t, at, count, s), Relocate(p, at, count, Len(s), right))
  <1> DEFINE u == Splice(t, at, count, s)
             n == Len(t)
             m == Len(s)
             q == Relocate(p, at, count, m, right)
  <1>1. n \in Nat /\ m \in Nat
    OBVIOUS
  <1>2. /\ Len(u) = n - count + m
        /\ \A i \in 1 .. n - count + m :
              u[i] = IF i <= at THEN t[i]
                     ELSE IF i <= at + m THEN s[i - at] ELSE t[i - m + count]
    <2>1. /\ Splice(t, at, count, s) \in Seq(Byte)
          /\ Len(Splice(t, at, count, s)) = Len(t) - count + Len(s)
          /\ \A i \in 1 .. Len(t) - count + Len(s) :
                Splice(t, at, count, s)[i] =
                    IF i <= at THEN t[i]
                    ELSE IF i <= at + Len(s) THEN s[i - at]
                    ELSE t[i - Len(s) + count]
      <3> HIDE DEF u, n, m
      <3> QED
        BY SpliceType
    <2> QED
      BY <2>1
  <1>3. 0 < m => s[1] \notin Cont
    BY <1>1 DEF Valid
  <1>4. at + count < n => t[at + count + 1] \notin Cont
    BY DEF Boundary
  <1>5. p <= n /\ (p < n => t[p + 1] \notin Cont)
    BY DEF Boundary
  <1> HIDE DEF u, n, m
  <1>6. at + count <= n
    BY DEF n
  <1>7. CASE p < at
    <2>1. q = p
      BY <1>7 DEF Relocate
    <2>2. p + 1 \in 1 .. n - count + m /\ p + 1 <= at /\ p < n
      BY <1>1, <1>6, <1>7
    <2>3. u[p + 1] = t[p + 1]
      BY <1>2, <2>2
    <2> HIDE DEF q
    <2> QED
      BY <1>1, <1>2, <1>5, <2>1, <2>2, <2>3 DEF Boundary, u, m, q
  <1>a. at + m < n - count + m => u[at + m + 1] \notin Cont
    <2> SUFFICES ASSUME at + m < n - count + m PROVE u[at + m + 1] \notin Cont
      OBVIOUS
    <2>1. /\ at + m + 1 \in 1 .. n - count + m /\ at + m + 1 > at /\ at + m + 1 > at + m
          /\ (at + m + 1) - m + count = at + count + 1 /\ at + count < n
      BY <1>1, <1>6
    <2> QED
      BY <1>1, <1>2, <1>4, <2>1
  <1>8. CASE p = at /\ ~right
    <2>1. q = at
      BY <1>8 DEF Relocate
    <2>2. at <= n - count + m
      BY <1>1, <1>6
    <2>3. at < n - count + m => u[at + 1] \notin Cont
      <3>1. CASE m = 0
        BY <1>a, <3>1
      <3>2. CASE m # 0
        <4>1. at + 1 \in 1 .. n - count + m /\ at + 1 > at /\ at + 1 <= at + m /\ (at + 1) - at = 1
              /\ 0 < m
          BY <1>1, <1>6, <3>2
        <4> QED
          BY <1>2, <1>3, <4>1
      <3> QED
        BY <3>1, <3>2
    <2> HIDE DEF q
    <2> QED
      BY <1>2, <2>1, <2>2, <2>3 DEF Boundary, u, m, q
  <1>9. CASE ~(p < at \/ (p = at /\ ~right)) /\ p <= at + count
    <2>1. q = at + m
      BY <1>9 DEF Relocate
    <2>2. at + m <= n - count + m
      BY <1>1, <1>6
    <2> HIDE DEF q
    <2> QED
      BY <1>2, <1>a, <2>1, <2>2 DEF Boundary, u, m, q
  <1>10. CASE ~(p < at \/ (p = at /\ ~right)) /\ ~(p <= at + count)
    <2>1. q = p - count + m
      BY <1>10 DEF Relocate
    <2>2. p - count + m <= n - count + m
      BY <1>1, <1>5
    <2>3. p - count + m < n - count + m => u[p - count + m + 1] \notin Cont
      <3> SUFFICES ASSUME p - count + m < n - count + m PROVE u[p - count + m + 1] \notin Cont
        OBVIOUS
      <3>1. /\ p - count + m + 1 \in 1 .. n - count + m /\ p - count + m + 1 > at + m
            /\ (p - count + m + 1) - m + count = p + 1 /\ p < n
        BY <1>1, <1>10
      <3>2. u[p - count + m + 1] = t[(p - count + m + 1) - m + count]
        BY <1>1, <1>2, <3>1
      <3> QED
        BY <1>5, <3>1, <3>2
    <2> HIDE DEF q
    <2> QED
      BY <1>2, <2>1, <2>2, <2>3 DEF Boundary, u, m, q
  <1> QED
    BY <1>7, <1>8, <1>9, <1>10

LEMMA ValidSlice ==
    ASSUME NEW s \in Seq(Byte), Valid(s), NEW at \in Nat, NEW n \in Nat, at + n <= Len(s),
           Boundary(s, at), Boundary(s, at + n)
    PROVE  Valid(Slice(s, at, n))
  <1> DEFINE u == Slice(s, at, n)
             m == Len(s)
  <1>1. m \in Nat
    OBVIOUS
  <1>2. Len(u) = n /\ \A i \in 1 .. n : u[i] = s[at + i]
    BY SliceType
  <1>3. /\ \A i \in 1 .. m : s[i] \in Cont => i > 1 /\ s[i - 1] \in Lead
        /\ \A i \in 1 .. m : s[i] \in Lead => i < m /\ s[i + 1] \in Cont
    BY DEF Valid
  <1>4. (at < m => s[at + 1] \notin Cont) /\ (at + n < m => s[at + n + 1] \notin Cont)
    BY DEF Boundary
  <1> HIDE DEF u, m
  <1>5. at + n <= m
    BY DEF m
  <1>6. ASSUME NEW i \in 1 .. n
        PROVE  /\ u[i] \in Cont => i > 1 /\ u[i - 1] \in Lead
               /\ u[i] \in Lead => i < n /\ u[i + 1] \in Cont
    <2>1. at + i \in 1 .. m /\ u[i] = s[at + i]
      BY <1>1, <1>2, <1>5
    <2>2. ASSUME u[i] \in Cont PROVE i > 1 /\ u[i - 1] \in Lead
      <3>1. s[(at + i) - 1] \in Lead /\ s[at + i] \in Cont
        BY <1>3, <2>1, <2>2
      <3>2. i # 1
        BY <1>1, <1>4, <1>5, <3>1
      <3>3. i - 1 \in 1 .. n /\ at + (i - 1) = (at + i) - 1
        BY <3>2
      <3> QED
        BY <1>2, <3>1, <3>3
    <2>3. ASSUME u[i] \in Lead PROVE i < n /\ u[i + 1] \in Cont
      <3>1. at + i < m /\ s[(at + i) + 1] \in Cont
        BY <1>3, <2>1, <2>3
      <3>2. i # n
        BY <1>4, <3>1
      <3>3. i + 1 \in 1 .. n /\ at + (i + 1) = (at + i) + 1
        BY <3>2
      <3> QED
        BY <1>2, <3>1, <3>3
    <2> QED
      BY <2>2, <2>3
  <1>7. Valid(u)
    BY <1>2, <1>6 DEF Valid
  <1> QED
    BY <1>7 DEF u

-----------------------------------------------------------------------------
(***************************************************************************)
(* editor_set_text cuts between characters.                                *)
(***************************************************************************)
LEMMA SetTextCuts ==
    ASSUME text \in Seq(Byte), Valid(text), NEW s \in Seq(Byte), Valid(s),
           NEW h \in 0 .. Len(s), NEW t \in 0 .. Len(s), IsHead(h, s), IsTail(t, h, s)
    PROVE  LET count == Len(text) - h - t
               new == Slice(s, h, Len(s) - h - t)
           IN  /\ count \in Nat /\ new \in Seq(Byte)
               /\ ~BadEdit(h, count, new) /\ Splice(text, h, count, new) = s
  <1> DEFINE n == Len(text)
             m == Len(s)
             count == n - h - t
             k == m - h - t
             new == Slice(s, h, k)
  <1>1. n \in Nat /\ m \in Nat /\ h \in Nat /\ t \in Nat
    OBVIOUS
  <1>2. PICK x \in 0 .. m :
            /\ IsLargest(x, {j \in 0 .. m : j <= n /\ \A i \in 1 .. j : text[i] = s[i]})
            /\ IsLargest(h, {j \in 0 .. x : j = 0 \/ j = m \/ s[j + 1] \notin Cont})
    BY DEF IsHead
  <1>3. /\ x <= n /\ \A i \in 1 .. x : text[i] = s[i]
        /\ h <= x /\ (h = 0 \/ h = m \/ s[h + 1] \notin Cont)
        /\ \A j \in 0 .. x : j = 0 \/ j = m \/ s[j + 1] \notin Cont => j <= h
    BY <1>2 DEF IsLargest
  <1>4. PICK y \in 0 .. m :
            /\ IsLargest(y, {j \in 0 .. m : j <= n - h /\ j <= m - h
                                /\ \A i \in 0 .. j - 1 : text[n - i] = s[m - i]})
            /\ IsLargest(t, {j \in 0 .. y : j = 0 \/ s[m - j + 1] \notin Cont})
    BY DEF IsTail
  <1>5. /\ y <= n - h /\ y <= m - h /\ \A i \in 0 .. y - 1 : text[n - i] = s[m - i]
        /\ t <= y /\ (t = 0 \/ s[m - t + 1] \notin Cont)
    BY <1>4 DEF IsLargest
  <1>6. /\ \A i \in 1 .. n : text[i] \in Cont => i > 1 /\ text[i - 1] \in Lead
        /\ \A i \in 1 .. m : s[i] \in Cont => i > 1 /\ s[i - 1] \in Lead
        /\ \A i \in 1 .. m : s[i] \in Lead => i < m /\ s[i + 1] \in Cont
    BY DEF Valid
  <1> HIDE DEF n, m
  <1>7. /\ count \in Nat /\ k \in Nat /\ h + count = n - t /\ h + k = m - t
        /\ h + count <= n /\ h + k <= m /\ h <= n
    BY <1>1, <1>3, <1>5
  <1>8. Boundary(s, h) /\ Boundary(s, h + k)
    <2>1. h < m => s[h + 1] \notin Cont
      <3>1. CASE h = 0
        <4>1. 0 < m => 1 \in 1 .. m
          BY <1>1
        <4> QED
          BY <1>6, <3>1, <4>1
      <3> QED
        BY <1>3, <3>1
    <2>2. h + k < m => s[h + k + 1] \notin Cont
      BY <1>1, <1>5, <1>7
    <2> QED
      BY <1>1, <1>7, <2>1, <2>2 DEF Boundary, m
  <1>9. new \in Seq(Byte) /\ Len(new) = k /\ \A i \in 1 .. k : new[i] = s[h + i]
    <2>1. h + k <= Len(s)
      BY <1>7 DEF m
    <2> HIDE DEF k
    <2> QED
      BY <1>1, <1>7, <2>1, SliceType
  <1>10. Valid(new)
    <2>1. h + k <= Len(s)
      BY <1>7 DEF m
    <2> HIDE DEF k
    <2> QED
      BY <1>1, <1>7, <1>8, <2>1, ValidSlice
  <1>11. Boundary(text, h)
    <2> SUFFICES ASSUME h < n, text[h + 1] \in Cont PROVE FALSE
      BY <1>7 DEF Boundary, n
    <2>1. h + 1 \in 1 .. n
      BY <1>1
    <2>2. h >= 1 /\ text[h] \in Lead
      <3>1. h + 1 > 1 /\ text[(h + 1) - 1] \in Lead
        BY <1>6, <2>1
      <3> QED
        BY <1>1, <3>1
    <2>3. h \in 1 .. x /\ h \in 1 .. m
      BY <1>1, <1>3, <2>2
    <2>4. s[h] \in Lead
      BY <1>3, <2>2, <2>3
    <2>5. h < m /\ s[h + 1] \in Cont
      BY <1>6, <2>3, <2>4
    <2> QED
      BY <1>1, <1>3, <2>2, <2>5
  <1>12. Boundary(text, h + count)
    <2> SUFFICES ASSUME h + count < n PROVE text[h + count + 1] \notin Cont
      BY <1>7 DEF Boundary, n
    <2>1. t >= 1 /\ t - 1 \in 0 .. y - 1
      BY <1>1, <1>5, <1>7
    <2>2. text[n - (t - 1)] = s[m - (t - 1)]
      BY <1>5, <2>1
    <2>3. n - (t - 1) = h + count + 1 /\ m - (t - 1) = m - t + 1
      BY <1>1, <1>7
    <2> QED
      BY <1>1, <1>5, <2>1, <2>2, <2>3
  <1>13. ~BadEdit(h, count, new)
    <2>1. ~(h > n) /\ ~(count > n - h)
      BY <1>1, <1>7
    <2> HIDE DEF count, new
    <2> QED
      BY <1>10, <1>11, <1>12, <2>1 DEF BadEdit, n
  <1>14. Splice(text, h, count, new) = s
    <2> DEFINE u == Splice(text, h, count, new)
    <2>1. /\ u \in Seq(Byte)
          /\ Len(u) = n - count + k
          /\ \A i \in 1 .. n - count + k :
                u[i] = IF i <= h THEN text[i]
                       ELSE IF i <= h + k THEN new[i - h] ELSE text[i - k + count]
      <3>1. h + count <= Len(text)
        BY <1>7 DEF n
      <3> HIDE DEF count, new
      <3>2. /\ u \in Seq(Byte)
            /\ Len(u) = Len(text) - count + Len(new)
            /\ \A i \in 1 .. Len(text) - count + Len(new) :
                  u[i] = IF i <= h THEN text[i]
                         ELSE IF i <= h + Len(new) THEN new[i - h]
                         ELSE text[i - Len(new) + count]
        <4>1. new \in Seq(Byte) /\ h \in Nat /\ count \in Nat
          BY <1>1, <1>7, <1>9
        <4> HIDE DEF u
        <4>2. /\ Splice(text, h, count, new) \in Seq(Byte)
              /\ Len(Splice(text, h, count, new)) = Len(text) - count + Len(new)
              /\ \A i \in 1 .. Len(text) - count + Len(new) :
                    Splice(text, h, count, new)[i]
                       = IF i <= h THEN text[i]
                         ELSE IF i <= h + Len(new) THEN new[i - h]
                         ELSE text[i - Len(new) + count]
          BY <3>1, <4>1, SpliceType
        <4> QED
          BY <4>2 DEF u
      <3> QED
        BY <1>9, <3>2 DEF n
    <2> HIDE DEF u
    <2>2. n - count + k = m
      BY <1>1
    <2>3. ASSUME NEW i \in 1 .. m PROVE u[i] = s[i]
      <3>1. CASE i <= h
        <4>1. i \in 1 .. x
          BY <1>1, <1>3, <3>1
        <4> QED
          BY <1>3, <2>1, <2>2, <3>1, <4>1
      <3>2. CASE i > h /\ i <= h + k
        <4>1. i - h \in 1 .. k /\ h + (i - h) = i
          BY <1>1, <1>7, <3>2
        <4>2. u[i] = new[i - h]
          <5>1. ~(i <= h)
            BY <1>1, <3>2
          <5> HIDE DEF k, count, new
          <5> QED
            BY <2>1, <2>2, <3>2, <5>1
        <4>3. new[i - h] = s[h + (i - h)]
          BY <1>9, <4>1
        <4> QED
          BY <4>1, <4>2, <4>3
      <3>3. CASE i > h + k
        <4>1. m - i \in 0 .. y - 1 /\ i - k + count = n - (m - i) /\ m - (m - i) = i
          BY <1>1, <1>5, <1>7, <3>3
        <4>2. u[i] = text[i - k + count]
          <5>1. ~(i <= h) /\ ~(i <= h + k)
            BY <1>1, <1>7, <3>3
          <5> HIDE DEF k, count, new
          <5> QED
            BY <2>1, <2>2, <5>1
        <4>3. text[n - (m - i)] = s[m - (m - i)]
          BY <1>5, <4>1
        <4> QED
          BY <4>1, <4>2, <4>3
      <3> QED
        BY <1>1, <1>7, <3>1, <3>2, <3>3
    <2> HIDE DEF k, count
    <2>4. u = s
      BY <2>1, <2>2, <2>3, SeqEqual DEF m
    <2> QED
      BY <2>4 DEF u
  <1> QED
    BY <1>7, <1>9, <1>13, <1>14 DEF n, m

-----------------------------------------------------------------------------
(***************************************************************************)
(* The cursor through edits and undo.  The texts of all versions are       *)
(* valid, and the log holds, on both sides of each edit, places between    *)
(* the characters of the version that is restored with them.               *)
(***************************************************************************)
VersionsValid == \A i \in 0 .. next_state : Valid(versions[i])

CursorLogged(d, vs) ==
    /\ Boundary(vs[d.before_state], d.before_point)
    /\ Boundary(vs[d.before_state], d.before_mark)
    /\ Boundary(vs[d.after_state], d.after_point)
    /\ Boundary(vs[d.after_state], d.after_mark)

CursorsLogged == \A i \in 1 .. Len(history) : CursorLogged(history[i], versions)

CursorInv ==
    /\ VersionsValid
    /\ CursorsLogged
    /\ Boundary(text, point)
    /\ Boundary(text, mark)

LEMMA TextValid == LogInv /\ VersionsValid => Valid(text)
  BY DEF LogInv, TypeOK, StateNamesText, VersionsValid

LEMMA StartBoundary == \A t \in Seq(Byte) : Valid(t) => Boundary(t, 0) /\ Boundary(t, Len(t))
  BY DEF Valid, Boundary

LEMMA RecordCursor ==
    ASSUME LogInv, CursorInv,
           NEW at \in Nat, NEW count \in Nat, NEW s \in Seq(Byte), NEW g \in Nat,
           ~BadEdit(at, count, s), Record(at, count, s, g)
    PROVE  /\ VersionsValid' /\ CursorsLogged'
           /\ Boundary(text', mark')
           /\ Boundary(text', Relocate(point, at, count, Len(s), TRUE))
           /\ Boundary(text', 0)
  <1> DEFINE n == next_state + 1
             u == Splice(text, at, count, s)
             p == Relocate(point, at, count, Len(s), TRUE)
             m == Relocate(mark, at, count, Len(s), FALSE)
             d == NewRecord(at, count, s, g)
  <1>1. /\ text \in Seq(Byte) /\ point \in Nat /\ mark \in Nat
        /\ history \in Seq(Edit) /\ history_pos \in 0 .. Len(history)
        /\ next_state \in Nat /\ state \in 0 .. next_state
        /\ versions \in [0 .. next_state -> Seq(Byte)]
        /\ text = versions[state]
    BY DEF LogInv, TypeOK, StateNamesText
  <1>2. /\ at + count <= Len(text) /\ Boundary(text, at) /\ Boundary(text, at + count)
        /\ Valid(s) /\ Valid(text)
    BY <1>1, TextValid DEF BadEdit, CursorInv
  <1>3. u \in Seq(Byte) /\ Valid(u)
    BY <1>1, <1>2, SpliceType, ValidSplice
  <1>4. Boundary(u, p) /\ Boundary(u, m)
    BY <1>1, <1>2, BoundarySplice DEF CursorInv
  <1>5. /\ text' = u /\ next_state' = n /\ mark' = m
        /\ versions' = [i \in 0 .. n |-> IF i = n THEN u ELSE versions[i]]
    BY DEF Record, NewState
  <1>6. /\ Len(history') = history_pos + 1
        /\ \A i \in 1 .. history_pos : history'[i] = history[i]
        /\ history'[history_pos + 1] = d
    BY <1>2, RecordKept
  <1>7. /\ d.before_state = state /\ d.after_state = n
        /\ d.before_point = point /\ d.after_point = p
        /\ d.before_mark = mark /\ d.after_mark = m
    BY DEF NewRecord
  <1> HIDE DEF d, u, p, m
  <1>8. /\ versions'[n] = u
        /\ \A i \in 0 .. next_state : versions'[i] = versions[i]
    BY <1>1, <1>5
  <1>9. VersionsValid'
    <2> SUFFICES ASSUME NEW i \in 0 .. n PROVE Valid(versions'[i])
      BY <1>5 DEF VersionsValid
    <2>1. i = n \/ i \in 0 .. next_state
      BY <1>1
    <2> QED
      BY <1>3, <1>8, <2>1 DEF CursorInv, VersionsValid
  <1>10. CursorsLogged'
    <2> SUFFICES ASSUME NEW i \in 1 .. Len(history')
                 PROVE  CursorLogged(history'[i], versions')
      BY DEF CursorsLogged
    <2>1. CASE i = history_pos + 1
      <3>1. history'[i] = d /\ versions'[state] = text /\ versions'[n] = u
        BY <1>1, <1>6, <1>8, <2>1
      <3> HIDE DEF n
      <3> QED
        BY <1>4, <1>7, <3>1 DEF CursorLogged, CursorInv
    <2>2. CASE i # history_pos + 1
      <3>1. i \in 1 .. history_pos /\ i \in 1 .. Len(history)
        BY <1>1, <1>6, <2>2
      <3>2. /\ history[i].before_state \in 0 .. next_state
            /\ history[i].after_state \in 0 .. next_state
            /\ history'[i] = history[i]
        BY <1>6, <3>1 DEF LogInv, StatesUsed
      <3>3. CursorLogged(history[i], versions)
        BY <3>1 DEF CursorInv, CursorsLogged
      <3> QED
        BY <1>8, <3>2, <3>3 DEF CursorLogged
    <2> QED
      BY <2>1, <2>2
  <1>11. Boundary(u, 0)
    BY <1>3, StartBoundary
  <1> QED
    BY <1>4, <1>5, <1>9, <1>10, <1>11 DEF p

\* What leaves the versions and the log alone leaves their validity.
LEMMA LogStays ==
    ASSUME CursorInv, UNCHANGED <<history, next_state, versions>>
    PROVE  VersionsValid' /\ CursorsLogged'
  BY DEF CursorInv, VersionsValid, CursorsLogged

LEMMA ReplaceCursor ==
    ASSUME LogInv, CursorInv,
           NEW at \in Nat, NEW count \in Nat, NEW s \in Seq(Byte), NEW g \in Nat,
           Replace(at, count, s, g)
    PROVE  CursorInv'
  <1>1. CASE NoEdit
    <2>1. VersionsValid' /\ CursorsLogged'
      BY <1>1, LogStays DEF NoEdit
    <2> QED
      BY <1>1, <2>1 DEF CursorInv, NoEdit
  <1>2. CASE /\ ~BadEdit(at, count, s)
             /\ Record(at, count, s, g)
             /\ point' = Relocate(point, at, count, Len(s), TRUE)
    BY <1>2, RecordCursor DEF CursorInv
  <1> QED
    BY <1>1, <1>2 DEF Replace

LEMMA UndoEntryCursor ==
    ASSUME LogInv, LogInv', CursorInv, UndoEntry
    PROVE  CursorInv'
  <1>1. /\ history_pos \in 0 .. Len(history)
        /\ loop \in {"idle", "undo", "redo"} /\ loop # "idle" /\ Len(history) \in Nat
    BY DEF LogInv, TypeOK, UndoEntry, Idle
  <1>2. /\ history' = history /\ versions' = versions /\ next_state' = next_state
        /\ text' = versions[state']
    BY DEF UndoEntry, LoopUnchanged, LogInv, StateNamesText
  <1>3. VersionsValid' /\ CursorsLogged'
    BY <1>2, LogStays
  <1>4. Boundary(text', point') /\ Boundary(text', mark')
    <2>1. CASE loop = "undo"
      <3> DEFINE d == history[history_pos]
      <3>1. history_pos \in 1 .. Len(history)
        BY <1>1, <2>1 DEF UndoEntry, InGroup, AtEnd
      <3>2. point' = d.before_point /\ mark' = d.before_mark /\ state' = d.before_state
        BY <2>1 DEF UndoEntry, NextEntry, Restored
      <3>3. CursorLogged(d, versions)
        BY <3>1 DEF CursorInv, CursorsLogged
      <3> QED
        BY <1>2, <3>2, <3>3 DEF CursorLogged
    <2>2. CASE loop = "redo"
      <3> DEFINE d == history[history_pos + 1]
      <3>1. history_pos + 1 \in 1 .. Len(history)
        BY <1>1, <2>2 DEF UndoEntry, InGroup, AtEnd
      <3>2. point' = d.after_point /\ mark' = d.after_mark /\ state' = d.after_state
        BY <2>2 DEF UndoEntry, NextEntry, Restored
      <3>3. CursorLogged(d, versions)
        BY <3>1 DEF CursorInv, CursorsLogged
      <3> QED
        BY <1>2, <3>2, <3>3 DEF CursorLogged
    <2> QED
      BY <1>1, <2>1, <2>2
  <1> QED
    BY <1>3, <1>4 DEF CursorInv

LEMMA CursorInvInit == Init => CursorInv
  <1> SUFFICES ASSUME Init PROVE CursorInv
    OBVIOUS
  <1>1. Boundary(Original, 0) /\ Valid(Original)
    BY InputAssumption, StartBoundary
  <1>2. /\ text = Original /\ point = 0 /\ mark = 0 /\ history = <<>> /\ next_state = 0
        /\ versions = [i \in 0 .. 0 |-> Original]
    BY DEF Init
  <1>3. VersionsValid
    BY <1>1, <1>2 DEF VersionsValid
  <1>4. CursorsLogged
    BY <1>2 DEF CursorsLogged
  <1> QED
    BY <1>1, <1>2, <1>3, <1>4 DEF CursorInv

LEMMA CursorInvNext == LogInv /\ LogInv' /\ CursorInv /\ [Next]_vars => CursorInv'
  <1> SUFFICES ASSUME LogInv, LogInv', CursorInv, [Next]_vars PROVE CursorInv'
    OBVIOUS
  <1>0. text \in Seq(Byte) /\ Valid(text)
    BY TextValid DEF LogInv, TypeOK, CursorInv
  <1>g. \A g \in Groups : g \in Nat
    BY DEF Groups, LogInv, TypeOK
  <1>1. ASSUME NEW at \in 0 .. MaxSize, NEW count \in 0 .. MaxSize, NEW s \in Inputs,
               EditBytes(at, count, s)
        PROVE  CursorInv'
    <2>1. at \in Nat /\ count \in Nat /\ s \in Seq(Byte)
      BY InputAssumption
    <2>2. PICK g \in Groups : Replace(at, count, s, g)
      BY <1>1 DEF EditBytes
    <2> QED
      BY <1>g, <2>1, <2>2, ReplaceCursor
  <1>2. ASSUME NEW s \in Inputs, ClientSetText(s) PROVE CursorInv'
    <2>1. PICK g \in Groups : SetText(s, g)
      BY <1>2 DEF ClientSetText
    <2>2. CASE NoEdit
      <3>1. VersionsValid' /\ CursorsLogged'
        BY <2>2, LogStays DEF NoEdit
      <3> QED
        BY <2>2, <3>1 DEF CursorInv, NoEdit
    <2>3. CASE \E h, t \in 0 .. Len(s) :
                  /\ IsHead(h, s)
                  /\ IsTail(t, h, s)
                  /\ Replace(h, Len(text) - h - t, Slice(s, h, Len(s) - h - t), g)
      <3>1. PICK h \in 0 .. Len(s), t \in 0 .. Len(s) :
               /\ IsHead(h, s)
               /\ IsTail(t, h, s)
               /\ Replace(h, Len(text) - h - t, Slice(s, h, Len(s) - h - t), g)
        BY <2>3
      <3> DEFINE c == Len(text) - h - t
                 r == Slice(s, h, Len(s) - h - t)
      <3>2. s \in Seq(Byte) /\ h \in Nat
        BY InputAssumption
      <3>3. c \in Nat /\ r \in Seq(Byte)
        BY <3>1, <3>2, SetTextInside
      <3>4. Replace(h, c, r, g)
        BY <3>1
      <3> HIDE DEF c, r
      <3> QED
        BY <1>g, <3>2, <3>3, <3>4, ReplaceCursor
    <2> QED
      BY <2>1, <2>2, <2>3 DEF SetText
  <1>3. ASSUME NEW s \in Inputs, ShowText(s) PROVE CursorInv'
    <2>1. PICK g \in Groups :
             IF s = text
             THEN UNCHANGED <<text, mark, history, history_pos, state, next_state, versions>>
             ELSE \E h, t \in 0 .. Len(s) :
                     /\ IsHead(h, s)
                     /\ IsTail(t, h, s)
                     /\ Record(h, Len(text) - h - t, Slice(s, h, Len(s) - h - t), g)
      BY <1>3 DEF ShowText
    <2>2. point' = 0 /\ Valid(s) /\ s \in Seq(Byte)
      BY <1>3, InputAssumption DEF ShowText
    <2>3. CASE s = text
      <3>1. UNCHANGED <<text, mark, history, next_state, versions>>
        BY <2>1, <2>3
      <3>2. VersionsValid' /\ CursorsLogged' /\ Boundary(text, 0)
        BY <1>0, <3>1, LogStays, StartBoundary
      <3> QED
        BY <2>2, <3>1, <3>2 DEF CursorInv
    <2>4. CASE s # text
      <3>1. PICK h \in 0 .. Len(s), t \in 0 .. Len(s) :
               /\ IsHead(h, s)
               /\ IsTail(t, h, s)
               /\ Record(h, Len(text) - h - t, Slice(s, h, Len(s) - h - t), g)
        BY <2>1, <2>4
      <3> DEFINE c == Len(text) - h - t
                 r == Slice(s, h, Len(s) - h - t)
      <3>2. h \in Nat /\ c \in Nat /\ r \in Seq(Byte) /\ ~BadEdit(h, c, r)
        BY <1>0, <2>2, <3>1, SetTextCuts
      <3>3. Record(h, c, r, g)
        BY <3>1
      <3> HIDE DEF c, r
      <3>4. /\ VersionsValid' /\ CursorsLogged'
            /\ Boundary(text', mark') /\ Boundary(text', 0)
        BY <1>g, <3>2, <3>3, RecordCursor
      <3> QED
        BY <2>2, <3>4 DEF CursorInv
    <2> QED
      BY <2>3, <2>4
  <1>4. ASSUME CursorCommand, Boundary(text, point'), Boundary(text, mark')
        PROVE  CursorInv'
    <2>1. UNCHANGED <<text, history, next_state, versions>>
      BY <1>4 DEF CursorCommand, Contents
    <2>2. VersionsValid' /\ CursorsLogged'
      BY <2>1, LogStays
    <2> QED
      BY <1>4, <2>1, <2>2 DEF CursorInv
  <1>5. ASSUME NEW p \in Positions, MovePoint(p) PROVE CursorInv'
    BY <1>4, <1>5 DEF MovePoint, CursorInv
  <1>6. CASE SetMark
    BY <1>4, <1>6 DEF SetMark, CursorInv
  <1>7. CASE ExchangePointAndMark
    BY <1>4, <1>7 DEF ExchangePointAndMark, CursorInv
  <1>8. CASE MarkWholeBuffer
    BY <1>0, <1>4, <1>8, StartBoundary DEF MarkWholeBuffer
  <1>9. CASE ToggleReadOnly
    BY <1>4, <1>9 DEF ToggleReadOnly, CursorInv
  <1>10. ASSUME UNCHANGED <<text, point, mark, history, next_state, versions>>
         PROVE  CursorInv'
    BY <1>10, LogStays DEF CursorInv
  <1>11. CASE Saved
    BY <1>10, <1>11 DEF Saved
  <1>12. ASSUME NEW dir \in {"undo", "redo"}, NEW n \in Counts, BeginUndo(dir, n)
         PROVE  CursorInv'
    BY <1>10, <1>12 DEF BeginUndo, LoopUnchanged
  <1>13. CASE NextGroup
    BY <1>10, <1>13 DEF NextGroup, LoopUnchanged
  <1>14. CASE UndoEntry
    BY <1>14, UndoEntryCursor
  <1>15. CASE EndUndo
    BY <1>10, <1>15 DEF EndUndo, LoopUnchanged
  <1>16. ASSUME NEW s \in Inputs, LogText(s) PROVE CursorInv'
    <2>1. /\ s \in Seq(Byte) /\ Valid(s) /\ text' = s /\ point' = 0 /\ mark' = 0
          /\ history' = <<>> /\ next_state' = next_state + 1
          /\ versions' = [i \in 0 .. next_state + 1 |-> IF i = next_state + 1 THEN s ELSE versions[i]]
      BY <1>16, InputAssumption DEF LogText, NewState
    <2>2. Boundary(s, 0)
      BY <2>1, StartBoundary
    <2>3. next_state \in Nat
      BY DEF LogInv, TypeOK
    <2>4. VersionsValid'
      <3> SUFFICES ASSUME NEW i \in 0 .. next_state + 1 PROVE Valid(versions'[i])
        BY <2>1 DEF VersionsValid
      <3>1. i = next_state + 1 \/ i \in 0 .. next_state
        BY <2>3
      <3>2. versions'[i] = IF i = next_state + 1 THEN s ELSE versions[i]
        BY <2>1
      <3> QED
        BY <2>1, <3>1, <3>2 DEF CursorInv, VersionsValid
    <2>5. CursorsLogged'
      BY <2>1 DEF CursorsLogged
    <2> QED
      BY <2>1, <2>2, <2>4, <2>5 DEF CursorInv
  <1>17. CASE UNCHANGED vars
    BY <1>10, <1>17 DEF vars
  <1> QED
    BY <1>1, <1>2, <1>3, <1>5, <1>6, <1>7, <1>8, <1>9, <1>11, <1>12, <1>13, <1>14,
       <1>15, <1>16, <1>17
    DEF Next

\* Point and mark never leave the text nor split a character, and the text is
\* valid, through every mixture of edits, undo and redo.
THEOREM CursorStaysOnBoundary == Spec => []CursorOnBoundary
  <1>1. LogInv /\ CursorInv => CursorOnBoundary
    BY TextValid DEF CursorInv, CursorOnBoundary
  <1> QED
    BY <1>1, CursorInvInit, CursorInvNext, LogInvariant, PTL DEF Spec

\* set_text of a valid string takes, whatever the text has become.
THEOREM SetTextAlwaysTakes == Spec => []SetTextTakes
  <1>1. LogInv /\ CursorInv => SetTextTakes
    <2> SUFFICES ASSUME LogInv, CursorInv, NEW s \in Inputs, Valid(s),
                        NEW h \in 0 .. Len(s), IsHead(h, s),
                        NEW t \in 0 .. Len(s), IsTail(t, h, s)
                 PROVE  LET count == Len(text) - h - t
                            new == Slice(s, h, Len(s) - h - t)
                        IN  ~BadEdit(h, count, new) /\ Splice(text, h, count, new) = s
      BY DEF SetTextTakes
    <2>1. text \in Seq(Byte) /\ Valid(text) /\ s \in Seq(Byte)
      BY InputAssumption, TextValid DEF LogInv, TypeOK, CursorInv
    <2> QED
      BY <2>1, SetTextCuts
  <1> QED
    BY <1>1, CursorInvInit, CursorInvNext, LogInvariant, PTL DEF Spec

-----------------------------------------------------------------------------
(***************************************************************************)
(* Undo in units of commands.  Inside the loop the log is between two      *)
(* commands, or in one whose entries the loop will go on with.             *)
(***************************************************************************)
BetweenCommands ==
    history_pos \in 1 .. Len(history) - 1 =>
        history[history_pos].group # history[history_pos + 1].group

GroupInv == BetweenCommands \/ (~Idle /\ InGroup)

LEMMA RecordEnds ==
    ASSUME LogInv',  history_pos' = Len(history')
    PROVE  BetweenCommands'
  BY DEF LogInv, TypeOK, BetweenCommands

LEMMA GroupInvNext == LogInv /\ LogInv' /\ GroupInv /\ [Next]_vars => GroupInv'
  <1> SUFFICES ASSUME LogInv, LogInv', GroupInv, [Next]_vars PROVE GroupInv'
    OBVIOUS
  <1>0. /\ history \in Seq(Edit) /\ history_pos \in 0 .. Len(history) /\ Len(history) \in Nat
        /\ loop \in {"idle", "undo", "redo"}
    BY DEF LogInv, TypeOK
  <1>1. Idle => BetweenCommands
    BY DEF GroupInv
  <1>2. ASSUME Idle, UNCHANGED <<history, history_pos>> PROVE GroupInv'
    BY <1>1, <1>2 DEF GroupInv, BetweenCommands
  <1>3. ASSUME Idle, NEW at, NEW count, NEW s, NEW g, Replace(at, count, s, g) PROVE GroupInv'
    <2>1. CASE NoEdit
      BY <1>2, <1>3, <2>1 DEF NoEdit
    <2>2. CASE Record(at, count, s, g)
      BY <2>2, RecordEnds DEF Record, GroupInv
    <2> QED
      BY <1>3, <2>1, <2>2 DEF Replace
  <1>4. ASSUME NEW at \in 0 .. MaxSize, NEW count \in 0 .. MaxSize, NEW s \in Inputs,
               EditBytes(at, count, s)
        PROVE  GroupInv'
    BY <1>3, <1>4 DEF EditBytes
  <1>5. ASSUME NEW s \in Inputs, ClientSetText(s) PROVE GroupInv'
    <2>1. PICK g \in Groups : SetText(s, g)
      BY <1>5 DEF ClientSetText
    <2>2. Idle
      BY <1>5 DEF ClientSetText
    <2>3. CASE NoEdit
      BY <1>2, <2>2, <2>3 DEF NoEdit
    <2> QED
      BY <1>3, <2>1, <2>2, <2>3 DEF SetText
  <1>6. ASSUME NEW s \in Inputs, ShowText(s) PROVE GroupInv'
    <2>1. CASE history_pos' = Len(history')
      BY <2>1, RecordEnds DEF GroupInv
    <2>2. CASE UNCHANGED <<history, history_pos>>
      BY <1>2, <1>6, <2>2 DEF ShowText
    <2> QED
      BY <1>6, <2>1, <2>2 DEF ShowText, Record
  <1>7. ASSUME NEW s \in Inputs, LogText(s) PROVE GroupInv'
    BY <1>7, RecordEnds DEF LogText, GroupInv
  <1>8. ASSUME CursorCommand PROVE GroupInv'
    BY <1>2, <1>8 DEF CursorCommand, Contents
  <1>9. CASE Saved
    BY <1>2, <1>9 DEF Saved
  <1>10. ASSUME NEW dir \in {"undo", "redo"}, NEW n \in Counts, BeginUndo(dir, n)
         PROVE  GroupInv'
    BY <1>2, <1>10 DEF BeginUndo, LoopUnchanged
  <1>11. CASE NextGroup
    <2>1. ~Idle /\ ~AtEnd /\ loop_group' = NextEntry.group
      BY <1>11 DEF NextGroup
    <2>2. UNCHANGED <<history, history_pos, loop>>
      BY <1>11 DEF NextGroup, LoopUnchanged
    <2>3. (~Idle /\ InGroup)'
      BY <2>1, <2>2 DEF Idle, InGroup, AtEnd, NextEntry
    <2> QED
      BY <2>3 DEF GroupInv
  <1>12. CASE UndoEntry
    <2>1. ~Idle /\ ~AtEnd /\ NextEntry.group = loop_group
      BY <1>12 DEF UndoEntry, InGroup
    <2>2. UNCHANGED <<history, loop, loop_group>>
      BY <1>12 DEF UndoEntry, LoopUnchanged
    <2>3. CASE loop = "undo"
      <3>1. history_pos' = history_pos - 1 /\ history_pos # 0
        BY <1>12, <2>1, <2>3 DEF UndoEntry, AtEnd
      <3>2. history[history_pos' + 1].group = loop_group
        BY <1>0, <2>1, <2>3, <3>1 DEF NextEntry
      <3>3. CASE history_pos' # 0 /\ history[history_pos'].group = loop_group
        BY <2>2, <2>3, <3>3 DEF GroupInv, Idle, InGroup, AtEnd, NextEntry
      <3>4. CASE history_pos' = 0 \/ history[history_pos'].group # loop_group
        BY <2>2, <3>2, <3>4 DEF GroupInv, BetweenCommands
      <3> QED
        BY <3>3, <3>4
    <2>4. CASE loop = "redo"
      <3>1. history_pos' = history_pos + 1 /\ history_pos # Len(history)
        BY <1>12, <2>1, <2>4 DEF UndoEntry, AtEnd
      <3>2. history[history_pos'].group = loop_group
        BY <2>1, <2>4, <3>1 DEF NextEntry
      <3>3. CASE history_pos' # Len(history) /\ history[history_pos' + 1].group = loop_group
        BY <2>2, <2>4, <3>3 DEF GroupInv, Idle, InGroup, AtEnd, NextEntry
      <3>4. CASE history_pos' = Len(history) \/ history[history_pos' + 1].group # loop_group
        BY <1>0, <2>2, <3>2, <3>4 DEF GroupInv, BetweenCommands
      <3> QED
        BY <3>3, <3>4
    <2> QED
      BY <1>0, <2>1, <2>3, <2>4 DEF Idle
  <1>13. CASE EndUndo
    <2>1. ~InGroup /\ UNCHANGED <<history, history_pos>>
      BY <1>13 DEF EndUndo, LoopDone, LoopUnchanged
    <2> QED
      BY <2>1 DEF GroupInv, BetweenCommands
  <1>14. CASE UNCHANGED vars
    BY <1>14 DEF vars, GroupInv, BetweenCommands, Idle, InGroup, AtEnd, NextEntry
  <1> QED
    BY <1>4, <1>5, <1>6, <1>7, <1>8, <1>9, <1>10, <1>11, <1>12, <1>13, <1>14
    DEF Next, MovePoint, SetMark, ExchangePointAndMark, MarkWholeBuffer, ToggleReadOnly

\* Undo and redo stop only between commands, for every count and direction.
THEOREM UndoStopsBetweenCommands == Spec => []UndoIsPerCommand
  <1>1. Init => GroupInv
    BY DEF Init, GroupInv, BetweenCommands
  <1>2. GroupInv => UndoIsPerCommand
    BY DEF GroupInv, BetweenCommands, UndoIsPerCommand
  <1> QED
    BY <1>1, <1>2, GroupInvNext, LogInvariant, PTL DEF Spec

=============================================================================
