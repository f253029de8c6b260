--------------------------- MODULE TerminalProofs ---------------------------
(***************************************************************************)
(* Proofs about Terminal: for any height, any bounds and any keys and      *)
(* pastes that IsKey and IsPasted describe, a terminal of which only       *)
(* changed rows are written shows what the editor holds, and what was      *)
(* typed is what the editor executes.                                      *)
(***************************************************************************)
EXTENDS Terminal, SequenceTheorems, WellFoundedInduction, TLAPS

Reading == {"esc", "seq", "paste", "utf8"}
Over == {"close", "reap", "done"}

\* The two processes take turns: from a request to its response the frontend
\* waits, and at any other time nothing is on its way between them.
Turns ==
    /\ pc \in Reading \cup {"head", "poll", "write"} => pipe = None /\ response = None
    /\ pc = "newline" => pipe # None /\ ~pipe.ended /\ response = None
    /\ pc = "wait" => pipe = None \/ response = None
    /\ pc \in Over => pipe = None \/ backend = "gone"

\* The bytes read so far are kept from one byte to the next of the same event only.
Keeps ==
    /\ pc \notin {"seq", "paste", "utf8"} => held = <<>>
    /\ pc = "utf8" => held = <<LEAD>>

\* A state of the editor has been answered and not been drawn yet.
StateOnItsWay == response # None /\ response.rows # None

\* The cache holds what the editor held when it was last drawn; until a state
\* that was answered is drawn, that is what it holds now.
Drawn ==
    /\ intact => old = Clamp(size) /\ Shows(cache)
    /\ pc \notin Over /\ ~StateOnItsWay => cache = Content(executed, old)
    /\ StateOnItsWay => response.rows = Content(executed, Clamp(asked))

\* Shows, of a screen of height h.
ShownOn(shown, h, rows) ==
    \A at \in 1 .. h :
        IF at > Len(rows) THEN shown[at] = None
        ELSE IF at < h THEN shown[at] = rows[at]
        ELSE \E r \in at .. Len(rows) : shown[at] = rows[r]

TurnInv == TypeOK /\ Turns /\ Keeps
DrawInv == TurnInv /\ Drawn
-----------------------------------------------------------------------------
(***************************************************************************)
(* Types, and whose turn it is.                                            *)
(***************************************************************************)

LEMMA GreatestExists ==
    ASSUME NEW n \in Nat, NEW T, T \subseteq 1 .. n, T # {}
    PROVE  Max(T) \in T
<1> DEFINE I == {i \in 0 .. n : n - i \in T}
<1>1. I \subseteq Nat /\ I # {}
  <2>1. PICK t \in T : TRUE
    OBVIOUS
  <2>2. n - t \in 0 .. n /\ n - (n - t) = t
    BY <2>1
  <2>3. n - t \in I
    BY <2>1, <2>2
  <2>4. I \subseteq Nat
    OBVIOUS
  <2> QED
    BY <2>3, <2>4
<1>2. PICK m \in I : \A i \in I : m <= i
  <2> DEFINE R == OpToRel(<, Nat)
  <2>1. \A i, m \in Nat : i < m => <<i, m>> \in R
    BY DEF OpToRel
  <2>2. IsWellFoundedOn(R, Nat)
    BY NatLessThanWellFounded
  <2> HIDE DEF R, I
  <2>3. PICK m \in I : \A i \in I : ~(<<i, m>> \in R)
    BY <1>1, <2>2, WFMin
  <2>4. \A i \in I : ~(i < m)
    BY <1>1, <2>1, <2>3
  <2> QED
    BY <1>1, <2>3, <2>4
<1>3. n - m \in T
  BY <1>2
<1>4. ASSUME NEW t \in T PROVE n - m >= t
  <2>1. n - t \in 0 .. n /\ n - (n - t) = t
    BY <1>4
  <2>2. n - t \in I
    BY <1>4, <2>1
  <2>3. m <= n - t /\ m \in Nat /\ t \in Nat
    BY <1>2, <1>4, <2>2
  <2> QED
    BY <2>3
<1> HIDE DEF I
<1> QED
  BY <1>3, <1>4 DEF Max

LEMMA EventFacts ==
    ASSUME NEW e \in Events
    PROVE  /\ e \in Request /\ e # Snapshot /\ e.data \in Seq(Symbols)
           /\ e.op \in {"key", "insert"}
<1>1. e \in Request /\ e.op \in {"key", "insert"}
  BY EventAssumption
<1> QED
  BY <1>1 DEF Request, Snapshot

LEMMA SymbolFacts ==
    /\ {ESC, LEAD, CONT, "[", "O", "200", "201", "~", "M-", "<up>", "<unknown>"} \subseteq Symbols
    /\ EndMark \in Seq(Symbols) /\ Len(EndMark) = 4
<1>1. {ESC, LEAD, CONT, "[", "O", "200", "201", "~", "M-", "<up>", "<unknown>"} \subseteq Symbols
  BY SymbolAssumption DEF Final
<1>2. \A a, b, c, d \in Symbols : <<a, b, c, d>> \in Seq(Symbols) /\ Len(<<a, b, c, d>>) = 4
  OBVIOUS
<1> QED
  BY <1>1, <1>2 DEF EndMark

LEMMA RequestFacts ==
    ASSUME NEW s \in Seq(Symbols)
    PROVE  Key(s) \in Request /\ Insert(s) \in Request /\ Snapshot \in Request
<1>1. <<>> \in Seq(Symbols)
  OBVIOUS
<1> QED
  BY <1>1 DEF Key, Insert, Snapshot, Request

LEMMA ContentFacts ==
    ASSUME NEW done \in Seq(Request), NEW n \in Nat
    PROVE  Content(done, n) \in Seq(Request) /\ Len(Content(done, n)) = n
<1>1. Snapshot \in Request
  BY RequestFacts, EmptySeq
<1>2. ASSUME NEW r \in 1 .. n, r <= Len(done) PROVE done[Len(done) - r + 1] \in Request
  <2>1. Len(done) - r + 1 \in 1 .. Len(done)
    BY <1>2, LenProperties
  <2> QED
    BY <2>1, ElementOfSeq
<1>3. Content(done, n) \in [1 .. n -> Request]
  BY <1>1, <1>2 DEF Content
<1> QED
  BY <1>3

LEMMA ClampFacts ==
    ASSUME NEW n \in Sizes
    PROVE  Clamp(n) \in MinRows .. MaxRows /\ Clamp(n) \in Nat \ {0}
BY TerminalAssumption DEF Clamp

LEMMA TakenByte ==
    ASSUME NEW s \in Seq(Symbols), s # <<>>
    PROVE  /\ Head(s) \in Symbols /\ Tail(s) \in Seq(Symbols) /\ Len(Tail(s)) = Len(s) - 1
           /\ Len(s) \in Nat \ {0}
  OBVIOUS

LEMMA BytesFacts ==
    ASSUME NEW e \in Events
    PROVE  Bytes(e) \in Seq(Symbols) /\ Bytes(e) # <<>>
<1>1. e.data \in Seq(Symbols)
  BY EventFacts
<1>2. CASE e.op = "insert"
  <2>1. <<ESC, "[", "200", "~">> \in Seq(Symbols) /\ EndMark \in Seq(Symbols)
    BY SymbolFacts
  <2>2. Len(<<ESC, "[", "200", "~">>) = 4
    OBVIOUS
  <2> DEFINE p == <<ESC, "[", "200", "~">>
  <2> HIDE DEF p
  <2>3. p \o e.data \in Seq(Symbols) /\ Len(p \o e.data) = Len(p) + Len(e.data)
    BY <1>1, <2>1, ConcatProperties DEF p
  <2>4. (p \o e.data) \o EndMark \in Seq(Symbols) /\ Len((p \o e.data) \o EndMark) >= 4
    BY <1>1, <2>1, <2>2, <2>3, ConcatProperties DEF p
  <2>5. Bytes(e) = (p \o e.data) \o EndMark
    BY <1>2 DEF Bytes, p
  <2>6. Len(<<>>) = 0
    OBVIOUS
  <2> QED
    BY <2>4, <2>5, <2>6
<1>3. CASE e.op # "insert"
  <2>1. e.op = "key" /\ IsKey(e.data)
    BY <1>3, EventAssumption, EventFacts
  <2>2. Len(e.data) \in {1, 2}
    BY <2>1 DEF IsKey
  <2>3. CASE e.data = <<"<up>">>
    <3>1. <<ESC, "[", "A">> \in Seq(Symbols)
      BY SymbolFacts, SymbolAssumption DEF Final
    <3> QED
      BY <1>3, <2>3, <3>1 DEF Bytes
  <2>4. CASE e.data # <<"<up>">> /\ e.data[1] = "M-"
    <3>1. Tail(e.data) \in Seq(Symbols)
      BY <1>1, <2>2, TakenByte
    <3>2. <<ESC>> \in Seq(Symbols) /\ Len(<<ESC>>) = 1
      BY SymbolFacts
    <3>3. <<ESC>> \o Tail(e.data) \in Seq(Symbols) /\ Len(<<ESC>> \o Tail(e.data)) >= 1
      BY <3>1, <3>2
    <3>4. Bytes(e) = <<ESC>> \o Tail(e.data)
      BY <1>3, <2>4 DEF Bytes
    <3> QED
      BY <3>3, <3>4
  <2>5. CASE e.data # <<"<up>">> /\ e.data[1] # "M-"
    BY <1>1, <1>3, <2>2, <2>5 DEF Bytes
  <2> QED
    BY <2>3, <2>4, <2>5
<1> QED
  BY <1>2, <1>3

LEMMA TurnInit == Init => TurnInv
<1> SUFFICES ASSUME Init PROVE TurnInv
  OBVIOUS
<1>1. Snapshot \in Request
  BY RequestFacts, EmptySeq
<1>2. /\ transit \in Seq(Symbols) /\ input \in Seq(Symbols) /\ Len(input) <= 1
      /\ typed \in Seq(Events) /\ executed \in Seq(Request) /\ held \in Seq(Symbols)
  BY DEF Init
<1>3. cache \in Seq(Request) /\ Len(cache) = old
  BY EmptySeq DEF Init
<1>4. screen \in [1 .. size -> Request \cup {None}]
  BY DEF Init
<1>5. Len(held) = 0
  BY DEF Init
<1>6. happened \in 0 .. MaxHappens
  BY TerminalAssumption DEF Init
<1>7. TypeOK
  BY <1>1, <1>2, <1>3, <1>4, <1>5, <1>6, TerminalAssumption DEF Init, TypeOK
<1> QED
  BY <1>7 DEF Init, TurnInv, Turns, Keeps, Reading, Over

\* What was read is of its type, and so is what it is taken for.
LEMMA ReadFacts ==
    ASSUME TypeOK, NEW over \in BOOLEAN, NEW e \in Request, Read(over, e)
    PROVE  request' \in Request
BY RequestFacts, EmptySeq DEF Read

\* A byte is read: what it does besides is the same for all of them.
LEMMA GotFacts ==
    ASSUME TypeOK, NEW c, NEW at, Got(c, at)
    PROVE  /\ c \in Symbols /\ input' = <<>> /\ Len(input') = 0 /\ Len(input) = 1
           /\ input' \in Seq(Symbols) /\ c = Head(input)
<1>1. input \in Seq(Symbols) /\ Len(input) <= 1 /\ input # <<>>
  BY DEF Got, TypeOK
<1>2. /\ Tail(input) \in Seq(Symbols) /\ Len(Tail(input)) = 0
      /\ Head(input) \in Symbols /\ Len(input) = 1
  <2>1. /\ Head(input) \in Symbols /\ Tail(input) \in Seq(Symbols)
        /\ Len(Tail(input)) = Len(input) - 1 /\ Len(input) \in Nat \ {0}
    BY <1>1, TakenByte
  <2> QED
    BY <1>1, <2>1
<1>3. Tail(input) = <<>>
  BY <1>2, EmptySeq
<1> QED
  BY <1>2, <1>3 DEF Got

LEMMA TimedOutStep ==
    ASSUME TurnInv, NEW e \in Request, TimedOut(e), pc \in Reading \cup {"poll"}
    PROVE  TurnInv'
<1> USE DEF TurnInv
<1>1. /\ held' = <<>> /\ held' \in Seq(Symbols) /\ Len(held') = 0 /\ request' = e
      /\ intro' = None /\ pc' = "write"
  BY DEF TimedOut
<1>2. happened' \in 0 .. MaxHappens /\ damaged' \in BOOLEAN
  <2>1. Len(typed) \in Nat /\ MaxHappens \in Nat /\ happened \in 0 .. MaxHappens
    BY TerminalAssumption DEF TypeOK
  <2> QED
    <3>1. CASE transit # <<>> /\ pc # "poll"
      BY <2>1, <3>1 DEF TimedOut, Happens, MayHappen
    <3>2. CASE ~(transit # <<>> /\ pc # "poll")
      BY <2>1, <3>2 DEF TimedOut, TypeOK
    <3> QED
      BY <3>1, <3>2
<1>3. TypeOK'
  BY <1>1, <1>2 DEF TimedOut, TypeOK, transport, editor, signals, display
<1> QED
  BY <1>1, <1>3 DEF TimedOut, Turns, Keeps, transport, Reading, Over

LEMMA LineStep ==
    ASSUME TurnInv, \/ \E e \in Events : Type(e)
                    \/ Arrive \/ Lose \/ HangUp
    PROVE  TurnInv'
<1> USE DEF TurnInv
<1> DEFINE Same == UNCHANGED <<pc, reading, transport, editor, display, size, asked>>
<1>1. /\ transit \in Seq(Symbols) /\ input \in Seq(Symbols) /\ Len(input) <= 1
      /\ typed \in Seq(Events) /\ happened \in 0 .. MaxHappens /\ MaxHappens \in Nat
  BY TerminalAssumption DEF TypeOK
<1>2. /\ Same
      /\ transit' \in Seq(Symbols) /\ input' \in Seq(Symbols) /\ Len(input') <= 1
      /\ typed' \in Seq(Events) /\ happened' \in 0 .. MaxHappens
      /\ {damaged', stopping', hungup'} \subseteq BOOLEAN
  <2>1. CASE \E e \in Events : Type(e)
    <3>1. PICK e \in Events : Type(e)
      BY <2>1
    <3>2. transit \o Bytes(e) \in Seq(Symbols)
      BY <1>1, BytesFacts, ConcatProperties
    <3> QED
      BY <1>1, <3>1, <3>2 DEF Type, TypeOK, signals
  <2>2. CASE Arrive
    BY <1>1, <2>2, TakenByte DEF Arrive, TypeOK, signals
  <2>3. CASE Lose
    BY <1>1, <2>3, TakenByte DEF Lose, Happens, MayHappen, TypeOK, signals
  <2>4. CASE HangUp
    BY <1>1, <2>4, EmptySeq DEF HangUp, Happens, MayHappen, TypeOK, signals
  <2> QED
    BY <2>1, <2>2, <2>3, <2>4
<1>3. TypeOK'
  BY <1>2 DEF TypeOK, reading, transport, editor, display
<1> QED
  BY <1>2, <1>3 DEF Turns, Keeps, reading, transport

LEMMA OutsideStep ==
    ASSUME TurnInv, \/ \E n \in Sizes : Resize(n)
                    \/ Signal \/ BackendSignal
    PROVE  TurnInv'
<1> USE DEF TurnInv
<1>1. /\ typed \in Seq(Events) /\ happened \in 0 .. MaxHappens /\ MaxHappens \in Nat
  BY TerminalAssumption DEF TypeOK
<1>2. UNCHANGED <<line, pc, reading, transport, executed, quit, hungup, old, cache, asked>>
  BY DEF Resize, Signal, BackendSignal, signals, editor, display
<1>3. /\ {stopping', interrupted', intact'} \subseteq BOOLEAN /\ size' \in Sizes
      /\ happened' \in 0 .. MaxHappens
  <2>1. {stopping', interrupted', intact'} \subseteq BOOLEAN /\ size' \in Sizes
    BY DEF Resize, Signal, BackendSignal, TypeOK, signals, editor, display
  <2>2. Happens
    BY DEF Resize, Signal, BackendSignal
  <2>3. Len(typed) \in Nat
    BY <1>1
  <2> QED
    BY <1>1, <2>1, <2>2, <2>3 DEF Happens, MayHappen
<1>4. screen' \in [1 .. size' -> Request \cup {None}]
  BY DEF Resize, Signal, BackendSignal, TypeOK, display
<1>5. TypeOK'
  BY <1>2, <1>3, <1>4 DEF TypeOK, line, reading, transport
<1> QED
  BY <1>2, <1>5 DEF Turns, Keeps, reading, transport

LEMMA ReadStep ==
    ASSUME TurnInv, ReadEvent
    PROVE  TurnInv'
<1> USE DEF TurnInv
<1>1. CASE FirstByte
  <2> DEFINE c == Head(input)
             at == CASE c = ESC -> "esc" [] c = LEAD -> "utf8" [] OTHER -> "write"
  <2>1. pc = "poll" /\ Got(c, at) /\ Read(c \notin {ESC, LEAD}, Key(<<c>>))
    BY <1>1 DEF FirstByte
  <2>2. /\ c \in Symbols /\ input' = <<>> /\ Len(input') = 0 /\ input' \in Seq(Symbols)
    BY <2>1, GotFacts
  <2>3. at \in {"esc", "utf8", "write"} /\ (at = "utf8" <=> c = LEAD)
    BY DEF ESC, LEAD
  <2>4. <<c>> \in Seq(Symbols)
    BY <2>2
  <2>5. request' \in Request
    BY <2>1, <2>4, RequestFacts, ReadFacts
  <2>6. /\ held' = (IF c = LEAD THEN <<c>> ELSE <<>>) /\ intro' = intro
    BY <1>1 DEF FirstByte
  <2>7. held' \in Seq(Symbols)
    BY <2>4, <2>6, EmptySeq
  <2> HIDE DEF c, at
  <2>8. TypeOK'
    BY <2>1, <2>2, <2>3, <2>5, <2>6, <2>7
       DEF Got, TypeOK, transport, editor, signals, display
  <2> QED
    BY <2>1, <2>3, <2>6, <2>8 DEF Got, Turns, Keeps, transport, Reading, Over
<1>2. CASE EscByte
  <2> DEFINE c == Head(input)
             at == IF c \in {"[", "O"} THEN "seq" ELSE "write"
  <2>1. pc = "esc" /\ Got(c, at) /\ Read(c \notin {"[", "O"}, Key(<<"M-", c>>))
    BY <1>2 DEF EscByte
  <2>2. /\ c \in Symbols /\ input' = <<>> /\ Len(input') = 0 /\ input' \in Seq(Symbols)
    BY <2>1, GotFacts
  <2>3. at \in {"seq", "write"}
    OBVIOUS
  <2>4. <<"M-", c>> \in Seq(Symbols)
    BY <2>2, SymbolFacts
  <2>5. request' \in Request
    BY <2>1, <2>4, RequestFacts, ReadFacts
  <2>6. /\ held' = held /\ held = <<>> /\ intro' \in Symbols \cup {None}
    <3>1. held' = held /\ intro' = (IF c \in {"[", "O"} THEN c ELSE None)
      BY <1>2 DEF EscByte
    <3> QED
      BY <2>1, <2>2, <3>1 DEF Keeps
  <2>7. Len(held') = 0 /\ held' \in Seq(Symbols) /\ SeqLimit > 0
    BY <2>6, EmptySeq, TerminalAssumption
  <2> HIDE DEF c, at
  <2>8. TypeOK'
    BY <2>1, <2>2, <2>3, <2>5, <2>6, <2>7
       DEF Got, TypeOK, transport, editor, signals, display
  <2> QED
    BY <2>1, <2>3, <2>6, <2>8 DEF Got, Turns, Keeps, transport, Reading, Over
<1>3. CASE SeqByte
  <2> DEFINE c == Head(input)
             seq == Append(held, c)
             over == c \in Final \/ Len(seq) = SeqLimit
             at == IF ~over THEN "seq" ELSE IF PasteBegins(seq) THEN "paste" ELSE "write"
  <2>1. pc = "seq" /\ Got(c, at) /\ Read(over /\ ~PasteBegins(seq), Mapped(seq))
    BY <1>3 DEF SeqByte
  <2>2. /\ c \in Symbols /\ input' = <<>> /\ Len(input') = 0 /\ input' \in Seq(Symbols)
    BY <2>1, GotFacts
  <2>3. at \in {"seq", "paste", "write"} /\ (at = "seq" => ~over) /\ (at # "seq" => over)
    OBVIOUS
  <2>4. Mapped(seq) \in Request
    <3>1. <<"<up>">> \in Seq(Symbols) /\ <<"<unknown>">> \in Seq(Symbols)
      BY SymbolFacts
    <3> QED
      BY <3>1, RequestFacts DEF Mapped
  <2>5. request' \in Request
    BY <2>1, <2>4, ReadFacts DEF PasteBegins
  <2>6. /\ held' = (IF over THEN <<>> ELSE seq) /\ intro' \in {intro, None}
    BY <1>3 DEF SeqByte
  <2>7. seq \in Seq(Symbols) /\ Len(seq) = Len(held) + 1 /\ Len(held) \in Nat
        /\ Len(held) < SeqLimit
    BY <2>1, <2>2 DEF TypeOK
  <2>8. /\ held' \in Seq(Symbols)
        /\ at = "seq" => Len(held') < SeqLimit
        /\ at # "seq" => held' = <<>> /\ Len(held') = 0
    <3>1. held' = <<>> => held' \in Seq(Symbols) /\ Len(held') = 0
      BY EmptySeq
    <3>2. SeqLimit \in Nat
      BY TerminalAssumption
    <3> HIDE DEF seq, over, at
    <3>3. CASE over
      BY <2>3, <2>6, <3>1, <3>3
    <3>4. CASE ~over
      <4>1. held' = seq /\ at = "seq"
        BY <2>3, <2>6, <3>4
      <4>2. Len(seq) # SeqLimit
        BY <3>4 DEF over
      <4> QED
        BY <2>7, <3>2, <4>1, <4>2
    <3> QED
      BY <3>3, <3>4
  <2> HIDE DEF c, at, over, seq
  <2>9. /\ pc' = at /\ input' = <<>>
        /\ UNCHANGED <<transit, typed, damaged, transport, editor, signals, display, size,
                       asked, happened>>
    BY <2>1, <2>2 DEF Got
  <2>10. /\ at = "seq" => Len(held') < SeqLimit
         /\ at = "paste" => Len(held') < PasteLimit
    BY <2>8, TerminalAssumption
  <2>11. intro' \in Symbols \cup {None}
    BY <2>6 DEF TypeOK
  <2>12. TypeOK'
    BY <2>2, <2>3, <2>5, <2>8, <2>9, <2>10, <2>11
       DEF TypeOK, transport, editor, signals, display
  <2> QED
    BY <2>1, <2>3, <2>8, <2>9, <2>12 DEF Turns, Keeps, transport, Reading, Over
<1>4. CASE PasteByte
  <2> DEFINE c == Head(input)
             paste == Append(held, c)
             over == PasteText(paste) # paste \/ Len(paste) = PasteLimit
             at == IF over THEN "write" ELSE "paste"
  <2>1. pc = "paste" /\ Got(c, at) /\ Read(over, Insert(PasteText(paste)))
    BY <1>4 DEF PasteByte
  <2>2. /\ c \in Symbols /\ input' = <<>> /\ Len(input') = 0 /\ input' \in Seq(Symbols)
    BY <2>1, GotFacts
  <2>3. at \in {"paste", "write"} /\ (at = "paste" => ~over) /\ (at = "write" => over)
    OBVIOUS
  <2>4. paste \in Seq(Symbols) /\ Len(paste) = Len(held) + 1 /\ Len(held) \in Nat
        /\ Len(held) < PasteLimit
    BY <2>1, <2>2 DEF TypeOK
  <2>5. PasteText(paste) \in Seq(Symbols)
    <3> HIDE DEF paste
    <3>1. Len(EndMark) \in Nat
      BY DEF EndMark
    <3>2. \A i \in 1 .. Len(paste) - Len(EndMark) : paste[i] \in Symbols
      BY <2>4, <3>1
    <3>3. SubSeq(paste, 1, Len(paste) - Len(EndMark)) \in Seq(Symbols)
      BY <2>4, <3>1, <3>2, SubSeqProperties
    <3> QED
      BY <2>4, <3>3 DEF PasteText
  <2>6. request' \in Request
    BY <2>1, <2>5, RequestFacts, ReadFacts
  <2>7. /\ held' = (IF over THEN <<>> ELSE paste) /\ intro' = intro
    BY <1>4 DEF PasteByte
  <2>8. /\ held' \in Seq(Symbols)
        /\ at = "paste" => Len(held') < PasteLimit
        /\ at # "paste" => held' = <<>> /\ Len(held') = 0
    <3>1. held' = <<>> => held' \in Seq(Symbols) /\ Len(held') = 0
      BY EmptySeq
    <3>2. PasteLimit \in Nat
      BY TerminalAssumption
    <3>3. ~over => Len(paste) # PasteLimit
      OBVIOUS
    <3> HIDE DEF paste, over, at
    <3>4. CASE over
      BY <2>3, <2>7, <3>1, <3>4
    <3>5. CASE ~over
      <4>1. held' = paste /\ at = "paste"
        BY <2>3, <2>7, <3>5
      <4> QED
        BY <2>4, <3>2, <3>3, <3>5, <4>1
    <3> QED
      BY <3>4, <3>5
  <2> HIDE DEF c, at, over, paste
  <2>9. TypeOK'
    BY <2>1, <2>2, <2>3, <2>6, <2>7, <2>8
       DEF Got, TypeOK, transport, editor, signals, display
  <2> QED
    BY <2>1, <2>3, <2>8, <2>9 DEF Got, Turns, Keeps, transport, Reading, Over
<1>5. CASE Utf8Byte
  <2> DEFINE c == Head(input)
  <2>1. pc = "utf8" /\ Got(c, "write") /\ Read(TRUE, Key(Append(held, c)))
    BY <1>5 DEF Utf8Byte
  <2>2. /\ c \in Symbols /\ input' = <<>> /\ Len(input') = 0 /\ input' \in Seq(Symbols)
    BY <2>1, GotFacts
  <2>3. Append(held, c) \in Seq(Symbols)
    BY <2>2 DEF TypeOK
  <2>4. request' \in Request
    BY <2>1, <2>3, RequestFacts, ReadFacts
  <2>5. held' = <<>> /\ intro' = intro /\ held' \in Seq(Symbols)
    BY <1>5, EmptySeq DEF Utf8Byte
  <2> HIDE DEF c
  <2>6. TypeOK'
    BY <2>1, <2>2, <2>4, <2>5 DEF Got, TypeOK, transport, editor, signals, display
  <2> QED
    BY <2>1, <2>5, <2>6 DEF Got, Turns, Keeps, transport, Reading, Over
<1>6. CASE Idle
  BY <1>6, RequestFacts, EmptySeq, TimedOutStep DEF Idle
<1>7. CASE EscAlone
  <2>1. <<ESC>> \in Seq(Symbols)
    BY SymbolFacts
  <2> QED
    BY <1>7, <2>1, RequestFacts, TimedOutStep DEF EscAlone, Reading
<1>8. CASE SeqBroken
  <2>1. <<"<up>">> \in Seq(Symbols) /\ <<"<unknown>">> \in Seq(Symbols)
    BY SymbolFacts
  <2>2. Mapped(held) \in Request
    BY <2>1, RequestFacts DEF Mapped
  <2> QED
    BY <1>8, <2>2, TimedOutStep DEF SeqBroken, Reading
<1>9. CASE PasteBroken
  BY <1>9, RequestFacts, TimedOutStep DEF PasteBroken, Reading, TypeOK
<1>10. CASE Utf8Broken
  BY <1>10, RequestFacts, TimedOutStep DEF Utf8Broken, Reading, TypeOK
<1> QED
  BY <1>1, <1>2, <1>3, <1>4, <1>5, <1>6, <1>7, <1>8, <1>9, <1>10 DEF ReadEvent

\* What a frame carries, and what it is answered with.
LEMMA ServeFacts ==
    ASSUME TypeOK, Serve
    PROVE  /\ pipe # None /\ pipe.ended /\ pipe.event \in Request /\ pipe' = None
           /\ executed' \in Seq(Request)
           /\ response' \in Response /\ response' # None
           /\ response'.rows = (IF IsText(pipe.event.data) THEN Content(executed', Clamp(asked))
                                ELSE None)
           /\ IsText(pipe.event.data) => response'.rows # None /\ Len(response'.rows) = Clamp(asked)
           /\ ~IsText(pipe.event.data) => executed' = executed
           /\ executed' = IF pipe.event = Snapshot \/ ~IsText(pipe.event.data) THEN executed
                          ELSE Append(executed, pipe.event)
           /\ quit' \in BOOLEAN /\ backend = "read" /\ backend' \in {"leaving", "read"}
<1> DEFINE e == pipe.event
           rows == IF IsText(e.data) THEN Content(executed', Clamp(asked)) ELSE None
<1>1. pipe # None /\ pipe.ended /\ pipe' = None /\ backend = "read"
  BY DEF Serve
<1>2. e \in Request
  BY <1>1 DEF TypeOK, Frame
<1>3. executed' = IF e = Snapshot \/ ~IsText(e.data) THEN executed ELSE Append(executed, e)
  BY DEF Serve
<1>4. executed' \in Seq(Request)
  <2>1. executed \in Seq(Request)
    BY DEF TypeOK
  <2>2. Append(executed, e) \in Seq(Request)
    BY <1>2, <2>1, AppendProperties
  <2> QED
    BY <1>3, <2>1, <2>2
<1>5. quit' \in BOOLEAN
  <2>1. quit' = (quit \/ e \in QuitKeys)
    BY DEF Serve
  <2> QED
    BY <2>1 DEF TypeOK
<1>6. response' = [rows |-> rows, leave |-> quit' \/ e \in DetachKeys]
  BY <1>3 DEF Serve
<1>7. (quit' \/ e \in DetachKeys) \in BOOLEAN
  BY <1>5
<1>8. Clamp(asked) \in Nat
  BY ClampFacts DEF TypeOK
<1>9. /\ Content(executed', Clamp(asked)) \in Seq(Request)
      /\ Len(Content(executed', Clamp(asked))) = Clamp(asked)
  BY <1>4, <1>8, ContentFacts
<1>10. rows \in {None} \cup Seq(Request)
  BY <1>9
<1>11. response'.rows = rows /\ response' \in Response
  <2> HIDE DEF rows, e
  <2> QED
    BY <1>6, <1>7, <1>10 DEF Response
<1>12. response' # None
  BY <1>11, NoneAssumption
<1>13. IsText(e.data) => rows # None
  BY <1>9, NoneAssumption
<1>14. backend' \in {"leaving", "read"}
  BY DEF Serve
<1> HIDE DEF e
<1> QED
  BY <1>1, <1>2, <1>3, <1>4, <1>5, <1>9, <1>11, <1>12, <1>13, <1>14 DEF e

\* Which rows are written on a row of the terminal.
Written(rows, at) == {r \in DOMAIN rows : Lands(r) = at /\ ~Unchanged(rows, r)}

LEMMA LandsAbove ==
    ASSUME size \in Nat \ {0}, NEW r \in Nat \ {0}, NEW at \in 1 .. size
    PROVE  /\ Lands(r) = at /\ at < size => r = at
           /\ Lands(r) = at => r >= at
           /\ r = at => Lands(r) = at
           /\ at = size /\ r >= at => Lands(r) = at
BY DEF Lands

\* A screen that is cleared, or shows what was drawn before, shows what is drawn.
LEMMA DrawShows ==
    ASSUME TypeOK, NEW rows \in Seq(Request), NEW shown,
           old = Len(rows) => Shows(cache),
           \A at \in 1 .. size :
                shown[at] = IF Written(rows, at) # {} THEN rows[Max(Written(rows, at))]
                            ELSE IF old # Len(rows) THEN None
                            ELSE screen[at]
    PROVE  ShownOn(shown, size, rows)
<1>1. size \in Nat \ {0} /\ cache \in Seq(Request) /\ Len(cache) = old
  BY TerminalAssumption DEF TypeOK
<1>2. DOMAIN rows = 1 .. Len(rows) /\ Len(rows) \in Nat /\ DOMAIN cache = 1 .. old
  BY <1>1, LenProperties
<1>3. SUFFICES ASSUME NEW at \in 1 .. size
               PROVE  IF at > Len(rows) THEN shown[at] = None
                      ELSE IF at < size THEN shown[at] = rows[at]
                      ELSE \E r \in at .. Len(rows) : shown[at] = rows[r]
  BY DEF ShownOn
<1> DEFINE W == Written(rows, at)
<1>4. shown[at] = IF W # {} THEN rows[Max(W)] ELSE IF old # Len(rows) THEN None ELSE screen[at]
  OBVIOUS
<1>5. W \subseteq at .. Len(rows)
  <2> SUFFICES ASSUME NEW r \in W PROVE r \in at .. Len(rows)
    OBVIOUS
  <2>1. r \in 1 .. Len(rows) /\ Lands(r) = at
    BY <1>2 DEF Written
  <2>2. r >= at
    BY <1>1, <2>1, LandsAbove
  <2> QED
    BY <1>2, <2>1, <2>2
<1>6. old # Len(rows) /\ at <= Len(rows) => W # {}
  <2>1. ASSUME old # Len(rows), at <= Len(rows) PROVE at \in W
    <3>1. at \in DOMAIN rows /\ Lands(at) = at
      BY <1>1, <1>2, <2>1, LandsAbove
    <3> QED
      BY <2>1, <3>1 DEF Written, Unchanged
  <2> QED
    BY <2>1
<1>7. ASSUME W = {}, NEW r \in at .. Len(rows), Lands(r) = at
      PROVE  old = Len(rows) /\ cache[r] = rows[r]
  <2>1. r \in DOMAIN rows
    BY <1>2, <1>7
  <2> QED
    BY <1>7, <2>1 DEF Written, Unchanged
<1>8. ASSUME old = Len(rows)
      PROVE  IF at > Len(rows) THEN screen[at] = None
             ELSE IF at < size THEN screen[at] = cache[at]
             ELSE \E r \in at .. Len(rows) : screen[at] = cache[r]
  BY <1>1, <1>8 DEF Shows
<1> HIDE DEF W
<1>9. CASE at > Len(rows)
  <2>1. W = {}
    BY <1>1, <1>2, <1>5, <1>9
  <2> QED
    BY <1>4, <1>8, <1>9, <2>1
<1>10. CASE at <= Len(rows) /\ at < size
  <2>1. CASE W = {}
    <3>1. Lands(at) = at
      BY <1>1, <1>10, LandsAbove
    <3>3. at \in at .. Len(rows)
      BY <1>1, <1>2, <1>10
    <3>2. old = Len(rows) /\ cache[at] = rows[at]
      BY <1>7, <2>1, <3>1, <3>3
    <3> QED
      BY <1>2, <1>4, <1>8, <1>10, <2>1, <3>2
  <2>2. CASE W # {}
    <3>1. \A r \in W : r = at
      <4> SUFFICES ASSUME NEW r \in W PROVE r = at
        OBVIOUS
      <4>1. r \in 1 .. Len(rows) /\ Lands(r) = at
        BY <1>2 DEF W, Written
      <4> QED
        BY <1>1, <1>10, <4>1, LandsAbove
    <3>2. W \subseteq 1 .. Len(rows)
      BY <1>2 DEF W, Written
    <3>3. Max(W) \in W
      BY <1>2, <2>2, <3>2, GreatestExists
    <3>4. Max(W) = at
      BY <3>1, <3>3
    <3> QED
      BY <1>2, <1>4, <1>10, <2>2, <3>4
  <2> QED
    BY <2>1, <2>2
<1>11. CASE at <= Len(rows) /\ at = size
  <2>1. CASE W = {}
    <3>1. old = Len(rows)
      BY <1>6, <1>11, <2>1
    <3>2. PICK r \in at .. Len(rows) : screen[at] = cache[r]
      BY <1>1, <1>2, <1>8, <1>11, <3>1
    <3>3. Lands(r) = at
      BY <1>1, <1>11, <3>2, LandsAbove
    <3>4. cache[r] = rows[r]
      BY <1>7, <2>1, <3>2, <3>3
    <3>5. shown[at] = rows[r]
      BY <1>4, <2>1, <3>1, <3>2, <3>4
    <3> QED
      BY <1>1, <1>2, <1>11, <3>2, <3>5
  <2>2. CASE W # {}
    <3>1. W \subseteq 1 .. Len(rows)
      BY <1>2 DEF W, Written
    <3>2. Max(W) \in W
      BY <1>2, <2>2, <3>1, GreatestExists
    <3>3. Max(W) \in at .. Len(rows) /\ shown[at] = rows[Max(W)]
      BY <1>4, <1>5, <2>2, <3>2
    <3> QED
      BY <1>1, <1>2, <1>11, <3>3
  <2> QED
    BY <2>1, <2>2
<1> QED
  BY <1>1, <1>2, <1>9, <1>10, <1>11

\* What drawing does to the screen.
LEMMA DrawFacts ==
    ASSUME TypeOK, NEW rows \in Seq(Request), Len(rows) = Clamp(asked), Draw(rows)
    PROVE  /\ old' = Clamp(asked) /\ cache' = rows /\ intact' \in BOOLEAN
           /\ screen' \in [1 .. size -> Request \cup {None}]
           /\ intact' /\ old # Clamp(asked) => size = asked
           /\ intact' /\ old = Clamp(asked) => intact
           /\ (old = Clamp(asked) => Shows(cache)) => ShownOn(screen', size, rows)
<1>1. /\ old' = Len(rows) /\ cache' = rows
      /\ screen' = [at \in 1 .. size |->
                      IF Written(rows, at) # {} THEN rows[Max(Written(rows, at))]
                      ELSE IF old # Len(rows) THEN None
                      ELSE screen[at]]
      /\ intact' = IF old # Len(rows) THEN size = asked ELSE intact
  BY DEF Draw, Written
<1>2. screen \in [1 .. size -> Request \cup {None}] /\ intact \in BOOLEAN
  BY DEF TypeOK
<1>3. DOMAIN rows = 1 .. Len(rows) /\ Len(rows) \in Nat /\ \A r \in DOMAIN rows : rows[r] \in Request
  BY LenProperties
<1>4. screen' \in [1 .. size -> Request \cup {None}]
  <2>1. ASSUME NEW at \in 1 .. size, Written(rows, at) # {}
        PROVE  rows[Max(Written(rows, at))] \in Request
    <3>1. Written(rows, at) \subseteq 1 .. Len(rows)
      BY <1>3 DEF Written
    <3>2. Max(Written(rows, at)) \in 1 .. Len(rows)
      BY <1>3, <2>1, <3>1, GreatestExists
    <3> QED
      BY <1>3, <3>2
  <2> QED
    BY <1>1, <1>2, <2>1
<1>5. /\ intact' \in BOOLEAN
      /\ intact' /\ old # Clamp(asked) => size = asked
      /\ intact' /\ old = Clamp(asked) => intact
  BY <1>1, <1>2
<1>6. \A at \in 1 .. size :
        screen'[at] = IF Written(rows, at) # {} THEN rows[Max(Written(rows, at))]
                      ELSE IF old # Len(rows) THEN None
                      ELSE screen[at]
  BY <1>1
<1>7. (old = Clamp(asked) => Shows(cache)) => ShownOn(screen', size, rows)
  BY <1>6, DrawShows
<1> QED
  BY <1>1, <1>4, <1>5, <1>7

LEMMA AnsweredFacts ==
    ASSUME TypeOK, Answered
    PROVE  /\ pc = "wait" /\ response' = None
           /\ UNCHANGED <<line, reading, pipe, closed, backend, editor, signals, size,
                          happened, asked>>
           /\ \/ /\ StateOnItsWay /\ response.rows \in Seq(Request) /\ Len(response.rows) = Clamp(asked)
                 /\ Draw(response.rows) /\ pc' \in {"close", "head"}
              \/ /\ ~StateOnItsWay /\ UNCHANGED display
                 /\ pc' = "head" => response # None
                 /\ pc' \in {"close", "head"}
           /\ pc' = "close" => response # None \/ backend = "gone"
<1>1. /\ pc = "wait" /\ response' = None
      /\ UNCHANGED <<line, reading, pipe, closed, backend, editor, signals, size, happened, asked>>
  BY DEF Answered
<1>2. /\ StateOnItsWay => response.rows \in Seq(Request) /\ Len(response.rows) = Clamp(asked)
      /\ Clamp(asked) \in MinRows .. MaxRows
  BY ClampFacts DEF TypeOK, Response, StateOnItsWay
<1>3. CASE response # None
  BY <1>1, <1>2, <1>3 DEF Answered, StateOnItsWay
<1>4. CASE response = None
  BY <1>1, <1>4 DEF Answered, StateOnItsWay
<1> QED
  BY <1>3, <1>4

LEMMA TransportStep ==
    ASSUME TurnInv, \/ LoopHead \/ PollHangUp \/ SendFrame \/ SendNewline
                    \/ Answered \/ Close \/ Reap \/ Backend
    PROVE  TurnInv'
<1> USE DEF TurnInv
<1>1. CASE LoopHead
  <2>1. TypeOK'
    BY <1>1 DEF LoopHead, TypeOK, Turns, line, reading, transport, editor, signals, display
  <2> QED
    BY <1>1, <2>1 DEF LoopHead, Turns, Keeps, reading, transport, Reading, Over
<1>2. CASE PollHangUp
  <2>1. TypeOK'
    BY <1>2 DEF PollHangUp, TypeOK, line, reading, transport, editor, signals, display
  <2> QED
    BY <1>2, <2>1 DEF PollHangUp, Turns, Keeps, reading, transport, Reading, Over
<1>3. CASE SendFrame
  <2>1. Snapshot \in Request
    BY RequestFacts, EmptySeq
  <2>2. [event |-> request, ended |-> FALSE] \in Frame
    BY DEF TypeOK, Frame
  <2> DEFINE f == [event |-> request, ended |-> FALSE]
  <2>3. f # None /\ ~f.ended /\ f \in Frame
    BY <2>2, NoneAssumption
  <2>4. \/ pc' = "close" /\ pipe' = pipe
        \/ pc' = "newline" /\ pipe' = f
    BY <1>3 DEF SendFrame
  <2>5. /\ pc = "write" /\ request' = Snapshot
        /\ UNCHANGED <<line, intro, held, response, closed, backend, editor, signals, display,
                       size, asked, happened>>
    BY <1>3 DEF SendFrame
  <2> HIDE DEF f
  <2>6. TypeOK'
    BY <2>1, <2>3, <2>4, <2>5 DEF TypeOK, line, editor, signals, display
  <2> QED
    BY <2>3, <2>4, <2>5, <2>6 DEF Turns, Keeps, Reading, Over
<1>4. CASE SendNewline
  <2>1. pc = "newline" /\ pipe # None /\ pipe \in Frame /\ response = None
    BY <1>4 DEF SendNewline, Turns, TypeOK
  <2> DEFINE f == [pipe EXCEPT !.ended = TRUE]
  <2>2. f \in Frame
    BY <2>1 DEF Frame
  <2>3. \/ pc' = "close" /\ pipe' = pipe /\ backend = "gone"
        \/ pc' = "wait" /\ pipe' = f
    BY <1>4 DEF SendNewline
  <2>4. UNCHANGED <<line, reading, response, closed, backend, editor, signals, display, size,
                   asked, happened>>
    BY <1>4 DEF SendNewline
  <2> HIDE DEF f
  <2>5. TypeOK'
    BY <2>1, <2>2, <2>3, <2>4 DEF TypeOK, line, reading, editor, signals, display
  <2> QED
    BY <2>1, <2>3, <2>4, <2>5 DEF Turns, Keeps, reading, Reading, Over
<1>5. CASE Answered
  <2>1. TypeOK'
    <3>1. CASE StateOnItsWay
      <4>1. Clamp(asked) \in MinRows .. MaxRows
        BY ClampFacts DEF TypeOK
      <4>2. /\ old' = Clamp(asked) /\ cache' = response.rows /\ intact' \in BOOLEAN
            /\ screen' \in [1 .. size -> Request \cup {None}]
            /\ response.rows \in Seq(Request) /\ Len(response.rows) = Clamp(asked)
        BY <1>5, <3>1, AnsweredFacts, DrawFacts
      <4>3. /\ UNCHANGED <<line, reading, pipe, closed, backend, editor, signals, size,
                            happened, asked>>
            /\ pc' \in {"close", "head"} /\ response' = None
        BY <1>5, <3>1, AnsweredFacts
      <4> QED
        BY <4>1, <4>2, <4>3 DEF TypeOK, line, reading, editor, signals
    <3>2. CASE ~StateOnItsWay
      BY <1>5, <3>2, AnsweredFacts DEF TypeOK, line, reading, editor, signals, display
    <3> QED
      BY <3>1, <3>2
  <2>2. /\ pc = "wait" /\ pc' \in {"close", "head"} /\ response' = None
        /\ pipe' = pipe /\ backend' = backend /\ held' = held
        /\ pc' = "head" => response # None
        /\ pc' = "close" => response # None \/ backend = "gone"
    BY <1>5, AnsweredFacts DEF StateOnItsWay, reading
  <2>3. response # None => pipe = None
    BY <2>2 DEF Turns
  <2>4. held' = <<>>
    BY <2>2 DEF Keeps
  <2>5. pc' \notin {"newline", "wait", "seq", "paste", "utf8"}
    BY <2>2
  <2>6. Turns'
    BY <2>2, <2>3, <2>5 DEF Turns, Reading, Over
  <2> QED
    BY <2>1, <2>4, <2>5, <2>6 DEF Keeps
<1>6. CASE Close
  <2>1. TypeOK'
    BY <1>6 DEF Close, TypeOK, line, reading, editor, signals, display
  <2> QED
    BY <1>6, <2>1 DEF Close, Turns, Keeps, reading, Reading, Over
<1>7. CASE Reap
  <2>1. TypeOK'
    BY <1>7 DEF Reap, TypeOK, line, reading, transport, editor, signals, display
  <2> QED
    BY <1>7, <2>1 DEF Reap, Turns, Keeps, reading, transport, Reading, Over
<1>8. CASE Serve
  <2>1. UNCHANGED <<line, pc, reading, closed, interrupted, signals, display, size, asked, happened>>
    BY <1>8 DEF Serve
  <2>2. TypeOK'
    BY <1>8, <2>1, ServeFacts DEF TypeOK, line, reading, signals, display
  <2>3. pc = "wait"
    BY <1>8, ServeFacts DEF Turns, TypeOK, Reading, Over
  <2> QED
    BY <1>8, <2>1, <2>2, <2>3, ServeFacts DEF Turns, Keeps, reading, Reading, Over
<1>9. CASE RefuseFrame \/ EndOfInput \/ BackendEnds
  <2>1. /\ backend' \in {"leaving", "gone"} /\ backend # "gone"
        /\ UNCHANGED <<line, pc, reading, pipe, response, closed, editor, signals, display,
                       size, asked, happened>>
    BY <1>9 DEF RefuseFrame, EndOfInput, BackendEnds
  <2>2. TypeOK'
    BY <2>1 DEF TypeOK, line, reading, editor, signals, display
  <2> QED
    BY <2>1, <2>2 DEF Turns, Keeps, reading, Reading, Over
<1> QED
  BY <1>1, <1>2, <1>3, <1>4, <1>5, <1>6, <1>7, <1>8, <1>9 DEF Backend

LEMMA TurnStep ==
    ASSUME TurnInv, [Next]_vars
    PROVE  TurnInv'
<1>1. CASE Next
  BY <1>1, LineStep, OutsideStep, ReadStep, TransportStep DEF Next, Frontend
<1>2. CASE UNCHANGED vars
  BY <1>2 DEF TurnInv, TypeOK, Turns, Keeps, vars, line, reading, transport, editor, signals, display
<1> QED
  BY <1>1, <1>2

\* Every variable keeps its type, and the two processes take turns.
THEOREM Typed == Spec => []TurnInv
<1>1. Init => TurnInv
  BY TurnInit
<1>2. TurnInv /\ [Next]_vars => TurnInv'
  BY TurnStep
<1> QED
  BY <1>1, <1>2, PTL DEF Spec
-----------------------------------------------------------------------------
(***************************************************************************)
(* What the screen shows.                                                  *)
(***************************************************************************)

LEMMA DrawnInit == Init => Drawn
<1> SUFFICES ASSUME Init PROVE Drawn
  OBVIOUS
<1>1. executed = <<>> /\ cache = <<>> /\ old = 0 /\ ~intact /\ response = None
  BY DEF Init
<1>2. Content(executed, old) = <<>>
  BY <1>1 DEF Content
<1> QED
  BY <1>1, <1>2 DEF Drawn, StateOnItsWay

LEMMA DrawnStep ==
    ASSUME DrawInv, [Next]_vars
    PROVE  Drawn'
<1> USE DEF DrawInv, TurnInv
<1> DEFINE Same == UNCHANGED <<size, old, screen, cache, intact, executed, response, asked>>
<1>1. CASE Same /\ (pc' \notin Over => pc \notin Over)
  BY <1>1 DEF Drawn, StateOnItsWay, Content, Clamp, Shows
<1>2. CASE \/ \E e \in Events : Type(e)
           \/ Arrive \/ Lose \/ HangUp \/ Signal \/ BackendSignal
  <2>1. Same /\ pc' = pc
    BY <1>2 DEF Type, Arrive, Lose, HangUp, Signal, BackendSignal, transport, editor, display
  <2> QED
    BY <1>1, <2>1
<1>3. CASE \E n \in Sizes : Resize(n)
  <2>1. ~intact' /\ UNCHANGED <<pc, old, cache, executed, response, asked>>
    BY <1>3 DEF Resize, transport, editor
  <2> QED
    BY <2>1 DEF Drawn, StateOnItsWay, Content, Clamp, Shows
<1>4. CASE LoopHead
  <2>1. response = None /\ pc \notin Over
    BY <1>4 DEF LoopHead, Turns, Over
  <2>2. UNCHANGED <<size, old, screen, cache, intact, executed, response>>
    BY <1>4 DEF LoopHead, transport, editor, display
  <2> QED
    BY <2>1, <2>2 DEF Drawn, StateOnItsWay, Content, Clamp, Shows
<1>5. CASE PollHangUp \/ ReadEvent \/ SendFrame \/ SendNewline
  <2>1. Same
    BY <1>5 DEF PollHangUp, SendFrame, SendNewline, ReadEvent, FirstByte, Idle, EscByte, EscAlone,
                SeqByte, SeqBroken, PasteByte, PasteBroken, Utf8Byte, Utf8Broken, Got, TimedOut,
                transport, editor, display
  <2>2. pc \notin Over
    BY <1>5 DEF PollHangUp, SendFrame, SendNewline, ReadEvent, FirstByte, Idle, EscByte, EscAlone,
                SeqByte, SeqBroken, PasteByte, PasteBroken, Utf8Byte, Utf8Broken, Over
  <2> QED
    BY <1>1, <2>1, <2>2
<1>6. CASE Answered
  <2>1. response' = None /\ executed' = executed /\ size' = size /\ asked' = asked /\ pc = "wait"
    BY <1>6, AnsweredFacts DEF editor
  <2>2. CASE StateOnItsWay
    <3>1. /\ old' = Clamp(asked) /\ cache' = response.rows
          /\ intact' /\ old # Clamp(asked) => size = asked
          /\ intact' /\ old = Clamp(asked) => intact
          /\ (old = Clamp(asked) => Shows(cache)) => ShownOn(screen', size, response.rows)
      BY <1>6, <2>2, AnsweredFacts, DrawFacts
    <3>2. response.rows = Content(executed, Clamp(asked))
      BY <2>2 DEF Drawn
    <3>3. intact' => old' = Clamp(size)' /\ Shows(cache)'
      <4> SUFFICES ASSUME intact' PROVE old' = Clamp(size)' /\ Shows(cache)'
        OBVIOUS
      <4>1. old = Clamp(asked) => intact
        BY <3>1
      <4>2. intact => old = Clamp(size) /\ Shows(cache)
        BY DEF Drawn
      <4>3. old' = Clamp(size)
        BY <3>1, <4>1, <4>2
      <4>4. ShownOn(screen', size, response.rows)
        BY <3>1, <4>1, <4>2
      <4> QED
        BY <2>1, <3>1, <4>3, <4>4 DEF Clamp, Shows, ShownOn
    <3>4. cache' = Content(executed', old')
      BY <2>1, <3>1, <3>2
    <3> QED
      BY <2>1, <3>3, <3>4 DEF Drawn, StateOnItsWay
  <2>3. CASE ~StateOnItsWay
    <3>1. UNCHANGED display
      BY <1>6, <2>3, AnsweredFacts
    <3> QED
      BY <2>1, <2>3, <3>1 DEF Drawn, StateOnItsWay, Content, Clamp, Shows, display, Over
  <2> QED
    BY <2>2, <2>3
<1>7. CASE Close \/ Reap
  <2>1. Same /\ pc' \in Over
    BY <1>7 DEF Close, Reap, transport, editor, display, Over
  <2> QED
    BY <1>1, <2>1
<1>8. CASE Serve
  <2>1. UNCHANGED <<pc, size, old, screen, cache, intact, asked>>
    BY <1>8 DEF Serve, display
  <2>2. pc = "wait" /\ response = None
    BY <1>8, ServeFacts DEF Turns, TypeOK, Reading, Over
  <2>3. CASE IsText(pipe.event.data)
    <3>1. response' # None /\ response'.rows # None
          /\ response'.rows = Content(executed', Clamp(asked))
      BY <1>8, <2>3, ServeFacts
    <3> QED
      BY <2>1, <3>1 DEF Drawn, StateOnItsWay, Content, Clamp, Shows
  <2>4. CASE ~IsText(pipe.event.data)
    <3>1. executed' = executed /\ response' # None /\ response'.rows = None
      BY <1>8, <2>4, ServeFacts
    <3> QED
      BY <2>1, <2>2, <3>1 DEF Drawn, StateOnItsWay, Content, Clamp, Shows
  <2> QED
    BY <2>3, <2>4
<1>9. CASE RefuseFrame \/ EndOfInput \/ BackendEnds
  <2>1. Same /\ pc' = pc
    BY <1>9 DEF RefuseFrame, EndOfInput, BackendEnds, editor, display
  <2> QED
    BY <1>1, <2>1
<1>10. CASE UNCHANGED vars
  <2>1. Same /\ pc' = pc
    BY <1>10 DEF vars, transport, editor, display
  <2> QED
    BY <1>1, <2>1
<1> QED
  BY <1>2, <1>3, <1>4, <1>5, <1>6, <1>7, <1>8, <1>9, <1>10 DEF Next, Frontend, Backend

\* Although only changed rows are written, the terminal shows what the editor holds
\* whenever the frontend is back at its loop, as far as it has the rows for it: after
\* any resizing that it noticed and that made it clear the screen.
THEOREM ScreenStaysTrue == Spec => []ScreenIsTrue
<1>1. Init => DrawInv
  BY TurnInit, DrawnInit DEF DrawInv
<1>2. DrawInv /\ [Next]_vars => DrawInv'
  BY TurnStep, DrawnStep DEF DrawInv
<1>3. DrawInv => ScreenIsTrue
  BY DEF DrawInv, TurnInv, Turns, Drawn, StateOnItsWay, ScreenIsTrue, Over
<1> QED
  BY <1>1, <1>2, <1>3, PTL DEF Spec
-----------------------------------------------------------------------------
(***************************************************************************)
(* What the bytes on their way stand for.                                  *)
(***************************************************************************)

\* b is the bytes of the events es, one after the other: what is left of it after
\* the i-th is left[i].
Stream(b, es) ==
    \E left \in [0 .. Len(es) -> Seq(Symbols)] :
        /\ left[0] = b /\ left[Len(es)] = <<>>
        /\ \A i \in 1 .. Len(es) : left[i - 1] = Bytes(es[i]) \o left[i]

\* ESC on its own has nothing behind it.
EscIsLast(b, es) ==
    /\ \A i \in 1 .. Len(es) : es[i] = Key(<<ESC>>) => i = Len(es)
    /\ es # <<>> /\ es[Len(es)] = Key(<<ESC>>) => b # <<>> /\ b[Len(b)] = ESC

Ahead(b, es) ==
    /\ b \in Seq(Symbols) /\ es \in Seq(Events)
    /\ Stream(b, es) /\ EscIsLast(b, es)

\* The event that was read and has not been executed.
Due ==
    IF pc = "write" THEN (IF request = Snapshot THEN <<>> ELSE <<request>>)
    ELSE IF pipe # None /\ pipe.event # Snapshot THEN <<pipe.event>>
    ELSE <<>>

\* Between two events, the bytes on their way stand for those still to be read.
Between(todo) ==
    /\ typed = (executed \o Due) \o todo
    /\ Ahead(input \o transit, todo)

\* What may follow a first ESC.
Opened(e, rest) ==
    \/ e = Key(<<ESC>>) /\ rest = <<>>
    \/ \E c \in Symbols \ {"[", "O"} : e = Key(<<"M-", c>>) /\ rest = <<c>>
    \/ e = Key(<<"<up>">>) /\ rest = <<"[", "A">>
    \/ e.op = "insert" /\ rest = <<"[">> \o (<<"200">> \o (<<"~">> \o (e.data \o EndMark)))

\* What is still to be read of the event e, by where the frontend is.
Rest(e, rest) ==
    /\ pc = "esc" => Opened(e, rest)
    /\ pc = "seq" =>
         /\ intro = "["
         /\ \/ e = Key(<<"<up>">>) /\ held = <<>> /\ rest = <<"A">>
            \/ e.op = "insert" /\ held = <<>> /\ rest = <<"200">> \o (<<"~">> \o (e.data \o EndMark))
            \/ e.op = "insert" /\ held = <<"200">> /\ rest = <<"~">> \o (e.data \o EndMark)
    /\ pc = "paste" => e.op = "insert" /\ held \o rest = e.data \o EndMark /\ rest # <<>>
    /\ pc = "utf8" => e = Key(<<LEAD, CONT>>) /\ rest = <<CONT>>

\* Within the event e, the rest of it comes first, and then those still to be read.
Within(e, rest, more, todo) ==
    /\ e \in Events /\ rest \in Seq(Symbols)
    /\ Rest(e, rest)
    /\ typed = (executed \o <<e>>) \o todo
    /\ input \o transit = rest \o more
    /\ Ahead(more, todo)
    /\ e = Key(<<ESC>>) => todo = <<>>

Typing ==
    /\ pc \in Over => IsPrefix(executed, typed)
    /\ pc \in Reading => \E e, rest, more, todo : Within(e, rest, more, todo)
    /\ pc \notin Over \cup Reading => \E todo : Between(todo)

KeyInv == TurnInv /\ (Faithful => Typing)

LEMMA LastOfConcat ==
    ASSUME NEW S, NEW s \in Seq(S), NEW t \in Seq(S), t # <<>>
    PROVE  /\ s \o t # <<>> /\ s \o t \in Seq(S)
           /\ (s \o t)[Len(s \o t)] = t[Len(t)]
<1>1. Len(s) \in Nat /\ Len(t) \in Nat /\ Len(t) >= 1
  BY LenProperties
<1>2. s \o t \in Seq(S) /\ Len(s \o t) = Len(s) + Len(t)
  BY ConcatProperties
<1>3. \A i \in Len(s) + 1 .. Len(s) + Len(t) : (s \o t)[i] = t[i - Len(s)]
  OBVIOUS
<1>4. (s \o t)[Len(s) + Len(t)] = t[(Len(s) + Len(t)) - Len(s)]
  BY <1>1, <1>3
<1>5. (Len(s) + Len(t)) - Len(s) = Len(t)
  BY <1>1
<1>6. Len(s \o t) # 0
  BY <1>1, <1>2
<1> QED
  BY <1>2, <1>4, <1>5, <1>6

LEMMA NothingAhead ==
    ASSUME NEW b, NEW es, Ahead(b, es)
    PROVE  b = <<>> <=> es = <<>>
<1>0. PICK left \in [0 .. Len(es) -> Seq(Symbols)] :
        /\ left[0] = b /\ left[Len(es)] = <<>>
        /\ \A i \in 1 .. Len(es) : left[i - 1] = Bytes(es[i]) \o left[i]
  BY DEF Ahead, Stream
<1>1. CASE es = <<>>
  BY <1>0, <1>1
<1>2. CASE es # <<>>
  <2>1. 1 \in 1 .. Len(es) /\ Len(es) \in Nat
    BY <1>2, LenProperties DEF Ahead
  <2>2. es[1] \in Events /\ left[1] \in Seq(Symbols)
    BY <2>1, ElementOfSeq DEF Ahead
  <2>3. b = Bytes(es[1]) \o left[1]
    <3>1. left[1 - 1] = Bytes(es[1]) \o left[1]
      BY <1>0, <2>1
    <3>2. 1 - 1 = 0
      OBVIOUS
    <3> QED
      BY <1>0, <3>1, <3>2
  <2>4. Bytes(es[1]) \in Seq(Symbols) /\ Bytes(es[1]) # <<>>
    BY <2>2, BytesFacts
  <2>5. b # <<>>
    BY <2>2, <2>3, <2>4, ConcatSimplifications
  <2> QED
    BY <1>2, <2>5
<1> QED
  BY <1>1, <1>2

\* The last event is entered.
LEMMA AheadType ==
    ASSUME NEW b, NEW es, Ahead(b, es), NEW e \in Events,
           b # <<>> => b[Len(b)] # ESC
    PROVE  Ahead(b \o Bytes(e), Append(es, e))
<1>0. PICK left \in [0 .. Len(es) -> Seq(Symbols)] :
        /\ left[0] = b /\ left[Len(es)] = <<>>
        /\ \A i \in 1 .. Len(es) : left[i - 1] = Bytes(es[i]) \o left[i]
  BY DEF Ahead, Stream
<1> DEFINE n == Len(es)
           new == Append(es, e)
           l == [i \in 0 .. n + 1 |-> IF i = n + 1 THEN <<>> ELSE left[i] \o Bytes(e)]
<1>1. /\ n \in Nat /\ new \in Seq(Events) /\ Len(new) = n + 1 /\ new # <<>>
      /\ new[n + 1] = e /\ \A i \in 1 .. n : new[i] = es[i] /\ es[i] \in Events
  BY AppendProperties, LenProperties DEF Ahead
<1>2. Bytes(e) \in Seq(Symbols) /\ Bytes(e) # <<>> /\ b \in Seq(Symbols)
  BY BytesFacts DEF Ahead
<1>3. \A i \in 0 .. n : left[i] \in Seq(Symbols) /\ left[i] \o Bytes(e) \in Seq(Symbols)
  <2>1. \A i \in 0 .. n : left[i] \in Seq(Symbols)
    OBVIOUS
  <2> QED
    BY <1>2, <2>1, ConcatProperties
<1>4. l \in [0 .. n + 1 -> Seq(Symbols)] /\ l[0] = b \o Bytes(e) /\ l[n + 1] = <<>>
  <2>1. ASSUME NEW i \in 0 .. n + 1
        PROVE  (IF i = n + 1 THEN <<>> ELSE left[i] \o Bytes(e)) \in Seq(Symbols)
    <3>1. i = n + 1 \/ i \in 0 .. n
      BY <1>1
    <3> QED
      BY <1>3, <3>1, EmptySeq
  <2>2. l \in [0 .. n + 1 -> Seq(Symbols)]
    BY <2>1
  <2>3. 0 \in 0 .. n + 1 /\ n + 1 \in 0 .. n + 1 /\ 0 # n + 1
    BY <1>1
  <2> QED
    BY <1>0, <2>2, <2>3
<1> HIDE DEF new
<1>5. ASSUME NEW i \in 1 .. n + 1 PROVE l[i - 1] = Bytes(new[i]) \o l[i]
  <2>1. CASE i = n + 1
    <3>1. l[i - 1] = left[n] \o Bytes(e) /\ l[i] = <<>> /\ new[i] = e /\ left[n] = <<>>
      <4>1. i - 1 = n /\ n \in 0 .. n + 1 /\ n # n + 1 /\ i \in 0 .. n + 1
        BY <1>1, <2>1
      <4>2. l[n] = left[n] \o Bytes(e) /\ l[i] = <<>>
        BY <2>1, <4>1
      <4> HIDE DEF l
      <4> QED
        BY <1>0, <1>1, <2>1, <4>1, <4>2
    <3>2. <<>> \o Bytes(e) = Bytes(e) /\ Bytes(e) \o <<>> = Bytes(e)
      BY <1>2, ConcatEmptySeq
    <3> QED
      BY <3>1, <3>2
  <2>2. CASE i # n + 1
    <3>1. i \in 1 .. n /\ i \in 0 .. n /\ i - 1 \in 0 .. n
      BY <1>1, <2>2
    <3>2. l[i - 1] = left[i - 1] \o Bytes(e) /\ l[i] = left[i] \o Bytes(e)
      BY <1>1, <3>1, SMTT(60)
    <3>3. left[i - 1] = Bytes(es[i]) \o left[i] /\ new[i] = es[i]
      BY <1>0, <1>1, <3>1
    <3>4. Bytes(es[i]) \in Seq(Symbols) /\ left[i] \in Seq(Symbols)
      BY <1>1, <1>3, <3>1, BytesFacts
    <3>5. (Bytes(es[i]) \o left[i]) \o Bytes(e) = Bytes(es[i]) \o (left[i] \o Bytes(e))
      <4>1. \A u, v, w \in Seq(Symbols) : (u \o v) \o w = u \o (v \o w)
        BY ConcatAssociative, SMTT(60)
      <4> QED
        BY <1>2, <3>4, <4>1
    <3> QED
      BY <3>2, <3>3, <3>5
  <2> QED
    BY <2>1, <2>2
<1>6. Stream(b \o Bytes(e), new)
  <2> HIDE DEF l
  <2> QED
    BY <1>1, <1>4, <1>5 DEF Stream
<1>7. EscIsLast(b \o Bytes(e), new)
  <2>1. ASSUME NEW i \in 1 .. n, es[i] = Key(<<ESC>>) PROVE FALSE
    <3>1. es # <<>> /\ es[Len(es)] = Key(<<ESC>>)
      BY <1>1, <2>1, SMTT(60) DEF Ahead, EscIsLast
    <3> QED
      BY <3>1 DEF Ahead, EscIsLast
  <2>2. ASSUME e = Key(<<ESC>>)
        PROVE  (b \o Bytes(e)) # <<>> /\ (b \o Bytes(e))[Len(b \o Bytes(e))] = ESC
    <3>1. Bytes(e) = <<ESC>> /\ ESC \in Symbols
      BY <2>2, SymbolFacts DEF Bytes, Key, ESC
    <3>2. /\ Len(b \o <<ESC>>) = Len(b) + 1 /\ (b \o <<ESC>>)[Len(b) + 1] = ESC
          /\ Len(b) \in Nat
      BY <1>2, <3>1
    <3>3. Len(<<>>) = 0
      OBVIOUS
    <3> QED
      BY <3>1, <3>2, <3>3
  <2>3. ASSUME NEW i \in 1 .. n + 1, new[i] = Key(<<ESC>>) PROVE i = n + 1
    <3>1. i # n + 1 => i \in 1 .. n
      BY <1>1
    <3> QED
      BY <1>1, <2>1, <2>3, <3>1
  <2> QED
    BY <1>1, <2>2, <2>3 DEF EscIsLast
<1>8. b \o Bytes(e) \in Seq(Symbols)
  BY <1>2, ConcatProperties
<1> QED
  BY <1>1, <1>6, <1>7, <1>8 DEF Ahead, new

\* The first event is read.
LEMMA AheadRead ==
    ASSUME NEW b, NEW es, Ahead(b, es), es # <<>>
    PROVE  /\ es \in Seq(Events) /\ es[1] \in Events /\ Tail(es) \in Seq(Events)
           /\ es = <<es[1]>> \o Tail(es)
           /\ es[1] = Key(<<ESC>>) => Tail(es) = <<>>
           /\ \E more : Ahead(more, Tail(es)) /\ b = Bytes(es[1]) \o more
<1>0. PICK left \in [0 .. Len(es) -> Seq(Symbols)] :
        /\ left[0] = b /\ left[Len(es)] = <<>>
        /\ \A i \in 1 .. Len(es) : left[i - 1] = Bytes(es[i]) \o left[i]
  BY DEF Ahead, Stream
<1> DEFINE t == Tail(es)
           m == Len(es) - 1
           l == [i \in 0 .. m |-> left[i + 1]]
<1>1. es \in Seq(Events) /\ Len(es) \in Nat /\ Len(es) >= 1
  BY LenProperties DEF Ahead
<1>2. /\ t \in Seq(Events) /\ Len(t) = m /\ m \in Nat /\ es[1] \in Events
      /\ \A i \in 1 .. m : t[i] = es[i + 1]
  BY <1>1
<1>3. es = <<es[1]>> \o t
  <2>1. <<es[1]>> \in Seq(Events) /\ Len(<<es[1]>>) = 1
    BY <1>2
  <2> HIDE DEF t, m
  <2>2. <<es[1]>> \o t \in Seq(Events) /\ Len(<<es[1]>> \o t) = 1 + m
    BY <1>2, <2>1
  <2>3. \A i \in 1 .. Len(es) : (<<es[1]>> \o t)[i] = es[i]
    BY <1>1, <1>2, <2>1 DEF m
  <2>4. 1 + m = Len(es)
    BY <1>1 DEF m
  <2> DEFINE w == <<es[1]>> \o t
  <2>5. w \in Seq(Events) /\ Len(w) = Len(es) /\ \A i \in 1 .. Len(w) : w[i] = es[i]
    BY <2>2, <2>3, <2>4
  <2> HIDE DEF w
  <2>6. w = es
    BY <1>1, <2>5, SeqEqual
  <2> QED
    BY <2>6 DEF w
<1> HIDE DEF t
<1>4. l \in [0 .. m -> Seq(Symbols)] /\ l[0] = left[1] /\ l[m] = <<>>
  BY <1>0, <1>1
<1>5. ASSUME NEW i \in 1 .. m PROVE l[i - 1] = Bytes(t[i]) \o l[i]
  <2>1. i + 1 \in 1 .. Len(es) /\ l[i - 1] = left[(i + 1) - 1] /\ l[i] = left[i + 1] /\ t[i] = es[i + 1]
    BY <1>1, <1>2
  <2> QED
    BY <1>0, <2>1
<1>6. left[1] \in Seq(Symbols) /\ b = Bytes(es[1]) \o left[1] /\ b \in Seq(Symbols)
  <2>1. 1 \in 1 .. Len(es) /\ 1 \in 0 .. Len(es) /\ 1 - 1 = 0
    BY <1>1
  <2>2. left[1 - 1] = Bytes(es[1]) \o left[1]
    BY <1>0, <2>1
  <2> QED
    BY <1>0, <2>1, <2>2 DEF Ahead
<1>7. Stream(left[1], t)
  <2> HIDE DEF l, m
  <2> QED
    BY <1>2, <1>4, <1>5 DEF Stream
<1>8. es[1] = Key(<<ESC>>) => t = <<>>
  <2>1. es[1] = Key(<<ESC>>) => Len(es) = 1
    BY <1>1 DEF Ahead, EscIsLast
  <2> QED
    BY <1>2, <2>1
<1>9. EscIsLast(left[1], t)
  <2>1. ASSUME NEW i \in 1 .. Len(t), t[i] = Key(<<ESC>>) PROVE i = Len(t)
    <3>1. i + 1 \in 1 .. Len(es) /\ es[i + 1] = Key(<<ESC>>)
      BY <1>1, <1>2, <2>1
    <3>2. i + 1 = Len(es)
      BY <3>1 DEF Ahead, EscIsLast
    <3> QED
      BY <1>1, <1>2, <3>2
  <2>2. ASSUME t # <<>>, t[Len(t)] = Key(<<ESC>>)
        PROVE  left[1] # <<>> /\ left[1][Len(left[1])] = ESC
    <3>1. Len(t) \in 1 .. m /\ t[Len(t)] = es[Len(es)]
      BY <1>1, <1>2, <2>2
    <3>2. b # <<>> /\ b[Len(b)] = ESC
      BY <2>2, <3>1 DEF Ahead, EscIsLast
    <3>3. left[1] # <<>>
      <4>1. 2 \in 1 .. Len(es) /\ es[2] \in Events /\ left[2] \in Seq(Symbols)
        BY <1>1, <1>2, <3>1
      <4>2. left[1] = Bytes(es[2]) \o left[2]
        <5>1. left[2 - 1] = Bytes(es[2]) \o left[2]
          BY <1>0, <4>1
        <5>2. 2 - 1 = 1
          OBVIOUS
        <5> QED
          BY <5>1, <5>2
      <4>3. Bytes(es[2]) \in Seq(Symbols) /\ Bytes(es[2]) # <<>>
        BY <4>1, BytesFacts
      <4> QED
        BY <4>1, <4>2, <4>3, ConcatSimplifications
    <3>4. Bytes(es[1]) \in Seq(Symbols)
      BY <1>2, BytesFacts
    <3>5. (Bytes(es[1]) \o left[1])[Len(Bytes(es[1]) \o left[1])] = left[1][Len(left[1])]
      BY <1>6, <3>3, <3>4, LastOfConcat
    <3> QED
      BY <1>6, <3>2, <3>3, <3>5
  <2> QED
    BY <2>1, <2>2 DEF EscIsLast
<1>10. Ahead(left[1], t)
  BY <1>2, <1>6, <1>7, <1>9 DEF Ahead
<1> QED
  BY <1>1, <1>2, <1>3, <1>6, <1>8, <1>10 DEF t

\* The first byte of what is left is the one that is read.
LEMMA ByteTaken ==
    ASSUME TypeOK, NEW c, NEW at, Got(c, at),
           NEW x \in Symbols, NEW r \in Seq(Symbols), NEW more \in Seq(Symbols),
           input \o transit = (<<x>> \o r) \o more
    PROVE  c = x /\ input' \o transit' = r \o more
<1>1. /\ c \in Symbols /\ input' = <<>> /\ Len(input) = 1 /\ c = Head(input)
      /\ input \in Seq(Symbols) /\ transit \in Seq(Symbols) /\ transit' = transit
  BY GotFacts DEF TypeOK, Got
<1>2. input = <<c>>
  BY <1>1
<1>3. <<x>> \in Seq(Symbols)
  OBVIOUS
<1>4. (<<x>> \o r) \o more = <<x>> \o (r \o more)
  BY <1>3, ConcatAssociative
<1>5. r \o more \in Seq(Symbols)
  BY ConcatProperties
<1>6. <<c>> \o transit = <<x>> \o (r \o more)
  BY <1>2, <1>4
<1>7. c = x /\ transit = r \o more
  <2> DEFINE v == r \o more
  <2>1. v \in Seq(Symbols) /\ <<c>> \o transit = <<x>> \o v
    BY <1>5, <1>6
  <2> HIDE DEF v
  <2>2. PICK u \in Seq(Symbols) : u = transit
    BY <1>1
  <2>3. <<c>> \in Seq(Symbols) /\ <<x>> \in Seq(Symbols) /\ Len(<<c>>) = 1 /\ Len(<<x>>) = 1
    BY <1>1
  <2>4. Len(<<c>> \o u) = 1 + Len(u) /\ Len(<<x>> \o v) = 1 + Len(v)
    BY <2>1, <2>3, ConcatProperties
  <2>5. Len(u) = Len(v) /\ Len(u) \in Nat
    BY <2>1, <2>2, <2>4, LenProperties
  <2>6. (<<c>> \o u)[1] = c /\ (<<x>> \o v)[1] = x
    BY <2>1
  <2>7. \A i \in 1 .. Len(u) : (<<c>> \o u)[i + 1] = u[i] /\ (<<x>> \o v)[i + 1] = v[i]
    BY <2>1, <2>5
  <2>8. \A i \in 1 .. Len(u) : u[i] = v[i]
    BY <2>1, <2>2, <2>7
  <2>9. u = v
    BY <2>1, <2>5, <2>8, SeqEqual
  <2>10. c = x
    BY <2>1, <2>2, <2>6
  <2> QED
    BY <2>2, <2>9, <2>10 DEF v
<1>8. <<>> \o transit = transit
  BY <1>1, ConcatEmptySeq
<1> QED
  BY <1>1, <1>7, <1>8

LEMMA Kinds ==
    ASSUME NEW e \in Events
    PROVE  \/ \E c \in Symbols \ {ESC, LEAD} : e = Key(<<c>>) /\ Bytes(e) = <<c>>
           \/ e = Key(<<LEAD, CONT>>) /\ Bytes(e) = <<LEAD, CONT>>
           \/ \E rest \in Seq(Symbols) : Opened(e, rest) /\ Bytes(e) = <<ESC>> \o rest
<1>1. e \in Request /\ e.data \in Seq(Symbols) /\ e.op \in {"key", "insert"}
  BY EventFacts
<1>2. CASE e.op = "insert"
  <2> DEFINE d == e.data \o EndMark
             p == <<ESC, "[", "200", "~">>
  <2>1. EndMark \in Seq(Symbols) /\ p \in Seq(Symbols) /\ d \in Seq(Symbols)
    BY <1>1, SymbolFacts, ConcatProperties
  <2>2. Bytes(e) = p \o d
    <3>1. Bytes(e) = (p \o e.data) \o EndMark
      BY <1>2 DEF Bytes
    <3> HIDE DEF p
    <3>2. \A u, v, w \in Seq(Symbols) : (u \o v) \o w = u \o (v \o w)
      BY ConcatAssociative
    <3> QED
      BY <1>1, <2>1, <3>1, <3>2
  <2>3. /\ <<ESC>> \in Seq(Symbols) /\ <<"[">> \in Seq(Symbols)
        /\ <<"200">> \in Seq(Symbols) /\ <<"~">> \in Seq(Symbols)
    BY SymbolFacts
  <2>4. p = <<ESC>> \o (<<"[">> \o (<<"200">> \o <<"~">>))
    OBVIOUS
  <2> HIDE DEF p, d
  <2> DEFINE r3 == <<"~">> \o d
             r2 == <<"200">> \o r3
             r1 == <<"[">> \o r2
             q2 == <<"200">> \o <<"~">>
             q1 == <<"[">> \o q2
  <2>5. q2 \in Seq(Symbols) /\ q1 \in Seq(Symbols)
    BY <2>3, ConcatProperties
  <2>0. \A u, v, w \in Seq(Symbols) : (u \o v) \o w = u \o (v \o w)
    BY ConcatAssociative
  <2>6. q2 \o d = r2
    BY <2>0, <2>1, <2>3
  <2>7. r3 \in Seq(Symbols) /\ r2 \in Seq(Symbols) /\ r1 \in Seq(Symbols)
    BY <2>1, <2>3, ConcatProperties
  <2> HIDE DEF q2, r2
  <2>8. q1 \o d = r1
    <3>1. (<<"[">> \o q2) \o d = <<"[">> \o (q2 \o d)
      BY <2>0, <2>1, <2>3, <2>5
    <3> QED
      BY <2>6, <3>1
  <2> HIDE DEF q1, r1
  <2>9. (<<ESC>> \o q1) \o d = <<ESC>> \o r1
    <3>1. (<<ESC>> \o q1) \o d = <<ESC>> \o (q1 \o d)
      BY <2>0, <2>1, <2>3, <2>5
    <3> QED
      BY <2>8, <3>1
  <2>10. Bytes(e) = <<ESC>> \o r1
    BY <2>2, <2>4, <2>9 DEF q1, q2
  <2>11. Opened(e, r1)
    BY <1>2 DEF Opened, r1, r2, d
  <2> QED
    BY <2>7, <2>10, <2>11
<1>3. CASE e.op = "key"
  <2> DEFINE s == e.data
  <2>1. e = Key(s) /\ IsKey(s) /\ IsText(s) /\ s \in Seq(Symbols)
    <3>1. e = Key(s)
      BY <1>1, <1>3 DEF Request, Key
    <3> QED
      BY <1>1, <1>3, <3>1, EventAssumption
  <2> HIDE DEF s
  <2>2. e.op # "insert" /\ e.data = s
    BY <1>3 DEF s
  <2>3. CASE s = <<"<up>">>
    <3>1. Bytes(e) = <<ESC, "[", "A">>
      BY <2>2, <2>3 DEF Bytes
    <3>2. <<"[", "A">> \in Seq(Symbols)
      BY SymbolFacts, SymbolAssumption DEF Final
    <3>3. <<ESC, "[", "A">> = <<ESC>> \o <<"[", "A">>
      OBVIOUS
    <3> QED
      BY <2>1, <2>3, <3>1, <3>2, <3>3 DEF Opened
  <2>4. CASE Len(s) = 2 /\ s[1] = "M-" /\ s[2] \notin {"[", "O"}
    <3>1. s = <<"M-", s[2]>> /\ s[2] \in Symbols /\ Tail(s) = <<s[2]>>
      <4>1. s[2] \in Symbols /\ s = <<s[1], s[2]>>
        BY <2>1, <2>4
      <4>2. Len(Tail(s)) = 1 /\ Tail(s)[1] = s[2] /\ Tail(s) \in Seq(Symbols)
        BY <2>1, <2>4
      <4>3. Tail(s) = <<s[2]>>
        <5> DEFINE u == Tail(s)
                   a == s[2]
        <5>1. u \in Seq(Symbols) /\ Len(u) = 1 /\ u[1] = a
          BY <4>2
        <5> HIDE DEF u, a
        <5>2. u = <<a>>
          BY <5>1
        <5> QED
          BY <5>2 DEF u, a
      <4> QED
        BY <2>4, <4>1, <4>3
    <3>2. s # <<"<up>">>
      BY <2>4
    <3>3. Bytes(e) = <<ESC>> \o <<s[2]>>
      BY <2>2, <2>4, <3>1, <3>2 DEF Bytes
    <3>4. <<s[2]>> \in Seq(Symbols)
      BY <3>1
    <3> QED
      BY <2>1, <2>4, <3>1, <3>3, <3>4 DEF Opened
  <2>5. CASE Len(s) = 1 /\ s[1] \notin {LEAD, "M-"} /\ s # <<"<up>">>
    <3>1. s = <<s[1]>> /\ s[1] \in Symbols
      BY <2>1, <2>5, SMTT(60)
    <3>2. Bytes(e) = s
      BY <2>2, <2>5 DEF Bytes
    <3>3. CASE s[1] = ESC
      <4>1. <<ESC>> \o <<>> = <<ESC>>
        BY SymbolFacts, ConcatEmptySeq
      <4> QED
        BY <2>1, <3>1, <3>2, <3>3, <4>1, EmptySeq DEF Opened
    <3>4. CASE s[1] # ESC
      BY <2>1, <2>5, <3>1, <3>2, <3>4
    <3> QED
      BY <3>3, <3>4
  <2>6. CASE s = <<LEAD, CONT>>
    <3>1. s # <<"<up>">> /\ s[1] # "M-"
      BY <2>6 DEF LEAD
    <3> QED
      BY <2>1, <2>2, <2>6, <3>1 DEF Bytes
  <2> QED
    BY <2>1, <2>3, <2>4, <2>5, <2>6 DEF IsKey
<1> QED
  BY <1>1, <1>2, <1>3

\* What is typed has, at its place, the event that is about to be executed.
LEMMA NextTyped ==
    ASSUME TypeOK, NEW e \in Request, NEW todo \in Seq(Events),
           typed = (executed \o <<e>>) \o todo
    PROVE  Len(executed) + 1 \in DOMAIN typed /\ typed[Len(executed) + 1] = e /\ e \in Events
<1>1. executed \in Seq(Request) /\ <<e>> \in Seq(Request) /\ Len(<<e>>) = 1
      /\ Len(executed) \in Nat /\ typed \in Seq(Events)
  BY DEF TypeOK
<1>2. Events \subseteq Request
  BY EventFacts
<1>3. todo \in Seq(Request) /\ Len(todo) \in Nat
  BY <1>2, SeqMonotonic
<1> DEFINE h == executed \o <<e>>
           k == Len(executed) + 1
<1>4. h \in Seq(Request) /\ Len(h) = k /\ h[k] = e
  BY <1>1
<1>5. k \in Nat /\ k >= 1
  BY <1>1
<1> HIDE DEF h, k
<1>6. Len(h \o todo) = k + Len(todo) /\ (h \o todo)[k] = h[k] /\ h \o todo \in Seq(Request)
  <2>1. Len(h \o todo) = k + Len(todo) /\ h \o todo \in Seq(Request)
    BY <1>3, <1>4, ConcatProperties
  <2>2. \A i \in 1 .. Len(h) : (h \o todo)[i] = h[i]
    BY <1>3, <1>4, ConcatProperties
  <2>3. k \in 1 .. Len(h)
    BY <1>4, <1>5
  <2> QED
    BY <2>1, <2>2, <2>3
<1>7. typed = h \o todo
  BY DEF h
<1>8. k \in 1 .. Len(typed)
  BY <1>3, <1>5, <1>6, <1>7
<1>9. typed[k] \in Events
  BY <1>1, <1>8
<1> QED
  BY <1>1, <1>4, <1>6, <1>7, <1>8, <1>9 DEF k

LEMMA PrefixOf ==
    ASSUME NEW S, NEW s \in Seq(S), NEW u \in Seq(S)
    PROVE  IsPrefix(s, s \o u)
<1>1. s \o u \in Seq(S) /\ Len(s \o u) = Len(s) + Len(u) /\ Len(s) \in Nat /\ Len(u) \in Nat
  BY ConcatProperties, LenProperties
<1>2. \A i \in 1 .. Len(s) : (s \o u)[i] = s[i] /\ s[i] \in S
  OBVIOUS
<1>3. /\ SubSeq(s, 1, Len(s)) \in Seq(S) /\ Len(SubSeq(s, 1, Len(s))) = Len(s)
      /\ \A i \in 1 .. Len(s) : SubSeq(s, 1, Len(s))[i] = s[i]
  BY <1>1
<1> DEFINE w == s \o u
           l == Len(s)
<1>4. w \in Seq(S) /\ l \in Nat /\ l <= Len(w)
  BY <1>1
<1> HIDE DEF w, l
<1>5. /\ SubSeq(w, 1, l) \in Seq(S) /\ Len(SubSeq(w, 1, l)) = l
      /\ \A i \in 1 .. l : SubSeq(w, 1, l)[i] = w[i]
  BY <1>4
<1>6. SubSeq(s, 1, Len(s)) = SubSeq(s \o u, 1, Len(s))
  BY <1>2, <1>3, <1>5, SeqEqual DEF w, l
<1> QED
  BY <1>1, <1>6 DEF IsPrefix

LEMMA PrefixGrows ==
    ASSUME NEW S, NEW s \in Seq(S), NEW t \in Seq(S), NEW e \in S, IsPrefix(s, t)
    PROVE  IsPrefix(s, Append(t, e))
<1>1. Len(s) \in Nat /\ Len(t) \in Nat /\ Len(s) <= Len(t)
  BY LenProperties DEF IsPrefix
<1> DEFINE l == Len(s)
           w == Append(t, e)
<1>2. w \in Seq(S) /\ Len(w) = Len(t) + 1 /\ \A i \in 1 .. Len(t) : w[i] = t[i]
  BY AppendProperties
<1>3. l \in Nat /\ l <= Len(t)
  BY <1>1
<1> HIDE DEF w, l
<1>4. /\ SubSeq(w, 1, l) \in Seq(S) /\ Len(SubSeq(w, 1, l)) = l
      /\ \A i \in 1 .. l : SubSeq(w, 1, l)[i] = w[i]
  BY <1>1, <1>2, <1>3
<1>5. /\ SubSeq(t, 1, l) \in Seq(S) /\ Len(SubSeq(t, 1, l)) = l
      /\ \A i \in 1 .. l : SubSeq(t, 1, l)[i] = t[i]
  BY <1>1, <1>3
<1>6. SubSeq(w, 1, l) = SubSeq(t, 1, l)
  <2>1. \A i \in 1 .. l : w[i] = t[i]
    BY <1>1, <1>2, <1>3
  <2> QED
    BY <1>4, <1>5, <2>1, SeqEqual
<1> QED
  BY <1>1, <1>2, <1>6 DEF IsPrefix, l, w

LEMMA SecondAppended ==
    ASSUME NEW S, NEW a \in S, NEW b \in S
    PROVE  Append(<<a>>, b) = <<a, b>>
<1>1. <<a>> \in Seq(S)
  OBVIOUS
<1>2. Append(<<a>>, b) = <<a>> \o <<b>>
  BY <1>1, AppendIsConcat
<1>3. <<a>> \o <<b>> = <<a, b>>
  <2> DEFINE u == <<a>> \o <<b>>
             v == <<a, b>>
  <2>1. u \in Seq(S) /\ Len(u) = 2 /\ u[1] = a /\ u[2] = b
    OBVIOUS
  <2>2. v \in Seq(S) /\ Len(v) = 2 /\ v[1] = a /\ v[2] = b
    OBVIOUS
  <2> HIDE DEF u, v
  <2>3. \A i \in 1 .. Len(u) : u[i] = v[i]
    BY <2>1, <2>2
  <2>4. u = v
    BY <2>1, <2>2, <2>3, SeqEqual
  <2> QED
    BY <2>4 DEF u, v
<1> QED
  BY <1>2, <1>3

LEMMA Regrouped ==
    ASSUME NEW S, NEW s \in Seq(S), NEW e \in S, NEW t \in Seq(S)
    PROVE  (s \o <<>>) \o (<<e>> \o t) = (s \o <<e>>) \o t
<1>1. <<e>> \in Seq(S) /\ s \o <<>> = s
  BY ConcatEmptySeq
<1>2. (s \o <<e>>) \o t = s \o (<<e>> \o t)
  BY <1>1, ConcatAssociative
<1> QED
  BY <1>1, <1>2

\* The event is complete, and goes to the backend.
LEMMA EventRead ==
    ASSUME NEW e \in Events, NEW todo, Ahead(input' \o transit', todo),
           typed = (executed \o <<e>>) \o todo, typed' = typed, executed' = executed,
           pc' = "write", request' = e
    PROVE  Typing'
<1>1. Due' = <<e>>
  BY EventFacts DEF Due
<1>2. Between(todo)'
  BY <1>1 DEF Between
<1> QED
  BY <1>2 DEF Typing, Over, Reading

LEMMA FirstByteTyped ==
    ASSUME KeyInv, FirstByte, Typing
    PROVE  Typing'
<1> DEFINE c == Head(input)
           at == CASE c = ESC -> "esc" [] c = LEAD -> "utf8" [] OTHER -> "write"
<1>1. /\ pc = "poll" /\ Got(c, at) /\ Read(c \notin {ESC, LEAD}, Key(<<c>>))
      /\ held' = IF c = LEAD THEN <<c>> ELSE <<>>
  BY DEF FirstByte
<1>2. TypeOK /\ pipe = None
  BY <1>1 DEF KeyInv, TurnInv, Turns
<1>3. PICK todo : Between(todo)
  BY <1>1 DEF Typing, Over, Reading
<1>4. Due = <<>>
  BY <1>1, <1>2 DEF Due
<1>5. todo # <<>>
  <2>1. input # <<>> /\ input \in Seq(Symbols) /\ transit \in Seq(Symbols)
    BY <1>1, <1>2 DEF Got, TypeOK
  <2>2. input \o transit # <<>>
    BY <2>1, ConcatSimplifications
  <2> QED
    BY <1>3, <2>2, NothingAhead DEF Between
<1> DEFINE e == todo[1]
           left == Tail(todo)
<1>6. PICK more : Ahead(more, left) /\ input \o transit = Bytes(e) \o more
  BY <1>3, <1>5, AheadRead DEF Between
<1>7. /\ e \in Events /\ left \in Seq(Events) /\ todo = <<e>> \o left
      /\ e = Key(<<ESC>>) => left = <<>>
  BY <1>3, <1>5, AheadRead DEF Between
<1> HIDE DEF e, left
<1>8. typed = (executed \o <<e>>) \o left
  <2>1. executed \in Seq(Request) /\ e \in Request /\ left \in Seq(Request)
    <3>1. Events \subseteq Request
      BY EventFacts
    <3> QED
      BY <1>2, <1>7, <3>1, SeqMonotonic DEF TypeOK
  <2>2. (executed \o <<>>) \o (<<e>> \o left) = (executed \o <<e>>) \o left
    BY <2>1, Regrouped
  <2> QED
    BY <1>3, <1>4, <1>7, <2>2 DEF Between
<1>9. typed' = typed /\ executed' = executed /\ pc' = at
  BY <1>1 DEF Got, editor
<1>10. more \in Seq(Symbols) /\ {ESC, LEAD, CONT} \subseteq Symbols
  BY <1>6, SymbolFacts DEF Ahead
<1> HIDE DEF c, at
<1>11. \A x \in Symbols, r \in Seq(Symbols) :
         Bytes(e) = <<x>> \o r => c = x /\ input' \o transit' = r \o more
  <2> SUFFICES ASSUME NEW x \in Symbols, NEW r \in Seq(Symbols), Bytes(e) = <<x>> \o r
               PROVE  c = x /\ input' \o transit' = r \o more
    OBVIOUS
  <2>1. input \o transit = (<<x>> \o r) \o more
    BY <1>6
  <2>2. Got(c, at)
    BY <1>1
  <2> QED
    BY <1>2, <1>10, <2>1, <2>2, ByteTaken
<1>12. CASE \E x \in Symbols \ {ESC, LEAD} : e = Key(<<x>>) /\ Bytes(e) = <<x>>
  <2>1. PICK x \in Symbols \ {ESC, LEAD} : e = Key(<<x>>) /\ Bytes(e) = <<x>>
    BY <1>12
  <2>2. <<x>> \o <<>> = <<x>> /\ <<>> \o more = more /\ <<>> \in Seq(Symbols)
    <3>1. <<x>> \in Seq(Symbols)
      OBVIOUS
    <3> QED
      BY <1>10, <3>1, ConcatEmptySeq, EmptySeq
  <2>3. c = x /\ input' \o transit' = more
    BY <1>11, <2>1, <2>2
  <2>4. pc' = "write" /\ request' = e
    BY <1>1, <1>9, <2>1, <2>3 DEF Read, at
  <2> QED
    BY <1>6, <1>7, <1>8, <1>9, <2>3, <2>4, EventRead
<1>13. CASE e = Key(<<LEAD, CONT>>) /\ Bytes(e) = <<LEAD, CONT>>
  <2>1. <<LEAD, CONT>> = <<LEAD>> \o <<CONT>>
    BY DEF LEAD, CONT
  <2>2. <<CONT>> \in Seq(Symbols)
    BY SymbolFacts
  <2>3. c = LEAD /\ input' \o transit' = <<CONT>> \o more
    BY <1>10, <1>11, <1>13, <2>1, <2>2
  <2>4. pc' = "utf8"
    BY <1>9, <2>3 DEF at, LEAD, ESC
  <2>5. Rest(e, <<CONT>>)'
    BY <1>13, <2>4 DEF Rest
  <2>6. e # Key(<<ESC>>)
    BY <1>13 DEF Key
  <2>7. Within(e, <<CONT>>, more, left)'
    BY <1>6, <1>7, <1>8, <1>9, <2>2, <2>3, <2>5, <2>6 DEF Within
  <2> QED
    BY <2>4, <2>7 DEF Typing, Over, Reading
<1>14. CASE \E rest \in Seq(Symbols) : Opened(e, rest) /\ Bytes(e) = <<ESC>> \o rest
  <2>1. PICK rest \in Seq(Symbols) : Opened(e, rest) /\ Bytes(e) = <<ESC>> \o rest
    BY <1>14
  <2>2. c = ESC /\ input' \o transit' = rest \o more
    BY <1>10, <1>11, <2>1
  <2>3. pc' = "esc"
    BY <1>9, <2>2 DEF at, ESC, LEAD
  <2>4. Rest(e, rest)'
    BY <2>1, <2>3 DEF Rest
  <2>5. Within(e, rest, more, left)'
    BY <1>6, <1>7, <1>8, <1>9, <2>2, <2>4 DEF Within
  <2> QED
    BY <2>3, <2>5 DEF Typing, Over, Reading
<1> QED
  BY <1>7, <1>12, <1>13, <1>14, Kinds

\* What reading a byte has in common for the rest of an event.
ReadsRest(c, at, e, rest, more, todo) ==
    /\ typed' = typed /\ executed' = executed /\ pc' = at
    /\ typed = (executed \o <<e>>) \o todo /\ e \in Events /\ Ahead(more, todo)
    /\ more \in Seq(Symbols) /\ rest \in Seq(Symbols)
    /\ \A x \in Symbols, r \in Seq(Symbols) :
         rest = <<x>> \o r => c = x /\ input' \o transit' = r \o more
    /\ \A x \in Symbols : rest = <<x>> => c = x /\ Ahead(input' \o transit', todo)
    /\ rest = <<>> => todo # <<>>

LEMMA RestTaken ==
    ASSUME TypeOK, NEW c, NEW at, Got(c, at),
           NEW e, NEW rest, NEW more, NEW todo, Within(e, rest, more, todo)
    PROVE  ReadsRest(c, at, e, rest, more, todo)
<1>1. typed' = typed /\ executed' = executed /\ pc' = at
  BY DEF Got, editor
<1>2. /\ typed = (executed \o <<e>>) \o todo /\ e \in Events /\ Ahead(more, todo)
      /\ more \in Seq(Symbols) /\ rest \in Seq(Symbols) /\ input \o transit = rest \o more
  BY DEF Within, Ahead
<1>3. ASSUME NEW x \in Symbols, NEW r \in Seq(Symbols), rest = <<x>> \o r
      PROVE  c = x /\ input' \o transit' = r \o more
  BY <1>2, <1>3, ByteTaken
<1>4. ASSUME NEW x \in Symbols, rest = <<x>>
      PROVE  c = x /\ Ahead(input' \o transit', todo)
  <2>1. <<x>> \o <<>> = <<x>> /\ <<>> \o more = more /\ <<>> \in Seq(Symbols)
    <3>1. <<x>> \in Seq(Symbols)
      OBVIOUS
    <3> QED
      BY <1>2, <3>1, ConcatEmptySeq, EmptySeq
  <2>2. c = x /\ input' \o transit' = more
    BY <1>3, <1>4, <2>1
  <2> QED
    BY <1>2, <2>2
<1>5. rest = <<>> => todo # <<>>
  <2> SUFFICES ASSUME rest = <<>>, todo = <<>> PROVE FALSE
    OBVIOUS
  <2>1. more = <<>>
    BY <1>2, NothingAhead
  <2>2. <<>> \o <<>> = <<>>
    OBVIOUS
  <2>3. input \o transit = <<>>
    BY <1>2, <2>1, <2>2
  <2>4. input # <<>> /\ input \in Seq(Symbols) /\ transit \in Seq(Symbols)
    BY DEF Got, TypeOK
  <2> QED
    BY <2>3, <2>4, ConcatSimplifications
<1> QED
  BY <1>1, <1>2, <1>3, <1>4, <1>5 DEF ReadsRest

LEMMA EscByteTyped ==
    ASSUME KeyInv, EscByte, Typing
    PROVE  Typing'
<1> DEFINE c == Head(input)
           at == IF c \in {"[", "O"} THEN "seq" ELSE "write"
<1>1. /\ pc = "esc" /\ Got(c, at) /\ Read(c \notin {"[", "O"}, Key(<<"M-", c>>))
      /\ intro' = (IF c \in {"[", "O"} THEN c ELSE None) /\ held' = held
  BY DEF EscByte
<1>2. TypeOK /\ held = <<>>
  BY <1>1 DEF KeyInv, TurnInv, Keeps
<1>3. PICK e, rest, more, todo : Within(e, rest, more, todo)
  BY <1>1 DEF Typing, Reading
<1> HIDE DEF c, at
<1>4. /\ typed' = typed /\ executed' = executed /\ pc' = at
      /\ typed = (executed \o <<e>>) \o todo /\ e \in Events /\ Ahead(more, todo)
      /\ more \in Seq(Symbols) /\ rest \in Seq(Symbols)
      /\ \A x \in Symbols, r \in Seq(Symbols) :
           rest = <<x>> \o r => c = x /\ input' \o transit' = r \o more
      /\ \A x \in Symbols : rest = <<x>> => c = x /\ Ahead(input' \o transit', todo)
      /\ rest = <<>> => todo # <<>>
  <2>1. ReadsRest(c, at, e, rest, more, todo)
    BY <1>1, <1>2, <1>3, RestTaken
  <2> QED
    BY <2>1 DEF ReadsRest
<1>5. Opened(e, rest) /\ (e = Key(<<ESC>>) => todo = <<>>)
  BY <1>1, <1>3 DEF Within, Rest
<1>6. e = Key(<<ESC>>) => rest # <<>>
  BY <1>4, <1>5
<1>7. CASE \E x \in Symbols \ {"[", "O"} : e = Key(<<"M-", x>>) /\ rest = <<x>>
  <2>1. PICK x \in Symbols \ {"[", "O"} : e = Key(<<"M-", x>>) /\ rest = <<x>>
    BY <1>7
  <2>2. c = x /\ Ahead(input' \o transit', todo)
    BY <1>4, <2>1
  <2>3. pc' = "write" /\ request' = e
    BY <1>1, <1>4, <2>1, <2>2 DEF Read, at
  <2> QED
    BY <1>4, <2>2, <2>3, EventRead
<1>8. ASSUME NEW r \in Seq(Symbols), rest = <<"[">> \o r, e # Key(<<ESC>>),
             \/ e = Key(<<"<up>">>) /\ r = <<"A">>
             \/ e.op = "insert" /\ r = <<"200">> \o (<<"~">> \o (e.data \o EndMark))
      PROVE  Typing'
  <2>1. c = "[" /\ input' \o transit' = r \o more
    BY <1>4, <1>8, SymbolFacts
  <2>2. pc' = "seq" /\ intro' = "[" /\ held' = <<>>
    BY <1>1, <1>2, <1>4, <2>1 DEF at
  <2>3. Rest(e, r)'
    BY <1>8, <2>2 DEF Rest
  <2>4. Within(e, r, more, todo)'
    BY <1>4, <1>8, <2>1, <2>3 DEF Within
  <2> QED
    BY <2>2, <2>4 DEF Typing, Over, Reading
<1>9. CASE e = Key(<<"<up>">>) /\ rest = <<"[", "A">>
  <2>1. <<"[", "A">> = <<"[">> \o <<"A">>
    OBVIOUS
  <2>2. <<"A">> \in Seq(Symbols)
    BY SymbolAssumption DEF Final
  <2>3. e # Key(<<ESC>>)
    <3>1. <<"<up>">>[1] # <<ESC>>[1]
      BY DEF ESC
    <3> QED
      BY <1>9, <3>1 DEF Key
  <2> QED
    BY <1>8, <1>9, <2>1, <2>2, <2>3
<1>10. CASE e.op = "insert" /\ rest = <<"[">> \o (<<"200">> \o (<<"~">> \o (e.data \o EndMark)))
  <2> DEFINE d == e.data \o EndMark
             r == <<"200">> \o (<<"~">> \o d)
  <2>1. d \in Seq(Symbols)
    BY <1>4, EventFacts, SymbolFacts, ConcatProperties
  <2>2. <<"200">> \in Seq(Symbols) /\ <<"~">> \in Seq(Symbols)
    BY SymbolFacts
  <2> HIDE DEF d
  <2>3. r \in Seq(Symbols)
    BY <2>1, <2>2, ConcatProperties
  <2>4. rest = <<"[">> \o r /\ r = <<"200">> \o (<<"~">> \o (e.data \o EndMark))
    BY <1>10 DEF d
  <2>5. e # Key(<<ESC>>)
    BY <1>10 DEF Key
  <2> HIDE DEF r
  <2> QED
    BY <1>8, <1>10, <2>3, <2>4, <2>5
<1> QED
  BY <1>5, <1>6, <1>7, <1>9, <1>10 DEF Opened

\* What is in the middle of an event is in the middle of one that was entered.
LEMMA WithinTyped ==
    ASSUME TypeOK, Faithful, NEW e, NEW rest, NEW more, NEW todo, Within(e, rest, more, todo)
    PROVE  e \in Events /\ Whole(e)
<1>1. e \in Events /\ e \in Request /\ typed = (executed \o <<e>>) \o todo /\ todo \in Seq(Events)
  BY EventFacts DEF Within, Ahead
<1>2. Len(executed) + 1 \in DOMAIN typed /\ typed[Len(executed) + 1] = e
  BY <1>1, NextTyped
<1> QED
  BY <1>1, <1>2 DEF Faithful

LEMMA SeqByteTyped ==
    ASSUME KeyInv, SeqByte, Typing
    PROVE  Typing'
<1> DEFINE c == Head(input)
           seq == Append(held, c)
           over == c \in Final \/ Len(seq) = SeqLimit
           at == IF ~over THEN "seq" ELSE IF PasteBegins(seq) THEN "paste" ELSE "write"
<1>1. /\ pc = "seq" /\ Got(c, at) /\ Read(over /\ ~PasteBegins(seq), Mapped(seq))
      /\ held' = (IF over THEN <<>> ELSE seq)
      /\ intro' = (IF over THEN None ELSE intro)
  BY DEF SeqByte
<1>2. TypeOK
  BY DEF KeyInv, TurnInv
<1>3. PICK e, rest, more, todo : Within(e, rest, more, todo)
  BY <1>1 DEF Typing, Reading
<1>4. seq = Append(held, c) /\ (over <=> c \in Final \/ Len(seq) = SeqLimit)
  OBVIOUS
<1>5. at = IF ~over THEN "seq" ELSE IF PasteBegins(seq) THEN "paste" ELSE "write"
  OBVIOUS
<1> HIDE DEF c, at, over, seq
<1>6. ReadsRest(c, at, e, rest, more, todo)
  BY <1>1, <1>2, <1>3, RestTaken
<1>7. /\ intro = "["
      /\ \/ e = Key(<<"<up>">>) /\ held = <<>> /\ rest = <<"A">>
         \/ e.op = "insert" /\ held = <<>> /\ rest = <<"200">> \o (<<"~">> \o (e.data \o EndMark))
         \/ e.op = "insert" /\ held = <<"200">> /\ rest = <<"~">> \o (e.data \o EndMark)
  BY <1>1, <1>3 DEF Within, Rest
<1>8. "A" \in Symbols /\ "~" \in Symbols /\ "200" \in Symbols
  BY SymbolAssumption DEF Final
<1> DEFINE d == e.data \o EndMark
<1>9. d \in Seq(Symbols) /\ <<"~">> \in Seq(Symbols) /\ <<"~">> \o d \in Seq(Symbols)
  <2>1. d \in Seq(Symbols) /\ <<"~">> \in Seq(Symbols)
    BY <1>6, <1>8, EventFacts, SymbolFacts, ConcatProperties DEF ReadsRest
  <2> HIDE DEF d
  <2> QED
    BY <2>1, ConcatProperties
<1>10. SeqLimit \in Nat \ {0, 1}
  BY TerminalAssumption
<1>11. CASE e = Key(<<"<up>">>) /\ held = <<>> /\ rest = <<"A">>
  <2>1. c = "A" /\ Ahead(input' \o transit', todo)
    BY <1>6, <1>8, <1>11 DEF ReadsRest
  <2>2. seq = <<"A">> /\ over
    BY <1>4, <1>11, <2>1 DEF Final
  <2>3. ~PasteBegins(seq)
    <3>1. Len(<<"A">>) # Len(<<"200", "~">>)
      OBVIOUS
    <3> QED
      BY <2>2, <3>1 DEF PasteBegins
  <2>4. pc' = "write" /\ request' = e
    BY <1>1, <1>5, <1>6, <1>11, <2>2, <2>3 DEF Read, Mapped, ReadsRest
  <2> QED
    BY <1>6, <2>1, <2>4, EventRead DEF ReadsRest
<1>12. CASE e.op = "insert" /\ held = <<>> /\ rest = <<"200">> \o (<<"~">> \o d)
  <2> HIDE DEF d
  <2>1. c = "200" /\ input' \o transit' = (<<"~">> \o d) \o more
    BY <1>6, <1>8, <1>9, <1>12 DEF ReadsRest
  <2>2. seq = <<"200">> /\ Len(<<"200">>) = 1
    BY <1>4, <1>12, <2>1
  <2>3. ~over
    BY <1>4, <1>10, <2>1, <2>2 DEF Final
  <2>4. pc' = "seq" /\ held' = <<"200">> /\ intro' = "["
    BY <1>1, <1>5, <1>6, <1>7, <2>2, <2>3 DEF ReadsRest
  <2>5. Rest(e, <<"~">> \o d)'
    BY <1>12, <2>4 DEF Rest, d
  <2>6. e # Key(<<ESC>>)
    BY <1>12 DEF Key
  <2>7. Within(e, <<"~">> \o d, more, todo)'
    BY <1>6, <1>9, <2>1, <2>5, <2>6 DEF Within, ReadsRest
  <2> QED
    BY <2>4, <2>7 DEF Typing, Over, Reading
<1>13. CASE e.op = "insert" /\ held = <<"200">> /\ rest = <<"~">> \o d
  <2>1. d # <<>>
    <3>1. EndMark # <<>> /\ EndMark \in Seq(Symbols)
      <4>1. EndMark \in Seq(Symbols) /\ Len(EndMark) = 4 /\ Len(<<>>) = 0
        BY SymbolFacts
      <4> QED
        BY <4>1
    <3>2. e.data \in Seq(Symbols)
      BY <1>6, EventFacts DEF ReadsRest
    <3> QED
      BY <3>1, <3>2, ConcatSimplifications
  <2> HIDE DEF d
  <2>2. c = "~" /\ input' \o transit' = d \o more
    BY <1>6, <1>8, <1>9, <1>13 DEF ReadsRest
  <2>3. seq = <<"200", "~">> /\ over
    <3>1. Append(<<"200">>, "~") = <<"200", "~">>
      BY <1>8, SecondAppended
    <3> QED
      BY <1>4, <1>13, <2>2, <3>1 DEF Final
  <2>4. PasteBegins(seq)
    BY <1>7, <2>3 DEF PasteBegins
  <2>5. pc' = "paste" /\ held' = <<>>
    BY <1>1, <1>5, <1>6, <2>3, <2>4 DEF ReadsRest
  <2>6. Rest(e, d)'
    <3>1. <<>> \o d = d
      BY <1>9, ConcatEmptySeq
    <3>2. held' \o d = e.data \o EndMark
      BY <2>5, <3>1 DEF d
    <3> QED
      BY <1>13, <2>1, <2>5, <3>2 DEF Rest
  <2>7. e # Key(<<ESC>>)
    BY <1>13 DEF Key
  <2>8. Within(e, d, more, todo)'
    BY <1>6, <1>9, <2>2, <2>6, <2>7 DEF Within, ReadsRest
  <2> QED
    BY <2>5, <2>8 DEF Typing, Over, Reading
<1> QED
  BY <1>7, <1>11, <1>12, <1>13

LEMMA SuffixOf ==
    ASSUME NEW S, NEW s \in Seq(S), NEW t \in Seq(S)
    PROVE  IsSuffix(t, s \o t)
<1> DEFINE w == s \o t
<1>1. w \in Seq(S) /\ Len(w) = Len(s) + Len(t) /\ Len(s) \in Nat /\ Len(t) \in Nat
  BY ConcatProperties, LenProperties
<1>2. \A i \in 1 .. Len(t) : w[Len(s) + i] = t[i]
  BY ConcatProperties
<1> HIDE DEF w
<1>3. ASSUME NEW u \in Seq(S)
      PROVE  /\ Reverse(u) \in Seq(S) /\ Len(Reverse(u)) = Len(u)
             /\ \A i \in 1 .. Len(u) : Reverse(u)[i] = u[(Len(u) - i) + 1]
  <2>1. Reverse(u) = [i \in 1 .. Len(u) |-> u[(Len(u) - i) + 1]] /\ Len(u) \in Nat
    BY DEF Reverse
  <2>2. \A i \in 1 .. Len(u) : u[(Len(u) - i) + 1] \in S
    BY <2>1
  <2>3. Reverse(u) \in [1 .. Len(u) -> S]
    BY <2>1, <2>2
  <2> QED
    BY <2>1, <2>3
<1> DEFINE rt == Reverse(t)
           rw == Reverse(w)
           l == Len(t)
<1>4. rt \in Seq(S) /\ Len(rt) = l /\ \A i \in 1 .. l : rt[i] = t[(l - i) + 1]
  BY <1>3
<1>5. /\ rw \in Seq(S) /\ Len(rw) = Len(s) + l
      /\ \A i \in 1 .. l : rw[i] = w[(Len(s) + l - i) + 1]
  <2>1. rw \in Seq(S) /\ Len(rw) = Len(w) /\ \A i \in 1 .. Len(w) : rw[i] = w[(Len(w) - i) + 1]
    BY <1>1, <1>3
  <2>2. Len(w) = Len(s) + l /\ Len(s) \in Nat /\ l \in Nat /\ \A i \in 1 .. l : i \in 1 .. Len(w)
    BY <1>1
  <2> HIDE DEF rw, l
  <2>3. ASSUME NEW i \in 1 .. l PROVE rw[i] = w[(Len(s) + l - i) + 1]
    <3>1. i \in 1 .. Len(w)
      BY <2>2
    <3>2. rw[i] = w[(Len(w) - i) + 1]
      BY <2>1, <3>1
    <3> QED
      BY <2>2, <3>2
  <2> QED
    BY <2>1, <2>2, <2>3
<1> HIDE DEF rt, rw, l
<1>6. l \in Nat
  BY <1>1 DEF l
<1>7. \A i \in 1 .. l : rt[i] = rw[i]
  <2> SUFFICES ASSUME NEW i \in 1 .. l PROVE rt[i] = rw[i]
    OBVIOUS
  <2>1. (l - i) + 1 \in 1 .. l /\ (Len(s) + l - i) + 1 = Len(s) + ((l - i) + 1)
    BY <1>1, <1>6
  <2>2. w[Len(s) + ((l - i) + 1)] = t[(l - i) + 1]
    BY <1>2, <2>1 DEF l
  <2> QED
    BY <1>4, <1>5, <2>1, <2>2
<1>8. /\ SubSeq(rt, 1, l) \in Seq(S) /\ Len(SubSeq(rt, 1, l)) = l
      /\ \A i \in 1 .. l : SubSeq(rt, 1, l)[i] = rt[i]
  BY <1>4, <1>6
<1>9. /\ SubSeq(rw, 1, l) \in Seq(S) /\ Len(SubSeq(rw, 1, l)) = l
      /\ \A i \in 1 .. l : SubSeq(rw, 1, l)[i] = rw[i]
  BY <1>1, <1>5, <1>6
<1>10. SubSeq(rt, 1, l) = SubSeq(rw, 1, l)
  BY <1>7, <1>8, <1>9, SeqEqual
<1>11. IsPrefix(rt, rw)
  BY <1>1, <1>4, <1>5, <1>6, <1>10 DEF IsPrefix
<1> QED
  BY <1>11 DEF IsSuffix, rt, rw, w

\* A paste with the whole of its mark is over, and what was pasted stands before it.
LEMMA PasteWhole ==
    ASSUME NEW s \in Seq(Symbols)
    PROVE  PasteText(s \o EndMark) = s /\ s # s \o EndMark
<1>1. EndMark \in Seq(Symbols) /\ Len(EndMark) = 4
  BY SymbolFacts
<1> DEFINE w == s \o EndMark
<1>2. /\ w \in Seq(Symbols) /\ Len(w) = Len(s) + 4 /\ Len(s) \in Nat
      /\ \A i \in 1 .. Len(s) : w[i] = s[i]
  BY <1>1, ConcatProperties, SMTT(60)
<1>3. IsSuffix(EndMark, w)
  BY <1>1, SuffixOf
<1> HIDE DEF w
<1>4. Len(w) - 4 = Len(s)
  BY <1>2
<1>5. SubSeq(w, 1, Len(s)) = s
  <2> DEFINE l == Len(s)
  <2>1. l \in Nat /\ l <= Len(w)
    BY <1>2
  <2> HIDE DEF l
  <2>2. /\ SubSeq(w, 1, l) \in Seq(Symbols) /\ Len(SubSeq(w, 1, l)) = l
        /\ \A i \in 1 .. l : SubSeq(w, 1, l)[i] = w[i]
    BY <1>2, <2>1
  <2> QED
    BY <1>2, <2>2, SeqEqual DEF l
<1>6. PasteText(w) = s
  BY <1>1, <1>3, <1>4, <1>5 DEF PasteText
<1>7. s # w
  BY <1>2
<1> QED
  BY <1>6, <1>7 DEF w

LEMMA PasteByteTyped ==
    ASSUME KeyInv, PasteByte, Typing, Faithful
    PROVE  Typing'
<1> DEFINE c == Head(input)
           paste == Append(held, c)
           over == PasteText(paste) # paste \/ Len(paste) = PasteLimit
           at == IF over THEN "write" ELSE "paste"
<1>1. /\ pc = "paste" /\ Got(c, at) /\ Read(over, Insert(PasteText(paste)))
      /\ held' = (IF over THEN <<>> ELSE paste)
  BY DEF PasteByte
<1>2. TypeOK /\ held \in Seq(Symbols)
  BY DEF KeyInv, TurnInv, TypeOK
<1>3. PICK e, rest, more, todo : Within(e, rest, more, todo)
  BY <1>1 DEF Typing, Reading
<1>4. paste = Append(held, c) /\ (over <=> PasteText(paste) # paste \/ Len(paste) = PasteLimit)
  OBVIOUS
<1>5. at = (IF over THEN "write" ELSE "paste") /\ c \in Symbols
  BY <1>1, <1>2, GotFacts
<1> HIDE DEF c, at, over, paste
<1>6. ReadsRest(c, at, e, rest, more, todo)
  BY <1>1, <1>2, <1>3, RestTaken
<1>7. e.op = "insert" /\ held \o rest = e.data \o EndMark /\ rest # <<>> /\ rest \in Seq(Symbols)
  BY <1>1, <1>3 DEF Within, Rest
<1>8. e \in Events /\ Whole(e) /\ e.data \in Seq(Symbols) /\ e \in Request
  BY <1>2, <1>3, WithinTyped, EventFacts
<1>9. IsPasted(e.data) /\ e = Insert(e.data)
  <2>1. IsPasted(e.data)
    BY <1>7, <1>8, EventAssumption
  <2>2. e = Insert(e.data)
    BY <1>7, <1>8 DEF Request, Insert
  <2> QED
    BY <2>1, <2>2
<1> DEFINE x == Head(rest)
           r == Tail(rest)
<1>10. x \in Symbols /\ r \in Seq(Symbols) /\ rest = <<x>> \o r
  <2>1. x \in Symbols /\ r \in Seq(Symbols)
    BY <1>7, TakenByte
  <2>2. rest = <<Head(rest)>> \o Tail(rest)
    BY <1>7
  <2> QED
    BY <2>1, <2>2
<1> HIDE DEF x, r
<1>11. c = x /\ input' \o transit' = r \o more
  BY <1>6, <1>10 DEF ReadsRest
<1> DEFINE w == e.data \o EndMark
<1>12. paste \in Seq(Symbols) /\ paste \o r = w
  <2>1. <<x>> \in Seq(Symbols) /\ held \o <<x>> = paste
    BY <1>2, <1>4, <1>10, <1>11, AppendIsConcat
  <2>2. paste \in Seq(Symbols)
    BY <1>2, <1>4, <1>5, AppendProperties
  <2>3. (held \o <<x>>) \o r = held \o (<<x>> \o r)
    BY <1>2, <1>10, <2>1, ConcatAssociative
  <2> QED
    BY <1>7, <1>10, <2>1, <2>2, <2>3
<1>13. CASE r = <<>>
  <2>1. paste = e.data \o EndMark
    BY <1>12, <1>13, ConcatEmptySeq
  <2>2. PasteText(paste) = e.data /\ e.data # paste
    BY <1>8, <2>1, PasteWhole
  <2>3. pc' = "write" /\ request' = e
    BY <1>1, <1>4, <1>5, <1>6, <1>9, <2>2 DEF Read, ReadsRest
  <2>4. <<>> \o more = more
    BY <1>6, ConcatEmptySeq DEF ReadsRest
  <2>5. Ahead(input' \o transit', todo)
    BY <1>6, <1>11, <1>13, <2>4 DEF ReadsRest
  <2> QED
    BY <1>6, <2>3, <2>5, EventRead DEF ReadsRest
<1>14. CASE r # <<>>
  <2>1. /\ Len(paste) \in Nat /\ Len(r) \in Nat /\ Len(r) > 0 /\ Len(w) = Len(paste) + Len(r)
        /\ Len(w) = Len(e.data) + Len(EndMark) /\ Len(e.data) \in Nat
    <3>1. Len(paste) \in Nat /\ Len(r) \in Nat /\ Len(r) > 0 /\ Len(e.data) \in Nat
      BY <1>8, <1>10, <1>12, <1>14, EmptySeq
    <3>2. Len(w) = Len(e.data) + Len(EndMark)
      BY <1>8, SymbolFacts, ConcatProperties
    <3>3. Len(paste \o r) = Len(paste) + Len(r)
      BY <1>10, <1>12, ConcatProperties
    <3> QED
      BY <1>12, <3>1, <3>2, <3>3
  <2>2. Len(paste) # PasteLimit
    BY <1>7, <1>8, <2>1, TerminalAssumption, SymbolFacts DEF Whole
  <2>3. ~IsSuffix(EndMark, paste)
    <3> DEFINE k == Len(paste)
    <3>1. k \in 0 .. Len(e.data) + Len(EndMark) - 1
      BY <2>1, SymbolFacts
    <3>2. ~IsSuffix(EndMark, SubSeq(w, 1, k))
      BY <1>9, <3>1 DEF IsPasted
    <3>3. SubSeq(w, 1, k) = paste
      <4> DEFINE u == paste \o r
      <4>0. u \in Seq(Symbols) /\ Len(u) = Len(paste) + Len(r)
            /\ \A i \in 1 .. Len(paste) : u[i] = paste[i]
        <5>1. paste \in Seq(Symbols) /\ r \in Seq(Symbols)
          BY <1>10, <1>12
        <5> QED
          BY <5>1, ConcatProperties
      <4>1. u \in Seq(Symbols) /\ k <= Len(u) /\ k \in Nat /\ \A i \in 1 .. k : u[i] = paste[i]
        <5> HIDE DEF u
        <5> QED
          BY <2>1, <4>0
      <4>2. u = w
        BY <1>12
      <4> HIDE DEF u, w, k
      <4>3. /\ SubSeq(u, 1, k) \in Seq(Symbols) /\ Len(SubSeq(u, 1, k)) = k
            /\ \A i \in 1 .. k : SubSeq(u, 1, k)[i] = u[i]
        BY <4>1
      <4>4. SubSeq(u, 1, k) = paste
        BY <1>12, <4>1, <4>3, SeqEqual DEF k
      <4> QED
        BY <4>2, <4>4
    <3> QED
      BY <3>2, <3>3
  <2>4. ~over
    BY <1>4, <2>2, <2>3 DEF PasteText
  <2>5. pc' = "paste" /\ held' = paste
    BY <1>1, <1>5, <1>6, <2>4 DEF ReadsRest
  <2>6. Rest(e, r)'
    BY <1>7, <1>12, <1>14, <2>5 DEF Rest
  <2>7. e # Key(<<ESC>>)
    BY <1>7 DEF Key
  <2>8. Within(e, r, more, todo)'
    BY <1>6, <1>10, <1>11, <2>6, <2>7 DEF Within, ReadsRest
  <2> QED
    BY <2>5, <2>8 DEF Typing, Over, Reading
<1> QED
  BY <1>13, <1>14

LEMMA Utf8ByteTyped ==
    ASSUME KeyInv, Utf8Byte, Typing
    PROVE  Typing'
<1> DEFINE c == Head(input)
<1>1. /\ pc = "utf8" /\ Got(c, "write") /\ Read(TRUE, Key(Append(held, c)))
  BY DEF Utf8Byte
<1>2. TypeOK /\ held = <<LEAD>>
  BY <1>1 DEF KeyInv, TurnInv, Keeps
<1>3. PICK e, rest, more, todo : Within(e, rest, more, todo)
  BY <1>1 DEF Typing, Reading
<1> HIDE DEF c
<1>4. ReadsRest(c, "write", e, rest, more, todo)
  BY <1>1, <1>2, <1>3, RestTaken
<1>5. e = Key(<<LEAD, CONT>>) /\ rest = <<CONT>>
  BY <1>1, <1>3 DEF Within, Rest
<1>6. c = CONT /\ Ahead(input' \o transit', todo)
  BY <1>4, <1>5, SymbolFacts DEF ReadsRest
<1>7. Append(<<LEAD>>, CONT) = <<LEAD, CONT>>
  BY SymbolFacts, SecondAppended
<1>8. request' = e /\ pc' = "write"
  BY <1>1, <1>2, <1>4, <1>5, <1>6, <1>7 DEF Read, ReadsRest
<1> QED
  BY <1>4, <1>6, <1>8, EventRead DEF ReadsRest

\* A pause within an event, when nothing came late, is the pause after ESC.
LEMMA PauseTyped ==
    ASSUME KeyInv, EscAlone \/ SeqBroken \/ PasteBroken \/ Utf8Broken, Typing, ~damaged'
    PROVE  Typing'
<1>1. PICK q : TimedOut(q) /\ (pc = "esc" => q = Key(<<ESC>>)) /\ pc \in Reading
  BY DEF EscAlone, SeqBroken, PasteBroken, Utf8Broken, Reading
<1>2. TypeOK /\ pc # "poll"
  BY <1>1 DEF KeyInv, TurnInv, Reading
<1>3. PICK e, rest, more, todo : Within(e, rest, more, todo)
  BY <1>1 DEF Typing
<1>4. input = <<>> /\ transit = <<>> /\ input' = input /\ transit' = transit
  BY <1>1, <1>2 DEF TimedOut
<1>5. /\ typed = (executed \o <<e>>) \o todo /\ e \in Events /\ Ahead(more, todo)
      /\ rest \in Seq(Symbols) /\ more \in Seq(Symbols)
      /\ input \o transit = rest \o more /\ Rest(e, rest)
  BY <1>3 DEF Within, Ahead
<1>6. rest = <<>> /\ more = <<>>
  <2>1. rest \o more = <<>>
    <3>1. <<>> \o <<>> = <<>>
      OBVIOUS
    <3> QED
      BY <1>4, <1>5, <3>1
  <2> QED
    BY <1>5, <2>1, ConcatSimplifications
<1>7. e = Key(<<ESC>>) /\ pc = "esc"
  <2> DEFINE d == e.data \o EndMark
  <2>1. d \in Seq(Symbols)
    BY <1>5, EventFacts, SymbolFacts, ConcatProperties
  <2>2. \A x \in Symbols, u \in Seq(Symbols) :
          <<x>> \o u \in Seq(Symbols) /\ <<x>> \o u # <<>> /\ <<x>> # <<>>
    <3> SUFFICES ASSUME NEW x \in Symbols, NEW u \in Seq(Symbols)
                 PROVE  <<x>> \o u \in Seq(Symbols) /\ <<x>> \o u # <<>> /\ <<x>> # <<>>
      OBVIOUS
    <3>1. <<x>> \in Seq(Symbols) /\ <<x>> # <<>>
      OBVIOUS
    <3> QED
      BY <3>1, ConcatProperties, ConcatSimplifications
  <2>3. /\ "A" \in Symbols /\ "~" \in Symbols /\ "200" \in Symbols /\ "[" \in Symbols
        /\ CONT \in Symbols
    BY SymbolFacts, SymbolAssumption DEF Final
  <2> HIDE DEF d
  <2>4. <<"~">> \o d \in Seq(Symbols) /\ <<"~">> \o d # <<>> /\ <<"A">> # <<>> /\ <<CONT>> # <<>>
    BY <2>1, <2>2, <2>3
  <2>5. <<"200">> \o (<<"~">> \o d) \in Seq(Symbols) /\ <<"200">> \o (<<"~">> \o d) # <<>>
    BY <2>2, <2>3, <2>4
  <2>6. <<"[">> \o (<<"200">> \o (<<"~">> \o d)) # <<>> /\ <<"[", "A">> # <<>>
    BY <2>2, <2>3, <2>5
  <2>7. pc = "esc"
    BY <1>1, <1>5, <1>6, <2>4, <2>5 DEF Rest, Reading, d
  <2>8. \A c : <<c>> # <<>>
    OBVIOUS
  <2> QED
    BY <1>5, <1>6, <2>6, <2>7, <2>8 DEF Rest, Opened, d
<1>8. Ahead(input' \o transit', todo)
  BY <1>4, <1>5, <1>6
<1>9. typed' = typed /\ executed' = executed /\ pc' = "write" /\ request' = e
  BY <1>1, <1>7 DEF TimedOut, editor
<1> QED
  BY <1>5, <1>8, <1>9, EventRead

LEMMA IdleTyped ==
    ASSUME KeyInv, Idle, Typing
    PROVE  Typing'
<1>1. pc = "poll" /\ pipe = None
  BY DEF Idle, KeyInv, TurnInv, Turns
<1>2. PICK todo : Between(todo)
  BY <1>1 DEF Typing, Over, Reading
<1>3. /\ request' = Snapshot /\ pc' = "write"
      /\ UNCHANGED <<transit, input, typed, executed>>
  BY DEF Idle, TimedOut, editor
<1>4. Due = <<>> /\ Due' = <<>>
  BY <1>1, <1>3 DEF Due
<1>5. Between(todo)'
  BY <1>2, <1>3, <1>4 DEF Between
<1> QED
  BY <1>3, <1>5 DEF Typing, Over, Reading

\* Nothing of this moves.
LEMMA Unmoved ==
    ASSUME Typing, UNCHANGED <<typed, executed, pc, request, pipe, intro, held>>,
           input' \o transit' = input \o transit
    PROVE  Typing'
<1>1. Due' = Due
  BY DEF Due
<1>2. ASSUME NEW todo, Between(todo) PROVE Between(todo)'
  BY <1>1, <1>2 DEF Between
<1>3. ASSUME NEW e, NEW rest, NEW more, NEW todo, Within(e, rest, more, todo)
      PROVE  Within(e, rest, more, todo)'
  <2>1. Rest(e, rest)'
    BY <1>3 DEF Within, Rest
  <2> QED
    BY <1>3, <2>1 DEF Within
<1>4. pc \in Over => IsPrefix(executed', typed')
  BY DEF Typing
<1>5. pc \in Reading => \E e, rest, more, todo : Within(e, rest, more, todo)'
  BY <1>3 DEF Typing
<1>6. pc \notin Over \cup Reading => \E todo : Between(todo)'
  BY <1>2 DEF Typing
<1> QED
  BY <1>4, <1>5, <1>6 DEF Typing, Over, Reading

LEMMA DueFacts ==
    ASSUME TypeOK
    PROVE  Due \in Seq(Request)
<1>1. request \in Request /\ (pipe # None => pipe.event \in Request)
  BY DEF TypeOK, Frame
<1>2. \A x \in Request : <<x>> \in Seq(Request)
  OBVIOUS
<1>3. <<>> \in Seq(Request)
  OBVIOUS
<1> QED
  BY <1>1, <1>2, <1>3 DEF Due

LEMMA ExecutedFirst ==
    ASSUME TypeOK, Typing
    PROVE  IsPrefix(executed, typed)
<1>1. executed \in Seq(Request) /\ Events \subseteq Request
  BY EventFacts DEF TypeOK
<1>2. ASSUME NEW x \in Seq(Request), NEW t \in Seq(Request), typed = (executed \o x) \o t
      PROVE  IsPrefix(executed, typed)
  <2>1. typed = executed \o (x \o t)
    BY <1>1, <1>2, ConcatAssociative, SMTT(60)
  <2>2. x \o t \in Seq(Request)
    BY ConcatProperties
  <2> QED
    BY <1>1, <2>1, <2>2, PrefixOf
<1>3. CASE pc \in Reading
  <2>1. PICK e, rest, more, todo : Within(e, rest, more, todo)
    BY <1>3 DEF Typing
  <2>2. todo \in Seq(Request) /\ e \in Request /\ typed = (executed \o <<e>>) \o todo
    <3>1. todo \in Seq(Events) /\ e \in Events
      BY <2>1 DEF Within, Ahead
    <3> QED
      BY <1>1, <2>1, <3>1, SeqMonotonic DEF Within
  <2>3. <<e>> \in Seq(Request)
    BY <2>2
  <2> QED
    BY <1>2, <2>2, <2>3
<1>4. CASE pc \notin Over \cup Reading
  <2>1. PICK todo : Between(todo)
    BY <1>4 DEF Typing
  <2>2. todo \in Seq(Request) /\ typed = (executed \o Due) \o todo
    BY <1>1, <2>1, SeqMonotonic DEF Between, Ahead
  <2> QED
    BY <1>2, <2>2, DueFacts
<1> QED
  BY <1>3, <1>4 DEF Typing

\* The frontend leaves its loop: what was executed stays.
LEMMA LeavesLoop ==
    ASSUME TypeOK, Typing, pc' \in Over, executed' = executed, typed' = typed
    PROVE  Typing'
<1>1. IsPrefix(executed', typed')
  BY ExecutedFirst
<1> QED
  BY <1>1 DEF Typing, Over, Reading

\* The event that was read goes from one process to the other.
LEMMA DueMoves ==
    ASSUME Typing, pc \notin Over \cup Reading, pc' \notin Over \cup Reading,
           executed' \o Due' = executed \o Due, typed' = typed,
           input' \o transit' = input \o transit
    PROVE  Typing'
<1>1. PICK todo : Between(todo)
  BY DEF Typing
<1>2. Between(todo)'
  BY <1>1 DEF Between
<1> QED
  BY <1>2 DEF Typing

LEMMA TransportTyped ==
    ASSUME KeyInv, Typing, \/ LoopHead \/ PollHangUp \/ SendFrame \/ SendNewline
                           \/ Answered \/ Close \/ Reap \/ Backend
    PROVE  Typing'
<1>0. TypeOK /\ Turns
  BY DEF KeyInv, TurnInv
<1>1. CASE LoopHead
  <2>1. pc = "head" /\ pc' \in {"close", "poll"} /\ UNCHANGED <<pipe, request, typed, executed, input, transit>>
    BY <1>1 DEF LoopHead, line, reading, transport, editor
  <2>2. CASE pc' = "close"
    BY <1>0, <2>1, <2>2, LeavesLoop DEF Over
  <2>3. CASE pc' = "poll"
    <3>1. Due' = Due
      BY <2>1, <2>3 DEF Due
    <3> QED
      BY <2>1, <2>3, <3>1, DueMoves DEF Over, Reading
  <2> QED
    BY <2>1, <2>2, <2>3
<1>2. CASE PollHangUp \/ Close \/ Reap
  <2>1. pc' \in Over /\ typed' = typed /\ executed' = executed
    BY <1>2 DEF PollHangUp, Close, Reap, line, editor, Over
  <2> QED
    BY <1>0, <2>1, LeavesLoop
<1>3. CASE SendFrame
  <2>1. /\ pc = "write" /\ pipe = None /\ UNCHANGED <<typed, executed, input, transit>>
        /\ \/ pc' = "close"
           \/ pc' = "newline" /\ pipe' = [event |-> request, ended |-> FALSE]
    BY <1>0, <1>3 DEF SendFrame, line, editor, Turns
  <2>2. CASE pc' = "close"
    BY <1>0, <2>1, <2>2, LeavesLoop DEF Over
  <2>3. CASE pc' = "newline" /\ pipe' = [event |-> request, ended |-> FALSE]
    <3>1. pipe' # None /\ pipe'.event = request
      <4>1. pipe' \in Frame
        BY <1>0, <2>3 DEF TypeOK, Frame
      <4> QED
        BY <2>3, <4>1, NoneAssumption
    <3>2. Due' = Due
      BY <2>1, <2>3, <3>1 DEF Due
    <3> QED
      BY <2>1, <2>3, <3>2, DueMoves DEF Over, Reading
  <2> QED
    BY <2>1, <2>2, <2>3
<1>4. CASE SendNewline
  <2>1. /\ pc = "newline" /\ pipe # None /\ pipe \in Frame
        /\ UNCHANGED <<typed, executed, input, transit>>
        /\ \/ pc' = "close"
           \/ pc' = "wait" /\ pipe' = [pipe EXCEPT !.ended = TRUE]
    BY <1>0, <1>4 DEF SendNewline, line, editor, Turns, TypeOK
  <2>2. CASE pc' = "close"
    BY <1>0, <2>1, <2>2, LeavesLoop DEF Over
  <2>3. CASE pc' = "wait" /\ pipe' = [pipe EXCEPT !.ended = TRUE]
    <3>1. pipe' \in Frame /\ pipe'.event = pipe.event
      BY <2>1, <2>3 DEF Frame
    <3>2. pipe' # None
      BY <3>1, NoneAssumption
    <3>3. Due' = Due
      BY <2>1, <2>3, <3>1, <3>2 DEF Due
    <3> QED
      BY <2>1, <2>3, <3>3, DueMoves DEF Over, Reading
  <2> QED
    BY <2>1, <2>2, <2>3
<1>5. CASE Answered
  <2>1. /\ pc = "wait" /\ pc' \in {"close", "head"}
        /\ UNCHANGED <<typed, executed, input, transit, pipe>>
    BY <1>0, <1>5, AnsweredFacts DEF line, editor
  <2>2. CASE pc' = "close"
    BY <1>0, <2>1, <2>2, LeavesLoop DEF Over
  <2>3. CASE pc' = "head"
    <3>1. Due' = Due
      BY <2>1, <2>3 DEF Due
    <3> QED
      BY <2>1, <2>3, <3>1, DueMoves DEF Over, Reading
  <2> QED
    BY <2>1, <2>2, <2>3
<1>6. CASE RefuseFrame \/ EndOfInput \/ BackendEnds
  <2>1. UNCHANGED <<line, pc, reading, pipe, editor>>
    BY <1>6 DEF RefuseFrame, EndOfInput, BackendEnds
  <2> QED
    BY <2>1, Unmoved DEF line, reading, editor
<1>7. CASE Serve
  <2> DEFINE e == pipe.event
  <2>1. /\ pc = "wait" /\ pipe # None /\ e \in Request /\ pipe' = None
        /\ executed' = IF e = Snapshot \/ ~IsText(e.data) THEN executed ELSE Append(executed, e)
    BY <1>0, <1>7, ServeFacts DEF Turns, TypeOK, Reading, Over
  <2>2. UNCHANGED <<typed, input, transit, pc>>
    BY <1>7 DEF Serve, line
  <2>3. PICK todo : Between(todo)
    BY <2>1 DEF Typing, Over, Reading
  <2> HIDE DEF e
  <2>4. executed \in Seq(Request) /\ Due' = <<>> /\ executed' \in Seq(Request)
    BY <1>0, <1>7, <2>1, <2>2, ServeFacts DEF TypeOK, Due
  <2>5. executed' \o Due' = executed \o Due
    <3>1. CASE e = Snapshot
      BY <2>1, <2>2, <2>4, <3>1 DEF Due, e
    <3>2. CASE e # Snapshot
      <4>1. Due = <<e>>
        BY <2>1, <3>2 DEF Due, e
      <4>2. e \in Events
        BY <1>0, <2>1, <2>3, <4>1, NextTyped DEF Between, Ahead
      <4>3. executed' = Append(executed, e)
        BY <2>1, <3>2, <4>2, EventAssumption
      <4>4. executed' = executed \o <<e>> /\ executed' \o <<>> = executed'
        BY <2>1, <2>4, <4>3, AppendIsConcat, ConcatEmptySeq
      <4> QED
        BY <2>4, <4>1, <4>4
    <3> QED
      BY <3>1, <3>2
  <2> QED
    BY <2>1, <2>2, <2>5, DueMoves DEF Over, Reading
<1> QED
  BY <1>1, <1>2, <1>3, <1>4, <1>5, <1>6, <1>7 DEF Backend

LEMMA AppendedLast ==
    ASSUME NEW S, NEW s \in Seq(S), NEW t \in Seq(S), NEW e \in S
    PROVE  s \o Append(t, e) = Append(s \o t, e)
<1>1. <<e>> \in Seq(S) /\ s \o t \in Seq(S)
  BY ConcatProperties
<1>2. Append(t, e) = t \o <<e>> /\ Append(s \o t, e) = (s \o t) \o <<e>>
  BY <1>1, AppendIsConcat
<1>3. (s \o t) \o <<e>> = s \o (t \o <<e>>)
  BY <1>1, ConcatAssociative
<1> QED
  BY <1>2, <1>3

\* What is entered comes last.
LEMMA TypeTyped ==
    ASSUME KeyInv, NEW new \in Events, Type(new), Typing
    PROVE  Typing'
<1>1. /\ typed' = Append(typed, new) /\ transit' = transit \o Bytes(new)
      /\ UNCHANGED <<input, pc, reading, pipe, executed>> /\ ~EscPending
  BY DEF Type, transport, editor
<1>2. /\ TypeOK /\ Bytes(new) \in Seq(Symbols) /\ Events \subseteq Request
      /\ input \in Seq(Symbols) /\ transit \in Seq(Symbols) /\ executed \in Seq(Request)
      /\ typed \in Seq(Events)
  BY BytesFacts, EventFacts DEF KeyInv, TurnInv, TypeOK
<1> DEFINE b == input \o transit
           B == Bytes(new)
<1>3. b \in Seq(Symbols) /\ input' \o transit' = b \o B
  <2>1. b \in Seq(Symbols)
    BY <1>2, ConcatProperties
  <2>2. (input \o transit) \o B = input \o (transit \o B)
    BY <1>2, ConcatAssociative
  <2> QED
    BY <1>1, <2>1, <2>2
<1>4. b # <<>> => b[Len(b)] # ESC
  BY <1>1 DEF EscPending, Last
<1> HIDE DEF b, B
<1>5. Due' = Due
  BY <1>1 DEF Due, reading
<1>6. ASSUME NEW s \in Seq(Request), NEW todo \in Seq(Events), typed = s \o todo
      PROVE  typed' = s \o Append(todo, new)
  <2>1. todo \in Seq(Request) /\ new \in Request
    BY <1>2, SeqMonotonic
  <2>2. s \o Append(todo, new) = Append(s \o todo, new)
    BY <2>1, AppendedLast
  <2> QED
    BY <1>1, <1>6, <2>2
<1>7. ASSUME pc \in Over PROVE IsPrefix(executed', typed')
  <2>1. IsPrefix(executed, typed)
    BY <1>7 DEF Typing
  <2>2. typed \in Seq(Request) /\ new \in Request
    BY <1>2, SeqMonotonic
  <2>3. IsPrefix(executed, Append(typed, new))
    BY <1>2, <2>1, <2>2, PrefixGrows
  <2> QED
    BY <1>1, <2>3
<1>8. ASSUME pc \notin Over \cup Reading PROVE \E todo : Between(todo)'
  <2>1. PICK todo : Between(todo)
    BY <1>8 DEF Typing
  <2>2. Ahead(b, todo) /\ todo \in Seq(Events) /\ typed = (executed \o Due) \o todo
    BY <2>1 DEF Between, Ahead, b
  <2>3. Ahead(b \o B, Append(todo, new))
    BY <1>4, <2>2, AheadType DEF B
  <2>4. executed \o Due \in Seq(Request)
    BY <1>2, DueFacts, ConcatProperties
  <2>5. typed' = (executed \o Due) \o Append(todo, new)
    BY <1>6, <2>2, <2>4
  <2>6. Between(Append(todo, new))'
    BY <1>1, <1>3, <1>5, <2>3, <2>5 DEF Between
  <2> QED
    BY <2>6
<1>9. ASSUME pc \in Reading PROVE \E e, rest, more, todo : Within(e, rest, more, todo)'
  <2>1. PICK e, rest, more, todo : Within(e, rest, more, todo)
    BY <1>9 DEF Typing
  <2>2. /\ e \in Events /\ rest \in Seq(Symbols) /\ more \in Seq(Symbols) /\ todo \in Seq(Events)
        /\ Rest(e, rest) /\ typed = (executed \o <<e>>) \o todo /\ b = rest \o more
        /\ Ahead(more, todo) /\ (e = Key(<<ESC>>) => todo = <<>>)
    BY <2>1 DEF Within, Ahead, b
  <2>3. more # <<>> => more[Len(more)] # ESC
    <3>1. more # <<>> => b # <<>> /\ b[Len(b)] = more[Len(more)]
      BY <2>2, LastOfConcat
    <3> QED
      BY <1>4, <3>1
  <2>4. e # Key(<<ESC>>)
    <3> SUFFICES ASSUME e = Key(<<ESC>>) PROVE FALSE
      OBVIOUS
    <3>1. <<"<up>">>[1] # <<ESC>>[1]
      BY DEF ESC
    <3>2. pc = "esc" /\ Opened(e, rest)
      <4>1. <<ESC>> # <<LEAD, CONT>>
        <5>1. Len(<<ESC>>) = 1 /\ Len(<<LEAD, CONT>>) = 2
          OBVIOUS
        <5> QED
          BY <5>1
      <4> QED
        BY <1>9, <2>2, <3>1, <4>1 DEF Rest, Reading, Key
    <3>3. rest = <<>>
      <4>1. \A c : <<"M-", c>> # <<ESC>>
        <5>1. \A c : Len(<<"M-", c>>) = 2
          OBVIOUS
        <5>2. Len(<<ESC>>) = 1
          OBVIOUS
        <5> QED
          BY <5>1, <5>2
      <4> QED
        BY <3>1, <3>2, <4>1 DEF Opened, Key
    <3>4. more = <<>>
      BY <2>2, NothingAhead
    <3>5. b = <<>>
      <4>1. <<>> \o <<>> = <<>>
        OBVIOUS
      <4> QED
        BY <2>2, <3>3, <3>4, <4>1
    <3>6. transit \o input = <<>>
      <4>1. input = <<>> /\ transit = <<>>
        BY <1>2, <3>5, ConcatSimplifications DEF b
      <4> QED
        BY <4>1
    <3> QED
      BY <1>1, <3>2, <3>6 DEF EscPending
  <2>5. Ahead(more \o B, Append(todo, new))
    BY <2>2, <2>3, AheadType DEF B
  <2>6. typed' = (executed \o <<e>>) \o Append(todo, new)
    <3>1. <<e>> \in Seq(Request)
      BY <1>2, <2>2
    <3>2. executed \o <<e>> \in Seq(Request)
      BY <1>2, <3>1, ConcatProperties
    <3> QED
      BY <1>6, <2>2, <3>2
  <2>7. input' \o transit' = rest \o (more \o B)
    <3>1. B \in Seq(Symbols)
      BY <1>2 DEF B
    <3>2. (rest \o more) \o B = rest \o (more \o B)
      BY <2>2, <3>1, ConcatAssociative
    <3> QED
      BY <1>3, <2>2, <3>2
  <2>8. Rest(e, rest)'
    BY <1>1, <2>2 DEF Rest, reading
  <2>9. Within(e, rest, more \o B, Append(todo, new))'
    BY <1>1, <2>2, <2>4, <2>5, <2>6, <2>7, <2>8 DEF Within
  <2> QED
    BY <2>9
<1> QED
  BY <1>1, <1>7, <1>8, <1>9 DEF Typing, Over, Reading

LEMMA TypingInit == Init => Typing
<1> SUFFICES ASSUME Init PROVE Typing
  OBVIOUS
<1>1. /\ pc = "head" /\ input = <<>> /\ transit = <<>> /\ typed = <<>> /\ executed = <<>>
      /\ pipe = None
  BY DEF Init
<1>2. Due = <<>> /\ <<>> \o <<>> = <<>>
  BY <1>1 DEF Due
<1>3. Stream(<<>>, <<>>)
  <2> DEFINE left == [i \in 0 .. 0 |-> <<>>]
  <2>1. left \in [0 .. Len(<<>>) -> Seq(Symbols)] /\ left[0] = <<>> /\ left[Len(<<>>)] = <<>>
    BY EmptySeq
  <2>2. 1 .. Len(<<>>) = {}
    OBVIOUS
  <2> QED
    BY <2>1, <2>2 DEF Stream
<1>4. Ahead(<<>>, <<>>)
  <2>1. EscIsLast(<<>>, <<>>)
    BY DEF EscIsLast
  <2> QED
    BY <1>3, <2>1, EmptySeq DEF Ahead
<1>5. Between(<<>>)
  BY <1>1, <1>2, <1>4 DEF Between
<1> QED
  BY <1>1, <1>5 DEF Typing, Over, Reading

\* What is faithful in the end was so all the time.
LEMMA FaithfulBefore ==
    ASSUME TypeOK, [Next]_vars, Faithful'
    PROVE  Faithful /\ ~damaged'
<1>1. \/ typed' = typed
      \/ \E e \in Events : typed' = Append(typed, e)
  BY DEF Next, Type, Arrive, Lose, Resize, Signal, HangUp, BackendSignal, Frontend, Backend,
         LoopHead, PollHangUp, ReadEvent, FirstByte, Idle, EscByte, EscAlone, SeqByte, SeqBroken,
         PasteByte, PasteBroken, Utf8Byte, Utf8Broken, Got, TimedOut, SendFrame, SendNewline,
         Serve, RefuseFrame, EndOfInput, BackendEnds, Answered, Close, Reap, line, vars
<1>2. damaged => damaged'
  BY DEF Next, Type, Arrive, Lose, Resize, Signal, HangUp, BackendSignal, Frontend, Backend,
         LoopHead, PollHangUp, ReadEvent, FirstByte, Idle, EscByte, EscAlone, SeqByte, SeqBroken,
         PasteByte, PasteBroken, Utf8Byte, Utf8Broken, Got, TimedOut, SendFrame, SendNewline,
         Serve, RefuseFrame, EndOfInput, BackendEnds, Answered, Close, Reap, line, vars
<1>3. \A i \in DOMAIN typed : i \in DOMAIN typed' /\ typed'[i] = typed[i]
  <2>1. typed \in Seq(Events)
    BY DEF TypeOK
  <2>2. ASSUME NEW e \in Events, typed' = Append(typed, e)
        PROVE  \A i \in DOMAIN typed : i \in DOMAIN typed' /\ typed'[i] = typed[i]
    BY <2>1, <2>2
  <2> QED
    BY <1>1, <2>2
<1>4. ~damaged' /\ \A i \in DOMAIN typed' : Whole(typed'[i])
  BY DEF Faithful
<1> QED
  BY <1>2, <1>3, <1>4 DEF Faithful

LEMMA TypingStep ==
    ASSUME KeyInv, [Next]_vars, Faithful'
    PROVE  Typing'
<1>1. TypeOK
  BY DEF KeyInv, TurnInv
<1>2. Faithful /\ ~damaged'
  BY <1>1, FaithfulBefore
<1>3. Typing
  BY <1>2 DEF KeyInv
<1>4. CASE \E e \in Events : Type(e)
  BY <1>3, <1>4, TypeTyped
<1>5. CASE Arrive
  <2>1. /\ input = <<>> /\ transit # <<>> /\ input' = <<Head(transit)>> /\ transit' = Tail(transit)
        /\ UNCHANGED <<typed, executed, pc, request, pipe, intro, held>>
    BY <1>5 DEF Arrive, reading, transport, editor
  <2>2. input' \o transit' = input \o transit
    <3>1. transit \in Seq(Symbols)
      BY <1>1 DEF TypeOK
    <3>2. <<Head(transit)>> \o Tail(transit) = transit
      BY <2>1, <3>1
    <3>3. <<>> \o transit = transit
      BY <3>1, ConcatEmptySeq
    <3> QED
      BY <2>1, <3>2, <3>3
  <2> QED
    BY <1>3, <2>1, <2>2, Unmoved
<1>6. CASE Lose
  BY <1>2, <1>6 DEF Lose
<1>7. CASE HangUp
  <2>1. transit = <<>> /\ transit' = <<>>
    BY <1>2, <1>7 DEF HangUp
  <2>2. UNCHANGED <<typed, executed, pc, request, pipe, intro, held, input>>
    BY <1>7 DEF HangUp, reading, transport, editor
  <2> QED
    BY <1>3, <2>1, <2>2, Unmoved
<1>8. CASE (\E n \in Sizes : Resize(n)) \/ Signal \/ BackendSignal \/ UNCHANGED vars
  <2>1. UNCHANGED <<line, pc, reading, pipe, executed>>
    BY <1>8 DEF Resize, Signal, BackendSignal, transport, editor, vars
  <2> QED
    BY <1>3, <2>1, Unmoved DEF line, reading
<1>9. CASE ReadEvent
  BY <1>2, <1>3, <1>9, FirstByteTyped, EscByteTyped, SeqByteTyped, PasteByteTyped, Utf8ByteTyped,
     IdleTyped, PauseTyped DEF ReadEvent
<1>10. CASE \/ LoopHead \/ PollHangUp \/ SendFrame \/ SendNewline
            \/ Answered \/ Close \/ Reap \/ Backend
  BY <1>3, <1>10, TransportTyped
<1> QED
  BY <1>4, <1>5, <1>6, <1>7, <1>8, <1>9, <1>10 DEF Next, Frontend

\* The editor executes the keys and pastes that were entered, in their order and none
\* twice, whatever their bytes have in common and however they arrive; and whenever the
\* frontend is back at its loop with nothing left to read, all of them.
THEOREM WhatIsTypedIsExecuted == Spec => []KeysAreTyped
<1>1. Init => KeyInv
  BY TurnInit, TypingInit DEF KeyInv
<1>2. KeyInv /\ [Next]_vars => KeyInv'
  BY TurnStep, TypingStep DEF KeyInv
<1>3. KeyInv => KeysAreTyped
  <2> SUFFICES ASSUME KeyInv PROVE KeysAreTyped
    OBVIOUS
  <2>1. TypeOK
    BY DEF KeyInv, TurnInv
  <2>2. Faithful => IsPrefix(executed, typed)
    BY <2>1, ExecutedFirst DEF KeyInv
  <2>3. ASSUME Faithful, pc = "head", input = <<>>, transit = <<>> PROVE executed = typed
    <3>1. PICK todo : Between(todo)
      BY <2>3 DEF KeyInv, Typing, Over, Reading
    <3>2. <<>> \o <<>> = <<>>
      OBVIOUS
    <3>3. todo = <<>>
      BY <2>3, <3>1, <3>2, NothingAhead DEF Between
    <3>4. Due = <<>>
      BY <2>3 DEF KeyInv, TurnInv, Turns, Due
    <3>5. executed \in Seq(Request)
      BY <2>1 DEF TypeOK
    <3> QED
      BY <3>1, <3>3, <3>4, <3>5, ConcatEmptySeq DEF Between
  <2> QED
    BY <2>1, <2>2, <2>3 DEF KeysAreTyped
<1> QED
  BY <1>1, <1>2, <1>3, PTL DEF Spec
=============================================================================
