----------------------------- MODULE PieceTable -----------------------------
(***************************************************************************)
(* Text storage (src/src/text.c): a treap of pieces.  A piece is a stretch *)
(* of one of two stores, the text as it was opened and what was typed      *)
(* since, to which bytes are only ever appended.  Each node sums up the    *)
(* bytes, newlines and characters below it; positions are found by those   *)
(* sums on the way down.                                                   *)
(*                                                                         *)
(* A byte is NEWLINE, a continuation byte (in Cont), or another that       *)
(* begins a character.  Priorities are random in the code and any here.    *)
(***************************************************************************)
EXTENDS Integers, Sequences, FiniteSets

CONSTANTS
    NEWLINE, Cont,   \* the newline, and the bytes that continue a character
    Originals,       \* texts a buffer is opened with
    Inputs,          \* texts inserted: whole characters each
    Priority,        \* the priorities drawn
    MaxPiece,        \* the size of a new piece (4096 in the code)
    MaxAdded         \* bound on what is typed

ASSUME PieceAssumption ==
    /\ MaxPiece \in Nat \ {0} /\ MaxAdded \in Nat /\ Priority \subseteq Nat
    /\ <<>> \notin Inputs
    /\ \A s \in Originals \cup Inputs : s # <<>> => s[1] \notin Cont

VARIABLES
    root,              \* the treap
    original, added,   \* the stores
    text               \* auxiliary: the text as a sequence of bytes

vars == <<root, original, added, text>>

-----------------------------------------------------------------------------
(***************************************************************************)
(* Pieces and trees of them.                                               *)
(***************************************************************************)

\* NULL; no piece is empty.
Nil == [length |-> 0, priority |-> -1, bytes_sum |-> 0, lines_sum |-> 0, chars_sum |-> 0]

IsNil(p) == p.length = 0

Newlines(s) == Cardinality({i \in DOMAIN s : s[i] = NEWLINE})
Chars(s) == Cardinality({i \in DOMAIN s : s[i] \notin Cont})

Store(typed) == IF typed THEN added ELSE original

\* data
Data(p) == SubSeq(Store(p.typed), p.offset + 1, p.offset + p.length)

\* update
Update(p) ==
    [p EXCEPT !.bytes_sum = p.left.bytes_sum + p.length + p.right.bytes_sum,
              !.lines_sum = p.left.lines_sum + p.newlines + p.right.lines_sum,
              !.chars_sum = p.left.chars_sum + p.chars + p.right.chars_sum]

WithLeft(p, q) == Update([p EXCEPT !.left = q])
WithRight(p, q) == Update([p EXCEPT !.right = q])

\* node: s stands in the store at offset.
Node(typed, offset, s, priority) ==
    Update([left |-> Nil, right |-> Nil, typed |-> typed, offset |-> offset,
            length |-> Len(s), newlines |-> Newlines(s), chars |-> Chars(s),
            priority |-> priority, bytes_sum |-> 0, lines_sum |-> 0, chars_sum |-> 0])

\* Whether a becomes the parent.
Above(a, b) == a.priority > b.priority

\* merge
RECURSIVE Merge(_, _)
Merge(a, b) ==
    IF IsNil(a) THEN b
    ELSE IF IsNil(b) THEN a
    ELSE IF Above(a, b) THEN WithRight(a, Merge(a.right, b))
    ELSE WithLeft(b, Merge(a, b.left))

\* split: what of tree p stands before position at, and the rest.  A piece
\* that is cut leaves its priority to both parts.
RECURSIVE Split(_, _)
Split(p, at) ==
    LET k == at - p.left.bytes_sum
        s == Data(p)
    IN  IF IsNil(p) THEN <<Nil, Nil>>
        ELSE IF k < 0 THEN LET l == Split(p.left, at) IN <<l[1], WithLeft(p, l[2])>>
        ELSE IF k > p.length
             THEN LET r == Split(p.right, k - p.length) IN <<WithRight(p, r[1]), r[2]>>
        ELSE IF k = 0 THEN <<p.left, WithLeft(p, Nil)>>
        ELSE IF k = p.length THEN <<WithRight(p, Nil), p.right>>
        ELSE <<Merge(p.left, Node(p.typed, p.offset, SubSeq(s, 1, k), p.priority)),
               Merge(Node(p.typed, p.offset + k, SubSeq(s, k + 1, p.length), p.priority),
                     p.right)>>

\* pieces: a tree for s, cut between characters into pieces that are not too
\* long; draw gives the priority of the piece at each offset.
RECURSIVE Pieces(_, _, _, _, _)
Pieces(tree, typed, offset, s, draw) ==
    IF s = <<>> THEN tree
    ELSE LET m == IF Len(s) <= MaxPiece THEN Len(s)
                  ELSE CHOOSE m \in 1 .. MaxPiece :
                           /\ s[m + 1] \notin Cont
                           /\ \A k \in m + 1 .. MaxPiece : s[k + 1] \in Cont
         IN  Pieces(Merge(tree, Node(typed, offset, SubSeq(s, 1, m), draw[offset])),
                    typed, offset + m, SubSeq(s, m + 1, Len(s)), draw)

\* A piece grows whatever was appended to the store behind it.
MayGrow_Anywhere(p, offset, s) == p.typed /\ p.length + Len(s) <= MaxPiece

\* The last piece ends where s was appended to the store.
MayGrow(p, offset, s) ==
    p.typed /\ p.offset + p.length = offset /\ p.length + Len(s) <= MaxPiece

\* append_right: the last piece of p made longer by s, or Nil when it may not be.
RECURSIVE AppendRight(_, _, _)
AppendRight(p, offset, s) ==
    IF IsNil(p) THEN Nil
    ELSE IF ~IsNil(p.right)
         THEN LET q == AppendRight(p.right, offset, s)
              IN  IF IsNil(q) THEN Nil ELSE WithRight(p, q)
    ELSE IF ~MayGrow(p, offset, s) THEN Nil
    ELSE Update([p EXCEPT !.length = @ + Len(s), !.newlines = @ + Newlines(s),
                          !.chars = @ + Chars(s)])

-----------------------------------------------------------------------------
(***************************************************************************)
(* Questions about the text.                                               *)
(***************************************************************************)

\* text_byte
RECURSIVE ByteIn(_, _)
ByteIn(p, at) ==
    LET k == at - p.left.bytes_sum
    IN  IF k < 0 THEN ByteIn(p.left, at)
        ELSE IF k < p.length THEN Data(p)[k + 1]
        ELSE ByteIn(p.right, k - p.length)

TextSize == root.bytes_sum
TextLines == root.lines_sum + 1
TextChars == root.chars_sum
TextByte(at) == ByteIn(root, at)

\* text_boundary
TextBoundary(at) ==
    at <= TextSize /\ (at < TextSize => TextByte(at) \notin Cont)

\* text_next, text_prev
TextNext(at) ==
    IF at >= TextSize THEN TextSize
    ELSE CHOOSE q \in at + 1 .. TextSize :
             TextBoundary(q) /\ \A r \in at + 1 .. q - 1 : ~TextBoundary(r)
TextPrev(at) ==
    IF at = 0 THEN 0
    ELSE CHOOSE q \in 0 .. at - 1 :
             /\ q = 0 \/ TextByte(q) \notin Cont
             /\ \A r \in q + 1 .. at - 1 : TextByte(r) \in Cont

\* copy_range: the n bytes from position at on.
RECURSIVE CopyRange(_, _, _)
CopyRange(p, at, n) ==
    IF IsNil(p) \/ n = 0 THEN <<>>
    ELSE LET l == p.left.bytes_sum
             m == IF at >= l THEN 0 ELSE IF l - at < n THEN l - at ELSE n
             k == at + m - l
             rest == n - m
             here == IF rest = 0 \/ k >= p.length THEN 0
                     ELSE IF p.length - k < rest THEN p.length - k ELSE rest
         IN  (IF m = 0 THEN <<>> ELSE CopyRange(p.left, at, m))
             \o (IF here = 0 THEN <<>> ELSE SubSeq(Data(p), k + 1, k + here))
             \o (IF rest = here THEN <<>>
                 ELSE CopyRange(p.right, k + here - p.length, rest - here))

\* text_slice
TextSlice(at, n) == CopyRange(root, at, n)

\* The newline that ends a piece is taken for the beginning of its line.
BeginsBehind_Not(p, line) == line < p.newlines

\* The line-th newline is in this piece.
BeginsBehind(p, line) == line <= p.newlines

\* text_line_start, below p, which begins at position off
RECURSIVE LineStartIn(_, _, _)
LineStartIn(p, line, off) ==
    LET here == off + p.left.bytes_sum
        n == line - p.left.lines_sum
        s == Data(p)
    IN  IF IsNil(p) THEN TextSize
        ELSE IF n <= 0 THEN LineStartIn(p.left, line, off)
        ELSE IF BeginsBehind(p, n)
             THEN here + CHOOSE i \in 1 .. p.length :
                             s[i] = NEWLINE /\ Newlines(SubSeq(s, 1, i)) = n
        ELSE LineStartIn(p.right, n - p.newlines, here + p.length)

TextLineStart(line) ==
    IF line = 0 THEN 0 ELSE IF line >= TextLines THEN TextSize
    ELSE LineStartIn(root, line, 0)

\* prefix_metric: the newlines, or the characters, before position at.
RECURSIVE PrefixMetric(_, _, _)
PrefixMetric(p, at, chars) ==
    LET k == at - p.left.bytes_sum
        before == IF chars THEN p.left.chars_sum ELSE p.left.lines_sum
        s == SubSeq(Data(p), 1, k)
    IN  IF IsNil(p) THEN 0
        ELSE IF k < 0 THEN PrefixMetric(p.left, at, chars)
        ELSE IF k <= p.length THEN before + IF chars THEN Chars(s) ELSE Newlines(s)
        ELSE before + (IF chars THEN p.chars ELSE p.newlines)
                    + PrefixMetric(p.right, k - p.length, chars)

TextLineOf(at) == PrefixMetric(root, at, FALSE)
TextByteToChar(at) == PrefixMetric(root, at, TRUE)

\* text_char_to_byte, below p, which begins at position off
RECURSIVE CharToByteIn(_, _, _)
CharToByteIn(p, ch, off) ==
    LET here == off + p.left.bytes_sum
        n == ch - p.left.chars_sum
        s == Data(p)
    IN  IF IsNil(p) THEN off
        ELSE IF n < 0 THEN CharToByteIn(p.left, ch, off)
        ELSE IF n = p.chars THEN here + p.length
        ELSE IF n < p.chars
             THEN here + (CHOOSE i \in 1 .. p.length :
                              s[i] \notin Cont /\ Chars(SubSeq(s, 1, i)) = n + 1) - 1
        ELSE CharToByteIn(p.right, n - p.chars, here + p.length)

TextCharToByte(ch) == CharToByteIn(root, ch, 0)

\* write_piece: the text as it is written to a file, without conversion of its
\* line ends.
RECURSIVE WritePiece(_)
WritePiece(p) ==
    IF IsNil(p) THEN <<>> ELSE WritePiece(p.left) \o Data(p) \o WritePiece(p.right)

-----------------------------------------------------------------------------
(***************************************************************************)
(* Insertion and deletion.                                                 *)
(***************************************************************************)
\* text_insert
TextInsert(at, s, draw) ==
    /\ TextBoundary(at)
    /\ Len(added) + Len(s) <= MaxAdded
    /\ added' = added \o s
    /\ root' = LET ab == Split(root, at)
                   grown == AppendRight(ab[1], Len(added), s)
                   new == Pieces(Nil, TRUE, Len(added), s, draw)
               IN  Merge(IF IsNil(grown) THEN Merge(ab[1], new) ELSE grown, ab[2])
    /\ text' = SubSeq(text, 1, at) \o s \o SubSeq(text, at + 1, Len(text))
    /\ UNCHANGED original

\* text_delete
TextDelete(at, n) ==
    /\ TextBoundary(at) /\ TextBoundary(at + n)
    /\ root' = LET ab == Split(root, at)
                   bc == Split(ab[2], n)
               IN  Merge(ab[1], bc[2])
    /\ text' = SubSeq(text, 1, at) \o SubSeq(text, at + n + 1, Len(text))
    /\ UNCHANGED <<original, added>>

\* text_init
Init ==
    /\ added = <<>>
    /\ original \in Originals
    /\ text = original
    /\ \E draw \in [0 .. Len(original) - 1 -> Priority] :
           root = Pieces(Nil, FALSE, 0, original, draw)

Next ==
    \/ \E at \in 0 .. TextSize, s \in Inputs :
           \E draw \in [Len(added) .. Len(added) + Len(s) - 1 -> Priority] : TextInsert(at, s, draw)
    \/ \E at, n \in 0 .. TextSize : TextDelete(at, n)

Spec == Init /\ [][Next]_vars

-----------------------------------------------------------------------------
(***************************************************************************)
(* Properties.                                                             *)
(***************************************************************************)

\* text_check, and what it takes for granted: no piece is empty, none reaches
\* beyond its store, none begins inside a character, and no child has a higher
\* priority than its parent.
RECURSIVE Sound(_)
Sound(p) ==
    IsNil(p) \/ /\ p.length > 0 /\ p.offset + p.length <= Len(Store(p.typed))
                /\ Data(p)[1] \notin Cont
                /\ p.left.priority <= p.priority /\ p.right.priority <= p.priority
                /\ Sound(p.left) /\ Sound(p.right)

\* The tree is a treap of sound pieces, and remembers nothing that was typed
\* in the store the text was opened with.
TypeOK == Sound(root) /\ original \in Originals /\ Len(added) <= MaxAdded

\* The pieces, read from left to right, are the text, whatever was inserted,
\* deleted, cut in two and grown, and however the tree was shaped.
HoldsText == TypeOK /\ WritePiece(root) = text

\* Every question answered by the sums in the tree has the answer that counting
\* the bytes of the text one by one gives.
QueriesAgree ==
    LET head(at) == SubSeq(text, 1, at)
        begins(at) == at < Len(text) => text[at + 1] \notin Cont
    IN  /\ TextSize = Len(text)
        /\ TextLines = Newlines(text) + 1 /\ TextChars = Chars(text)
        /\ \A at \in 0 .. Len(text) :
            /\ at < Len(text) => TextByte(at) = text[at + 1]
            /\ \A n \in 0 .. Len(text) - at : TextSlice(at, n) = SubSeq(text, at + 1, at + n)
            /\ TextLineOf(at) = Newlines(head(at))
            /\ TextByteToChar(at) = Chars(head(at))
            /\ begins(at) => /\ TextCharToByte(Chars(head(at))) = at
                             /\ at < Len(text) => TextPrev(TextNext(at)) = at
            /\ at > 0 /\ text[at] = NEWLINE => TextLineStart(Newlines(head(at))) = at
        /\ TextLineStart(0) = 0 /\ TextLineStart(TextLines) = Len(text)
        /\ TextCharToByte(TextChars + 1) = Len(text)
=============================================================================
