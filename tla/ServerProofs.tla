---------------------------- MODULE ServerProofs ----------------------------
(***************************************************************************)
(* Proofs about Server: for any clients and sizes of buffers, whatever the *)
(* reads and writes split, the requests of each client are executed whole, *)
(* once and in order, and it is sent the responses to them and nothing     *)
(* else; a server that somebody quit has sent all of them; and a client    *)
(* that keeps to one request at a time is never closed.                    *)
(*                                                                         *)
(* What a slot has read and what is on its way to it are one sequence of   *)
(* requests, from the first that was not executed to the last that was     *)
(* sent; what has reached the client and what is queued for it are one     *)
(* sequence of responses, to all that were executed.  Reads and writes     *)
(* move the border within these sequences and nothing else.                *)
(***************************************************************************)
EXTENDS Server, SequenceTheorems, FunctionTheorems, FiniteSetTheorems, TLAPS

RequestHalf == Half(Request)
ResponseHalf == Half(Response)

\* The two halves of request n of client c.
IsRequest(h, l, c, n) ==
    /\ h.frame = l.frame /\ ~h.last /\ l.last
    /\ h.frame.client = c /\ h.frame.n = n

\* q is the requests of c from number d + 1 to number s.
Asked(q, c, d, s) ==
    /\ d \in Nat /\ s \in Nat /\ d <= s
    /\ q \in Seq(RequestHalf) /\ Len(q) = 2 * (s - d)
    /\ \A j \in 1 .. s - d : IsRequest(q[2 * j - 1], q[2 * j], c, d + j)

\* h may be half k of all that c is sent.
IsReply(h, c, k) ==
    /\ h.frame.req.client = c
    /\ h.frame.req.n = (k + 1) \div 2
    /\ h.last = (k % 2 = 0)
    /\ h.frame.detach => h.frame.req.op = "detach"

\* p is the responses to the first d requests of c.
Told(p, c, d) ==
    /\ d \in Nat
    /\ p \in Seq(ResponseHalf) /\ Len(p) = 2 * d
    /\ \A k \in 1 .. Len(p) : IsReply(p[k], c, k)

Unsent(i) == SubSeq(out[i], out_sent[i] + 1, Len(out[i]))

-----------------------------------------------------------------------------
(***************************************************************************)
(* Sequences that are cut and joined.                                      *)
(***************************************************************************)
LEMMA JoinFacts ==
    ASSUME NEW S, NEW a \in Seq(S), NEW b \in Seq(S)
    PROVE  /\ a \o b \in Seq(S) /\ Len(a \o b) = Len(a) + Len(b)
           /\ Len(a) \in Nat /\ Len(b) \in Nat
           /\ \A k \in 1 .. Len(a) : (a \o b)[k] = a[k]
           /\ \A k \in 1 .. Len(b) : (a \o b)[Len(a) + k] = b[k]
  OBVIOUS

LEMMA JoinAgain ==
    ASSUME NEW S, NEW a \in Seq(S), NEW b \in Seq(S), NEW h \in Seq(S)
    PROVE  (a \o b) \o h = a \o (b \o h)
  BY ConcatAssociative

LEMMA CutFacts ==
    ASSUME NEW S, NEW b \in Seq(S), NEW m \in Nat, NEW n \in Nat, m <= n, n <= Len(b)
    PROVE  /\ SubSeq(b, m + 1, n) \in Seq(S) /\ Len(SubSeq(b, m + 1, n)) = n - m
           /\ \A k \in 1 .. n - m : SubSeq(b, m + 1, n)[k] = b[m + k]
<1>1. Len(b) \in Nat
  OBVIOUS
<1>2. \A k \in 1 .. n - m : b[m + k] \in S
  BY <1>1
<1> QED
  BY <1>1, <1>2

\* What is cut from the front of a rest joins what was cut before.
LEMMA BorderMoves ==
    ASSUME NEW S, NEW a \in Seq(S), NEW b \in Seq(S),
           NEW m \in Nat, NEW n \in Nat, m <= n, n <= Len(b)
    PROVE  (a \o SubSeq(b, m + 1, n)) \o SubSeq(b, n + 1, Len(b))
              = a \o SubSeq(b, m + 1, Len(b))
<1> DEFINE x == SubSeq(b, m + 1, n)
           y == SubSeq(b, n + 1, Len(b))
           z == SubSeq(b, m + 1, Len(b))
<1>1. Len(a) \in Nat /\ Len(b) \in Nat
  OBVIOUS
<1>2. x \in Seq(S) /\ Len(x) = n - m /\ \A k \in 1 .. n - m : x[k] = b[m + k]
  BY CutFacts
<1>3. y \in Seq(S) /\ Len(y) = Len(b) - n /\ \A k \in 1 .. Len(b) - n : y[k] = b[n + k]
  BY <1>1, CutFacts
<1>4. z \in Seq(S) /\ Len(z) = Len(b) - m /\ \A k \in 1 .. Len(b) - m : z[k] = b[m + k]
  <2>1. m <= Len(b) /\ Len(b) <= Len(b)
    BY <1>1
  <2> QED
    BY <1>1, <2>1, CutFacts
<1> HIDE DEF x, y, z
<1> DEFINE l == (a \o x) \o y
           r == a \o z
<1>5. /\ a \o x \in Seq(S) /\ Len(a \o x) = Len(a) + (n - m)
      /\ \A k \in 1 .. Len(a) : (a \o x)[k] = a[k]
      /\ \A k \in 1 .. n - m : (a \o x)[Len(a) + k] = x[k]
  <2>1. /\ a \o x \in Seq(S) /\ Len(a \o x) = Len(a) + Len(x)
        /\ Len(a) \in Nat /\ Len(x) \in Nat
        /\ \A k \in 1 .. Len(a) : (a \o x)[k] = a[k]
        /\ \A k \in 1 .. Len(x) : (a \o x)[Len(a) + k] = x[k]
    <3>1. x \in Seq(S)
      BY <1>2
    <3> QED
      BY <3>1, JoinFacts
  <2> QED
    BY <1>2, <2>1
<1>6. /\ l \in Seq(S) /\ Len(l) = Len(a) + (n - m) + (Len(b) - n)
      /\ \A k \in 1 .. Len(a) + (n - m) : l[k] = (a \o x)[k]
      /\ \A k \in 1 .. Len(b) - n : l[Len(a) + (n - m) + k] = y[k]
  <2> DEFINE ax == a \o x
  <2>1. ax \in Seq(S) /\ Len(ax) = Len(a) + (n - m)
    BY <1>5
  <2> HIDE DEF ax
  <2>2. /\ ax \o y \in Seq(S) /\ Len(ax \o y) = Len(a) + (n - m) + (Len(b) - n)
        /\ \A k \in 1 .. Len(a) + (n - m) : (ax \o y)[k] = ax[k]
        /\ \A k \in 1 .. Len(b) - n : (ax \o y)[Len(a) + (n - m) + k] = y[k]
    <3>1. /\ ax \o y \in Seq(S) /\ Len(ax \o y) = Len(ax) + Len(y)
          /\ Len(ax) \in Nat /\ Len(y) \in Nat
          /\ \A k \in 1 .. Len(ax) : (ax \o y)[k] = ax[k]
          /\ \A k \in 1 .. Len(y) : (ax \o y)[Len(ax) + k] = y[k]
      <4>1. ax \in Seq(S) /\ y \in Seq(S)
        BY <1>3, <2>1
      <4> QED
        BY <4>1, JoinFacts
    <3> QED
      BY <1>3, <2>1, <3>1
  <2> QED
    BY <2>2 DEF ax
<1>7. /\ r \in Seq(S) /\ Len(r) = Len(a) + (Len(b) - m)
      /\ \A k \in 1 .. Len(a) : r[k] = a[k]
      /\ \A k \in 1 .. Len(b) - m : r[Len(a) + k] = z[k]
  <2>1. /\ r \in Seq(S) /\ Len(r) = Len(a) + Len(z)
        /\ Len(a) \in Nat /\ Len(z) \in Nat
        /\ \A k \in 1 .. Len(a) : r[k] = a[k]
        /\ \A k \in 1 .. Len(z) : r[Len(a) + k] = z[k]
    <3>1. z \in Seq(S)
      BY <1>4
    <3> QED
      BY <3>1, JoinFacts
  <2> QED
    BY <1>4, <2>1
<1> HIDE DEF l, r
<1>8. Len(l) = Len(r) /\ Len(r) \in Nat
  BY <1>1, <1>6, <1>7
<1>9. ASSUME NEW k \in 1 .. Len(l) PROVE l[k] = r[k]
  <2>0. k \in Nat
    BY <1>8
  <2>1. CASE k <= Len(a)
    <3>1. k \in 1 .. Len(a) /\ k \in 1 .. Len(a) + (n - m)
      BY <1>1, <2>1
    <3> QED
      BY <1>5, <1>6, <1>7, <3>1
  <2>2. CASE k > Len(a) /\ k <= Len(a) + (n - m)
    <3>1. k - Len(a) \in 1 .. n - m /\ k - Len(a) \in 1 .. Len(b) - m
          /\ Len(a) + (k - Len(a)) = k /\ k \in 1 .. Len(a) + (n - m)
      BY <1>1, <2>0, <2>2
    <3>2. l[k] = b[m + (k - Len(a))]
      BY <1>2, <1>5, <1>6, <3>1
    <3>3. r[k] = b[m + (k - Len(a))]
      BY <1>4, <1>7, <3>1
    <3> QED
      BY <3>2, <3>3
  <2>3. CASE k > Len(a) + (n - m)
    <3> DEFINE u == k - (Len(a) + (n - m))
               v == k - Len(a)
    <3>1. /\ u \in 1 .. Len(b) - n /\ Len(a) + (n - m) + u = k
          /\ v \in 1 .. Len(b) - m /\ Len(a) + v = k /\ n + u = m + v
      BY <1>1, <1>6, <2>0, <2>3
    <3> HIDE DEF u, v
    <3>2. l[k] = b[n + u]
      BY <1>3, <1>6, <3>1
    <3>3. r[k] = b[m + v]
      BY <1>4, <1>7, <3>1
    <3> QED
      BY <3>1, <3>2, <3>3
  <2> QED
    BY <1>1, <2>0, <2>1, <2>2, <2>3
<1>10. l = r
  BY <1>6, <1>7, <1>8, <1>9, SeqEqual
<1> QED
  BY <1>10 DEF l, r, x, y, z

BordersMove(a, b) ==
    \A m, n \in Nat : m <= n /\ n <= Len(b) =>
        (a \o SubSeq(b, m + 1, n)) \o SubSeq(b, n + 1, Len(b)) = a \o SubSeq(b, m + 1, Len(b))

LEMMA AllBordersMove ==
    ASSUME NEW S, NEW a \in Seq(S), NEW b \in Seq(S)
    PROVE  BordersMove(a, b)
<1> SUFFICES ASSUME NEW m \in Nat, NEW n \in Nat, m <= n, n <= Len(b)
             PROVE  (a \o SubSeq(b, m + 1, n)) \o SubSeq(b, n + 1, Len(b))
                       = a \o SubSeq(b, m + 1, Len(b))
  BY DEF BordersMove
<1> QED
  BY BorderMoves

\* A sequence read to its end.
LEMMA NothingLeft ==
    ASSUME NEW S, NEW a \in Seq(S), NEW b \in Seq(S)
    PROVE  /\ a \o SubSeq(b, Len(b) + 1, Len(b)) = a
           /\ a \o SubSeq(<<>>, 1, 0) = a
           /\ SubSeq(b, 1, Len(b)) = b
           /\ a \o <<>> = a /\ <<>> \o a = a
  OBVIOUS

-----------------------------------------------------------------------------
(***************************************************************************)
(* The two sequences.                                                      *)
(***************************************************************************)
LEMMA HalvesFacts ==
    ASSUME NEW F, NEW f \in F
    PROVE  /\ Halves(f) \in Seq(Half(F)) /\ Len(Halves(f)) = 2
           /\ Halves(f)[1].frame = f /\ ~Halves(f)[1].last
           /\ Halves(f)[2].frame = f /\ Halves(f)[2].last
<1>1. [frame |-> f, last |-> FALSE] \in Half(F) /\ [frame |-> f, last |-> TRUE] \in Half(F)
  BY DEF Half
<1> QED
  BY <1>1 DEF Halves

\* A client sends one more.
LEMMA AskedMore ==
    ASSUME NEW q, NEW c, NEW d, NEW s, Asked(q, c, d, s),
           NEW f \in Request, f.client = c, f.n = s + 1
    PROVE  Asked(q \o Halves(f), c, d, s + 1)
<1> DEFINE h == Halves(f)
           r == q \o h
           m == s - d
<1>1. /\ d \in Nat /\ s \in Nat /\ d <= s /\ q \in Seq(RequestHalf) /\ Len(q) = 2 * m
      /\ \A j \in 1 .. m : IsRequest(q[2 * j - 1], q[2 * j], c, d + j)
  BY DEF Asked
<1>2. m \in Nat /\ d + (m + 1) = s + 1
  BY <1>1
<1>3. /\ h \in Seq(RequestHalf) /\ Len(h) = 2
      /\ h[1].frame = f /\ ~h[1].last /\ h[2].frame = f /\ h[2].last
  BY HalvesFacts DEF RequestHalf
<1> HIDE DEF h, m
<1>4. /\ r \in Seq(RequestHalf) /\ Len(r) = 2 * m + 2
      /\ \A k \in 1 .. 2 * m : r[k] = q[k]
      /\ r[2 * m + 1] = h[1] /\ r[2 * m + 2] = h[2]
  <2>1. q \in Seq(RequestHalf) /\ h \in Seq(RequestHalf)
    BY <1>1, <1>3
  <2>2. /\ r \in Seq(RequestHalf) /\ Len(r) = Len(q) + Len(h)
        /\ Len(q) \in Nat /\ Len(h) \in Nat
        /\ \A k \in 1 .. Len(q) : r[k] = q[k]
        /\ \A k \in 1 .. Len(h) : r[Len(q) + k] = h[k]
    BY <2>1, JoinFacts
  <2>3. 1 \in 1 .. Len(h) /\ 2 \in 1 .. Len(h)
    BY <1>3
  <2> HIDE DEF r
  <2> QED
    BY <1>1, <1>3, <2>2, <2>3
<1> HIDE DEF r
<1>5. ASSUME NEW j \in 1 .. m + 1
      PROVE  IsRequest(r[2 * j - 1], r[2 * j], c, d + j)
  <2>1. CASE j = m + 1
    <3>1. 2 * j - 1 = 2 * m + 1 /\ 2 * j = 2 * m + 2 /\ d + j = s + 1
      BY <1>2, <2>1
    <3> QED
      BY <1>3, <1>4, <3>1 DEF IsRequest
  <2>2. CASE j # m + 1
    <3>1. j \in 1 .. m /\ 2 * j - 1 \in 1 .. 2 * m /\ 2 * j \in 1 .. 2 * m
      BY <1>2, <2>2
    <3> QED
      BY <1>1, <1>4, <3>1
  <2> QED
    BY <2>1, <2>2
<1>6. (s + 1) - d = m + 1 /\ 2 * ((s + 1) - d) = 2 * m + 2 /\ d <= s + 1 /\ s + 1 \in Nat
  BY <1>1, <1>2 DEF m
<1>7. Asked(r, c, d, s + 1)
  BY <1>1, <1>4, <1>5, <1>6 DEF Asked
<1> QED
  BY <1>7 DEF r, h

\* The server executes one.
LEMMA AskedLess ==
    ASSUME NEW q, NEW c, NEW d, NEW s, Asked(q, c, d, s), Len(q) > 0
    PROVE  /\ Len(q) >= 2 /\ d + 1 <= s
           /\ IsRequest(q[1], q[2], c, d + 1)
           /\ Asked(SubSeq(q, 3, Len(q)), c, d + 1, s)
<1> DEFINE r == SubSeq(q, 3, Len(q))
           m == s - d
<1>1. /\ d \in Nat /\ s \in Nat /\ d <= s /\ q \in Seq(RequestHalf) /\ Len(q) = 2 * m
      /\ \A j \in 1 .. m : IsRequest(q[2 * j - 1], q[2 * j], c, d + j)
  BY DEF Asked
<1>2. m \in Nat /\ m >= 1 /\ d + 1 <= s /\ Len(q) \in Nat
  BY <1>1
<1>3. IsRequest(q[1], q[2], c, d + 1)
  <2>1. 1 \in 1 .. m /\ 2 * 1 - 1 = 1 /\ 2 * 1 = 2
    BY <1>2
  <2>2. IsRequest(q[2 * 1 - 1], q[2 * 1], c, d + 1)
    BY <1>1, <2>1
  <2> QED
    BY <2>1, <2>2
<1>4. /\ r \in Seq(RequestHalf) /\ Len(r) = Len(q) - 2
      /\ \A k \in 1 .. Len(q) - 2 : r[k] = q[2 + k]
  <2>1. 2 \in Nat /\ 2 <= Len(q) /\ Len(q) <= Len(q) /\ q \in Seq(RequestHalf) /\ Len(q) \in Nat
    BY <1>1, <1>2
  <2>2. /\ SubSeq(q, 2 + 1, Len(q)) \in Seq(RequestHalf) /\ Len(SubSeq(q, 2 + 1, Len(q))) = Len(q) - 2
        /\ \A k \in 1 .. Len(q) - 2 : SubSeq(q, 2 + 1, Len(q))[k] = q[2 + k]
    BY <2>1, CutFacts, ZenonT(60)
  <2> QED
    BY <2>2
<1> HIDE DEF r, m
<1>5. ASSUME NEW j \in 1 .. m - 1
      PROVE  IsRequest(r[2 * j - 1], r[2 * j], c, (d + 1) + j)
  <2>1. /\ j + 1 \in 1 .. m /\ 2 * (j + 1) - 1 = 2 + (2 * j - 1) /\ 2 * (j + 1) = 2 + 2 * j
        /\ 2 * j - 1 \in 1 .. Len(q) - 2 /\ 2 * j \in 1 .. Len(q) - 2
        /\ d + (j + 1) = (d + 1) + j
    BY <1>1, <1>2
  <2>2. IsRequest(q[2 * (j + 1) - 1], q[2 * (j + 1)], c, d + (j + 1))
    BY <1>1, <2>1
  <2>3. r[2 * j - 1] = q[2 + (2 * j - 1)] /\ r[2 * j] = q[2 + 2 * j]
    BY <1>4, <2>1
  <2> QED
    BY <2>1, <2>2, <2>3
<1>6. s - (d + 1) = m - 1 /\ Len(r) = 2 * (m - 1) /\ d + 1 \in Nat
  <2>1. s - (d + 1) = m - 1
    BY <1>1 DEF m
  <2> QED
    BY <1>1, <1>2, <1>4, <2>1
<1>7. Asked(r, c, d + 1, s)
  BY <1>1, <1>2, <1>4, <1>5, <1>6 DEF Asked
<1> QED
  BY <1>1, <1>2, <1>3, <1>7 DEF r

\* Numbers and halves of replies.
LEMMA Parity ==
    \A d \in Nat : /\ (2 * d + 1) % 2 # 0 /\ (2 * d + 2) % 2 = 0
                   /\ (2 * d + 1 + 1) \div 2 = d + 1 /\ (2 * d + 2 + 1) \div 2 = d + 1
  OBVIOUS

\* The server answers one more.
LEMMA ToldMore ==
    ASSUME NEW p, NEW c, NEW d, Told(p, c, d),
           NEW f \in Response, f.req.client = c, f.req.n = d + 1,
           f.detach => f.req.op = "detach"
    PROVE  Told(p \o Halves(f), c, d + 1)
<1> DEFINE h == Halves(f)
           r == p \o h
<1>1. /\ d \in Nat /\ p \in Seq(ResponseHalf) /\ Len(p) = 2 * d
      /\ \A k \in 1 .. 2 * d : IsReply(p[k], c, k)
  BY DEF Told
<1>2. /\ h \in Seq(ResponseHalf) /\ Len(h) = 2
      /\ h[1].frame = f /\ ~h[1].last /\ h[2].frame = f /\ h[2].last
      /\ h[1].last \in BOOLEAN /\ h[2].last \in BOOLEAN
  <2>1. /\ h \in Seq(ResponseHalf) /\ Len(h) = 2
        /\ h[1].frame = f /\ ~h[1].last /\ h[2].frame = f /\ h[2].last
    BY HalvesFacts DEF ResponseHalf
  <2>2. h[1].last \in BOOLEAN /\ h[2].last \in BOOLEAN
    BY DEF Halves
  <2> QED
    BY <2>1, <2>2
<1> HIDE DEF h
<1>3. /\ r \in Seq(ResponseHalf) /\ Len(r) = 2 * d + 2
      /\ \A k \in 1 .. 2 * d : r[k] = p[k]
      /\ r[2 * d + 1] = h[1] /\ r[2 * d + 2] = h[2]
  <2>1. p \in Seq(ResponseHalf) /\ h \in Seq(ResponseHalf)
    BY <1>1, <1>2
  <2>2. /\ r \in Seq(ResponseHalf) /\ Len(r) = Len(p) + Len(h)
        /\ Len(p) \in Nat /\ Len(h) \in Nat
        /\ \A k \in 1 .. Len(p) : r[k] = p[k]
        /\ \A k \in 1 .. Len(h) : r[Len(p) + k] = h[k]
    BY <2>1, JoinFacts
  <2>3. 1 \in 1 .. Len(h) /\ 2 \in 1 .. Len(h)
    BY <1>2
  <2> HIDE DEF r
  <2> QED
    BY <1>1, <1>2, <2>2, <2>3
<1> HIDE DEF r
<1>4. IsReply(h[1], c, 2 * d + 1) /\ IsReply(h[2], c, 2 * d + 2)
  <2>1. /\ (2 * d + 1) % 2 # 0 /\ (2 * d + 2) % 2 = 0
        /\ (2 * d + 1 + 1) \div 2 = d + 1 /\ (2 * d + 2 + 1) \div 2 = d + 1
    BY <1>1, Parity
  <2>2. h[1].last = ((2 * d + 1) % 2 = 0)
    BY <1>2, <2>1
  <2>3. h[2].last = ((2 * d + 2) % 2 = 0)
    BY <1>2, <2>1
  <2> QED
    BY <1>2, <2>1, <2>2, <2>3 DEF IsReply
<1>5. ASSUME NEW k \in 1 .. 2 * d + 2 PROVE IsReply(r[k], c, k)
  <2>1. k \in 1 .. 2 * d \/ k = 2 * d + 1 \/ k = 2 * d + 2
    BY <1>1
  <2> QED
    BY <1>1, <1>3, <1>4, <2>1
<1>6. 2 * (d + 1) = 2 * d + 2 /\ d + 1 \in Nat
  BY <1>1
<1>7. Told(r, c, d + 1)
  BY <1>3, <1>5, <1>6 DEF Told
<1> QED
  BY <1>7 DEF r, h

-----------------------------------------------------------------------------
(***************************************************************************)
(* The invariant.                                                          *)
(***************************************************************************)

\* The frames executed for a client.
Executed(c) ==
    /\ Len(done[c]) <= sent[c]
    /\ \A k \in 1 .. Len(done[c]) :
         LET r == Last(done[c][k]).frame
         IN  done[c][k] = Halves(r) /\ r.client = c /\ r.n = k

\* What has reached a client.
Heard(c) == \A k \in 1 .. Len(rcv[c]) : IsReply(rcv[c][k], c, k)

\* A client that is not accepted yet.
Early(c) ==
    link[c] \in {"new", "waiting"} =>
        Asked(sock[c], c, 0, sent[c]) /\ done[c] = <<>> /\ rcv[c] = <<>>

\* Each client has one slot at most, which holds what is between the two
\* sequences and the client.
Served(i) ==
    fd[i] # None =>
        /\ link[fd[i]] = "open"
        /\ \A j \in Slot : fd[j] = fd[i] => j = i
        /\ Asked(in[i] \o sock[fd[i]], fd[i], Len(done[fd[i]]), sent[fd[i]])
        /\ Told(rcv[fd[i]] \o Unsent(i), fd[i], Len(done[fd[i]]))

\* Clients wait in the backlog, each once, and one that poll reported is there.
Waiting ==
    /\ \A k \in 1 .. Len(backlog) : link[backlog[k]] = "waiting"
    /\ \A k, l \in 1 .. Len(backlog) : backlog[k] = backlog[l] => k = l
    /\ pc = "accept" /\ ready.accept => backlog # <<>>

\* The loop is at a slot, and at one in use while it executes and writes.
AtSlot ==
    /\ pc \in {"read", "frames", "write", "hup"} => slot \in Slot
    /\ pc \in {"frames", "write"} => fd[slot] # None

ServerInv ==
    /\ TypeOK
    /\ \A c \in Clients : Executed(c) /\ Heard(c) /\ Early(c)
    /\ \A i \in Slot : Served(i)
    /\ Waiting
    /\ AtSlot

\* The types of what slots and clients have.
LEMMA Types ==
    ASSUME TypeOK
    PROVE  /\ None \notin Clients
           /\ \A c \in Clients : /\ sock[c] \in Seq(RequestHalf) /\ rcv[c] \in Seq(ResponseHalf)
                                 /\ sent[c] \in Nat
                                 /\ done[c] \in Seq(Seq(RequestHalf))
                                 /\ seen[c] \in 0 .. Len(rcv[c])
           /\ \A i \in Slot : /\ fd[i] \in Clients \cup {None}
                              /\ in[i] \in Seq(RequestHalf) /\ out[i] \in Seq(ResponseHalf)
                              /\ Len(in[i]) <= MaxIn
                              /\ out_sent[i] \in 0 .. Len(out[i])
<1>1. None \notin Clients
  BY SlotAssumption DEF SlotAssumption
<1>2. \A c \in Clients : sent[c] \in Nat
  BY SizeAssumption DEF SizeAssumption, TypeOK
<1> QED
  BY <1>1, <1>2 DEF TypeOK, RequestHalf, ResponseHalf

LEMMA InitEstablishes == Init => ServerInv
<1> SUFFICES ASSUME Init PROVE ServerInv
  OBVIOUS
<1>1. Slots \in Nat /\ \A c \in Clients : MaxRequests[c] \in Nat
  BY SlotAssumption, SizeAssumption DEF SlotAssumption, SizeAssumption
<1>2. MaxIn \in Nat
  BY SizeAssumption DEF SizeAssumption
<1>3. \A S : <<>> \in Seq(S)
  OBVIOUS
<1>4. TypeOK
  <2>1. /\ sock \in [Clients -> Seq(Half(Request))]
        /\ rcv \in [Clients -> Seq(Half(Response))]
        /\ in \in [Slot -> Seq(Half(Request))]
        /\ out \in [Slot -> Seq(Half(Response))]
        /\ done \in [Clients -> Seq(Seq(Half(Request)))]
        /\ backlog \in Seq(Clients)
    BY <1>3 DEF Init
  <2>2. /\ alive \subseteq Clients
        /\ link \in [Clients -> {"new", "waiting", "open", "closed"}]
        /\ fd \in [Slot -> Clients \cup {None}]
        /\ pc \in {"poll", "accept", "read", "frames", "write", "hup", "stopped"}
        /\ interrupted \in BOOLEAN /\ quit \in BOOLEAN /\ detach \in BOOLEAN
        /\ \A i \in Slot : fd[i] = None => in[i] = <<>> /\ out[i] = <<>>
    BY DEF Init
  <2>3. /\ sent \in [Clients -> Nat] /\ seen \in [Clients -> Nat] /\ out_sent \in [Slot -> Nat]
        /\ \A c \in Clients : sent[c] <= MaxRequests[c] /\ seen[c] <= Len(rcv[c])
        /\ \A i \in Slot : Len(in[i]) <= MaxIn /\ out_sent[i] <= Len(out[i])
        /\ slot \in 0 .. Slots
    BY <1>1, <1>2 DEF Init
  <2> QED
    BY <2>1, <2>2, <2>3 DEF TypeOK
<1>5. ASSUME NEW c \in Clients PROVE Executed(c) /\ Heard(c) /\ Early(c)
  <2>1. /\ sock[c] = <<>> /\ rcv[c] = <<>> /\ done[c] = <<>> /\ sent[c] = 0
    BY DEF Init
  <2>2. Asked(<<>>, c, 0, 0)
    BY <1>3 DEF Asked
  <2> QED
    BY <2>1, <2>2 DEF Executed, Heard, Early
<1>6. ASSUME NEW i \in Slot PROVE Served(i)
  BY DEF Init, Served
<1>7. Waiting /\ AtSlot
  BY DEF Init, Waiting, AtSlot
<1> QED
  BY <1>4, <1>5, <1>6, <1>7 DEF ServerInv

-----------------------------------------------------------------------------
(***************************************************************************)
(* Steps.                                                                  *)
(***************************************************************************)
Clean == \A c \in Clients : Executed(c) /\ Heard(c) /\ Early(c)

AllServed == \A i \in Slot : Served(i)

\* What the invariant is about beside the queue and the loop.
core == <<link, sent, sock, rcv, done, peers>>

LEMMA CoreStays ==
    ASSUME Clean, AllServed, UNCHANGED core
    PROVE  Clean' /\ AllServed'
<1>1. UNCHANGED <<link, sent, sock, rcv, done, fd, in, out, out_sent>>
  BY DEF core, peers
<1>2. ASSUME NEW c \in Clients PROVE (Executed(c) /\ Heard(c) /\ Early(c))'
  <2>1. Executed(c) /\ Heard(c) /\ Early(c)
    BY DEF Clean
  <2> QED
    BY <1>1, <2>1 DEF Executed, Heard, Early
<1>3. ASSUME NEW i \in Slot PROVE Served(i)'
  <2>1. Served(i)
    BY DEF AllServed
  <2> QED
    BY <1>1, <2>1 DEF Served, Unsent
<1> QED
  BY <1>2, <1>3 DEF Clean, AllServed

\* A step at slot s, which serves client c.
LEMMA OneSlot ==
    ASSUME Clean, AllServed, None \notin Clients,
           NEW s \in Slot, NEW c \in Clients, fd[s] = c,
           \A i \in Slot \ {s} : /\ fd'[i] = fd[i] /\ in'[i] = in[i]
                                 /\ out'[i] = out[i] /\ out_sent'[i] = out_sent[i],
           \A d \in Clients \ {c} : /\ link'[d] = link[d] /\ sent'[d] = sent[d]
                                    /\ sock'[d] = sock[d] /\ rcv'[d] = rcv[d]
                                    /\ done'[d] = done[d],
           \A i \in Slot : fd[i] \in Clients \cup {None},
           \/ fd'[s] = None /\ link'[c] = "closed"
           \/ /\ fd'[s] = c /\ link'[c] = "open"
              /\ Asked(in'[s] \o sock'[c], c, Len(done'[c]), sent'[c])
              /\ Told(rcv'[c] \o Unsent(s)', c, Len(done'[c])),
           Executed(c)', Heard(c)'
    PROVE  Clean' /\ AllServed'
<1>1. ASSUME NEW d \in Clients PROVE (Executed(d) /\ Heard(d) /\ Early(d))'
  <2>1. CASE d = c
    BY <2>1 DEF Early
  <2>2. CASE d # c
    <3>1. Executed(d) /\ Heard(d) /\ Early(d)
      BY DEF Clean
    <3>2. /\ link'[d] = link[d] /\ sent'[d] = sent[d]
          /\ sock'[d] = sock[d] /\ rcv'[d] = rcv[d] /\ done'[d] = done[d]
      BY <2>2
    <3> QED
      BY <3>1, <3>2 DEF Executed, Heard, Early
  <2> QED
    BY <2>1, <2>2
<1>2. ASSUME NEW i \in Slot \ {s}, fd[i] # None PROVE fd[i] \in Clients \ {c}
  <2>1. Served(s)
    BY DEF AllServed
  <2> QED
    BY <1>2, <2>1 DEF Served
<1>3. ASSUME NEW i \in Slot PROVE Served(i)'
  <2>1. CASE i = s
    <3>1. CASE fd'[s] = None
      BY <2>1, <3>1 DEF Served
    <3>2. CASE fd'[s] = c /\ link'[c] = "open"
               /\ Asked(in'[s] \o sock'[c], c, Len(done'[c]), sent'[c])
               /\ Told(rcv'[c] \o Unsent(s)', c, Len(done'[c]))
      <4>1. ASSUME NEW j \in Slot, fd'[j] = c PROVE j = s
        BY <1>2, <4>1
      <4> QED
        BY <2>1, <3>2, <4>1 DEF Served
    <3> QED
      BY <3>1, <3>2
  <2>2. CASE i # s
    <3> SUFFICES ASSUME fd[i] # None PROVE Served(i)'
      BY <2>2 DEF Served
    <3> DEFINE d == fd[i]
    <3>1. /\ d \in Clients \ {c} /\ fd'[i] = d /\ in'[i] = in[i]
          /\ Unsent(i)' = Unsent(i)
      BY <1>2, <2>2 DEF Unsent
    <3>2. /\ link'[d] = link[d] /\ sent'[d] = sent[d]
          /\ sock'[d] = sock[d] /\ rcv'[d] = rcv[d] /\ done'[d] = done[d]
      BY <3>1
    <3>3. /\ link[d] = "open"
          /\ \A j \in Slot : fd[j] = d => j = i
          /\ Asked(in[i] \o sock[d], d, Len(done[d]), sent[d])
          /\ Told(rcv[d] \o Unsent(i), d, Len(done[d]))
      BY DEF AllServed, Served
    <3>4. ASSUME NEW j \in Slot, fd'[j] = d PROVE j = i
      BY <3>1, <3>3, <3>4
    <3> HIDE DEF d
    <3>5. /\ link'[d] = "open"
          /\ \A j \in Slot : fd'[j] = d => j = i
          /\ Asked(in'[i] \o sock'[d], d, Len(done'[d]), sent'[d])
          /\ Told(rcv'[d] \o Unsent(i)', d, Len(done'[d]))
      BY <3>1, <3>2, <3>3, <3>4
    <3> QED
      BY <3>1, <3>5 DEF Served
  <2> QED
    BY <2>1, <2>2
<1> QED
  BY <1>1, <1>3 DEF Clean, AllServed

LEMMA ConnectStep ==
    ASSUME ServerInv, NEW c \in Clients, Connect(c)
    PROVE  ServerInv'
<1>1. /\ link[c] = "new" /\ link' = [link EXCEPT ![c] = "waiting"]
      /\ backlog' = Append(backlog, c)
      /\ UNCHANGED <<alive, sent, sock, seen, rcv, peers, pc, slot, ready, interrupted, editor>>
  BY DEF Connect
<1>2. UNCHANGED <<sent, sock, seen, rcv, fd, in, out, out_sent, pc, slot, ready, done>>
  BY <1>1 DEF peers, editor
<1>3. /\ link \in [Clients -> {"new", "waiting", "open", "closed"}] /\ backlog \in Seq(Clients)
      /\ TypeOK /\ Waiting
  BY DEF ServerInv, TypeOK
<1>4. link' \in [Clients -> {"new", "waiting", "open", "closed"}] /\ backlog' \in Seq(Clients)
  BY <1>1, <1>3
<1>5. TypeOK'
  BY <1>1, <1>3, <1>4 DEF TypeOK, peers, editor
<1>6. ASSUME NEW d \in Clients PROVE (Executed(d) /\ Heard(d) /\ Early(d))'
  <2>1. Executed(d) /\ Heard(d) /\ Early(d)
    BY DEF ServerInv
  <2>2. link'[d] = IF d = c THEN "waiting" ELSE link[d]
    BY <1>1, <1>3
  <2> QED
    BY <1>1, <1>2, <2>1, <2>2 DEF Executed, Heard, Early
<1>7. ASSUME NEW i \in Slot PROVE Served(i)'
  <2>1. Served(i)
    BY DEF ServerInv
  <2>2. fd[i] # None => link[fd[i]] = "open" /\ fd[i] # c
    BY <1>1, <2>1 DEF Served
  <2>3. fd[i] # None => link'[fd[i]] = "open"
    BY <1>1, <1>3, <2>2, Types
  <2> QED
    BY <1>2, <2>1, <2>3 DEF Served, Unsent
<1>8. Waiting'
  <2>1. /\ Len(backlog) \in Nat /\ Len(backlog') = Len(backlog) + 1 /\ backlog' # <<>>
        /\ \A k \in 1 .. Len(backlog) : backlog'[k] = backlog[k] /\ backlog[k] \in Clients
        /\ backlog'[Len(backlog) + 1] = c
    BY <1>1, <1>3
  <2>2. \A k \in 1 .. Len(backlog) : backlog[k] # c /\ link'[backlog[k]] = "waiting"
    BY <1>1, <1>3, <2>1 DEF Waiting
  <2>3. link'[c] = "waiting"
    BY <1>1, <1>3
  <2>4. ASSUME NEW k \in 1 .. Len(backlog')
        PROVE  k \in 1 .. Len(backlog) \/ k = Len(backlog) + 1
    BY <2>1
  <2>5. \A k \in 1 .. Len(backlog') : link'[backlog'[k]] = "waiting"
    BY <2>1, <2>2, <2>3, <2>4
  <2>6. ASSUME NEW k \in 1 .. Len(backlog'), NEW l \in 1 .. Len(backlog'), backlog'[k] = backlog'[l]
        PROVE  k = l
    <3>1. CASE k \in 1 .. Len(backlog) /\ l \in 1 .. Len(backlog)
      <4>1. backlog[k] = backlog[l]
        BY <2>1, <2>6, <3>1
      <4> QED
        BY <1>3, <3>1, <4>1 DEF Waiting
    <3>2. CASE k = Len(backlog) + 1 /\ l \in 1 .. Len(backlog)
      BY <2>1, <2>2, <2>6, <3>2
    <3>3. CASE k \in 1 .. Len(backlog) /\ l = Len(backlog) + 1
      BY <2>1, <2>2, <2>6, <3>3
    <3> QED
      BY <2>4, <3>1, <3>2, <3>3
  <2> QED
    BY <2>1, <2>5, <2>6 DEF Waiting
<1>9. AtSlot'
  BY <1>2 DEF ServerInv, AtSlot
<1> QED
  BY <1>5, <1>6, <1>7, <1>8, <1>9 DEF ServerInv

LEMMA SendStep ==
    ASSUME ServerInv, NEW c \in Clients, NEW op \in Ops[c], Send(c, op)
    PROVE  ServerInv'
<1> DEFINE f == [client |-> c, n |-> sent[c] + 1, op |-> op]
           more == sock[c] \o Halves(f)
<1>1. /\ link[c] \in {"waiting", "open"} /\ sent[c] < MaxRequests[c]
      /\ sent' = [sent EXCEPT ![c] = @ + 1]
      /\ sock' = [sock EXCEPT ![c] = @ \o Halves([client |-> c, n |-> sent'[c], op |-> op])]
      /\ UNCHANGED <<alive, link, backlog, seen, rcv, peers, pc, slot, ready, interrupted, editor>>
  BY DEF Send
<1>2. UNCHANGED <<link, backlog, seen, rcv, fd, in, out, out_sent, pc, slot, ready, done>>
  BY <1>1 DEF peers, editor
<1>3. TypeOK /\ Clean /\ AllServed
  BY DEF ServerInv, Clean, AllServed
<1>4. /\ \A d \in Clients : sock[d] \in Seq(RequestHalf) /\ sent[d] \in Nat /\ done[d] \in Seq(Seq(RequestHalf))
      /\ None \notin Clients
      /\ \A i \in Slot : in[i] \in Seq(RequestHalf) /\ fd[i] \in Clients \cup {None}
  BY <1>3, Types
<1>5. /\ sent \in [Clients -> Nat] /\ sock \in [Clients -> Seq(Half(Request))]
      /\ \A d \in Clients : sent[d] <= MaxRequests[d] /\ MaxRequests[d] \in Nat
  BY <1>3, SizeAssumption DEF TypeOK, SizeAssumption
<1>6. f \in Request /\ f.client = c /\ f.n = sent[c] + 1
  BY <1>5 DEF Request
<1>7. Halves(f) \in Seq(RequestHalf)
  BY <1>6, HalvesFacts DEF RequestHalf
<1>8. /\ sent' \in [Clients -> Nat]
      /\ \A d \in Clients : sent'[d] = IF d = c THEN sent[c] + 1 ELSE sent[d]
  BY <1>1, <1>5
<1>9. sock' = [sock EXCEPT ![c] = more]
  BY <1>1, <1>8
<1>10. more \in Seq(RequestHalf)
  BY <1>4, <1>7, ConcatProperties
<1> HIDE DEF f, more
<1>11. /\ sock' \in [Clients -> Seq(Half(Request))]
       /\ \A d \in Clients : sock'[d] = IF d = c THEN more ELSE sock[d]
  BY <1>5, <1>9, <1>10 DEF RequestHalf
<1>12. \A d \in Clients : sent'[d] <= MaxRequests[d] /\ sent[d] <= sent'[d]
  BY <1>1, <1>5, <1>8
<1>13. TypeOK'
  BY <1>1, <1>2, <1>3, <1>8, <1>11, <1>12 DEF TypeOK, peers, editor
<1>14. ASSUME NEW d \in Clients PROVE (Executed(d) /\ Heard(d) /\ Early(d))'
  <2>1. Executed(d) /\ Heard(d) /\ Early(d)
    BY <1>3 DEF Clean
  <2>2. Executed(d)'
    <3>1. Len(done[d]) \in Nat
      BY <1>4
    <3>2. Len(done[d]) <= sent'[d]
      BY <1>4, <1>8, <1>12, <2>1, <3>1 DEF Executed
    <3> QED
      BY <1>2, <2>1, <3>2 DEF Executed
  <2>3. Early(d)'
    <3>1. CASE d = c
      <4> SUFFICES ASSUME link[c] \in {"new", "waiting"}
                   PROVE  (Asked(sock[c], c, 0, sent[c]) /\ done[c] = <<>> /\ rcv[c] = <<>>)'
        BY <1>2, <3>1 DEF Early
      <4>1. Asked(sock[c], c, 0, sent[c]) /\ done[c] = <<>> /\ rcv[c] = <<>>
        BY <2>1, <3>1 DEF Early
      <4>2. Asked(more, c, 0, sent[c] + 1)
        BY <1>6, <4>1, AskedMore DEF more
      <4> QED
        BY <1>2, <1>8, <1>11, <4>1, <4>2
    <3>2. CASE d # c
      BY <1>2, <1>8, <1>11, <2>1, <3>2 DEF Early
    <3> QED
      BY <3>1, <3>2
  <2> QED
    BY <1>2, <2>1, <2>2, <2>3 DEF Heard
<1>15. ASSUME NEW i \in Slot PROVE Served(i)'
  <2>1. Served(i)
    BY <1>3 DEF AllServed
  <2>2. CASE fd[i] = c
    <3>1. Asked(in[i] \o sock[c], c, Len(done[c]), sent[c])
      BY <1>4, <2>1, <2>2 DEF Served
    <3>2. Asked((in[i] \o sock[c]) \o Halves(f), c, Len(done[c]), sent[c] + 1)
      BY <1>6, <3>1, AskedMore
    <3>3. (in[i] \o sock[c]) \o Halves(f) = in[i] \o more
      <4> DEFINE a == in[i]
                 b == sock[c]
                 h == Halves(f)
      <4>1. a \in Seq(RequestHalf) /\ b \in Seq(RequestHalf) /\ h \in Seq(RequestHalf)
        BY <1>4, <1>7
      <4> HIDE DEF a, b, h
      <4>2. (a \o b) \o h = a \o (b \o h)
        BY <4>1, JoinAgain
      <4> QED
        BY <4>2 DEF more, a, b, h
    <3>4. Asked(in'[i] \o sock'[c], c, Len(done'[c]), sent'[c])
      BY <1>2, <1>8, <1>11, <3>2, <3>3
    <3> QED
      BY <1>2, <2>1, <2>2, <3>4 DEF Served, Unsent
  <2>3. CASE fd[i] # c /\ fd[i] # None
    <3>1. sock'[fd[i]] = sock[fd[i]] /\ sent'[fd[i]] = sent[fd[i]]
      BY <1>4, <1>8, <1>11, <2>3
    <3> QED
      BY <1>2, <2>1, <2>3, <3>1 DEF Served, Unsent
  <2>4. CASE fd[i] = None
    BY <1>2, <2>4 DEF Served
  <2> QED
    BY <2>2, <2>3, <2>4
<1>16. Waiting' /\ AtSlot'
  BY <1>2 DEF ServerInv, Waiting, AtSlot
<1> QED
  BY <1>13, <1>14, <1>15, <1>16 DEF ServerInv

\* Steps that leave the two sequences of every client alone.
LEMMA QuietStep ==
    ASSUME ServerInv, UNCHANGED core, TypeOK', Waiting', AtSlot'
    PROVE  ServerInv'
<1>1. Clean' /\ AllServed'
  BY CoreStays DEF ServerInv, Clean, AllServed
<1> QED
  BY <1>1 DEF ServerInv, Clean, AllServed

LEMMA ReceiveStep ==
    ASSUME ServerInv, NEW c \in Clients, Receive(c)
    PROVE  ServerInv'
<1>1. TypeOK'
  <2>1. /\ TypeOK /\ seen[c] < Len(rcv[c]) /\ seen' = [seen EXCEPT ![c] = @ + 1]
        /\ UNCHANGED <<alive, link, backlog, sent, sock, rcv, peers, pc, slot,
                       ready, interrupted, editor>>
    BY DEF ServerInv, Receive
  <2>2. seen \in [Clients -> Nat] /\ \A d \in Clients : seen[d] <= Len(rcv[d])
    BY <2>1 DEF TypeOK
  <2>3. Len(rcv[c]) \in Nat
    <3>1. rcv[c] \in Seq(ResponseHalf)
      BY <2>1, Types
    <3> QED
      BY <3>1
  <2>4. seen' \in [Clients -> Nat] /\ \A d \in Clients : seen'[d] <= Len(rcv[d])
    BY <2>1, <2>2, <2>3
  <2> QED
    BY <2>1, <2>4 DEF TypeOK, peers, editor
<1>2. UNCHANGED core /\ Waiting' /\ AtSlot'
  BY DEF ServerInv, Waiting, AtSlot, Receive, peers, editor, core
<1> QED
  BY <1>1, <1>2, QuietStep

LEMMA HangUpStep ==
    ASSUME ServerInv, NEW c \in Clients, HangUp(c)
    PROVE  ServerInv'
<1>1. TypeOK'
  BY DEF ServerInv, TypeOK, HangUp, peers, editor
<1>2. UNCHANGED core /\ Waiting' /\ AtSlot'
  BY DEF ServerInv, Waiting, AtSlot, HangUp, peers, editor, core
<1> QED
  BY <1>1, <1>2, QuietStep

LEMMA PollStep ==
    ASSUME ServerInv, Poll
    PROVE  ServerInv'
<1>1. TypeOK'
  BY DEF ServerInv, TypeOK, Poll, clients, peers, editor
<1>2. UNCHANGED core /\ Waiting' /\ AtSlot'
  BY DEF ServerInv, Waiting, AtSlot, Poll, clients, peers, editor, core, Events
<1> QED
  BY <1>1, <1>2, QuietStep

LEMMA NoMoreFramesStep ==
    ASSUME ServerInv, NoMoreFrames
    PROVE  ServerInv'
<1>1. TypeOK'
  BY DEF ServerInv, TypeOK, NoMoreFrames, clients, peers, editor
<1>2. UNCHANGED core /\ Waiting' /\ AtSlot'
  BY DEF ServerInv, Waiting, AtSlot, NoMoreFrames, clients, peers, editor, core
<1> QED
  BY <1>1, <1>2, QuietStep
LEMMA ExitStep ==
    ASSUME ServerInv, Exit, interrupted' \in BOOLEAN
    PROVE  ServerInv'
<1>1. /\ TypeOK /\ Clean
      /\ pc' = "stopped" /\ backlog' = <<>>
      /\ link' = [c \in Clients |-> IF link[c] = "new" THEN "new" ELSE "closed"]
      /\ fd' = [i \in Slot |-> None]
      /\ in' = [i \in Slot |-> <<>>] /\ out' = [i \in Slot |-> <<>>]
      /\ out_sent' = [i \in Slot |-> 0]
      /\ UNCHANGED <<alive, sent, sock, seen, rcv, slot, ready, quit, detach, done>>
  BY DEF ServerInv, Clean, Exit, editor
<1>2. MaxIn \in Nat /\ \A S : <<>> \in Seq(S)
  BY SizeAssumption DEF SizeAssumption
<1>3. TypeOK'
  <2>1. link' \in [Clients -> {"new", "waiting", "open", "closed"}]
    BY <1>1
  <2>2. /\ backlog' \in Seq(Clients)
        /\ in' \in [Slot -> Seq(Half(Request))] /\ out' \in [Slot -> Seq(Half(Response))]
    BY <1>1, <1>2
  <2>3. fd' \in [Slot -> Clients \cup {None}] /\ out_sent' \in [Slot -> Nat]
    BY <1>1
  <2>4. \A i \in Slot : Len(in'[i]) <= MaxIn /\ out_sent'[i] <= Len(out'[i])
    BY <1>1, <1>2
  <2>5. \A i \in Slot : in'[i] = <<>> /\ out'[i] = <<>>
    BY <1>1
  <2> QED
    BY <1>1, <2>1, <2>2, <2>3, <2>4, <2>5 DEF TypeOK
<1>4. ASSUME NEW c \in Clients PROVE (Executed(c) /\ Heard(c) /\ Early(c))'
  <2>1. Executed(c) /\ Heard(c) /\ Early(c)
    BY <1>1 DEF Clean
  <2>2. link'[c] = IF link[c] = "new" THEN "new" ELSE "closed"
    BY <1>1
  <2> QED
    BY <1>1, <2>1, <2>2 DEF Executed, Heard, Early
<1>5. ASSUME NEW i \in Slot PROVE Served(i)'
  BY <1>1 DEF Served
<1>6. Waiting' /\ AtSlot'
  BY <1>1 DEF Waiting, AtSlot
<1> QED
  BY <1>3, <1>4, <1>5, <1>6 DEF ServerInv

LEMMA AcceptStep ==
    ASSUME ServerInv, Accept
    PROVE  ServerInv'
<1>1. /\ TypeOK /\ Clean /\ AllServed /\ Waiting
      /\ pc = "accept" /\ pc' = "read" /\ slot' = 1
      /\ UNCHANGED <<alive, sent, sock, seen, rcv, in, out, out_sent, ready,
                     interrupted, quit, detach, done>>
  BY DEF ServerInv, Clean, AllServed, Accept, editor
<1>2. 1 \in Slot /\ 1 \in 0 .. Slots /\ AtSlot'
  BY <1>1, SlotAssumption DEF SlotAssumption, Slot, AtSlot
<1>3. CASE ~ready.accept
  <2>1. UNCHANGED <<backlog, link, fd>>
    BY <1>3 DEF Accept
  <2>2. TypeOK'
    BY <1>1, <1>2, <2>1 DEF TypeOK
  <2>3. UNCHANGED core /\ Waiting'
    BY <1>1, <2>1 DEF core, peers, Waiting
  <2> QED
    BY <1>2, <2>2, <2>3, QuietStep
<1>4. CASE ready.accept
  <2> DEFINE c == Head(backlog)
  <2>1. backlog \in Seq(Clients) /\ backlog # <<>>
    BY <1>1, <1>4 DEF TypeOK, Waiting
  <2>2. /\ Len(backlog) \in Nat /\ Len(backlog) > 0
        /\ c = backlog[1] /\ c \in Clients
        /\ Tail(backlog) \in Seq(Clients) /\ Len(Tail(backlog)) = Len(backlog) - 1
        /\ \A k \in 1 .. Len(backlog) - 1 : Tail(backlog)[k] = backlog[k + 1]
    BY <2>1
  <2>3. /\ backlog' = Tail(backlog)
        /\ \/ link' = [link EXCEPT ![c] = "closed"] /\ fd' = fd
           \/ \E i \in Slot : /\ fd[i] = None
                              /\ link' = [link EXCEPT ![c] = "open"]
                              /\ fd' = [fd EXCEPT ![i] = c]
    BY <1>4 DEF Accept
  <2> HIDE DEF c
  <2>4. link[c] = "waiting"
    <3>1. 1 \in 1 .. Len(backlog)
      BY <2>2
    <3> QED
      BY <1>1, <2>2, <3>1 DEF Waiting
  <2>5. /\ link \in [Clients -> {"new", "waiting", "open", "closed"}]
        /\ fd \in [Slot -> Clients \cup {None}] /\ None \notin Clients
    BY <1>1, Types DEF TypeOK
  <2>6. \A d \in Clients \ {c} : link'[d] = link[d]
    BY <2>3, <2>5
  <2>7. link'[c] \in {"open", "closed"}
    BY <2>2, <2>3, <2>5
  <2>8. Waiting'
    <3>1. ASSUME NEW k \in 1 .. Len(backlog')
          PROVE  backlog'[k] = backlog[k + 1] /\ k + 1 \in 1 .. Len(backlog) /\ k \in Nat
      BY <2>2, <2>3
    <3>2. 1 \in 1 .. Len(backlog)
      BY <2>2
    <3>3. ASSUME NEW k \in 1 .. Len(backlog') PROVE link'[backlog'[k]] = "waiting"
      <4>1. /\ backlog'[k] = backlog[k + 1] /\ k + 1 \in 1 .. Len(backlog)
            /\ k \in Nat /\ k + 1 # 1
        BY <3>1
      <4>2. backlog[k + 1] # c
        BY <1>1, <2>2, <3>2, <4>1 DEF Waiting
      <4>3. backlog[k + 1] \in Clients /\ link[backlog[k + 1]] = "waiting"
        BY <1>1, <2>1, <4>1 DEF Waiting
      <4> QED
        BY <2>6, <4>1, <4>2, <4>3
    <3>4. ASSUME NEW k \in 1 .. Len(backlog'), NEW l \in 1 .. Len(backlog'),
                 backlog'[k] = backlog'[l]
          PROVE  k = l
      <4>1. /\ backlog[k + 1] = backlog[l + 1] /\ k \in Nat /\ l \in Nat
            /\ k + 1 \in 1 .. Len(backlog) /\ l + 1 \in 1 .. Len(backlog)
        BY <3>1, <3>4
      <4>2. k + 1 = l + 1
        BY <1>1, <4>1 DEF Waiting
      <4> QED
        BY <4>1, <4>2
    <3> QED
      BY <1>1, <3>3, <3>4 DEF Waiting
  <2>9. Clean'
    <3> SUFFICES ASSUME NEW d \in Clients PROVE (Executed(d) /\ Heard(d) /\ Early(d))'
      BY DEF Clean
    <3>1. Executed(d) /\ Heard(d) /\ Early(d)
      BY <1>1 DEF Clean
    <3>2. link'[d] \in {"new", "waiting"} => link[d] \in {"new", "waiting"}
      BY <2>6, <2>7
    <3> QED
      BY <1>1, <3>1, <3>2 DEF Executed, Heard, Early
  <2>10. ASSUME NEW i \in Slot, fd[i] # None
         PROVE  fd[i] \in Clients \ {c} /\ link'[fd[i]] = "open"
    <3>1. Served(i)
      BY <1>1 DEF AllServed
    <3>2. link[fd[i]] = "open" /\ fd[i] \in Clients
      BY <2>5, <2>10, <3>1 DEF Served
    <3> QED
      BY <2>4, <2>6, <3>2
  <2>11. CASE link' = [link EXCEPT ![c] = "closed"] /\ fd' = fd
    <3>1. TypeOK'
      <4>1. link' \in [Clients -> {"new", "waiting", "open", "closed"}]
        BY <2>5, <2>11
      <4>2. backlog' \in Seq(Clients)
        BY <2>2, <2>3
      <4> QED
        BY <1>1, <1>2, <2>11, <4>1, <4>2 DEF TypeOK
    <3>2. ASSUME NEW i \in Slot PROVE Served(i)'
      <4>1. Served(i)
        BY <1>1 DEF AllServed
      <4> QED
        BY <1>1, <2>10, <2>11, <4>1 DEF Served, Unsent
    <3> QED
      BY <1>2, <2>8, <2>9, <3>1, <3>2 DEF ServerInv, Clean
  <2>12. CASE \E i \in Slot : /\ fd[i] = None
                              /\ link' = [link EXCEPT ![c] = "open"]
                              /\ fd' = [fd EXCEPT ![i] = c]
    <3> PICK s \in Slot : /\ fd[s] = None
                          /\ link' = [link EXCEPT ![c] = "open"]
                          /\ fd' = [fd EXCEPT ![s] = c]
      BY <2>12
    <3>1. fd' \in [Slot -> Clients \cup {None}] /\ \A i \in Slot : fd'[i] = IF i = s THEN c ELSE fd[i]
      BY <2>2, <2>5
    <3>2. TypeOK'
      <4>1. link' \in [Clients -> {"new", "waiting", "open", "closed"}]
        BY <2>5
      <4>2. backlog' \in Seq(Clients)
        BY <2>2, <2>3
      <4>3. ASSUME NEW i \in Slot, fd'[i] = None PROVE in'[i] = <<>> /\ out'[i] = <<>>
        <5>1. fd[i] = None
          BY <2>2, <2>5, <3>1, <4>3
        <5> QED
          BY <1>1, <5>1 DEF TypeOK
      <4> QED
        BY <1>1, <1>2, <3>1, <4>1, <4>2, <4>3 DEF TypeOK
    <3>3. ASSUME NEW i \in Slot PROVE Served(i)'
      <4>1. CASE i = s
        <5>1. in[s] = <<>> /\ out[s] = <<>> /\ out_sent[s] = 0
          <6>1. in[s] = <<>> /\ out[s] = <<>>
            BY <1>1 DEF TypeOK
          <6>2. out_sent[s] \in 0 .. Len(out[s])
            BY <1>1, Types
          <6> QED
            BY <6>1, <6>2
        <5>2. Asked(sock[c], c, 0, sent[c]) /\ done[c] = <<>> /\ rcv[c] = <<>>
          BY <1>1, <2>2, <2>4 DEF Clean, Early
        <5>3. /\ in'[s] = <<>> /\ sock'[c] = sock[c] /\ sent'[c] = sent[c]
              /\ Len(done'[c]) = 0 /\ rcv'[c] = <<>>
          BY <1>1, <5>1, <5>2
        <5>4. Unsent(s)' = <<>>
          BY <1>1, <5>1 DEF Unsent
        <5>5. <<>> \o sock[c] = sock[c]
          <6>1. sock[c] \in Seq(RequestHalf)
            BY <1>1, <2>2, Types
          <6> QED
            BY <6>1
        <5>6. Told(<<>>, c, 0)
          <6>1. <<>> \in Seq(ResponseHalf)
            OBVIOUS
          <6> QED
            BY <6>1 DEF Told
        <5>7. <<>> \o <<>> = <<>>
          OBVIOUS
        <5>8. /\ Asked(in'[s] \o sock'[c], c, Len(done'[c]), sent'[c])
              /\ Told(rcv'[c] \o Unsent(s)', c, Len(done'[c]))
          BY <5>2, <5>3, <5>4, <5>5, <5>6, <5>7
        <5>9. fd'[s] = c /\ link'[c] = "open" /\ \A j \in Slot : fd'[j] = c => j = s
          BY <2>2, <2>5, <2>10, <3>1
        <5> QED
          BY <4>1, <5>8, <5>9 DEF Served
      <4>2. CASE i # s /\ fd[i] # None
        <5> DEFINE d == fd[i]
        <5>1. d \in Clients \ {c} /\ link'[d] = "open"
          BY <2>10, <4>2
        <5>2. /\ \A j \in Slot : fd[j] = d => j = i
              /\ Asked(in[i] \o sock[d], d, Len(done[d]), sent[d])
              /\ Told(rcv[d] \o Unsent(i), d, Len(done[d]))
          BY <1>1, <4>2 DEF AllServed, Served
        <5>3. fd'[i] = d /\ Unsent(i)' = Unsent(i)
          BY <1>1, <3>1, <4>2 DEF Unsent
        <5>4. \A j \in Slot : fd'[j] = d => j = i
          BY <3>1, <5>1, <5>2
        <5> HIDE DEF d
        <5> QED
          BY <1>1, <5>1, <5>2, <5>3, <5>4 DEF Served
      <4>3. CASE i # s /\ fd[i] = None
        BY <3>1, <4>3 DEF Served
      <4> QED
        BY <4>1, <4>2, <4>3
    <3> QED
      BY <1>2, <2>8, <2>9, <3>2, <3>3 DEF ServerInv, Clean
  <2> QED
    BY <2>3, <2>11, <2>12
<1> QED
  BY <1>3, <1>4
\* The loop moves on with the same clients to serve.
LEMMA NextSlotFacts ==
    ASSUME TypeOK, slot \in Slot, NextSlot
    PROVE  /\ pc' \in {"poll", "read"} /\ slot' \in 0 .. Slots
           /\ pc' = "read" => slot' \in Slot
<1>1. Slots \in Nat
  BY SlotAssumption DEF SlotAssumption
<1> QED
  BY <1>1 DEF NextSlot, Slot

\* The peer of the slot is closed, whatever became of its sequences.
LEMMA CloseStep ==
    ASSUME ServerInv, slot \in Slot, fd[slot] # None,
           PeerClose, NextSlot, LoopUnchanged,
           NEW c \in Clients, c = fd[slot],
           \A d \in Clients \ {c} : sock'[d] = sock[d] /\ done'[d] = done[d],
           rcv' = rcv,
           sock' \in [Clients -> Seq(Half(Request))],
           done' \in [Clients -> Seq(Seq(Half(Request)))],
           quit' \in BOOLEAN, detach' \in BOOLEAN,
           Executed(c)'
    PROVE  ServerInv'
<1>1. /\ TypeOK /\ Clean /\ AllServed /\ Waiting
      /\ link' = [link EXCEPT ![c] = "closed"]
      /\ fd' = [fd EXCEPT ![slot] = None]
      /\ in' = [in EXCEPT ![slot] = <<>>]
      /\ out' = [out EXCEPT ![slot] = <<>>]
      /\ out_sent' = [out_sent EXCEPT ![slot] = 0]
      /\ UNCHANGED <<alive, backlog, sent, seen, ready, interrupted>>
  BY DEF ServerInv, Clean, AllServed, PeerClose, LoopUnchanged
<1>2. /\ link \in [Clients -> {"new", "waiting", "open", "closed"}]
      /\ fd \in [Slot -> Clients \cup {None}] /\ None \notin Clients
      /\ in \in [Slot -> Seq(Half(Request))] /\ out \in [Slot -> Seq(Half(Response))]
      /\ out_sent \in [Slot -> Nat] /\ backlog \in Seq(Clients)
  BY <1>1, Types DEF TypeOK
<1>3. pc' \in {"poll", "read"} /\ slot' \in 0 .. Slots /\ (pc' = "read" => slot' \in Slot)
  BY <1>1, NextSlotFacts
<1>4. link[c] = "open"
  BY <1>1 DEF AllServed, Served
<1>5. TypeOK'
  <2>1. /\ link' \in [Clients -> {"new", "waiting", "open", "closed"}]
        /\ fd' \in [Slot -> Clients \cup {None}]
    BY <1>1, <1>2
  <2>2. <<>> \in Seq(Half(Request)) /\ <<>> \in Seq(Half(Response))
    OBVIOUS
  <2>3. in' \in [Slot -> Seq(Half(Request))] /\ out' \in [Slot -> Seq(Half(Response))]
    BY <1>1, <1>2, <2>2
  <2>4. out_sent' \in [Slot -> Nat]
    BY <1>1, <1>2
  <2>5. ASSUME NEW i \in Slot
        PROVE  /\ Len(in'[i]) <= MaxIn /\ out_sent'[i] <= Len(out'[i])
               /\ fd'[i] = None => in'[i] = <<>> /\ out'[i] = <<>>
    <3>1. MaxIn \in Nat
      BY SizeAssumption DEF SizeAssumption
    <3>2. CASE i = slot
      BY <1>1, <1>2, <3>1, <3>2
    <3>3. CASE i # slot
      <4>1. in'[i] = in[i] /\ out'[i] = out[i] /\ out_sent'[i] = out_sent[i] /\ fd'[i] = fd[i]
        BY <1>1, <1>2, <3>3
      <4> QED
        BY <1>1, <4>1 DEF TypeOK
    <3> QED
      BY <3>2, <3>3
  <2> QED
    BY <1>1, <1>3, <2>1, <2>3, <2>4, <2>5 DEF TypeOK
<1>6. Clean' /\ AllServed'
  <2>1. Heard(c)'
    BY <1>1 DEF Clean, Heard
  <2>2. \A i \in Slot \ {slot} : /\ fd'[i] = fd[i] /\ in'[i] = in[i]
                                 /\ out'[i] = out[i] /\ out_sent'[i] = out_sent[i]
    BY <1>1, <1>2
  <2>3. \A d \in Clients \ {c} : /\ link'[d] = link[d] /\ sent'[d] = sent[d]
                                 /\ sock'[d] = sock[d] /\ rcv'[d] = rcv[d]
                                 /\ done'[d] = done[d]
    BY <1>1, <1>2
  <2>4. fd'[slot] = None /\ link'[c] = "closed"
    BY <1>1, <1>2
  <2>5. fd[slot] = c /\ \A i \in Slot : fd[i] \in Clients \cup {None}
    BY <1>2
  <2> QED
    BY <1>1, <1>2, <2>1, <2>2, <2>3, <2>4, <2>5, OneSlot
<1>7. Waiting'
  BY <1>1, <1>2, <1>3, <1>4 DEF Waiting
<1>8. AtSlot'
  BY <1>3 DEF AtSlot
<1> QED
  BY <1>5, <1>6, <1>7, <1>8 DEF ServerInv, Clean, AllServed

LEMMA HungUpStep ==
    ASSUME ServerInv, HungUp
    PROVE  ServerInv'
<1>1. /\ TypeOK /\ slot \in Slot /\ NextSlot /\ LoopUnchanged
      /\ UNCHANGED <<sock, rcv, quit, detach, done>>
      /\ IF slot \in ready.hup /\ fd[slot] # None THEN PeerClose ELSE UNCHANGED <<link, peers>>
  BY DEF ServerInv, AtSlot, HungUp, editor
<1>2. CASE slot \in ready.hup /\ fd[slot] # None
  <2> PICK c \in Clients : c = fd[slot]
    BY <1>1, <1>2, Types
  <2>1. /\ sock' \in [Clients -> Seq(Half(Request))]
        /\ done' \in [Clients -> Seq(Seq(Half(Request)))]
        /\ quit' \in BOOLEAN /\ detach' \in BOOLEAN
    BY <1>1 DEF TypeOK
  <2>2. Executed(c)'
    <3>1. UNCHANGED sent
      BY <1>1 DEF LoopUnchanged
    <3>2. Executed(c)
      BY DEF ServerInv
    <3> QED
      BY <1>1, <3>1, <3>2 DEF Executed
  <2>3. PeerClose /\ \A d \in Clients \ {c} : sock'[d] = sock[d] /\ done'[d] = done[d]
    BY <1>1, <1>2
  <2> QED
    BY <1>1, <1>2, <2>1, <2>2, <2>3, CloseStep
<1>3. CASE ~(slot \in ready.hup /\ fd[slot] # None)
  <2>1. UNCHANGED <<link, peers>>
    BY <1>1, <1>3
  <2>2. pc' \in {"poll", "read"} /\ slot' \in 0 .. Slots /\ (pc' = "read" => slot' \in Slot)
    BY <1>1, NextSlotFacts
  <2>3. TypeOK'
    BY <1>1, <2>1, <2>2 DEF TypeOK, LoopUnchanged, peers
  <2>4. UNCHANGED core
    BY <1>1, <2>1 DEF core, LoopUnchanged
  <2>5. Waiting' /\ AtSlot'
    BY <1>1, <2>1, <2>2 DEF ServerInv, Waiting, AtSlot, LoopUnchanged
  <2> QED
    BY <2>3, <2>4, <2>5, QuietStep
<1> QED
  BY <1>2, <1>3
\* A sequence without its front, when more follows it.
LEMMA CutFront ==
    ASSUME NEW S, NEW a \in Seq(S), NEW b \in Seq(S), NEW n \in Nat, n <= Len(a)
    PROVE  SubSeq(a, n + 1, Len(a)) \o b = SubSeq(a \o b, n + 1, Len(a \o b))
<1> DEFINE q == a \o b
           x == SubSeq(a, n + 1, Len(a))
           l == x \o b
           r == SubSeq(q, n + 1, Len(q))
<1>1. /\ q \in Seq(S) /\ Len(q) = Len(a) + Len(b) /\ Len(a) \in Nat /\ Len(b) \in Nat
      /\ \A k \in 1 .. Len(a) : q[k] = a[k]
      /\ \A k \in 1 .. Len(b) : q[Len(a) + k] = b[k]
  BY JoinFacts
<1>2. Len(a) \in Nat /\ Len(a) <= Len(a)
  BY <1>1
<1>3. x \in Seq(S) /\ Len(x) = Len(a) - n /\ \A k \in 1 .. Len(a) - n : x[k] = a[n + k]
  BY <1>2, CutFacts
<1> HIDE DEF q, x
<1>4. r \in Seq(S) /\ Len(r) = Len(q) - n /\ \A k \in 1 .. Len(q) - n : r[k] = q[n + k]
  <2>1. Len(q) \in Nat /\ n <= Len(q) /\ Len(q) <= Len(q) /\ q \in Seq(S)
    BY <1>1
  <2> QED
    BY <2>1, CutFacts
<1>5. /\ l \in Seq(S) /\ Len(l) = Len(x) + Len(b)
      /\ Len(x) \in Nat /\ Len(b) \in Nat
      /\ \A k \in 1 .. Len(x) : l[k] = x[k]
      /\ \A k \in 1 .. Len(b) : l[Len(x) + k] = b[k]
  <2>1. x \in Seq(S)
    BY <1>3
  <2> QED
    BY <2>1, JoinFacts
<1> HIDE DEF l, r
<1>6. Len(l) = Len(r) /\ Len(l) = Len(a) - n + Len(b)
  BY <1>1, <1>3, <1>4, <1>5
<1>7. ASSUME NEW k \in 1 .. Len(l) PROVE l[k] = r[k]
  <2>1. k \in Nat /\ k \in 1 .. Len(q) - n
    BY <1>1, <1>4, <1>6
  <2>2. r[k] = q[n + k]
    BY <1>4, <2>1
  <2>3. CASE k <= Len(a) - n
    <3>1. k \in 1 .. Len(x) /\ k \in 1 .. Len(a) - n /\ n + k \in 1 .. Len(a)
      BY <1>2, <1>3, <2>1, <2>3
    <3> QED
      BY <1>1, <1>3, <1>5, <2>2, <3>1
  <2>4. CASE k > Len(a) - n
    <3> DEFINE u == k - (Len(a) - n)
    <3>1. u \in 1 .. Len(b) /\ Len(x) + u = k /\ Len(a) + u = n + k
      BY <1>1, <1>3, <1>6, <2>1, <2>4
    <3> HIDE DEF u
    <3>2. l[k] = b[u] /\ q[n + k] = b[u]
      BY <1>1, <1>5, <3>1
    <3> QED
      BY <2>2, <3>2
  <2> QED
    BY <1>1, <2>1, <2>3, <2>4
<1>8. l = r
  BY <1>4, <1>5, <1>6, <1>7, SeqEqual
<1> QED
  BY <1>8 DEF l, r, x, q

\* Bytes move from the socket to the input.
LEMMA BytesMove ==
    ASSUME NEW S, NEW a \in Seq(S), NEW b \in Seq(S), NEW k \in Nat, k <= Len(b)
    PROVE  /\ (a \o SubSeq(b, 1, k)) \o SubSeq(b, k + 1, Len(b)) = a \o b
           /\ SubSeq(b, k + 1, Len(b)) \in Seq(S)
           /\ SubSeq(b, 1, k) \in Seq(S) /\ Len(SubSeq(b, 1, k)) = k
           /\ a \o SubSeq(b, 1, k) \in Seq(S) /\ Len(a \o SubSeq(b, 1, k)) = Len(a) + k
<1>1. 0 \in Nat /\ 0 <= k /\ 0 + 1 = 1 /\ Len(b) \in Nat
  OBVIOUS
<1>2. (a \o SubSeq(b, 0 + 1, k)) \o SubSeq(b, k + 1, Len(b)) = a \o SubSeq(b, 0 + 1, Len(b))
  BY <1>1, BorderMoves, ZenonT(60)
<1>3. SubSeq(b, 1, Len(b)) = b
  BY NothingLeft
<1>4. (a \o SubSeq(b, 1, k)) \o SubSeq(b, k + 1, Len(b)) = a \o b
  BY <1>1, <1>2, <1>3
<1>5. SubSeq(b, k + 1, Len(b)) \in Seq(S)
  <2>1. Len(b) <= Len(b)
    BY <1>1
  <2>2. /\ SubSeq(b, k + 1, Len(b)) \in Seq(S) /\ Len(SubSeq(b, k + 1, Len(b))) = Len(b) - k
        /\ \A j \in 1 .. Len(b) - k : SubSeq(b, k + 1, Len(b))[j] = b[k + j]
    BY <1>1, <2>1, CutFacts
  <2> QED
    BY <2>2
<1> DEFINE x == SubSeq(b, 1, k)
<1>6. x \in Seq(S) /\ Len(x) = k
  OBVIOUS
<1> HIDE DEF x
<1>7. a \o x \in Seq(S) /\ Len(a \o x) = Len(a) + k
  <2>1. /\ a \o x \in Seq(S) /\ Len(a \o x) = Len(a) + Len(x)
        /\ Len(a) \in Nat /\ Len(x) \in Nat
        /\ \A j \in 1 .. Len(a) : (a \o x)[j] = a[j]
        /\ \A j \in 1 .. Len(x) : (a \o x)[Len(a) + j] = x[j]
    <3>1. x \in Seq(S)
      BY <1>6
    <3> QED
      BY <3>1, JoinFacts
  <2> QED
    BY <1>6, <2>1
<1> QED
  BY <1>4, <1>5, <1>6, <1>7 DEF x

LEMMA ReadStep ==
    ASSUME ServerInv, Read
    PROVE  ServerInv'
<1>1. /\ TypeOK /\ Clean /\ AllServed /\ Waiting /\ slot \in Slot
      /\ LoopUnchanged /\ pc = "read" /\ UNCHANGED <<rcv, quit, detach, done>>
      /\ UNCHANGED <<alive, backlog, sent, seen, ready, interrupted>>
  BY DEF ServerInv, Clean, AllServed, AtSlot, Read, editor, LoopUnchanged
<1>2. CASE fd[slot] = None \/ slot \notin ready.in
  <2>1. /\ pc' = IF fd[slot] = None THEN "hup" ELSE "write"
        /\ UNCHANGED <<link, sock, peers, slot>>
    BY <1>2 DEF Read
  <2>2. TypeOK'
    BY <1>1, <2>1 DEF TypeOK, peers
  <2>3. UNCHANGED core
    BY <1>1, <2>1 DEF core
  <2>4. Waiting' /\ AtSlot'
    BY <1>1, <2>1 DEF Waiting, AtSlot, peers
  <2> QED
    BY <2>2, <2>3, <2>4, QuietStep
<1>3. CASE ~(fd[slot] = None \/ slot \notin ready.in)
  <2> PICK c \in Clients : c = fd[slot]
    BY <1>1, <1>3, Types
  <2> PICK s \in Slot : s = slot
    BY <1>1
  <2>1. /\ done' \in [Clients -> Seq(Seq(Half(Request)))]
        /\ quit' \in BOOLEAN /\ detach' \in BOOLEAN
        /\ sock \in [Clients -> Seq(Half(Request))]
        /\ in \in [Slot -> Seq(Half(Request))]
    BY <1>1 DEF TypeOK
  <2>2. Executed(c)' /\ Heard(c)'
    BY <1>1 DEF Clean, Executed, Heard
  <2>3. \/ PeerClose /\ NextSlot /\ UNCHANGED sock
        \/ \E k \in 1 .. MaxRead :
              /\ k <= Len(sock[c])
              /\ sock' = [sock EXCEPT ![c] = SubSeq(@, k + 1, Len(@))]
              /\ IF Len(in[slot]) + k > MaxIn
                 THEN PeerClose /\ NextSlot
                 ELSE /\ in' = [in EXCEPT ![slot] = @ \o SubSeq(sock[c], 1, k)]
                      /\ pc' = "frames"
                      /\ UNCHANGED <<link, fd, out, out_sent, slot>>
    BY <1>3 DEF Read
  <2>4. CASE PeerClose /\ NextSlot /\ UNCHANGED sock
    <3>1. \A d \in Clients \ {c} : sock'[d] = sock[d] /\ done'[d] = done[d]
      BY <1>1, <2>4
    <3>2. sock' \in [Clients -> Seq(Half(Request))]
      BY <2>1, <2>4
    <3> QED
      BY <1>1, <1>3, <2>1, <2>2, <2>4, <3>1, <3>2, CloseStep
  <2>5. ASSUME NEW k \in 1 .. MaxRead, k <= Len(sock[c]),
               sock' = [sock EXCEPT ![c] = SubSeq(@, k + 1, Len(@))],
               IF Len(in[slot]) + k > MaxIn
               THEN PeerClose /\ NextSlot
               ELSE /\ in' = [in EXCEPT ![slot] = @ \o SubSeq(sock[c], 1, k)]
                    /\ pc' = "frames"
                    /\ UNCHANGED <<link, fd, out, out_sent, slot>>
        PROVE  ServerInv'
    <3> DEFINE a == in[slot]
               b == sock[c]
               rest == SubSeq(b, k + 1, Len(b))
               more == a \o SubSeq(b, 1, k)
    <3>1. k \in Nat /\ k <= Len(b)
      BY <2>5, SizeAssumption DEF SizeAssumption
    <3>2. a \in Seq(RequestHalf) /\ b \in Seq(RequestHalf)
      BY <1>1, Types
    <3> HIDE DEF a, b
    <3>3. /\ more \o rest = a \o b
          /\ rest \in Seq(RequestHalf)
          /\ SubSeq(b, 1, k) \in Seq(RequestHalf) /\ Len(SubSeq(b, 1, k)) = k
          /\ more \in Seq(RequestHalf) /\ Len(more) = Len(a) + k
      <4>1. /\ (a \o SubSeq(b, 1, k)) \o SubSeq(b, k + 1, Len(b)) = a \o b
            /\ SubSeq(b, k + 1, Len(b)) \in Seq(RequestHalf)
            /\ SubSeq(b, 1, k) \in Seq(RequestHalf) /\ Len(SubSeq(b, 1, k)) = k
            /\ a \o SubSeq(b, 1, k) \in Seq(RequestHalf)
            /\ Len(a \o SubSeq(b, 1, k)) = Len(a) + k
        <5>1. \A n \in Nat : n <= Len(b) =>
                /\ (a \o SubSeq(b, 1, n)) \o SubSeq(b, n + 1, Len(b)) = a \o b
                /\ SubSeq(b, n + 1, Len(b)) \in Seq(RequestHalf)
                /\ SubSeq(b, 1, n) \in Seq(RequestHalf) /\ Len(SubSeq(b, 1, n)) = n
                /\ a \o SubSeq(b, 1, n) \in Seq(RequestHalf)
                /\ Len(a \o SubSeq(b, 1, n)) = Len(a) + n
          BY <3>2, BytesMove, ZenonT(60)
        <5> QED
          BY <3>1, <5>1
      <4> QED
        BY <4>1
    <3>4. sock' = [sock EXCEPT ![c] = rest]
      BY <2>5 DEF b
    <3>5. Len(a) + k <= MaxIn => in' = [in EXCEPT ![slot] = more] /\ pc' = "frames"
                                 /\ UNCHANGED <<link, fd, out, out_sent, slot>>
      <4>1. Len(a) \in Nat /\ MaxIn \in Nat
        BY <3>2, SizeAssumption DEF SizeAssumption
      <4> QED
        BY <2>5, <3>1, <4>1 DEF a, b
    <3>6. Len(a) + k > MaxIn => PeerClose /\ NextSlot
      BY <2>5 DEF a
    <3> HIDE DEF rest, more
    <3>7. /\ sock' \in [Clients -> Seq(Half(Request))]
          /\ sock'[c] = rest
          /\ \A d \in Clients \ {c} : sock'[d] = sock[d] /\ done'[d] = done[d]
      BY <1>1, <2>1, <3>3, <3>4 DEF RequestHalf
    <3>8. CASE Len(a) + k > MaxIn
      BY <1>1, <1>3, <2>1, <2>2, <3>6, <3>7, <3>8, CloseStep
    <3>9. CASE Len(a) + k <= MaxIn
      <4>1. /\ in' \in [Slot -> Seq(Half(Request))]
            /\ in'[slot] = more
            /\ \A i \in Slot \ {slot} : in'[i] = in[i]
        BY <1>1, <2>1, <3>3, <3>5, <3>9 DEF RequestHalf
      <4>2. UNCHANGED <<link, fd, out, out_sent, slot>> /\ pc' = "frames"
        BY <3>5, <3>9
      <4>3. TypeOK'
        <5>1. ASSUME NEW i \in Slot
              PROVE  /\ Len(in'[i]) <= MaxIn
                     /\ fd[i] = None => in'[i] = <<>> /\ out[i] = <<>>
          <6>1. CASE i = slot
            BY <1>3, <3>3, <3>9, <4>1, <6>1
          <6>2. CASE i # slot
            BY <1>1, <4>1, <6>2 DEF TypeOK
          <6> QED
            BY <6>1, <6>2
        <5> QED
          BY <1>1, <3>7, <4>1, <4>2, <5>1 DEF TypeOK
      <4>4. Served(slot)
        BY <1>1 DEF AllServed
      <4>5. /\ link[c] = "open"
            /\ Asked(a \o b, c, Len(done[c]), sent[c])
            /\ Told(rcv[c] \o Unsent(slot), c, Len(done[c]))
        BY <1>3, <4>4 DEF Served, a, b
      <4>6. /\ fd'[s] = c /\ link'[c] = "open"
            /\ Asked(in'[s] \o sock'[c], c, Len(done'[c]), sent'[c])
        BY <1>1, <3>3, <3>7, <4>1, <4>2, <4>5
      <4>7. Told(rcv'[c] \o Unsent(s)', c, Len(done'[c]))
        BY <1>1, <4>2, <4>5 DEF Unsent
      <4>8. Clean' /\ AllServed'
        <5>1. \A i \in Slot \ {s} : /\ fd'[i] = fd[i] /\ in'[i] = in[i]
                                       /\ out'[i] = out[i] /\ out_sent'[i] = out_sent[i]
          BY <4>1, <4>2
        <5>2. \A d \in Clients \ {c} : /\ link'[d] = link[d] /\ sent'[d] = sent[d]
                                       /\ sock'[d] = sock[d] /\ rcv'[d] = rcv[d]
                                       /\ done'[d] = done[d]
          BY <1>1, <3>7, <4>2
        <5>3. None \notin Clients /\ fd[s] = c /\ \A i \in Slot : fd[i] \in Clients \cup {None}
          BY <1>1, Types
        <5> QED
          BY <1>1, <2>2, <4>6, <4>7, <5>1, <5>2, <5>3, OneSlot
      <4>9. Waiting' /\ AtSlot'
        BY <1>1, <1>3, <4>2 DEF Waiting, AtSlot
      <4> QED
        BY <4>3, <4>8, <4>9 DEF ServerInv, Clean, AllServed
    <3> QED
      <4>1. Len(a) \in Nat /\ MaxIn \in Nat
        BY <3>2, SizeAssumption DEF SizeAssumption
      <4> QED
        BY <3>1, <3>8, <3>9, <4>1
  <2> QED
    BY <2>3, <2>4, <2>5
<1> QED
  BY <1>2, <1>3
\* The first line feed that a slot has read ends the first request that its
\* client is due.
LEMMA FirstFrame ==
    ASSUME ServerInv, NEW s \in Slot, s = slot, pc = "frames",
           NEW c \in Clients, c = fd[slot],
           NEW k \in LineFeeds, \A j \in LineFeeds : k <= j
    PROVE  LET r == in[s][k].frame
           IN  /\ k = 2 /\ Len(in[s]) >= 2 /\ r \in Request
               /\ SubSeq(in[s], 1, k) = Halves(r)
               /\ r.client = c /\ r.n = Len(done[c]) + 1 /\ Len(done[c]) + 1 <= sent[c]
               /\ Asked(Rest(k) \o sock[c], c, Len(done[c]) + 1, sent[c])
<1> DEFINE a == in[s]
           b == sock[c]
           q == a \o b
           d == Len(done[c])
           r == in[s][k].frame
<1>1. /\ None \notin Clients
      /\ a \in Seq(RequestHalf) /\ b \in Seq(RequestHalf)
  BY Types DEF ServerInv
<1>2. Asked(q, c, d, sent[c])
  BY <1>1 DEF ServerInv, Served
<1>3. k \in 1 .. Len(a) /\ a[k].last /\ \A j \in 1 .. Len(a) : a[j].last => k <= j
  BY DEF LineFeeds
<1>4. Rest(k) = SubSeq(a, k + 1, Len(a))
  BY DEF Rest
<1>5. r = a[k].frame
  OBVIOUS
<1> HIDE DEF a, b, d, r
<1>6. /\ q \in Seq(RequestHalf) /\ Len(q) = Len(a) + Len(b)
      /\ Len(a) \in Nat /\ Len(b) \in Nat
      /\ \A j \in 1 .. Len(a) : q[j] = a[j]
      /\ \A j \in 1 .. Len(b) : q[Len(a) + j] = b[j]
  BY <1>1, JoinFacts
<1> HIDE DEF q
<1>7. Len(q) > 0
  BY <1>3, <1>6
<1>8. /\ Len(q) >= 2 /\ d + 1 <= sent[c]
      /\ IsRequest(q[1], q[2], c, d + 1)
      /\ Asked(SubSeq(q, 3, Len(q)), c, d + 1, sent[c])
  BY <1>2, <1>7, AskedLess
<1>9. k # 1
  BY <1>3, <1>6, <1>8 DEF IsRequest
<1>10. 1 \in 1 .. Len(a) /\ 2 \in 1 .. Len(a) /\ k \in Nat /\ k >= 2 /\ 2 <= Len(a) /\ Len(a) >= 2
  BY <1>3, <1>6, <1>9
<1>11. a[1] = q[1] /\ a[2] = q[2]
  BY <1>6, <1>10
<1>12. k = 2
  BY <1>3, <1>8, <1>10, <1>11 DEF IsRequest
<1>13. a[1] \in RequestHalf /\ a[2] \in RequestHalf
  BY <1>1, <1>10
<1>14. /\ r = a[1].frame /\ r = a[2].frame /\ ~a[1].last /\ a[2].last
       /\ r.client = c /\ r.n = d + 1
  BY <1>5, <1>8, <1>11, <1>12 DEF IsRequest
<1>15. r \in Request
  BY <1>13, <1>14 DEF RequestHalf, Half
<1>16. a[1] = [frame |-> r, last |-> FALSE] /\ a[2] = [frame |-> r, last |-> TRUE]
  BY <1>13, <1>14 DEF RequestHalf, Half
<1>17. SubSeq(a, 1, k) = Halves(r)
  <2> DEFINE h == SubSeq(a, 1, 2)
  <2>1. h \in Seq(RequestHalf) /\ Len(h) = 2 /\ h[1] = a[1] /\ h[2] = a[2]
    BY <1>1, <1>10
  <2> HIDE DEF h
  <2>2. Halves(r) \in Seq(RequestHalf) /\ Len(Halves(r)) = 2
    BY <1>15, HalvesFacts DEF RequestHalf
  <2>3. Halves(r)[1] = a[1] /\ Halves(r)[2] = a[2]
    BY <1>16 DEF Halves
  <2>4. \A j \in 1 .. Len(h) : h[j] = Halves(r)[j]
    <3>1. \A j \in 1 .. 2 : j = 1 \/ j = 2
      OBVIOUS
    <3> QED
      BY <2>1, <2>3, <3>1
  <2>5. h = Halves(r)
    BY <2>1, <2>2, <2>4, SeqEqual
  <2> QED
    BY <1>12, <2>5 DEF h
<1>18. Asked(Rest(k) \o b, c, d + 1, sent[c])
  <2>1. k <= Len(a) /\ k + 1 = 3
    BY <1>10, <1>12
  <2>2. SubSeq(a, k + 1, Len(a)) \o b = SubSeq(a \o b, k + 1, Len(a \o b))
    BY <1>1, <1>10, <2>1, CutFront
  <2>3. Rest(k) \o b = SubSeq(q, 3, Len(q))
    <3>1. Rest(k) \o b = SubSeq(q, k + 1, Len(q))
      BY <1>4, <2>2 DEF q
    <3> QED
      BY <2>1, <3>1
  <2> QED
    BY <1>8, <2>3
<1> QED
  BY <1>8, <1>10, <1>12, <1>14, <1>15, <1>17, <1>18 DEF a, b, d, r

LEMMA ExecuteFrameStep ==
    ASSUME ServerInv, ExecuteFrame
    PROVE  ServerInv'
<1>1. /\ TypeOK /\ Clean /\ AllServed /\ Waiting /\ slot \in Slot /\ fd[slot] # None
      /\ LoopUnchanged /\ pc = "frames" /\ UNCHANGED <<sock, rcv>>
      /\ UNCHANGED <<alive, backlog, sent, seen, ready, interrupted>>
  BY DEF ServerInv, Clean, AllServed, AtSlot, ExecuteFrame, LoopUnchanged
<1> PICK s \in Slot : s = slot
  BY <1>1
<1> PICK c \in Clients : c = fd[slot]
  BY <1>1, Types
<1>0. PICK k \in LineFeeds :
       /\ \A j \in LineFeeds : k <= j
       /\ LET r == in[slot][k].frame
              f == [req |-> r, detach |-> detach' /\ r.op # "bad"]
          IN  /\ done' = [done EXCEPT ![r.client] = Append(@, SubSeq(in[slot], 1, k))]
              /\ quit' = (quit \/ r.op = "quit")
              /\ detach' = NewDetach(r.op)
              /\ IF Overflows
                 THEN PeerClose /\ NextSlot
                 ELSE /\ PeerQueue(f)
                      /\ in' = [in EXCEPT ![slot] = Rest(k)]
                      /\ UNCHANGED <<link, fd, pc, slot>>
  BY DEF ExecuteFrame
<1> PICK r : r = in[s][k].frame
  OBVIOUS
<1> PICK f : f = [req |-> r, detach |-> detach' /\ r.op # "bad"]
  OBVIOUS
<1> PICK d \in Nat : d = Len(done[c])
  <2>1. done[c] \in Seq(Seq(RequestHalf))
    BY <1>1, Types
  <2> QED
    BY <2>1
<1>2. /\ k = 2 /\ Len(in[s]) >= 2 /\ r \in Request
      /\ SubSeq(in[s], 1, k) = Halves(r)
      /\ r.client = c /\ r.n = d + 1 /\ d + 1 <= sent[c]
      /\ Asked(Rest(k) \o sock[c], c, d + 1, sent[c])
  <2>1. /\ k = 2 /\ Len(in[s]) >= 2 /\ in[s][k].frame \in Request
        /\ SubSeq(in[s], 1, k) = Halves(in[s][k].frame)
        /\ in[s][k].frame.client = c /\ in[s][k].frame.n = Len(done[c]) + 1
        /\ Len(done[c]) + 1 <= sent[c]
        /\ Asked(Rest(k) \o sock[c], c, Len(done[c]) + 1, sent[c])
    <3>1. s = slot /\ c = fd[slot] /\ pc = "frames" /\ \A j \in LineFeeds : k <= j
      BY <1>0, <1>1
    <3> QED
      BY <3>1, FirstFrame
  <2> QED
    BY <2>1
<1>3. /\ done' = [done EXCEPT ![c] = Append(@, Halves(r))]
      /\ quit' = (quit \/ r.op = "quit")
      /\ detach' = NewDetach(r.op)
  BY <1>0, <1>2
<1>4. \/ PeerClose /\ NextSlot
      \/ /\ PeerQueue(f)
         /\ in' = [in EXCEPT ![slot] = Rest(k)]
         /\ UNCHANGED <<link, fd, pc, slot>>
  BY <1>0
<1>5. quit' \in BOOLEAN /\ detach' \in BOOLEAN
  BY <1>1, <1>3 DEF TypeOK, NewDetach
<1>6. f \in Response /\ f.req = r /\ (f.detach => r.op = "detach")
  BY <1>2, <1>3 DEF Response, NewDetach
<1>7. /\ Halves(r) \in Seq(RequestHalf) /\ Halves(f) \in Seq(ResponseHalf)
      /\ Last(Halves(r)).frame = r
  <2>1. Halves(r) \in Seq(RequestHalf) /\ Len(Halves(r)) = 2 /\ Halves(r)[2].frame = r
    BY <1>2, HalvesFacts DEF RequestHalf
  <2>2. Halves(f) \in Seq(ResponseHalf)
    BY <1>6, HalvesFacts DEF ResponseHalf
  <2> QED
    BY <2>1, <2>2 DEF Last
<1> HIDE DEF Halves
<1>8. /\ done' \in [Clients -> Seq(Seq(Half(Request)))]
      /\ \A e \in Clients \ {c} : done'[e] = done[e]
      /\ done'[c] = Append(done[c], Halves(r))
  <2>1. done \in [Clients -> Seq(Seq(Half(Request)))] /\ Halves(r) \in Seq(Half(Request))
    BY <1>1, <1>7 DEF TypeOK, RequestHalf
  <2>2. Append(done[c], Halves(r)) \in Seq(Seq(Half(Request)))
    BY <2>1
  <2> DEFINE x == Append(done[c], Halves(r))
  <2>3. done' = [done EXCEPT ![c] = x]
    BY <1>3
  <2> HIDE DEF x
  <2>4. done' \in [Clients -> Seq(Seq(Half(Request)))]
    BY <2>1, <2>2, <2>3 DEF x
  <2>5. done'[c] = x /\ \A e \in Clients \ {c} : done'[e] = done[e]
    BY <2>1, <2>3
  <2> QED
    BY <2>4, <2>5 DEF x
<1>9. /\ Len(done'[c]) = d + 1 /\ done'[c][d + 1] = Halves(r)
      /\ \A j \in 1 .. d : done'[c][j] = done[c][j]
  <2>1. done[c] \in Seq(Seq(RequestHalf))
    BY <1>1, Types
  <2> DEFINE x == done[c]
             h == Halves(r)
  <2>2. x \in Seq(Seq(RequestHalf)) /\ h \in Seq(RequestHalf) /\ Len(x) = d
    BY <1>7, <2>1
  <2> HIDE DEF x, h
  <2>3. /\ Len(Append(x, h)) = d + 1 /\ Append(x, h)[d + 1] = h
        /\ \A j \in 1 .. d : Append(x, h)[j] = x[j]
    BY <2>2, AppendProperties
  <2> QED
    BY <1>8, <2>3 DEF x, h
<1>10. Executed(c)'
  <2>1. Executed(c)
    BY <1>1 DEF Clean
  <2>2. Len(done'[c]) <= sent'[c]
    BY <1>1, <1>2, <1>9
  <2>3. ASSUME NEW j \in 1 .. Len(done'[c])
        PROVE  /\ done'[c][j] = Halves(Last(done'[c][j]).frame)
               /\ Last(done'[c][j]).frame.client = c /\ Last(done'[c][j]).frame.n = j
    <3>1. CASE j = d + 1
      BY <1>2, <1>7, <1>9, <3>1
    <3>2. CASE j # d + 1
      <4>1. j \in 1 .. d
        <5>1. j \in 1 .. d + 1
          BY <1>9
        <5> QED
          BY <3>2, <5>1
      <4>2. /\ done[c][j] = Halves(Last(done[c][j]).frame)
            /\ Last(done[c][j]).frame.client = c /\ Last(done[c][j]).frame.n = j
        BY <2>1, <4>1 DEF Executed
      <4> QED
        BY <1>9, <4>1, <4>2
    <3> QED
      BY <3>1, <3>2
  <2> QED
    BY <2>2, <2>3 DEF Executed
<1>11. CASE PeerClose /\ NextSlot
  <2>1. \A e \in Clients \ {c} : sock'[e] = sock[e] /\ done'[e] = done[e]
    BY <1>1, <1>8
  <2>2. sock' \in [Clients -> Seq(Half(Request))]
    BY <1>1 DEF TypeOK
  <2> QED
    BY <1>1, <1>5, <1>8, <1>10, <1>11, <2>1, <2>2, CloseStep
<1>12. CASE /\ PeerQueue(f)
            /\ in' = [in EXCEPT ![slot] = Rest(k)]
            /\ UNCHANGED <<link, fd, pc, slot>>
  <2> DEFINE u == Unsent(s)
             o == u \o Halves(f)
  <2>1. /\ out' = [out EXCEPT ![s] = o]
        /\ out_sent' = [out_sent EXCEPT ![s] = 0]
        /\ in' = [in EXCEPT ![s] = Rest(k)]
        /\ UNCHANGED <<link, fd, pc, slot>>
    BY <1>12 DEF PeerQueue, Unsent
  <2>2. /\ in \in [Slot -> Seq(Half(Request))] /\ out \in [Slot -> Seq(Half(Response))]
        /\ out_sent \in [Slot -> Nat]
        /\ in[s] \in Seq(RequestHalf) /\ out[s] \in Seq(ResponseHalf)
        /\ out_sent[s] \in 0 .. Len(out[s]) /\ Len(in[s]) <= MaxIn
        /\ rcv[c] \in Seq(ResponseHalf)
        /\ None \notin Clients
    BY <1>1, Types DEF TypeOK
  <2>3. u \in Seq(ResponseHalf)
    <3>1. /\ out_sent[s] \in Nat /\ Len(out[s]) \in Nat
          /\ out_sent[s] <= Len(out[s]) /\ Len(out[s]) <= Len(out[s])
      BY <2>2
    <3> QED
      BY <2>2, <3>1, CutFacts DEF Unsent
  <2> HIDE DEF u
  <2>4. o \in Seq(ResponseHalf)
    BY <1>7, <2>3, ConcatProperties
  <2>5. Rest(k) \in Seq(RequestHalf) /\ Len(Rest(k)) <= MaxIn
    <3> DEFINE a == in[s]
    <3>1. /\ k \in Nat /\ Len(a) \in Nat /\ k <= Len(a) /\ Len(a) <= Len(a)
          /\ a \in Seq(RequestHalf) /\ Rest(k) = SubSeq(a, k + 1, Len(a))
      BY <1>2, <2>2 DEF Rest
    <3> HIDE DEF a
    <3>2. /\ SubSeq(a, k + 1, Len(a)) \in Seq(RequestHalf)
          /\ Len(SubSeq(a, k + 1, Len(a))) = Len(a) - k
          /\ \A j \in 1 .. Len(a) - k : SubSeq(a, k + 1, Len(a))[j] = a[k + j]
      BY <3>1, CutFacts
    <3>3. Rest(k) \in Seq(RequestHalf) /\ Len(Rest(k)) = Len(in[s]) - k
      BY <3>1, <3>2 DEF a
    <3>4. MaxIn \in Nat /\ Len(in[s]) \in Nat
      BY <2>2, SizeAssumption DEF SizeAssumption
    <3> QED
      BY <1>2, <2>2, <3>3, <3>4
  <2> HIDE DEF o
  <2>6. /\ out' \in [Slot -> Seq(Half(Response))] /\ out_sent' \in [Slot -> Nat]
        /\ in' \in [Slot -> Seq(Half(Request))]
        /\ out'[s] = o /\ out_sent'[s] = 0 /\ in'[s] = Rest(k)
        /\ \A i \in Slot \ {s} : in'[i] = in[i] /\ out'[i] = out[i] /\ out_sent'[i] = out_sent[i]
    BY <2>1, <2>2, <2>4, <2>5 DEF RequestHalf, ResponseHalf
  <2>7. TypeOK'
    <3>1. ASSUME NEW i \in Slot
          PROVE  /\ Len(in'[i]) <= MaxIn /\ out_sent'[i] <= Len(out'[i])
                 /\ fd[i] = None => in'[i] = <<>> /\ out'[i] = <<>>
      <4>1. CASE i = s
        <5>1. 0 <= Len(o)
          BY <2>4
        <5> QED
          BY <1>1, <2>5, <2>6, <4>1, <5>1
      <4>2. CASE i # s
        BY <1>1, <2>6, <4>2 DEF TypeOK
      <4> QED
        BY <4>1, <4>2
    <3> QED
      BY <1>1, <1>5, <1>8, <2>1, <2>6, <3>1 DEF TypeOK
  <2>8. link[c] = "open" /\ Told(rcv[c] \o u, c, d)
    BY <1>1 DEF AllServed, Served, u
  <2>9. /\ fd'[s] = c /\ link'[c] = "open"
        /\ Asked(in'[s] \o sock'[c], c, Len(done'[c]), sent'[c])
    BY <1>1, <1>2, <1>9, <2>1, <2>6, <2>8
  <2>10. Unsent(s)' = o
    <3>1. SubSeq(o, 1, Len(o)) = o
      BY <2>4, NothingLeft
    <3>2. Unsent(s)' = SubSeq(o, 0 + 1, Len(o))
      BY <2>6 DEF Unsent
    <3> QED
      BY <3>1, <3>2
  <2>11. Told(rcv'[c] \o Unsent(s)', c, Len(done'[c]))
    <3>1. Told((rcv[c] \o u) \o Halves(f), c, d + 1)
      BY <1>2, <1>6, <2>8, ToldMore
    <3> DEFINE a == rcv[c]
               h == Halves(f)
    <3>2. a \in Seq(ResponseHalf) /\ h \in Seq(ResponseHalf)
      BY <1>7, <2>2
    <3> HIDE DEF a, h
    <3>3. (a \o u) \o h = a \o (u \o h)
      BY <2>3, <3>2, JoinAgain, SMTT(60)
    <3>4. (rcv[c] \o u) \o Halves(f) = rcv[c] \o o
      BY <3>3 DEF o, a, h
    <3> QED
      BY <1>1, <1>9, <2>10, <3>1, <3>4
  <2>12. Clean' /\ AllServed'
    <3>1. Heard(c)'
      BY <1>1 DEF Clean, Heard
    <3>2. \A i \in Slot \ {s} : /\ fd'[i] = fd[i] /\ in'[i] = in[i]
                                /\ out'[i] = out[i] /\ out_sent'[i] = out_sent[i]
      BY <2>1, <2>6
    <3>3. \A e \in Clients \ {c} : /\ link'[e] = link[e] /\ sent'[e] = sent[e]
                                   /\ sock'[e] = sock[e] /\ rcv'[e] = rcv[e]
                                   /\ done'[e] = done[e]
      BY <1>1, <1>8, <2>1
    <3>4. None \notin Clients /\ fd[s] = c /\ \A i \in Slot : fd[i] \in Clients \cup {None}
      BY <1>1, Types
    <3> QED
      BY <1>1, <1>10, <2>9, <2>11, <3>1, <3>2, <3>3, <3>4, OneSlot
  <2>13. Waiting' /\ AtSlot'
    BY <1>1, <2>1 DEF Waiting, AtSlot
  <2> QED
    BY <2>7, <2>12, <2>13 DEF ServerInv, Clean, AllServed
<1> QED
  BY <1>4, <1>11, <1>12
LEMMA WriteStep ==
    ASSUME ServerInv, Write
    PROVE  ServerInv'
<1>1. /\ TypeOK /\ Clean /\ AllServed /\ Waiting /\ slot \in Slot /\ fd[slot] # None
      /\ LoopUnchanged /\ pc = "write" /\ UNCHANGED <<sock, quit, detach, done>>
      /\ UNCHANGED <<alive, backlog, sent, seen, ready, interrupted>>
  BY DEF ServerInv, Clean, AllServed, AtSlot, Write, LoopUnchanged, editor
<1>2. CASE slot \notin ready.out
  <2>1. pc' = "hup" /\ UNCHANGED <<link, rcv, peers, slot>>
    BY <1>2 DEF Write
  <2>2. TypeOK'
    BY <1>1, <2>1 DEF TypeOK, peers
  <2>3. UNCHANGED core
    BY <1>1, <2>1 DEF core
  <2>4. Waiting' /\ AtSlot'
    BY <1>1, <2>1 DEF Waiting, AtSlot
  <2> QED
    BY <2>2, <2>3, <2>4, QuietStep
<1>3. CASE slot \in ready.out
  <2> PICK s \in Slot : s = slot
    BY <1>1
  <2> PICK c \in Clients : c = fd[slot]
    BY <1>1, Types
  <2>1. Executed(c)'
    BY <1>1 DEF Clean, Executed
  <2>2. \/ PeerClose /\ NextSlot /\ UNCHANGED rcv
        \/ \E k \in 1 .. Room :
              /\ k <= Len(out[slot]) - out_sent[slot]
              /\ k <= Room - (Len(rcv[c]) - seen[c])
              /\ rcv' = [rcv EXCEPT ![c] = @ \o
                   SubSeq(out[slot], out_sent[slot] + 1, out_sent[slot] + k)]
              /\ IF out_sent[slot] + k = Len(out[slot])
                 THEN /\ out' = [out EXCEPT ![slot] = <<>>]
                      /\ out_sent' = [out_sent EXCEPT ![slot] = 0]
                 ELSE /\ out_sent' = [out_sent EXCEPT ![slot] = @ + k]
                      /\ UNCHANGED out
              /\ pc' = "hup"
              /\ UNCHANGED <<link, fd, in, slot>>
    BY <1>3 DEF Write
  <2>3. CASE PeerClose /\ NextSlot /\ UNCHANGED rcv
    <3>1. \A d \in Clients \ {c} : sock'[d] = sock[d] /\ done'[d] = done[d]
      BY <1>1
    <3>2. /\ sock' \in [Clients -> Seq(Half(Request))]
          /\ done' \in [Clients -> Seq(Seq(Half(Request)))]
          /\ quit' \in BOOLEAN /\ detach' \in BOOLEAN
      BY <1>1 DEF TypeOK
    <3> QED
      BY <1>1, <2>1, <2>3, <3>1, <3>2, CloseStep
  <2>4. ASSUME NEW k \in 1 .. Room,
               k <= Len(out[slot]) - out_sent[slot],
               rcv' = [rcv EXCEPT ![c] = @ \o
                 SubSeq(out[slot], out_sent[slot] + 1, out_sent[slot] + k)],
               IF out_sent[slot] + k = Len(out[slot])
               THEN /\ out' = [out EXCEPT ![slot] = <<>>]
                    /\ out_sent' = [out_sent EXCEPT ![slot] = 0]
               ELSE /\ out_sent' = [out_sent EXCEPT ![slot] = @ + k]
                    /\ UNCHANGED out,
               pc' = "hup",
               UNCHANGED <<link, fd, in, slot>>
        PROVE  ServerInv'
    <3>1. /\ out \in [Slot -> Seq(Half(Response))] /\ out_sent \in [Slot -> Nat]
          /\ rcv \in [Clients -> Seq(Half(Response))]
          /\ None \notin Clients /\ Room \in Nat
      BY <1>1, Types, SizeAssumption DEF TypeOK, SizeAssumption
    <3> PICK p : p = rcv[c]
      OBVIOUS
    <3> PICK o : o = out[s]
      OBVIOUS
    <3> PICK m : m = out_sent[s]
      OBVIOUS
    <3> PICK n : n = m + k
      OBVIOUS
    <3>2. p \in Seq(ResponseHalf) /\ o \in Seq(ResponseHalf)
      BY <1>1, Types
    <3>3. /\ m \in Nat /\ k \in Nat /\ n \in Nat /\ m <= n /\ n <= Len(o)
          /\ Len(o) \in Nat /\ Len(o) <= Len(o)
      <4>1. m \in Nat /\ k \in Nat /\ k >= 1
        BY <3>1
      <4>2. Len(o) \in Nat
        BY <3>2
      <4>3. k <= Len(o) - m
        BY <2>4
      <4> QED
        BY <4>1, <4>2, <4>3
    <3> DEFINE x == SubSeq(o, m + 1, n)
               y == SubSeq(o, n + 1, Len(o))
    <3>4. (p \o x) \o y = p \o SubSeq(o, m + 1, Len(o))
      <4>1. BordersMove(p, o)
        BY <3>2, AllBordersMove
      <4> QED
        BY <3>3, <4>1 DEF BordersMove
    <3>5. x \in Seq(ResponseHalf)
      BY <3>2, <3>3, CutFacts
    <3>6. y \in Seq(ResponseHalf)
      BY <3>2, <3>3, CutFacts
    <3>7. p \o x \in Seq(ResponseHalf) /\ Len(p) <= Len(p \o x)
      <4> HIDE DEF x
      <4>1. /\ p \o x \in Seq(ResponseHalf) /\ Len(p \o x) = Len(p) + Len(x)
            /\ Len(p) \in Nat /\ Len(x) \in Nat
            /\ \A j \in 1 .. Len(p) : (p \o x)[j] = p[j]
            /\ \A j \in 1 .. Len(x) : (p \o x)[Len(p) + j] = x[j]
        BY <3>2, <3>5, JoinFacts
      <4> QED
        BY <4>1
    <3>8. rcv' = [rcv EXCEPT ![c] = p \o x]
      BY <2>4
    <3> HIDE DEF x, y
    <3>9. /\ rcv' \in [Clients -> Seq(Half(Response))]
          /\ rcv'[c] = p \o x
          /\ \A d \in Clients \ {c} : rcv'[d] = rcv[d]
      BY <3>1, <3>7, <3>8 DEF ResponseHalf
    <3>10. /\ out' \in [Slot -> Seq(Half(Response))] /\ out_sent' \in [Slot -> Nat]
           /\ \A i \in Slot \ {s} : out'[i] = out[i] /\ out_sent'[i] = out_sent[i]
           /\ out_sent'[s] <= Len(out'[s])
           /\ Unsent(s)' = y
      <4>1. CASE n = Len(o)
        <5>1. out' = [out EXCEPT ![s] = <<>>] /\ out_sent' = [out_sent EXCEPT ![s] = 0]
          BY <2>4, <4>1
        <5>2. <<>> \in Seq(Half(Response)) /\ Len(<<>>) = 0
          OBVIOUS
        <5>3. /\ out' \in [Slot -> Seq(Half(Response))]
              /\ out'[s] = <<>> /\ \A i \in Slot \ {s} : out'[i] = out[i]
          BY <3>1, <5>1, <5>2
        <5>4. /\ out_sent' \in [Slot -> Nat]
              /\ out_sent'[s] = 0 /\ \A i \in Slot \ {s} : out_sent'[i] = out_sent[i]
          BY <3>1, <5>1
        <5>5. y = <<>> /\ Unsent(s)' = <<>>
          BY <3>2, <4>1, <5>2, <5>3, <5>4 DEF Unsent, y
        <5> QED
          BY <5>2, <5>3, <5>4, <5>5
      <4>2. CASE n # Len(o)
        <5>1. out' = out /\ out_sent' = [out_sent EXCEPT ![s] = n]
          BY <2>4, <4>2
        <5>2. /\ out_sent' \in [Slot -> Nat]
              /\ out_sent'[s] = n /\ \A i \in Slot \ {s} : out_sent'[i] = out_sent[i]
          BY <3>1, <3>3, <5>1
        <5>3. Unsent(s)' = y
          BY <5>1, <5>2 DEF Unsent, y
        <5> QED
          BY <3>1, <3>3, <5>1, <5>2, <5>3
      <4> QED
        BY <4>1, <4>2
    <3>11. TypeOK'
      <4>1. ASSUME NEW d \in Clients
            PROVE  sent[d] <= MaxRequests[d] /\ seen[d] <= Len(rcv'[d])
        <5>1. sent[d] <= MaxRequests[d] /\ seen[d] <= Len(rcv[d]) /\ seen[d] \in Nat
          BY <1>1 DEF TypeOK
        <5>2. CASE d = c
          <6>1. Len(p) \in Nat /\ Len(p \o x) \in Nat
            BY <3>2, <3>7
          <6> QED
            BY <3>7, <3>9, <5>1, <5>2, <6>1
        <5>3. CASE d # c
          BY <3>9, <5>1, <5>3
        <5> QED
          BY <5>2, <5>3
      <4>2. ASSUME NEW i \in Slot
            PROVE  /\ Len(in[i]) <= MaxIn /\ out_sent'[i] <= Len(out'[i])
                   /\ fd[i] = None => in[i] = <<>> /\ out'[i] = <<>>
        <5>1. CASE i = s
          BY <1>1, <3>10, <5>1 DEF TypeOK
        <5>2. CASE i # s
          BY <1>1, <3>10, <5>2 DEF TypeOK
        <5> QED
          BY <5>1, <5>2
      <4> QED
        BY <1>1, <2>4, <3>9, <3>10, <4>1, <4>2 DEF TypeOK
    <3>12. /\ link[c] = "open"
           /\ Asked(in[s] \o sock[c], c, Len(done[c]), sent[c])
           /\ Told(p \o SubSeq(o, m + 1, Len(o)), c, Len(done[c]))
      BY <1>1 DEF AllServed, Served, Unsent
    <3>13. Told((p \o x) \o y, c, Len(done[c]))
      BY <3>4, <3>12
    <3>14. /\ fd'[s] = c /\ link'[c] = "open"
           /\ Asked(in'[s] \o sock'[c], c, Len(done'[c]), sent'[c])
           /\ Told(rcv'[c] \o Unsent(s)', c, Len(done'[c]))
      BY <1>1, <2>4, <3>9, <3>10, <3>12, <3>13
    <3>15. Heard(c)'
      <4> DEFINE a == p \o x
      <4>1. a \in Seq(ResponseHalf)
        BY <3>7
      <4> HIDE DEF a
      <4>2. /\ a \o y \in Seq(ResponseHalf) /\ Len(a \o y) = Len(a) + Len(y)
            /\ Len(a) \in Nat /\ Len(y) \in Nat
            /\ \A j \in 1 .. Len(a) : (a \o y)[j] = a[j]
            /\ \A j \in 1 .. Len(y) : (a \o y)[Len(a) + j] = y[j]
        BY <3>6, <4>1, JoinFacts
      <4>3. Told(a \o y, c, Len(done[c]))
        BY <3>13 DEF a
      <4>4. \A j \in 1 .. Len(a) : j \in 1 .. Len(a \o y)
        BY <4>2
      <4>5. \A j \in 1 .. Len(a) : IsReply(a[j], c, j)
        BY <4>2, <4>3, <4>4 DEF Told
      <4> QED
        BY <3>9, <4>5 DEF Heard, a
    <3>16. Clean' /\ AllServed'
      <4>1. \A i \in Slot \ {s} : /\ fd'[i] = fd[i] /\ in'[i] = in[i]
                                  /\ out'[i] = out[i] /\ out_sent'[i] = out_sent[i]
        BY <2>4, <3>10
      <4>2. \A d \in Clients \ {c} : /\ link'[d] = link[d] /\ sent'[d] = sent[d]
                                     /\ sock'[d] = sock[d] /\ rcv'[d] = rcv[d]
                                     /\ done'[d] = done[d]
        BY <1>1, <2>4, <3>9
      <4>3. fd[s] = c /\ \A i \in Slot : fd[i] \in Clients \cup {None}
        BY <1>1, Types
      <4> QED
        BY <1>1, <2>1, <3>1, <3>14, <3>15, <4>1, <4>2, <4>3, OneSlot
    <3>17. Waiting' /\ AtSlot'
      BY <1>1, <2>4 DEF Waiting, AtSlot
    <3> QED
      BY <3>11, <3>16, <3>17 DEF ServerInv, Clean, AllServed
  <2> QED
    BY <2>2, <2>3, <2>4
<1> QED
  BY <1>2, <1>3

-----------------------------------------------------------------------------
(***************************************************************************)
(* The theorems.                                                           *)
(***************************************************************************)
LEMMA NextKeeps ==
    ASSUME ServerInv, [Next]_vars
    PROVE  ServerInv'
<1>1. ASSUME NEW c \in Clients, Connect(c) PROVE ServerInv'
  BY <1>1, ConnectStep
<1>2. ASSUME NEW c \in Clients, NEW op \in Ops[c], Send(c, op) PROVE ServerInv'
  BY <1>2, SendStep
<1>3. ASSUME NEW c \in Clients, Receive(c) PROVE ServerInv'
  BY <1>3, ReceiveStep
<1>4. ASSUME NEW c \in Clients, HangUp(c) PROVE ServerInv'
  BY <1>4, HangUpStep
<1>5. CASE Signal
  <2>1. Exit /\ interrupted' \in BOOLEAN
    BY <1>5 DEF Signal
  <2> QED
    BY <2>1, ExitStep
<1>6. CASE Poll
  BY <1>6, PollStep
<1>7. CASE Stop
  <2>1. Exit /\ interrupted' \in BOOLEAN
    BY <1>7 DEF Stop, ServerInv, TypeOK
  <2> QED
    BY <2>1, ExitStep
<1>8. CASE Accept
  BY <1>8, AcceptStep
<1>9. CASE Read
  BY <1>9, ReadStep
<1>10. CASE ExecuteFrame
  BY <1>10, ExecuteFrameStep
<1>11. CASE NoMoreFrames
  BY <1>11, NoMoreFramesStep
<1>12. CASE Write
  BY <1>12, WriteStep
<1>13. CASE HungUp
  BY <1>13, HungUpStep
<1>14. CASE UNCHANGED vars
  <2>1. UNCHANGED <<alive, link, backlog, sent, sock, seen, rcv, fd, in, out, out_sent,
                    pc, slot, ready, interrupted, quit, detach, done>>
    BY <1>14 DEF vars, clients, peers, editor
  <2>2. UNCHANGED core
    BY <2>1 DEF core, peers
  <2>3. TypeOK'
    BY <2>1 DEF ServerInv, TypeOK
  <2>4. Waiting' /\ AtSlot'
    BY <2>1 DEF ServerInv, Waiting, AtSlot
  <2> QED
    BY <2>2, <2>3, <2>4, QuietStep
<1> QED
  BY <1>1, <1>2, <1>3, <1>4, <1>5, <1>6, <1>7, <1>8, <1>9, <1>10, <1>11, <1>12,
     <1>13, <1>14 DEF Next, ServerStep

LEMMA InvHolds == Spec => []ServerInv
<1>1. Init => ServerInv
  BY InitEstablishes
<1>2. ServerInv /\ [Next]_vars => ServerInv'
  BY NextKeeps
<1> QED
  BY <1>1, <1>2, PTL DEF Spec

\* Each request of a client is executed whole, once, in the order it was sent,
\* and none that was not sent, however many clients there are and wherever
\* their reads stop.
THEOREM RequestsExecutedInOrder == Spec => []ExecutedInOrder
<1>1. ServerInv => ExecutedInOrder
  <2> SUFFICES ASSUME ServerInv, NEW c \in Clients PROVE Executed(c)
    BY DEF ExecutedInOrder, Executed
  <2> QED
    BY DEF ServerInv
<1> QED
  BY <1>1, InvHolds, PTL

\* What reaches a client is the responses to its own requests, whole and in
\* order, wherever writes stop and whoever had the slot before; a detach flag
\* reaches only the client that asked for it.
THEOREM StreamsStayIntact == Spec => []StreamIntact
<1>1. ServerInv => StreamIntact
  <2> SUFFICES ASSUME ServerInv PROVE StreamIntact
    OBVIOUS
  <2>1. TypeOK
    BY DEF ServerInv
  <2>2. \A c \in Clients : Heard(c)
    BY DEF ServerInv
  <2> QED
    BY <2>1, <2>2 DEF StreamIntact, Heard, IsReply
<1> QED
  BY <1>1, InvHolds, PTL

\* The loop ends by itself only with every queue empty: what was executed for a
\* client that is still served has then reached it, all of it.
THEOREM QuitDeliversAnswers == Spec => QuitDrains
<1> DEFINE Drained == \A i \in Slot : (fd[i] # None /\ fd[i] \in alive) =>
                          Len(rcv[fd[i]]) = 2 * Len(done[fd[i]])
<1>1. ServerInv /\ MayStop => Drained
  <2> SUFFICES ASSUME ServerInv, MayStop, NEW i \in Slot, fd[i] # None
               PROVE  Len(rcv[fd[i]]) = 2 * Len(done[fd[i]])
    OBVIOUS
  <2> PICK c \in Clients : c = fd[i]
    BY Types DEF ServerInv
  <2>1. /\ rcv[c] \in Seq(ResponseHalf) /\ out[i] \in Seq(ResponseHalf)
        /\ out_sent[i] \in 0 .. Len(out[i])
    BY Types DEF ServerInv
  <2>2. out_sent[i] = Len(out[i])
    BY <2>1 DEF MayStop, Pending
  <2>3. Unsent(i) = SubSeq(out[i], Len(out[i]) + 1, Len(out[i]))
    BY <2>2 DEF Unsent
  <2>4. rcv[c] \o Unsent(i) = rcv[c]
    <3> DEFINE a == rcv[c]
               b == out[i]
    <3>1. a \in Seq(ResponseHalf) /\ b \in Seq(ResponseHalf)
      BY <2>1
    <3> HIDE DEF a, b
    <3>2. a \o SubSeq(b, Len(b) + 1, Len(b)) = a
      BY <3>1, NothingLeft
    <3> QED
      BY <2>3, <3>2 DEF a, b
  <2>5. Told(rcv[c] \o Unsent(i), c, Len(done[c]))
    BY DEF ServerInv, Served
  <2> QED
    BY <2>4, <2>5 DEF Told
<1>2. ServerInv /\ [Next]_vars =>
        [(Running /\ pc' = "stopped" /\ ~interrupted') => Drained]_vars
  <2> SUFFICES ASSUME ServerInv, [Next]_vars, Running, pc' = "stopped", ~interrupted'
               PROVE  MayStop
    BY <1>1
  <2>1. TypeOK /\ (pc \in {"read", "frames", "write", "hup"} => slot \in Slot)
    BY DEF ServerInv, AtSlot
  <2>2. NextSlot => pc' # "stopped"
    BY DEF NextSlot
  <2>3. pc' # pc
    BY DEF Running
  <2>4. ~UNCHANGED vars
    BY <2>3 DEF vars
  <2>5. ~(\E c \in Clients : \/ Connect(c) \/ (\E op \in Ops[c] : Send(c, op))
                            \/ Receive(c) \/ HangUp(c))
    BY <2>3 DEF Connect, Send, Receive, HangUp
  <2>6. ~Signal
    BY DEF Signal
  <2>7. ~(Poll \/ Accept \/ NoMoreFrames \/ HungUp)
    BY <2>2 DEF Poll, Accept, NoMoreFrames, HungUp
  <2>8. ~Read
    BY <2>2 DEF Read
  <2>9. ~Write
    BY <2>2 DEF Write
  <2>10. ~ExecuteFrame
    BY <2>2, <2>3 DEF ExecuteFrame
  <2>11. Stop
    BY <2>4, <2>5, <2>6, <2>7, <2>8, <2>9, <2>10 DEF Next, ServerStep
  <2> QED
    BY <2>11 DEF Stop
<1> QED
  BY <1>2, InvHolds, PTL DEF Spec, QuitDrains

-----------------------------------------------------------------------------
(***************************************************************************)
(* Clients that keep to one request at a time.                             *)
(*                                                                         *)
(* A client is closed for what poll reported of it, and the report may be  *)
(* several steps old; for more input than a peer may have pending; and for *)
(* an answer that its queue has no room for.  The report stays true until  *)
(* the slot has been read, and what a client has sent and has not read the *)
(* answer of bounds the input and the queue.                               *)
(***************************************************************************)

\* This pass of the loop has not come to slot i to read it.
Unread(i) ==
    \/ pc = "accept"
    \/ pc = "read" /\ slot <= i
    \/ pc \in {"frames", "write", "hup"} /\ slot < i

\* What poll reported of a slot holds of the client that it serves.
Reported ==
    /\ \A i \in Slot : i \in ready.hup /\ fd[i] # None => fd[i] \notin alive
    /\ pc = "accept" => \A i \in Slot : i \in ready.in \cup ready.hup => fd[i] # None
    /\ \A i \in Slot : i \in ready.in /\ fd[i] # None /\ Unread(i) =>
          sock[fd[i]] # <<>> \/ fd[i] \notin alive

\* The whole frames among the first m halves of what a client is sent.
LEMMA FramesHeard ==
    ASSUME NEW r \in Seq(ResponseHalf), NEW m \in 0 .. Len(r),
           \A k \in 1 .. Len(r) : r[k].last = (k % 2 = 0)
    PROVE  /\ Frames(SubSeq(r, 1, m)) \in Nat
           /\ 2 * Frames(SubSeq(r, 1, m)) <= m
<1> DEFINE t == SubSeq(r, 1, m)
           K == {k \in DOMAIN t : t[k].last}
           h == m \div 2
           f == [n \in 1 .. h |-> 2 * n]
<1>1. Len(r) \in Nat /\ m \in Nat /\ m <= Len(r)
  OBVIOUS
<1>2. DOMAIN t = 1 .. m /\ \A k \in 1 .. m : t[k] = r[k]
  BY <1>1
<1>3. K = {k \in 1 .. m : k % 2 = 0}
  <2>1. \A k \in 1 .. m : k \in 1 .. Len(r)
    BY <1>1
  <2>2. \A k \in 1 .. m : t[k].last = (k % 2 = 0)
    BY <1>2, <2>1
  <2> HIDE DEF t
  <2> QED
    BY <1>2, <2>2
<1>4. h \in Nat /\ 2 * h <= m
  BY <1>1
<1>5. ASSUME NEW k \in 1 .. m, k % 2 = 0 PROVE \E n \in 1 .. h : 2 * n = k
  <2>1. k \div 2 \in 1 .. h /\ 2 * (k \div 2) = k
    BY <1>1, <1>5
  <2> QED
    BY <2>1
<1>6. ASSUME NEW n \in 1 .. h PROVE 2 * n \in 1 .. m /\ (2 * n) % 2 = 0
  BY <1>1, <1>4
<1> HIDE DEF t, K, h
<1>7. f \in Surjection(1 .. h, K)
  <2>1. f \in [1 .. h -> K]
    BY <1>3, <1>6
  <2>2. \A k \in K : \E n \in 1 .. h : f[n] = k
    BY <1>3, <1>5
  <2> QED
    BY <2>1, <2>2, Fun_IsSurj
<1> HIDE DEF f
<1>8. IsFiniteSet(1 .. h) /\ Cardinality(1 .. h) = h
  <2>1. IsFiniteSet(1 .. h) /\ Cardinality(1 .. h) = IF 1 > h THEN 0 ELSE h - 1 + 1
    BY <1>4, FS_Interval
  <2> QED
    BY <1>4, <2>1
<1>9. IsFiniteSet(K) /\ Cardinality(K) <= h
  BY <1>7, <1>8, FS_Surjection
<1>10. Cardinality(K) \in Nat
  BY <1>9, FS_CardinalityType
<1>11. Frames(t) = Cardinality(K)
  BY DEF Frames, K
<1> QED
  BY <1>1, <1>4, <1>9, <1>10, <1>11 DEF t

\* Of r halves that reached a client it has read v, with n whole frames; w of
\* the o halves in its queue are written; d of its s requests are executed.
LEMMA NoneQueued ==
    ASSUME NEW r \in Nat, NEW v \in Nat, NEW n \in Nat, NEW o \in Nat, NEW w \in Nat,
           NEW d \in Nat, NEW s \in Nat,
           r + (o - w) = 2 * d, w <= o, 2 * n <= v, v <= r, s - n <= 1, d < s
    PROVE  w = o
  OBVIOUS

\* A client with one request outstanding has no more than one frame on its way
\* to the server, and none queued for it while that one is not executed.
LEMMA OneOutstanding ==
    ASSUME ServerInv, NEW i \in Slot, NEW c \in Clients, fd[i] = c, Outstanding(c) <= 1
    PROVE  /\ Len(in[i]) + Len(sock[c]) <= 2
           /\ Len(done[c]) < sent[c] => out_sent[i] = Len(out[i])
<1> DEFINE n == Frames(SubSeq(rcv[c], 1, seen[c]))
           d == Len(done[c])
<1>1. /\ None \notin Clients
      /\ sock[c] \in Seq(RequestHalf) /\ rcv[c] \in Seq(ResponseHalf)
      /\ in[i] \in Seq(RequestHalf) /\ out[i] \in Seq(ResponseHalf)
      /\ sent[c] \in Nat /\ seen[c] \in 0 .. Len(rcv[c])
      /\ out_sent[i] \in 0 .. Len(out[i])
  BY Types DEF ServerInv
<1>2. \A k \in 1 .. Len(rcv[c]) : rcv[c][k].last = (k % 2 = 0)
  BY DEF ServerInv, Heard, IsReply
<1>3. n \in Nat /\ 2 * n <= seen[c]
  BY <1>1, <1>2, FramesHeard
<1>4. sent[c] - n <= 1
  BY DEF Outstanding
<1>5. /\ Asked(in[i] \o sock[c], c, d, sent[c])
      /\ Told(rcv[c] \o Unsent(i), c, d)
  BY <1>1 DEF ServerInv, Served
<1>6. Len(in[i]) + Len(sock[c]) = 2 * (sent[c] - d) /\ d \in Nat /\ d <= sent[c]
  <2>1. Len(in[i] \o sock[c]) = Len(in[i]) + Len(sock[c])
    BY <1>1
  <2> QED
    BY <1>5, <2>1 DEF Asked
<1>7. /\ Len(rcv[c]) + (Len(out[i]) - out_sent[i]) = 2 * d
      /\ Len(rcv[c]) \in Nat /\ Len(out[i]) \in Nat /\ out_sent[i] \in Nat
      /\ out_sent[i] <= Len(out[i]) /\ seen[c] \in Nat /\ seen[c] <= Len(rcv[c])
  <2>1. Len(rcv[c]) \in Nat /\ Len(out[i]) \in Nat
    BY <1>1
  <2>2. Unsent(i) \in Seq(ResponseHalf) /\ Len(Unsent(i)) = Len(out[i]) - out_sent[i]
    <3> DEFINE o == out[i]
               m == out_sent[i]
    <3>1. o \in Seq(ResponseHalf) /\ m \in Nat /\ Len(o) \in Nat /\ m <= Len(o) /\ Len(o) <= Len(o)
      BY <1>1, <2>1
    <3> HIDE DEF o, m
    <3>2. SubSeq(o, m + 1, Len(o)) \in Seq(ResponseHalf) /\ Len(SubSeq(o, m + 1, Len(o))) = Len(o) - m
      BY <3>1, CutFacts
    <3> QED
      BY <3>2 DEF Unsent, o, m
  <2>3. Len(rcv[c] \o Unsent(i)) = Len(rcv[c]) + Len(Unsent(i))
    <3> DEFINE a == rcv[c]
               b == Unsent(i)
    <3>1. a \in Seq(ResponseHalf) /\ b \in Seq(ResponseHalf)
      BY <1>1, <2>2
    <3> HIDE DEF a, b
    <3>2. Len(a \o b) = Len(a) + Len(b)
      BY <3>1
    <3> QED
      BY <3>2 DEF a, b
  <2> QED
    BY <1>1, <1>5, <2>1, <2>2, <2>3 DEF Told
<1> HIDE DEF n, d
<1>0. sent[c] \in Nat
  BY <1>1
<1>8. n <= d
  BY <1>3, <1>6, <1>7
<1>9. Len(in[i]) + Len(sock[c]) <= 2
  <2>1. 2 * (sent[c] - d) <= 2
    BY <1>0, <1>3, <1>4, <1>6, <1>8
  <2> QED
    BY <1>6, <2>1
<1>10. ASSUME d < sent[c] PROVE out_sent[i] = Len(out[i])
  BY <1>0, <1>3, <1>4, <1>6, <1>7, <1>10, NoneQueued
<1> QED
  BY <1>9, <1>10 DEF d

\* The report at the start.
LEMMA ReportedFirst == Init => Reported
  BY DEF Init, Reported, NoEvents

\* Steps of the clients leave the report true: what has been sent stays sent
\* until the server reads it, and a client that has left does not come back.
LEMMA ReportedMeanwhile ==
    ASSUME ServerInv, Reported,
           UNCHANGED <<fd, pc, slot, ready>>,
           \A c \in alive' : c \in alive,
           \A c \in Clients : sock[c] # <<>> => sock'[c] # <<>>
    PROVE  Reported'
<1>1. \A i \in Slot : fd[i] # None => fd[i] \in Clients
  BY Types DEF ServerInv
<1>2. \A i \in Slot : fd'[i] = fd[i]
  OBVIOUS
<1>3. ASSUME NEW i \in Slot, i \in ready'.hup, fd'[i] # None PROVE fd'[i] \notin alive'
  BY <1>2, <1>3 DEF Reported
<1>4. ASSUME pc' = "accept", NEW i \in Slot, i \in ready'.in \cup ready'.hup PROVE fd'[i] # None
  BY <1>2, <1>4 DEF Reported
<1>5. ASSUME NEW i \in Slot, i \in ready'.in, fd'[i] # None, Unread(i)'
      PROVE  sock'[fd'[i]] # <<>> \/ fd'[i] \notin alive'
  <2>1. Unread(i)
    BY <1>5 DEF Unread
  <2> QED
    BY <1>1, <1>2, <1>5, <2>1 DEF Reported
<1> QED
  BY <1>3, <1>4, <1>5 DEF Reported

\* A step at a slot: it may close the peer and read from its client, once the
\* slot has been come to.
LEMMA ReportedAtSlot ==
    ASSUME ServerInv, Reported, slot \in Slot, UNCHANGED <<alive, ready>>,
           pc' # "accept",
           \A i \in Slot : fd'[i] = fd[i] \/ fd'[i] = None,
           \A i \in Slot : Unread(i)' => Unread(i) /\ i # slot,
           \A c \in Clients : c # fd[slot] => sock'[c] = sock[c]
    PROVE  Reported'
<1>1. \A i \in Slot : fd[i] # None => fd[i] \in Clients
  BY Types DEF ServerInv
<1>2. ASSUME NEW i \in Slot, fd'[i] # None PROVE fd'[i] = fd[i]
  BY <1>2
<1>3. ASSUME NEW i \in Slot, i \in ready'.hup, fd'[i] # None PROVE fd'[i] \notin alive'
  BY <1>2, <1>3 DEF Reported
<1>4. ASSUME NEW i \in Slot, i \in ready'.in, fd'[i] # None, Unread(i)'
      PROVE  sock'[fd'[i]] # <<>> \/ fd'[i] \notin alive'
  <2>1. Unread(i) /\ i # slot /\ fd'[i] = fd[i] /\ fd[i] # None
    BY <1>2, <1>4
  <2>2. sock[fd[i]] # <<>> \/ fd[i] \notin alive
    BY <1>4, <2>1 DEF Reported
  <2>3. fd[i] # fd[slot]
    BY <2>1 DEF ServerInv, Served
  <2>4. sock'[fd[i]] = sock[fd[i]]
    BY <1>1, <2>1, <2>3
  <2> QED
    BY <2>1, <2>2, <2>4
<1> QED
  BY <1>3, <1>4 DEF Reported

\* Slots that are unread after the loop moved on were so before.
LEMMA UnreadLess ==
    ASSUME slot \in Slot, pc \in {"read", "frames", "write", "hup"},
           \/ NextSlot
           \/ slot' = slot /\ pc' \in {"frames", "write", "hup"}
    PROVE  pc' # "accept" /\ \A i \in Slot : Unread(i)' => Unread(i) /\ i # slot
<1>1. Slots \in Nat
  BY SlotAssumption DEF SlotAssumption
<1>2. \A i \in Slot : i \in Int /\ slot \in Int
  BY <1>1 DEF Slot
<1>3. CASE NextSlot
  <2>1. pc' = "poll" \/ (pc' = "read" /\ slot' = slot + 1)
    BY <1>3 DEF NextSlot
  <2> QED
    BY <1>2, <2>1 DEF Unread
<1>4. CASE slot' = slot /\ pc' \in {"frames", "write", "hup"}
  BY <1>2, <1>4 DEF Unread
<1> QED
  BY <1>3, <1>4

LEMMA PollReports ==
    ASSUME ServerInv, Poll
    PROVE  Reported'
<1>1. ready' = Events /\ UNCHANGED <<alive, sock, fd>>
  BY DEF Poll, clients, peers
<1>2. \A i \in Slot : i \in ready'.hup => fd[i] # None /\ fd[i] \notin alive
  BY <1>1 DEF Events
<1>3. \A i \in Slot : i \in ready'.in => fd[i] # None /\ (sock[fd[i]] # <<>> \/ fd[i] \notin alive)
  BY <1>1 DEF Events
<1> QED
  BY <1>1, <1>2, <1>3 DEF Reported

LEMMA AcceptReports ==
    ASSUME ServerInv, Reported, Accept
    PROVE  Reported'
<1>1. pc = "accept" /\ pc' = "read" /\ UNCHANGED <<alive, sock, ready>>
  BY DEF Accept
<1>2. fd \in [Slot -> Clients \cup {None}]
  BY DEF ServerInv, TypeOK
<1>3. ASSUME NEW i \in Slot, fd[i] # None PROVE fd'[i] = fd[i]
  <2>1. fd' = fd \/ \E j \in Slot : fd[j] = None /\ fd' = [fd EXCEPT ![j] = Head(backlog)]
    BY DEF Accept
  <2> QED
    BY <1>2, <1>3, <2>1
<1>4. \A i \in Slot : i \in ready.in \cup ready.hup => fd[i] # None /\ fd'[i] = fd[i]
  BY <1>1, <1>3 DEF Reported
<1>5. \A i \in Slot : Unread(i)
  BY <1>1 DEF Unread
<1>6. ASSUME NEW i \in Slot, i \in ready'.hup PROVE fd'[i] \notin alive'
  BY <1>1, <1>4, <1>6 DEF Reported
<1>7. ASSUME NEW i \in Slot, i \in ready'.in PROVE sock'[fd'[i]] # <<>> \/ fd'[i] \notin alive'
  BY <1>1, <1>4, <1>5, <1>7 DEF Reported
<1> QED
  BY <1>1, <1>6, <1>7 DEF Reported

\* Closing a peer leaves every slot what it had or empty.
LEMMA CloseEmpties ==
    ASSUME TypeOK, PeerClose \/ UNCHANGED fd
    PROVE  \A i \in Slot : fd'[i] = fd[i] \/ fd'[i] = None
  BY DEF TypeOK, PeerClose

LEMMA ReadReports ==
    ASSUME ServerInv, Reported, Read
    PROVE  Reported'
<1>1. /\ TypeOK /\ slot \in Slot /\ pc = "read" /\ UNCHANGED <<alive, ready>>
  BY DEF ServerInv, AtSlot, Read, LoopUnchanged
<1>2. CASE fd[slot] = None \/ slot \notin ready.in
  <2>1. slot' = slot /\ pc' \in {"hup", "write"} /\ UNCHANGED <<sock, fd>>
    BY <1>2 DEF Read, peers
  <2> QED
    BY <1>1, <2>1, UnreadLess, ReportedAtSlot
<1>3. CASE ~(fd[slot] = None \/ slot \notin ready.in)
  <2> PICK c \in Clients : c = fd[slot]
    BY <1>1, <1>3, Types
  <2>1. PeerClose \/ UNCHANGED fd
    BY <1>3 DEF Read
  <2>2. NextSlot \/ (slot' = slot /\ pc' \in {"frames", "write", "hup"})
    BY <1>3 DEF Read
  <2>3. sock' = sock \/ \E k \in 1 .. MaxRead : sock' = [sock EXCEPT ![c] = SubSeq(@, k + 1, Len(@))]
    BY <1>3 DEF Read
  <2>4. \A d \in Clients : d # c => sock'[d] = sock[d]
    <3>1. sock \in [Clients -> Seq(Half(Request))]
      BY <1>1 DEF TypeOK
    <3> QED
      BY <2>3, <3>1
  <2>5. \A i \in Slot : fd'[i] = fd[i] \/ fd'[i] = None
    BY <1>1, <2>1, CloseEmpties
  <2>6. pc' # "accept" /\ \A i \in Slot : Unread(i)' => Unread(i) /\ i # slot
    BY <1>1, <2>2, UnreadLess
  <2> QED
    BY <1>1, <2>4, <2>5, <2>6, ReportedAtSlot
<1> QED
  BY <1>2, <1>3

\* The steps at a slot that read nothing.
LEMMA RestReports ==
    ASSUME ServerInv, Reported, ExecuteFrame \/ NoMoreFrames \/ Write \/ HungUp
    PROVE  Reported'
<1>1. /\ TypeOK /\ slot \in Slot /\ pc \in {"read", "frames", "write", "hup"}
      /\ UNCHANGED <<alive, ready, sock>>
  BY DEF ServerInv, AtSlot, ExecuteFrame, NoMoreFrames, Write, HungUp, LoopUnchanged, clients
<1>2. PeerClose \/ UNCHANGED fd
  BY DEF ExecuteFrame, NoMoreFrames, Write, HungUp, peers
<1>3. NextSlot \/ (slot' = slot /\ pc' \in {"frames", "write", "hup"})
  BY DEF ExecuteFrame, NoMoreFrames, Write, HungUp
<1>4. \A i \in Slot : fd'[i] = fd[i] \/ fd'[i] = None
  BY <1>1, <1>2, CloseEmpties
<1>5. pc' # "accept" /\ \A i \in Slot : Unread(i)' => Unread(i) /\ i # slot
  BY <1>1, <1>3, UnreadLess
<1> QED
  BY <1>1, <1>4, <1>5, ReportedAtSlot

LEMMA ReportedKept ==
    ASSUME ServerInv, Reported, [Next]_vars
    PROVE  Reported'
<1>1. ASSUME NEW c \in Clients, Connect(c) \/ Receive(c) \/ HangUp(c) PROVE Reported'
  <2>1. UNCHANGED <<fd, pc, slot, ready, sock>> /\ \A d \in alive' : d \in alive
    BY <1>1 DEF Connect, Receive, HangUp, peers
  <2> QED
    BY <2>1, ReportedMeanwhile
<1>2. ASSUME NEW c \in Clients, NEW op \in Ops[c], Send(c, op) PROVE Reported'
  <2> DEFINE h == Halves([client |-> c, n |-> sent'[c], op |-> op])
  <2>1. /\ UNCHANGED <<fd, pc, slot, ready, alive>>
        /\ sock' = [sock EXCEPT ![c] = @ \o h]
    BY <1>2 DEF Send, peers
  <2>2. sock \in [Clients -> Seq(Half(Request))] /\ sock[c] \in Seq(Half(Request))
    BY DEF ServerInv, TypeOK
  <2>3. Len(h) = 2 /\ h \in Seq({h[1], h[2]})
    BY DEF Halves
  <2> HIDE DEF h
  <2>4. sock[c] \o h # <<>>
    <3> DEFINE a == sock[c]
               S == Half(Request) \cup {h[1], h[2]}
    <3>1. a \in Seq(S) /\ h \in Seq(S)
      BY <2>2, <2>3
    <3> HIDE DEF a, S
    <3>2. Len(a \o h) = Len(a) + Len(h) /\ Len(a) \in Nat
      BY <3>1, JoinFacts
    <3>3. Len(h) = 2
      BY <2>3
    <3>4. a \o h # <<>>
      BY <3>2, <3>3
    <3> QED
      BY <3>4 DEF a
  <2>5. \A d \in Clients : sock[d] # <<>> => sock'[d] # <<>>
    BY <2>1, <2>2, <2>4
  <2> QED
    BY <2>1, <2>5, ReportedMeanwhile
<1>3. CASE Signal \/ Stop
  <2>1. pc' = "stopped" /\ \A i \in Slot : fd'[i] = None
    BY <1>3 DEF Signal, Stop, Exit
  <2> QED
    BY <2>1 DEF Reported
<1>4. CASE Poll
  BY <1>4, PollReports
<1>5. CASE Accept
  BY <1>5, AcceptReports
<1>6. CASE Read
  BY <1>6, ReadReports
<1>7. CASE ExecuteFrame \/ NoMoreFrames \/ Write \/ HungUp
  BY <1>7, RestReports
<1>8. CASE UNCHANGED vars
  <2>1. UNCHANGED <<fd, pc, slot, ready, alive, sock>>
    BY <1>8 DEF vars, clients, peers
  <2> QED
    BY <2>1, ReportedMeanwhile
<1> QED
  BY <1>1, <1>2, <1>3, <1>4, <1>5, <1>6, <1>7, <1>8 DEF Next, ServerStep

-----------------------------------------------------------------------------
LEMMA PartFits ==
    ASSUME NEW a \in Nat, NEW b \in Nat, NEW n \in Nat, NEW m \in Nat,
           a + b <= 2, n <= b, m >= 2
    PROVE  a + n <= m /\ a + n \in Nat
  OBVIOUS

\* What it takes to close the peer of the loop's slot.
LEMMA CloseReasons ==
    ASSUME ServerInv, Reported, slot \in Slot, NEW c \in Clients, fd[slot] = c,
           c \in alive, Outstanding(c) <= 1,
           Read \/ ExecuteFrame \/ Write \/ HungUp
    PROVE  UNCHANGED link
<1>1. TypeOK /\ None \notin Clients
  BY Types DEF ServerInv
<1>2. /\ Len(in[slot]) + Len(sock[c]) <= 2
      /\ Len(done[c]) < sent[c] => out_sent[slot] = Len(out[slot])
  BY OneOutstanding
<1>3. CASE Read
  <2> SUFFICES ASSUME slot \in ready.in PROVE UNCHANGED link
    BY <1>1, <1>3 DEF Read
  <2>1. sock[c] # <<>>
    <3>1. Unread(slot)
      BY <1>3 DEF Read, Unread, Slot
    <3> QED
      BY <1>1, <3>1 DEF Reported
  <2>2. PICK k \in 1 .. MaxRead :
           /\ k <= Len(sock[c])
           /\ IF Len(in[slot]) + k > MaxIn
              THEN PeerClose /\ NextSlot
              ELSE UNCHANGED link
    BY <1>1, <1>3, <2>1 DEF Read
  <2>3. Len(in[slot]) + k <= MaxIn /\ Len(in[slot]) + k \in Nat /\ MaxIn \in Nat
    <3>1. Len(in[slot]) \in Nat /\ Len(sock[c]) \in Nat
      <4>1. in[slot] \in Seq(RequestHalf) /\ sock[c] \in Seq(RequestHalf)
        BY <1>1, Types
      <4> QED
        BY <4>1
    <3>2. MaxRead \in Nat /\ MaxIn \in Nat /\ MaxIn >= 2
      BY SizeAssumption, FrameAssumption DEF SizeAssumption, FrameAssumption
    <3>3. k \in Nat /\ k <= Len(sock[c])
      BY <2>2, <3>2
    <3>4. Len(in[slot]) + Len(sock[c]) <= 2
      BY <1>2
    <3> QED
      BY <3>1, <3>2, <3>3, <3>4, PartFits
  <2>4. ~(Len(in[slot]) + k > MaxIn)
    BY <2>3
  <2> QED
    BY <2>2, <2>4
<1>4. CASE ExecuteFrame
  <2>1. PICK k \in LineFeeds :
          /\ \A j \in LineFeeds : k <= j
          /\ Overflows \/ UNCHANGED link
    BY <1>4 DEF ExecuteFrame
  <2>2. Len(done[c]) < sent[c]
    <3>1. pc = "frames"
      BY <1>4 DEF ExecuteFrame
    <3>2. Len(done[c]) + 1 <= sent[c]
      BY <2>1, <3>1, FirstFrame
    <3>3. Len(done[c]) \in Nat /\ sent[c] \in Nat
      <4>1. done[c] \in Seq(Seq(RequestHalf)) /\ sent[c] \in Nat
        BY <1>1, Types
      <4> QED
        BY <4>1
    <3> QED
      BY <3>2, <3>3
  <2>3. ~Overflows
    <3>1. Len(out[slot]) \in Nat
      <4>1. out[slot] \in Seq(ResponseHalf)
        BY <1>1, Types
      <4> QED
        BY <4>1
    <3>2. MaxOut \in Nat /\ MaxOut >= 2
      BY SizeAssumption, FrameAssumption DEF SizeAssumption, FrameAssumption
    <3> QED
      BY <1>2, <2>2, <3>1, <3>2 DEF Overflows
  <2> QED
    BY <2>1, <2>3
<1>5. CASE Write
  BY <1>5 DEF Write
<1>6. CASE HungUp
  <2>1. slot \notin ready.hup
    BY <1>1 DEF Reported
  <2> QED
    BY <1>6, <2>1 DEF HungUp
<1> QED
  BY <1>3, <1>4, <1>5, <1>6

\* Once accepted, a client that keeps to one request at a time and hangs on is
\* served until the server ends: no report of poll that is out of date, no
\* limit of a buffer and nothing that another client does closes it.
THEOREM ClientsAreKept == Spec => KeepsClients
<1> DEFINE Kept == \A c \in Clients :
             link[c] = "open" /\ link'[c] = "closed"
             => c \notin alive \/ Outstanding(c) > 1 \/ pc' = "stopped"
<1>1. ServerInv /\ Reported /\ [Next]_vars => [Kept]_vars
  <2> SUFFICES ASSUME ServerInv, Reported, [Next]_vars, NEW c \in Clients,
                      link[c] = "open", link'[c] = "closed",
                      c \in alive, Outstanding(c) <= 1
               PROVE  pc' = "stopped"
    <3>1. ASSUME ServerInv, NEW c \in Clients PROVE Outstanding(c) \in Int
      <4> DEFINE n == Frames(SubSeq(rcv[c], 1, seen[c]))
      <4>1. /\ rcv[c] \in Seq(ResponseHalf) /\ sent[c] \in Nat /\ seen[c] \in 0 .. Len(rcv[c])
        BY <3>1, Types DEF ServerInv
      <4>2. \A k \in 1 .. Len(rcv[c]) : rcv[c][k].last = (k % 2 = 0)
        BY <3>1 DEF ServerInv, Heard, IsReply
      <4>3. n \in Nat
        BY <4>1, <4>2, FramesHeard
      <4> QED
        BY <4>1, <4>3 DEF Outstanding
    <3> QED
      BY <3>1
  <2>1. TypeOK /\ None \notin Clients /\ link \in [Clients -> {"new", "waiting", "open", "closed"}]
    BY Types DEF ServerInv, TypeOK
  <2>2. link'[c] # link[c]
    OBVIOUS
  <2>3. CASE Signal \/ Stop
    BY <2>3 DEF Signal, Stop, Exit
  <2>4. ASSUME NEW d \in Clients, Connect(d) PROVE FALSE
    BY <2>1, <2>2, <2>4 DEF Connect
  <2>5. CASE Accept
    <3>1. ready.accept /\ backlog # <<>> /\ backlog \in Seq(Clients)
      BY <2>1, <2>2, <2>5 DEF Accept, ServerInv, Waiting, TypeOK
    <3>2. link[Head(backlog)] = "waiting" /\ Head(backlog) \in Clients
      <4>1. Head(backlog) = backlog[1] /\ 1 \in 1 .. Len(backlog) /\ Head(backlog) \in Clients
        BY <3>1
      <4> QED
        BY <4>1 DEF ServerInv, Waiting
    <3>3. \E l \in {"open", "closed"} : link' = [link EXCEPT ![Head(backlog)] = l]
      BY <2>5, <3>1 DEF Accept
    <3> QED
      BY <2>1, <2>2, <3>2, <3>3
  <2>6. CASE Read \/ ExecuteFrame \/ Write \/ HungUp
    <3>1. slot \in Slot /\ (UNCHANGED link \/ PeerClose)
      BY <2>6 DEF ServerInv, AtSlot, Read, ExecuteFrame, Write, HungUp
    <3>2. fd[slot] = c
      BY <2>1, <2>2, <3>1 DEF PeerClose
    <3> QED
      BY <2>2, <2>6, <3>1, <3>2, CloseReasons
  <2>7. CASE UNCHANGED link
    BY <2>2, <2>7
  <2>8. \/ Signal \/ Stop \/ Accept \/ Read \/ ExecuteFrame \/ Write \/ HungUp
        \/ UNCHANGED link \/ \E d \in Clients : Connect(d)
    BY DEF Next, ServerStep, Send, Receive, HangUp, Poll, NoMoreFrames, clients, vars
  <2> QED
    BY <2>3, <2>4, <2>5, <2>6, <2>7, <2>8
<1>2. Init => Reported
  BY ReportedFirst
<1>3. ServerInv /\ Reported /\ [Next]_vars => Reported'
  BY ReportedKept
<1> QED
  BY <1>1, <1>2, <1>3, InvHolds, PTL DEF Spec, KeepsClients

=============================================================================
