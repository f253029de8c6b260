------------------------------- MODULE Server -------------------------------
(***************************************************************************)
(* backend_server (src/src/main.c): one thread that serves the peers of a  *)
(* Unix socket with poll, and the part of editor_request                   *)
(* (src/src/protocol.c) that the peers can tell from each other: the quit  *)
(* and detach flags of the one shared editor.                              *)
(*                                                                         *)
(* A pass of the loop is poll, at most one accept, then per slot a read,   *)
(* the requests that are complete, a write and the test for a hang-up;     *)
(* each is a step and the clients move between them.  A frame, request or  *)
(* response, is two halves, the second of which ends in the line feed, so  *)
(* that a read or a write can stop in the middle of one.                   *)
(***************************************************************************)
EXTENDS Integers, Sequences, FiniteSets, SequencesExt

CONSTANTS
    Clients,      \* programs that connect
    None,         \* no client
    Slots,        \* the number of peers served at once (32)
    Ops,          \* what each client asks: "edit", "detach", "quit", "bad"
    MaxRequests,  \* bound on the requests of each client
    Pipeline,     \* how many a client sends before it has read the answers
    MaxRead,      \* halves that one read returns at most (8192 bytes)
    MaxIn,        \* halves that a peer may have pending (CP_MAX_FRAME)
    MaxOut,       \* halves queued for a peer at most (4 * CP_MAX_FRAME)
    Room          \* halves that a client's socket holds

ASSUME SlotAssumption == Slots \in Nat \ {0} /\ None \notin Clients
ASSUME SizeAssumption ==
    /\ MaxRequests \in [Clients -> Nat] /\ Pipeline \in Nat \ {0}
    /\ MaxRead \in Nat \ {0} /\ MaxIn \in Nat \ {0}
    /\ MaxOut \in Nat \ {0} /\ Room \in Nat \ {0}

\* A request or a response of two halves fits what a peer may have pending.
ASSUME FrameAssumption == MaxIn >= 2 /\ MaxOut >= 2

VARIABLES
    \* the clients and the kernel
    alive,      \* clients that have not closed their end
    link,       \* the server's end of each client's connection
    backlog,    \* connections not yet accepted
    sent,       \* requests each client has sent
    sock,       \* halves on their way to the server
    rcv,        \* every half that has reached the client
    seen,       \* how many of them the client has read
    \* backend_server
    fd, in, out, out_sent,   \* Peer, per slot
    pc, slot,                \* where the loop stands
    ready,                   \* what poll reported
    interrupted,
    \* Editor
    quit, detach,
    done        \* auxiliary: the frames executed for each client, in order

clients == <<alive, link, backlog, sent, sock, seen>>
peers == <<fd, in, out, out_sent>>
editor == <<quit, detach, done>>
vars == <<clients, rcv, peers, pc, slot, ready, interrupted, editor>>

Slot == 1 .. Slots
Request == [client : Clients, n : Nat, op : UNION {Ops[c] : c \in Clients}]
Response == [req : Request, detach : BOOLEAN]
Halves(f) == <<[frame |-> f, last |-> FALSE], [frame |-> f, last |-> TRUE]>>
Half(F) == [frame : F, last : BOOLEAN]

\* Whole frames among the halves of s.
Frames(s) == Cardinality({k \in DOMAIN s : s[k].last})

Running == pc # "stopped"
NoEvents == [accept |-> FALSE, in |-> {}, out |-> {}, hup |-> {}]

-----------------------------------------------------------------------------
(***************************************************************************)
(* The clients.                                                            *)
(***************************************************************************)
Connect(c) ==
    /\ Running
    /\ link[c] = "new"
    /\ link' = [link EXCEPT ![c] = "waiting"]
    /\ backlog' = Append(backlog, c)
    /\ UNCHANGED <<alive, sent, sock, seen, rcv, peers, pc, slot, ready,
                   interrupted, editor>>

\* The requests of a client that it has not read the whole answer of.
Outstanding(c) == sent[c] - Frames(SubSeq(rcv[c], 1, seen[c]))

\* A request may be sent before the connection is accepted.
Send(c, op) ==
    /\ c \in alive
    /\ link[c] \in {"waiting", "open"}
    /\ sent[c] < MaxRequests[c]
    /\ Outstanding(c) < Pipeline
    /\ sent' = [sent EXCEPT ![c] = @ + 1]
    /\ sock' = [sock EXCEPT ![c] =
                  @ \o Halves([client |-> c, n |-> sent'[c], op |-> op])]
    /\ UNCHANGED <<alive, link, backlog, seen, rcv, peers, pc, slot, ready,
                   interrupted, editor>>

Receive(c) ==
    /\ c \in alive
    /\ seen[c] < Len(rcv[c])
    /\ seen' = [seen EXCEPT ![c] = @ + 1]
    /\ UNCHANGED <<alive, link, backlog, sent, sock, rcv, peers, pc, slot,
                   ready, interrupted, editor>>

HangUp(c) ==
    /\ c \in alive
    /\ link[c] \in {"waiting", "open"}
    /\ alive' = alive \ {c}
    /\ UNCHANGED <<link, backlog, sent, sock, seen, rcv, peers, pc, slot,
                   ready, interrupted, editor>>

-----------------------------------------------------------------------------
(***************************************************************************)
(* A pass of the loop.                                                     *)
(***************************************************************************)

\* Output counted as pending only until some of it is written.
Pending_Unsent(i) == out[i] # <<>> /\ out_sent[i] = 0

\* Input counted as pending too.
Pending_Input(i) == Len(out[i]) > out_sent[i] \/ in[i] # <<>>

\* Output is pending for a peer.
Pending(i) == Len(out[i]) > out_sent[i]

HasRoom(c) == Len(rcv[c]) - seen[c] < Room

\* What poll reports: readable if asked for, with bytes or the end of file;
\* writable if asked for; a hang-up whether asked for or not.
Events ==
    [accept |-> backlog # <<>>,
     in  |-> {i \in Slot : /\ fd[i] # None /\ ~quit
                           /\ sock[fd[i]] # <<>> \/ fd[i] \notin alive},
     out |-> {i \in Slot : /\ fd[i] # None /\ Pending(i)
                           /\ HasRoom(fd[i]) \/ fd[i] \notin alive},
     hup |-> {i \in Slot : fd[i] # None /\ fd[i] \notin alive}]

\* The loop ends as soon as somebody asked to quit.
MayStop_AtOnce == quit

\* The loop ends after quit when no output is pending.
MayStop == quit /\ \A i \in Slot : ~Pending(i)

\* poll returns something.  (Its timeout only starts another pass.)
Poll ==
    /\ pc = "poll"
    /\ ~MayStop
    /\ Events # NoEvents
    /\ ready' = Events
    /\ pc' = "accept"
    /\ UNCHANGED <<clients, rcv, peers, slot, interrupted, editor>>

\* The exit: every peer is closed.
Exit ==
    /\ pc = "poll"
    /\ pc' = "stopped"
    /\ link' = [c \in Clients |-> IF link[c] = "new" THEN "new" ELSE "closed"]
    /\ fd' = [i \in Slot |-> None]
    /\ in' = [i \in Slot |-> <<>>] /\ out' = in'
    /\ out_sent' = [i \in Slot |-> 0]
    /\ backlog' = <<>>
    /\ UNCHANGED <<alive, sent, sock, seen, rcv, slot, ready, editor>>

Stop == MayStop /\ Exit /\ UNCHANGED interrupted

\* SIGTERM or SIGINT, at whatever time: the loop looks for it at its head only.
Signal == Exit /\ interrupted' = TRUE

\* accept4, into the first free slot; or to be closed at once, when there is
\* none or SO_PEERCRED does not say that the client is the server's user.
Accept ==
    /\ pc = "accept"
    /\ pc' = "read" /\ slot' = 1
    /\ IF ready.accept
       THEN LET c == Head(backlog)
                free == {i \in Slot : fd[i] = None}
            IN  /\ backlog' = Tail(backlog)
                /\ \/ /\ link' = [link EXCEPT ![c] = "closed"]
                      /\ UNCHANGED fd
                   \/ \E i \in free :
                        /\ \A j \in free : i <= j
                        /\ link' = [link EXCEPT ![c] = "open"]
                        /\ fd' = [fd EXCEPT ![i] = c]
       ELSE UNCHANGED <<backlog, link, fd>>
    /\ UNCHANGED <<alive, sent, sock, seen, rcv, in, out, out_sent, ready,
                   interrupted, editor>>

\* The for loop moves on to the next slot, or to the next poll.
NextSlot ==
    IF slot = Slots THEN pc' = "poll" /\ slot' = 0
                    ELSE pc' = "read" /\ slot' = slot + 1

\* peer_close
PeerClose ==
    /\ link' = [link EXCEPT ![fd[slot]] = "closed"]
    /\ fd' = [fd EXCEPT ![slot] = None]
    /\ in' = [in EXCEPT ![slot] = <<>>]
    /\ out' = [out EXCEPT ![slot] = <<>>]
    /\ out_sent' = [out_sent EXCEPT ![slot] = 0]

LoopUnchanged == UNCHANGED <<alive, backlog, sent, seen, ready, interrupted>>

\* POLLIN: the end of file, more input than a frame may have, or bytes.
Read ==
    /\ pc = "read"
    /\ LoopUnchanged
    /\ UNCHANGED <<rcv, editor>>
    /\ LET c == fd[slot]
       IN  IF c = None \/ slot \notin ready.in
           THEN /\ pc' = IF c = None THEN "hup" ELSE "write"
                /\ UNCHANGED <<link, sock, peers, slot>>
           ELSE IF sock[c] = <<>>
           THEN PeerClose /\ NextSlot /\ UNCHANGED sock
           ELSE \E k \in 1 .. MaxRead :
                  /\ k <= Len(sock[c])
                  /\ sock' = [sock EXCEPT ![c] = SubSeq(@, k + 1, Len(@))]
                  /\ IF Len(in[slot]) + k > MaxIn
                     THEN PeerClose /\ NextSlot
                     ELSE /\ in' = [in EXCEPT ![slot] = @ \o SubSeq(sock[c], 1, k)]
                          /\ pc' = "frames"
                          /\ UNCHANGED <<link, fd, out, out_sent, slot>>

\* e->detach after a request: editor_request lowers it first, unless the
\* request was no good.
NewDetach(op) == IF op = "bad" THEN detach ELSE op = "detach"

\* peer_queue, with the bytes that were written dropped but still counted.
PeerQueue_Count(f) ==
    /\ out' = [out EXCEPT ![slot] = SubSeq(@, out_sent[slot] + 1, Len(@)) \o Halves(f)]
    /\ UNCHANGED out_sent

\* peer_queue: what was written is dropped and the response joins the rest.
PeerQueue(f) ==
    /\ out' = [out EXCEPT ![slot] = SubSeq(@, out_sent[slot] + 1, Len(@)) \o Halves(f)]
    /\ out_sent' = [out_sent EXCEPT ![slot] = 0]

LineFeeds == {k \in 1 .. Len(in[slot]) : in[slot][k].last}

\* The input after a frame that ended at k, with what follows it dropped.
Rest_Dropped(k) == <<>>

\* The input after a frame that ended at k.
Rest(k) == SubSeq(in[slot], k + 1, Len(in[slot]))

\* The queue's limit without its factor of four.
Overflows_OneFrame == Len(out[slot]) - out_sent[slot] + 2 > MaxOut \div 4

\* The response does not fit the peer's queue.
Overflows == Len(out[slot]) - out_sent[slot] + 2 > MaxOut

\* One turn of the while loop: the request up to the first line feed is
\* executed and answered; if the answer does not fit the peer is dropped.
ExecuteFrame ==
    /\ pc = "frames"
    /\ LoopUnchanged
    /\ UNCHANGED <<sock, rcv>>
    /\ \E k \in LineFeeds :
         /\ \A j \in LineFeeds : k <= j
         /\ LET r == in[slot][k].frame
                f == [req |-> r, detach |-> detach' /\ r.op # "bad"]
            IN  /\ done' = [done EXCEPT ![r.client] = Append(@, SubSeq(in[slot], 1, k))]
                /\ quit' = (quit \/ r.op = "quit")
                /\ detach' = NewDetach(r.op)
                /\ IF Overflows
                   THEN PeerClose /\ NextSlot
                   ELSE /\ PeerQueue(f)
                        /\ in' = [in EXCEPT ![slot] = Rest(k)]
                        /\ UNCHANGED <<link, fd, pc, slot>>

NoMoreFrames ==
    /\ pc = "frames"
    /\ LineFeeds = {}
    /\ pc' = "write"
    /\ UNCHANGED <<clients, rcv, peers, slot, ready, interrupted, editor>>

\* POLLOUT: some of what is pending, or EPIPE.
Write ==
    /\ pc = "write"
    /\ LoopUnchanged
    /\ UNCHANGED <<sock, editor>>
    /\ LET c == fd[slot]
       IN  IF slot \notin ready.out
           THEN /\ pc' = "hup"
                /\ UNCHANGED <<link, rcv, peers, slot>>
           ELSE IF c \notin alive
           THEN PeerClose /\ NextSlot /\ UNCHANGED rcv
           ELSE \E k \in 1 .. Room :
                  /\ k <= Len(out[slot]) - out_sent[slot]
                  /\ k <= Room - (Len(rcv[c]) - seen[c])
                  /\ rcv' = [rcv EXCEPT ![c] = @ \o
                       SubSeq(out[slot], out_sent[slot] + 1, out_sent[slot] + k)]
                  /\ IF out_sent[slot] + k = Len(out[slot])
                     THEN /\ out' = [out EXCEPT ![slot] = <<>>]
                          /\ out_sent' = [out_sent EXCEPT ![slot] = 0]
                     ELSE /\ out_sent' = [out_sent EXCEPT ![slot] = @ + k]
                          /\ UNCHANGED out
                  /\ pc' = "hup"
                  /\ UNCHANGED <<link, fd, in, slot>>

\* POLLHUP, after whatever else was reported.
HungUp ==
    /\ pc = "hup"
    /\ LoopUnchanged
    /\ NextSlot
    /\ IF slot \in ready.hup /\ fd[slot] # None
       THEN PeerClose
       ELSE UNCHANGED <<link, peers>>
    /\ UNCHANGED <<sock, rcv, editor>>

-----------------------------------------------------------------------------
Init ==
    /\ alive = Clients
    /\ link = [c \in Clients |-> "new"]
    /\ backlog = <<>>
    /\ sent = [c \in Clients |-> 0]
    /\ sock = [c \in Clients |-> <<>>] /\ rcv = [c \in Clients |-> <<>>]
    /\ seen = [c \in Clients |-> 0]
    /\ fd = [i \in Slot |-> None]
    /\ in = [i \in Slot |-> <<>>] /\ out = [i \in Slot |-> <<>>]
    /\ out_sent = [i \in Slot |-> 0]
    /\ pc = "poll" /\ slot = 0 /\ ready = NoEvents /\ interrupted = FALSE
    /\ quit = FALSE /\ detach = FALSE
    /\ done = [c \in Clients |-> <<>>]

ServerStep ==
    \/ Poll
    \/ Stop
    \/ Accept
    \/ Read
    \/ ExecuteFrame
    \/ NoMoreFrames
    \/ Write
    \/ HungUp

Next ==
    \/ \E c \in Clients : \/ Connect(c)
                          \/ \E op \in Ops[c] : Send(c, op)
                          \/ Receive(c)
                          \/ HangUp(c)
    \/ Signal
    \/ ServerStep

Spec == Init /\ [][Next]_vars

\* The server is a running program; a client that is there reads its replies,
\* as docs/protocol.html asks of it.
Fairness ==
    /\ WF_vars(ServerStep)
    /\ \A c \in Clients : WF_vars(Receive(c))

FairSpec == Spec /\ Fairness

-----------------------------------------------------------------------------
(***************************************************************************)
(* Properties.                                                             *)
(***************************************************************************)
TypeOK ==
    /\ alive \subseteq Clients
    /\ link \in [Clients -> {"new", "waiting", "open", "closed"}]
    /\ backlog \in Seq(Clients)
    /\ sent \in [Clients -> Nat] /\ seen \in [Clients -> Nat]
    /\ sock \in [Clients -> Seq(Half(Request))]
    /\ rcv \in [Clients -> Seq(Half(Response))]
    /\ \A c \in Clients : sent[c] <= MaxRequests[c] /\ seen[c] <= Len(rcv[c])
    /\ fd \in [Slot -> Clients \cup {None}]
    /\ in \in [Slot -> Seq(Half(Request))]
    /\ out \in [Slot -> Seq(Half(Response))]
    /\ out_sent \in [Slot -> Nat]
    /\ \A i \in Slot : Len(in[i]) <= MaxIn /\ out_sent[i] <= Len(out[i])
    /\ \A i \in Slot : fd[i] = None => in[i] = <<>> /\ out[i] = <<>>
    /\ pc \in {"poll", "accept", "read", "frames", "write", "hup", "stopped"}
    /\ slot \in 0 .. Slots
    /\ interrupted \in BOOLEAN /\ quit \in BOOLEAN /\ detach \in BOOLEAN
    /\ done \in [Clients -> Seq(Seq(Half(Request)))]

\* However reads split and join frames, each request of a client is executed
\* whole, once and in the order it was sent, and none that was not sent.
ExecutedInOrder ==
    \A c \in Clients :
        /\ Len(done[c]) <= sent[c]
        /\ \A k \in 1 .. Len(done[c]) :
             LET r == Last(done[c][k]).frame
             IN  done[c][k] = Halves(r) /\ r.client = c /\ r.n = k

\* What reaches a client is the responses to its own requests, whole, in order
\* and without a gap, through partial writes, compaction of the queue and
\* reuse of a slot by another client; no other half is ever among them.  A
\* frontend leaves when a response has the detach flag up: only that of the
\* frontend that asked ever has, whatever the shared editor served before.  A
\* slot without a client buffers nothing.
StreamIntact ==
    /\ TypeOK
    /\ \A c \in Clients : \A k \in 1 .. Len(rcv[c]) :
        /\ rcv[c][k].frame.req.client = c
        /\ rcv[c][k].frame.req.n = (k + 1) \div 2
        /\ rcv[c][k].last = (k % 2 = 0)
        /\ rcv[c][k].frame.detach => rcv[c][k].frame.req.op = "detach"

\* Once accepted, a client that keeps to one request at a time and hangs on is
\* served until the server ends.
KeepsClients ==
    [][\A c \in Clients :
         link[c] = "open" /\ link'[c] = "closed"
         => c \notin alive \/ Outstanding(c) > 1 \/ pc' = "stopped"]_vars

\* A server that ends because somebody quit has delivered, to every client it
\* still served, the response to each request of it that was executed.
QuitDrains ==
    [][(Running /\ pc' = "stopped" /\ ~interrupted') =>
         \A i \in Slot : (fd[i] # None /\ fd[i] \in alive) =>
             Len(rcv[fd[i]]) = 2 * Len(done[fd[i]])]_vars

\* A client waits for answers, and is still served.
Waits(c) ==
    /\ Frames(rcv[c]) < sent[c]
    /\ c \in alive /\ link[c] # "closed" /\ ~quit

\* Every request is answered in the end, unless its connection is gone: as the
\* requests are bounded, there comes a time when none is left to answer.
RequestsAnswered == (\E c \in Clients : Waits(c)) ~> (\A c \in Clients : ~Waits(c))

\* Once a client quits the editor, the server ends.
QuitStops == quit ~> pc = "stopped"

=============================================================================
