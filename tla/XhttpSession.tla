---------------------------- MODULE XhttpSession ----------------------------
(***************************************************************************)
(* The server side of one XHTTP session id (transport/internet/splithttp,   *)
(* hub.go and upload_queue.go): POSTs push numbered packets, or one request *)
(* body, into the upload queue; the GET makes a connection of the queue,    *)
(* which a worker reads; a session without its GET is reaped after 30 s.    *)
(*                                                                          *)
(* upsertSession may make several sessions of one id, one after the other.  *)
(* Byte i of the client's upload is the number i; packet n carries the      *)
(* bytes n * PayloadLen .. (n + 1) * PayloadLen - 1.                        *)
(***************************************************************************)
EXTENDS Integers, Sequences, FiniteSets

CONSTANTS
    Posts,        \* POST requests: [kind, seq, copy]
    None,
    MaxSessions,  \* bound: sessions made of the id
    PayloadLen,   \* bytes of one packet
    maxPackets,   \* capacity of the channel, and limit of the heap
    WorkerQuits,  \* the worker may end before the upload does
    Timers        \* the 30 s of a session may pass before its GET arrives

PostsAssumption ==
    /\ \A p \in Posts : p.kind \in {"data", "stream"} /\ p.seq \in Nat
    /\ \A p, o \in Posts : p.kind = o.kind
    /\ MaxSessions \in Nat /\ PayloadLen \in Nat \ {0} /\ maxPackets \in Nat
    /\ None \notin Posts /\ None \notin {"post", "reaper", "get", "worker"}

VARIABLES
    sessions,   \* the session in the map, 0: none
    made,       \* sessions made
    q,          \* q[s]: the upload queue of session s
    connected,  \* sessions whose isFullyConnected is closed
    reaper,     \* reaper[s]: the goroutine that waits for the GET
    post,       \* post[p]: where request p is, and its session
    get,        \* the GET request, and its session
    worker,     \* the goroutine that serves the connection
    rd,         \* where Read of the queue is, and the packet it holds
    delivered,  \* bytes read
    shut        \* stream POSTs whose httpServerConn is closed

vars == <<sessions, made, q, connected, reaper, post, get, worker, rd,
          delivered, shut>>

Ids == 1 .. MaxSessions
NewUploadQueue == [chan |-> <<>>, open |-> TRUE, heap |-> {}, nextSeq |-> 0,
                   closed |-> FALSE, nomore |-> FALSE, reader |-> None,
                   lock |-> None]

Init ==
    /\ sessions = 0
    /\ made = 0
    /\ q = [s \in Ids |-> NewUploadQueue]
    /\ connected = {}
    /\ reaper = [s \in Ids |-> "none"]
    /\ post = [p \in Posts |-> [pc |-> "new", s |-> 0]]
    /\ get = [pc |-> "new", s |-> 0]
    /\ worker = "none"
    /\ rd = [pc |-> "off", packet |-> None]
    /\ delivered = <<>>
    /\ shut = {}

Packet(p) == [post |-> p, seq |-> p.seq, from |-> 0]
Held(s, who) == q[s].lock = who
PGoto(p, pc) == post' = [post EXCEPT ![p].pc = pc]

\* upsertSession: the session of the map, or a new one with its reaper.
upsertSession(s) ==
    \/ /\ sessions # 0
       /\ s = sessions
       /\ UNCHANGED <<sessions, made, reaper>>
    \/ /\ sessions = 0
       /\ made < MaxSessions
       /\ s = made + 1
       /\ made' = s
       /\ sessions' = s
       /\ reaper' = [reaper EXCEPT ![s] = "wait"]

-----------------------------------------------------------------------------
(* POST *)
PostArrives(p) ==
    /\ post[p].pc = "new"
    /\ \E s \in Ids : upsertSession(s) /\ post' = [post EXCEPT ![p] =
                                            [pc |-> "push", s |-> s]]
    /\ UNCHANGED <<q, connected, get, worker, rd, delivered, shut>>

\* Push takes the lock and keeps it while the channel is full.
PushRefuses(u) == u.closed \/ u.nomore
Push(p) ==
    LET s == post[p].s
    IN  /\ post[p].pc = "push"
        /\ Held(s, None)
        /\ IF PushRefuses(q[s])
           THEN /\ PGoto(p, "refused")
                /\ shut' = IF p.kind = "stream" THEN shut \cup {p} ELSE shut
                /\ UNCHANGED q
           ELSE /\ q' = [q EXCEPT ![s].lock = "post",
                                  ![s].nomore = p.kind = "stream"]
                /\ PGoto(p, "send")
                /\ UNCHANGED shut
        /\ UNCHANGED <<sessions, made, connected, reaper, get, worker, rd,
                       delivered>>

Full(chan) == Len(chan) >= maxPackets
PushSend(p) ==
    LET s == post[p].s
    IN  /\ post[p].pc = "send"
        /\ ~Full(q[s].chan)
        /\ q' = [q EXCEPT ![s].chan = Append(@, Packet(p)), ![s].lock = None]
        /\ PGoto(p, IF p.kind = "stream" THEN "stream" ELSE "ok")
        /\ UNCHANGED <<sessions, made, connected, reaper, get, worker, rd,
                       delivered, shut>>

\* A stream POST lasts until its connection is closed, by the queue or
\* because the client leaves.
StreamEnds(p) ==
    /\ post[p].pc = "stream"
    /\ p \in shut
    /\ PGoto(p, "ok")
    /\ UNCHANGED <<sessions, made, q, connected, reaper, get, worker, rd,
                   delivered, shut>>

StreamLeaves(p) ==
    /\ post[p].pc = "stream"
    /\ p \notin shut
    /\ shut' = shut \cup {p}
    /\ UNCHANGED <<sessions, made, q, connected, reaper, post, get, worker, rd,
                   delivered>>

-----------------------------------------------------------------------------
(* Close of the upload queue, by `who': the reaper, the worker or the GET.  *)
CloseLock(s, who) ==
    /\ Held(s, None)
    /\ q' = [q EXCEPT ![s].lock = who, ![s].closed = TRUE]

DrainedLost(reader, p) == reader
Drained(reader, p) == IF p.kind = "stream" THEN p ELSE reader
CloseDrain(s, who) ==
    /\ Held(s, who)
    /\ q[s].open
    /\ IF q[s].chan # <<>>
       THEN q' = [q EXCEPT ![s].chan = Tail(@),
                           ![s].reader = Drained(@, Head(q[s].chan).post)]
       ELSE q' = [q EXCEPT ![s].open = FALSE]

CloseReader(s, who) ==
    /\ Held(s, who)
    /\ ~q[s].open
    /\ q' = [q EXCEPT ![s].lock = None]
    /\ shut' = IF q[s].reader = None THEN shut ELSE shut \cup {q[s].reader}

-----------------------------------------------------------------------------
(* The reaper: both channels may be ready, and then select takes either.    *)
Reaper(s) ==
    \/ /\ reaper[s] = "wait"
       /\ s \in connected
       /\ reaper' = [reaper EXCEPT ![s] = "done"]
       /\ UNCHANGED <<sessions, q, shut>>
    \/ /\ reaper[s] = "wait"
       /\ Timers
       /\ sessions' = 0
       /\ reaper' = [reaper EXCEPT ![s] = "close"]
       /\ UNCHANGED <<q, shut>>
    \/ /\ reaper[s] = "close"
       /\ CloseLock(s, "reaper")
       /\ reaper' = [reaper EXCEPT ![s] = "drain"]
       /\ UNCHANGED <<sessions, shut>>
    \/ /\ reaper[s] = "drain"
       /\ CloseDrain(s, "reaper")
       /\ UNCHANGED <<sessions, reaper, shut>>
    \/ /\ reaper[s] = "drain"
       /\ CloseReader(s, "reaper")
       /\ reaper' = [reaper EXCEPT ![s] = "done"]
       /\ UNCHANGED sessions
ReaperStep(s) ==
    /\ Reaper(s)
    /\ UNCHANGED <<made, connected, post, get, worker, rd, delivered>>

-----------------------------------------------------------------------------
(* GET, and the worker that serves the connection.  `closer' is a process   *)
(* in splitConn.Close: the writer first, then the queue.                    *)
Closing(s, closer, pc, goto) ==
    \/ /\ pc = "close" /\ goto = "drain"
       /\ CloseLock(s, closer)
       /\ UNCHANGED shut
    \/ /\ pc = "drain" /\ goto = "drain"
       /\ CloseDrain(s, closer)
       /\ UNCHANGED shut
    \/ /\ pc = "drain" /\ goto = "closed"
       /\ CloseReader(s, closer)

GetArrives ==
    /\ get.pc = "new"
    /\ \E s \in Ids : upsertSession(s) /\ get' = [pc |-> "connect", s |-> s]
    /\ UNCHANGED <<q, connected, post, worker, rd, delivered, shut>>

GetConnects ==
    /\ get.pc = "connect"
    /\ connected' = connected \cup {get.s}
    /\ get' = [get EXCEPT !.pc = "serve"]
    /\ worker' = "serve"
    /\ UNCHANGED <<sessions, made, q, reaper, post, rd, delivered, shut>>

\* The client left, or the worker closed the writer.
GetEnds ==
    /\ get.pc = "serve"
    /\ get' = [get EXCEPT !.pc = "close"]
    /\ UNCHANGED <<sessions, made, q, connected, reaper, post, worker, rd,
                   delivered, shut>>

GetCloses ==
    /\ \E goto \in {"drain", "closed"} :
          /\ Closing(get.s, "get", get.pc, goto)
          /\ get' = [get EXCEPT !.pc = goto]
    /\ UNCHANGED <<sessions, made, connected, reaper, post, worker, rd,
                   delivered>>

\* The deferred Delete removes the id, whichever session it now names.
GetReturns ==
    /\ get.pc = "closed"
    /\ sessions' = 0
    /\ get' = [get EXCEPT !.pc = "done"]
    /\ UNCHANGED <<made, q, connected, reaper, post, worker, rd, delivered,
                   shut>>

WorkerEnds ==
    /\ worker = "serve"
    /\ rd.pc = "ended" \/ WorkerQuits
    /\ worker' = "close"
    /\ UNCHANGED <<sessions, made, q, connected, reaper, post, get, rd,
                   delivered, shut>>

WorkerCloses ==
    /\ \E goto \in {"drain", "closed"} :
          /\ Closing(get.s, "worker", worker, goto)
          /\ worker' = goto
    /\ UNCHANGED <<sessions, made, connected, reaper, post, get, rd,
                   delivered>>

-----------------------------------------------------------------------------
(* Read.  The reader takes no lock.                                         *)
RGoto(pc) == rd' = [pc |-> pc, packet |-> None]

\* What heap.Pop may return; of equal numbers the heap's shape decides.
Lowest(h) == {e \in h : \A o \in h : e.seq <= o.seq}

ReadBegins ==
    LET u == q[get.s]
    IN  /\ worker = "serve"
        /\ rd.pc = "off"
        /\ RGoto(CASE u.reader # None -> IF u.reader \in shut THEN "ended"
                                                              ELSE "off"
                   [] u.reader = None /\ u.closed -> "ended"
                   [] OTHER -> IF u.heap = {} THEN "first" ELSE "loop")
        /\ UNCHANGED <<q, delivered>>

\* Receive from the channel, which may be closed.
ReadReceives ==
    LET u == q[get.s]
    IN  /\ rd.pc \in {"first", "next"}
        /\ \/ /\ u.chan # <<>>
              /\ IF Head(u.chan).post.kind = "stream"
                 THEN /\ rd' = [pc |-> "stream", packet |-> Head(u.chan)]
                      /\ q' = [q EXCEPT ![get.s].chan = Tail(@)]
                 ELSE /\ RGoto("loop")
                      /\ q' = [q EXCEPT ![get.s].chan = Tail(@),
                                        ![get.s].heap = @ \cup {Head(u.chan)}]
           \/ /\ u.chan = <<>> /\ ~u.open
              /\ RGoto("ended")
              /\ UNCHANGED q
        /\ UNCHANGED delivered

ReadTakesBody ==
    /\ rd.pc = "stream"
    /\ q' = [q EXCEPT ![get.s].reader = rd.packet.post]
    /\ RGoto("off")
    /\ UNCHANGED delivered

\* The packet in turn, a part of it or all.
InTurnOrBefore(e, u) == e.seq <= u.nextSeq
InTurn(e, u) == e.seq = u.nextSeq
Rest(e) == PayloadLen - e.from
ReadCopies(e) ==
    LET u == q[get.s]
    IN  /\ rd.pc = "loop"
        /\ InTurn(e, u)
        /\ \E n \in 1 .. Rest(e) :
              /\ delivered' = delivered \o
                    [i \in 1 .. n |-> e.seq * PayloadLen + e.from + i - 1]
              /\ q' = IF n < Rest(e)
                      THEN [q EXCEPT ![get.s].heap =
                                (@ \ {e}) \cup {[e EXCEPT !.from = @ + n]}]
                      ELSE [q EXCEPT ![get.s].heap = @ \ {e},
                                     ![get.s].nextSeq = @ + 1]
        /\ RGoto("off")

\* A packet ahead of its turn waits in the heap; one that was read is
\* dropped.
MisorderedDropped(e, u) == FALSE
Misordered(e, u) == e.seq > u.nextSeq
ReadReorders(e) ==
    LET u == q[get.s]
    IN  /\ rd.pc = "loop"
        /\ ~InTurn(e, u)
        /\ IF Misordered(e, u)
           THEN /\ RGoto(IF Cardinality(u.heap) - 1 > maxPackets
                         THEN "ended" ELSE "next")
                /\ UNCHANGED q
           ELSE /\ q' = [q EXCEPT ![get.s].heap = @ \ {e}]
                /\ RGoto(IF u.heap = {e} THEN "off" ELSE "loop")
        /\ UNCHANGED delivered

Read ==
    /\ get.s # 0
    /\ \/ ReadBegins \/ ReadReceives \/ ReadTakesBody
       \/ \E e \in Lowest(q[get.s].heap) : ReadCopies(e) \/ ReadReorders(e)
    /\ UNCHANGED <<sessions, made, connected, reaper, post, get, worker, shut>>

-----------------------------------------------------------------------------
PostStep(p) == Push(p) \/ PushSend(p) \/ StreamEnds(p)
WorkerStep == WorkerEnds \/ WorkerCloses
GetStep == GetConnects \/ GetCloses \/ GetReturns

Next == \/ \E p \in Posts : PostArrives(p) \/ PostStep(p) \/ StreamLeaves(p)
        \/ \E s \in Ids : ReaperStep(s)
        \/ GetArrives \/ GetEnds \/ GetStep
        \/ WorkerStep
        \/ Read

\* Goroutines that can go on do; the worker ends when the reading does and
\* the client ends its GET when the server closed the response.
Fairness ==
    /\ \A p \in Posts : WF_vars(PostStep(p))
    /\ \A s \in Ids : WF_vars(ReaperStep(s))
    /\ WF_vars(GetStep)
    /\ WF_vars(GetEnds /\ worker \in {"close", "drain", "closed"})
    /\ WF_vars(WorkerStep)
    /\ WF_vars(Read)

Spec == Init /\ [][Next]_vars
FairSpec == Spec /\ Fairness

-----------------------------------------------------------------------------
\* Types, and the bounds of the buffers: the channel holds maxPackets, the
\* heap two more, and a queue that is closed has its flag set.
TypeOK ==
    /\ sessions \in 0 .. made
    /\ made \in 0 .. MaxSessions
    /\ \A s \in Ids :
          /\ Len(q[s].chan) <= maxPackets
          /\ Cardinality(q[s].heap) <= maxPackets + 2
          /\ ~q[s].open => q[s].closed /\ q[s].chan = <<>>
          /\ q[s].lock \in {None, "post", "reaper", "get", "worker"}
    /\ get.pc \in {"new", "connect", "serve", "close", "drain", "closed", "done"}
    /\ worker \in {"none", "serve", "close", "drain", "closed"}
    /\ rd.pc \in {"off", "first", "next", "loop", "stream", "ended"}
    /\ connected \subseteq 1 .. made
    /\ shut \subseteq Posts

\* The worker reads the client's bytes from the first on, in order and each
\* once, in whatever order the POSTs arrived and however Read cut them, also
\* when a packet comes twice, if Read takes it in one piece.
ReadInOrder == \A i \in 1 .. Len(delivered) : delivered[i] = i - 1

\* No request body is left open: once the GET and the worker have closed the
\* queue and no Read holds a packet, the stream POST the queue accepted has
\* been told to end, whether Read or Close took it from the channel.
BodyClosed ==
    get.pc = "done" /\ worker = "closed" /\ rd.pc # "stream" =>
        \A p \in DOMAIN post : post[p] = [pc |-> "stream", s |-> get.s] => p \in shut

\* The upload arrives: with a worker that reads to the end and a client that
\* keeps its GET, every byte the queue accepted in turn is read.
Accepted == {p \in Posts : post[p].pc = "ok" /\ post[p].s = get.s}
UploadArrives ==
    \A p \in Posts :
        (/\ get.pc = "serve"
         /\ \A o \in Posts : o.seq <= p.seq => o \in Accepted)
           ~> (\/ \E i \in 1 .. Len(delivered) :
                    delivered[i] = (p.seq + 1) * PayloadLen - 1
               \/ get.pc # "serve"
               \/ q[get.s].closed
               \/ rd.pc = "ended")

=============================================================================
