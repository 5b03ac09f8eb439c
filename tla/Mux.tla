--------------------------------- MODULE Mux ---------------------------------
(***************************************************************************)
(* One Mux connection (common/mux: client.go, server.go, session.go and     *)
(* writer.go): user connections share a link; each has a session at the     *)
(* client worker and one at the server worker, known by an id in frames.    *)
(*                                                                          *)
(* Byte i of user u is the pair <<u, i>>; the remote site answers with      *)
(* bytes of the same names.  Frames travel in order; the transport below    *)
(* may break.  A frame is looked up and written in two steps, because the   *)
(* session may be closed between them.                                      *)
(***************************************************************************)
EXTENDS Integers, Sequences, FiniteSets

CONSTANTS
    Users,
    None,
    IdSpace,         \* ids are counted modulo 2^16 in the code
    MaxConcurrency,  \* ClientStrategy, 0: no limit
    MaxConnection,   \* ClientStrategy, 0: no limit
    MaxBytes,        \* bound: bytes of one user or site
    MaxFrames,       \* bound: frames on their way when data is sent
    Events           \* of "break" (the transport), "refuse" (a dispatch of the
                     \* server fails) and "tick" (the 16 s of the monitor)

Ids == 0 .. IdSpace - 1
Bytes == Users \X (1 .. MaxBytes)
Frames == [kind : {"new", "keep", "end"}, id : Ids, target : Users \cup {None},
           data : Bytes \cup {None}]

ASSUME MuxAssumption ==
    /\ IdSpace \in Nat \ {0} /\ MaxConcurrency \in Nat
    /\ MaxConnection \in Nat /\ MaxBytes \in Nat /\ MaxFrames \in Nat
    /\ Events \subseteq {"break", "refuse", "tick"}
    /\ None \notin Users /\ None \notin Bytes /\ None \notin Frames

VARIABLES
    cm,       \* session manager of the client worker
    done,     \* ClientWorker.done is closed
    monitor,  \* where the monitor is
    usr,      \* usr[u]: Dispatch and fetchInput of user u, and its session
    rxc,      \* the frame fetchOutput works on, and the session it found
    sm,       \* session manager of the server worker
    srv,      \* srv[u]: handle of the server's session for user u
    rxs,      \* the frame the server works on, and the session it found
    up,       \* frames on the way to the server
    down,     \* frames on the way to the client
    link      \* link.up, link.down: the pipe takes frames

cvars == <<cm, done, monitor, usr, rxc>>
svars == <<sm, srv, rxs>>
vars == <<cvars, svars, up, down, link>>

NewSessionManager == [count |-> 0, map |-> [i \in Ids |-> None], closed |-> FALSE]
NoFrame == [frame |-> None, to |-> None]

Init ==
    /\ cm = NewSessionManager
    /\ done = FALSE
    /\ monitor = "watch"
    /\ usr = [u \in Users |-> [pc |-> "new", id |-> 0, sent |-> 0, got |-> <<>>,
                               closed |-> FALSE, linked |-> FALSE, cut |-> FALSE]]
    /\ rxc = NoFrame
    /\ sm = NewSessionManager
    /\ srv = [u \in Users |-> [pc |-> "none", id |-> 0, sent |-> 0, got |-> <<>>,
                               closed |-> FALSE, gone |-> FALSE]]
    /\ rxs = NoFrame
    /\ up = <<>>
    /\ down = <<>>
    /\ link = [up |-> TRUE, down |-> TRUE]

Frame(kind, id, u, data) == [kind |-> kind, id |-> id, target |-> u, data |-> data]
SendUp(f) == up' = IF link.up THEN Append(up, f) ELSE up
SendDown(f) == down' = IF link.down THEN Append(down, f) ELSE down

(* SessionManager and Session.Close.  A session interrupts its input and    *)
(* closes its output, if it has them already.                               *)
Size(m) == Cardinality({i \in Ids : m.map[i] # None})
Removed(m, x) == IF x.closed \/ m.closed THEN m ELSE [m EXCEPT !.map[x.id] = None]
ClosedUser(x) == IF x.closed THEN x
                 ELSE [x EXCEPT !.closed = TRUE, !.cut = x.linked]
ClosedSite(x) == [x EXCEPT !.closed = TRUE]
InMap(m, u) == \E i \in Ids : m.map[i] = u
ClosedManager(m) == IF m.closed THEN m
                    ELSE [m EXCEPT !.closed = TRUE, !.map = [i \in Ids |-> None]]

-----------------------------------------------------------------------------
(* ClientWorker.Dispatch: the limits, Allocate, then the session's ends.    *)
IsClosing == MaxConnection > 0 /\ cm.count >= MaxConnection
IsFull == \/ IsClosing
          \/ done
          \/ MaxConcurrency > 0 /\ Size(cm) >= MaxConcurrency
Dispatch(u) ==
    /\ usr[u].pc = "new"
    /\ usr' = [usr EXCEPT ![u].pc = IF IsFull THEN "refused" ELSE "checked"]
    /\ UNCHANGED <<cm, done, monitor, rxc, svars, up, down, link>>

NextIdOfSize == (Size(cm) + 1) % IdSpace
NextId == (cm.count + 1) % IdSpace
Allocate(u) ==
    /\ usr[u].pc = "checked"
    /\ IF cm.closed
       THEN usr' = [usr EXCEPT ![u].pc = "refused"] /\ UNCHANGED cm
       ELSE /\ cm' = [cm EXCEPT !.count = (@ + 1) % IdSpace, !.map[NextId] = u]
            /\ usr' = [usr EXCEPT ![u].pc = "alloc", ![u].id = NextId]
    /\ UNCHANGED <<done, monitor, rxc, svars, up, down, link>>

Link(u) ==
    /\ usr[u].pc = "alloc"
    /\ usr' = [usr EXCEPT ![u].pc = "first", ![u].linked = TRUE]
    /\ UNCHANGED <<cm, done, monitor, rxc, svars, up, down, link>>

\* fetchInput: the first frame opens the session, with data or, after 100
\* ms, without; the others carry data.
fetchInput(u) ==
    /\ usr[u].pc \in {"first", "copy"}
    /\ link.up /\ ~usr[u].cut /\ Len(up) < MaxFrames
    /\ LET data == <<u, usr[u].sent + 1>>
           kind == IF usr[u].pc = "first" THEN "new" ELSE "keep"
       IN  \/ /\ usr[u].sent < MaxBytes
              /\ SendUp(Frame(kind, usr[u].id, u, data))
              /\ usr' = [usr EXCEPT ![u].pc = "copy", ![u].sent = @ + 1]
           \/ /\ kind = "new"
              /\ SendUp(Frame(kind, usr[u].id, u, None))
              /\ usr' = [usr EXCEPT ![u].pc = "copy"]
    /\ UNCHANGED <<cm, done, monitor, rxc, svars, down, link>>

\* The user's input ends, was interrupted, or the link takes nothing more.
InputEnds(u) ==
    /\ usr[u].pc \in {"first", "copy"}
    /\ usr' = [usr EXCEPT ![u].pc = "end"]
    /\ UNCHANGED <<cm, done, monitor, rxc, svars, up, down, link>>

WriterClose(u) ==
    /\ usr[u].pc = "end"
    /\ SendUp(Frame("end", usr[u].id, u, None))
    /\ usr' = [usr EXCEPT ![u].pc = "close"]
    /\ UNCHANGED <<cm, done, monitor, rxc, svars, down, link>>

SessionClose(u) ==
    /\ usr[u].pc = "close"
    /\ cm' = Removed(cm, usr[u])
    /\ usr' = [usr EXCEPT ![u] = [ClosedUser(@) EXCEPT !.pc = "over"]]
    /\ UNCHANGED <<done, monitor, rxc, svars, up, down, link>>

-----------------------------------------------------------------------------
(* fetchOutput *)
FindKeepOnly(m, f) ==
    IF m.closed \/ f.kind # "keep" THEN None ELSE m.map[f.id]
Find(m, f) == IF m.closed \/ f.kind = "new" THEN None ELSE m.map[f.id]
ClientTake ==
    /\ rxc.frame = None /\ ~done
    /\ down # <<>>
    /\ rxc' = [frame |-> Head(down), to |-> Find(cm, Head(down))]
    /\ down' = Tail(down)
    /\ UNCHANGED <<cm, done, monitor, usr, svars, up, link>>

\* handleStatusKeep and handleStatusEnd.  An id nobody has is answered with
\* an end; a session that cannot take the data is closed.
ClientHandle ==
    LET f == rxc.frame
        u == rxc.to
    IN  /\ f # None
        /\ rxc' = NoFrame
        /\ \/ /\ u = None
              /\ IF f.kind = "keep" THEN SendUp(Frame("end", f.id, None, None))
                                    ELSE UNCHANGED up
              /\ UNCHANGED <<cm, usr>>
           \/ /\ u # None
              /\ IF f.kind = "keep" /\ ~usr[u].cut
                 THEN /\ usr' = [usr EXCEPT ![u].got = Append(@, f.data)]
                      /\ UNCHANGED cm
                 ELSE /\ cm' = Removed(cm, usr[u])
                      /\ usr' = [usr EXCEPT ![u] = ClosedUser(@)]
              /\ UNCHANGED up
        /\ UNCHANGED <<done, monitor, svars, down, link>>

\* The link was closed or broke: done is closed, here or where Process ends.
ClientEOF ==
    /\ ~done /\ rxc.frame = None
    /\ down = <<>> /\ ~link.down
    /\ done' = TRUE
    /\ UNCHANGED <<cm, monitor, usr, rxc, svars, up, down, link>>

\* monitor: every 16 s an idle worker is closed; a closed one is dismantled.
CloseIfNoSessionAny(m) == TRUE
CloseIfNoSession(m) == m.closed \/ Size(m) = 0
Monitor ==
    /\ \/ /\ monitor = "watch" /\ ~done /\ "tick" \in Events
          /\ Size(cm) = 0
          /\ monitor' = "idle"
          /\ UNCHANGED <<cm, done, usr, down, link>>
       \/ /\ monitor = "idle"
          /\ monitor' = "watch"
          /\ IF CloseIfNoSession(cm)
             THEN done' = TRUE /\ cm' = [cm EXCEPT !.closed = TRUE]
             ELSE UNCHANGED <<cm, done>>
          /\ UNCHANGED <<usr, down, link>>
       \/ /\ monitor = "watch" /\ done
          /\ monitor' = "over"
          /\ usr' = [u \in Users |-> IF ~cm.closed /\ InMap(cm, u)
                                     THEN ClosedUser(usr[u]) ELSE usr[u]]
          /\ cm' = ClosedManager(cm)
          /\ link' = [up |-> FALSE, down |-> FALSE]
          /\ down' = <<>>
          /\ UNCHANGED done
    /\ UNCHANGED <<rxc, svars, up>>

-----------------------------------------------------------------------------
(* ServerWorker.run: handleFrame *)
ServerTake ==
    /\ rxs.frame = None /\ ~sm.closed
    /\ up # <<>>
    /\ rxs' = [frame |-> Head(up), to |-> Find(sm, Head(up))]
    /\ up' = Tail(up)
    /\ UNCHANGED <<cvars, sm, srv, down, link>>

\* handleStatusNew, for a target that can be reached.
ServerNew ==
    LET f == rxs.frame
        u == f.target
    IN  /\ f # None /\ f.kind = "new"
        /\ sm' = [sm EXCEPT !.count = @ + 1, !.map[f.id] = u]
        /\ srv' = [srv EXCEPT ![u].pc = "handle", ![u].id = f.id,
                     ![u].got = IF f.data = None THEN @ ELSE Append(@, f.data)]
        /\ rxs' = NoFrame
        /\ UNCHANGED <<cvars, up, down, link>>

ServerHandle ==
    LET f == rxs.frame
        u == rxs.to
    IN  /\ f # None /\ f.kind # "new"
        /\ rxs' = NoFrame
        /\ \/ /\ u = None
              /\ IF f.kind = "keep" THEN SendDown(Frame("end", f.id, None, None))
                                    ELSE UNCHANGED down
              /\ UNCHANGED <<sm, srv>>
           \/ /\ u # None
              /\ IF f.kind = "keep" /\ ~srv[u].closed /\ ~srv[u].gone
                 THEN /\ srv' = [srv EXCEPT ![u].got = Append(@, f.data)]
                      /\ UNCHANGED sm
                 ELSE /\ sm' = Removed(sm, srv[u])
                      /\ srv' = [srv EXCEPT ![u] = ClosedSite(@)]
              /\ UNCHANGED down
        /\ UNCHANGED <<cvars, up, link>>

\* End of the link, or a request that could not be dispatched: run returns
\* and closes every session.
ServerEnds ==
    /\ ~sm.closed
    /\ \/ rxs.frame = None /\ up = <<>> /\ ~link.up
       \/ "refuse" \in Events /\ rxs.frame # None /\ rxs.frame.kind = "new"
    /\ srv' = [u \in Users |-> IF InMap(sm, u) THEN ClosedSite(srv[u])
                               ELSE srv[u]]
    /\ sm' = ClosedManager(sm)
    /\ rxs' = NoFrame
    /\ link' = [link EXCEPT !.up = FALSE]
    /\ up' = <<>>
    /\ UNCHANGED <<cvars, down>>

(* handle: what the site answers, then an end frame, then Session.Close.    *)
handle(u) ==
    /\ srv[u].pc = "handle"
    /\ srv[u].sent < MaxBytes /\ Len(down) < MaxFrames
    /\ ~srv[u].closed /\ ~srv[u].gone /\ link.down
    /\ SendDown(Frame("keep", srv[u].id, None, <<u, srv[u].sent + 1>>))
    /\ srv' = [srv EXCEPT ![u].sent = @ + 1]
    /\ UNCHANGED <<cvars, sm, rxs, up, link>>

SiteEnds(u) ==
    /\ srv[u].pc = "handle"
    /\ srv' = [srv EXCEPT ![u].pc = "end", ![u].gone = TRUE]
    /\ UNCHANGED <<cvars, sm, rxs, up, down, link>>

ResponseClose(u) ==
    /\ srv[u].pc = "end"
    /\ SendDown(Frame("end", srv[u].id, None, None))
    /\ srv' = [srv EXCEPT ![u].pc = "close"]
    /\ UNCHANGED <<cvars, sm, rxs, up, link>>

SiteClose(u) ==
    /\ srv[u].pc = "close"
    /\ sm' = Removed(sm, srv[u])
    /\ srv' = [srv EXCEPT ![u] = [ClosedSite(@) EXCEPT !.pc = "over"]]
    /\ UNCHANGED <<cvars, rxs, up, down, link>>

\* The transport below ends: frames on their way may be lost.
Break ==
    /\ "break" \in Events \/ ~link.up
    /\ link.up \/ link.down
    /\ link' = [up |-> FALSE, down |-> FALSE]
    /\ up' \in {up, <<>>}
    /\ down' \in {down, <<>>}
    /\ UNCHANGED <<cvars, svars>>

-----------------------------------------------------------------------------
UserStep(u) == \/ Dispatch(u) \/ Allocate(u) \/ Link(u)
               \/ WriterClose(u) \/ SessionClose(u)
InputStops(u) == InputEnds(u) /\ (usr[u].cut \/ ~link.up)
SiteStep(u) == ResponseClose(u) \/ SiteClose(u)
SiteStops(u) == SiteEnds(u) /\ (srv[u].closed \/ ~link.down)
ClientReads == ClientTake \/ ClientHandle \/ ClientEOF
ServerReads == ServerTake \/ ServerNew \/ ServerHandle \/ ServerEnds

Next == \/ \E u \in Users : \/ UserStep(u) \/ fetchInput(u) \/ InputEnds(u)
                            \/ handle(u) \/ SiteStep(u) \/ SiteEnds(u)
        \/ ClientReads \/ Monitor \/ ServerReads \/ Break

\* Goroutines that can go on do; a copy whose input was interrupted or whose
\* link is closed ends; the transport goes when its uplink is closed.  Users
\* and sites need not end, and the transport need not fail.
Fairness ==
    /\ \A u \in Users : /\ WF_vars(UserStep(u)) /\ WF_vars(InputStops(u))
                        /\ WF_vars(SiteStep(u)) /\ WF_vars(SiteStops(u))
    /\ WF_vars(ClientReads)
    /\ WF_vars(ServerReads)
    /\ WF_vars(Monitor)
    /\ WF_vars(Break /\ ~link.up)

Spec == Init /\ [][Next]_vars
FairSpec == Spec /\ Fairness

-----------------------------------------------------------------------------
\* Types, and the maps: a session that is open at the client is in the map
\* under its own id.
TypeOK ==
    /\ cm.count \in Ids
    /\ cm.map \in [Ids -> Users \cup {None}]
    /\ sm.map \in [Ids -> Users \cup {None}]
    /\ \A u \in Users :
          /\ usr[u].id \in Ids
          /\ usr[u].sent \in 0 .. MaxBytes /\ srv[u].sent \in 0 .. MaxBytes
          /\ usr[u].pc \in {"alloc", "first", "copy", "end", "close"}
                /\ ~usr[u].closed => cm.map[usr[u].id] = u
    /\ monitor \in {"watch", "idle", "over"}
    /\ done \in BOOLEAN

\* No crosstalk: what a site or a user gets are the other's own bytes, from
\* the first on and in order, whatever sessions were closed meanwhile.
NoCrosstalk ==
    \A u \in Users :
        /\ srv[u].got = [i \in 1 .. Len(srv[u].got) |-> <<u, i>>]
        /\ usr[u].got = [i \in 1 .. Len(usr[u].got) |-> <<u, i>>]

\* What a user writes reaches that user's session and no other (the ids of
\* SessionManager.Allocate, and Get).
SessionsApart == TypeOK /\ NoCrosstalk

\* A worker that was closed, because it was idle or because the link went,
\* left no session open, not even one allocated at that moment.
ClosedWorkerHasNoSession ==
    cm.closed => \A u \in Users :
        usr[u].pc \in {"alloc", "first", "copy", "end", "close"} => usr[u].closed

\* A session that is over at one end goes away at the other, whether an end
\* frame arrives or the link breaks.
BothEnds ==
    \A u \in Users :
        /\ usr[u].pc = "over" ~> srv[u].pc \in {"none", "over"}
        /\ srv[u].pc = "over" ~> usr[u].pc = "over"

=============================================================================
