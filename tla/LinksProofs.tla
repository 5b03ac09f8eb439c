----------------------------- MODULE LinksProofs -----------------------------
(***************************************************************************)
(* What is proved about the links of an inbound or outbound.                *)
(*                                                                          *)
(* Mux: the sessions of both ends, the frames on their way and the bytes in *)
(* them (MuxInv), for every number of users below the number of ids, and    *)
(* from it that sessions are kept apart and a closed worker has none.       *)
(*                                                                          *)
(* UdpWorker, instantiated as Udp: types, one chain of executions, and no   *)
(* stale entry.                                                             *)
(*                                                                          *)
(* Kcp, instantiated as Kcp: the numbers of both ends and of the packets    *)
(* between them (KcpInv), and from it that acknowledgements are true and    *)
(* that written segments have an updater.                                   *)
(***************************************************************************)
EXTENDS Links, FiniteSetTheorems, WellFoundedInduction, TLAPS

-----------------------------------------------------------------------------
(* Mux *)

\* Fewer sessions are opened than there are ids: no id is given out twice
\* (ClientStrategy.MaxConnection is 128, ids have 16 bits).
FewSessions == IsFiniteSet(Users) /\ Cardinality(Users) < IdSpace

UserPcs == {"new", "checked", "refused", "alloc", "first", "copy", "end",
            "close", "over"}
Sending == {"copy", "end", "close", "over"}
Linked == Sending \cup {"first"}
Allocated == {u \in Users : usr[u].pc \in Linked \cup {"alloc"}}

\* The frame a worker has taken and those on their way to it, in order.
Waiting(rx, q) == (IF rx.frame = None THEN <<>> ELSE <<rx.frame>>) \o q
UpFrames == Waiting(rxs, up)
DownFrames == Waiting(rxc, down)

UserStates == [pc : UserPcs, id : Ids, sent : 0 .. MaxBytes, got : Seq(Bytes),
               closed : BOOLEAN, linked : BOOLEAN, cut : BOOLEAN]
SiteStates == [pc : {"none", "handle", "end", "close", "over"}, id : Ids,
               sent : 0 .. MaxBytes, got : Seq(Bytes), closed : BOOLEAN,
               gone : BOOLEAN]
MuxTypes ==
    /\ cm \in [count : Ids, map : [Ids -> Users \cup {None}], closed : BOOLEAN]
    /\ sm \in [count : Nat, map : [Ids -> Users \cup {None}], closed : BOOLEAN]
    /\ done \in BOOLEAN /\ monitor \in {"watch", "idle", "over"}
    /\ usr \in [Users -> UserStates] /\ srv \in [Users -> SiteStates]
    /\ rxc \in [frame : Frames \cup {None}, to : Users \cup {None}]
    /\ rxs \in [frame : Frames \cup {None}, to : Users \cup {None}]
    /\ up \in Seq(Frames) /\ down \in Seq(Frames)
    /\ link \in [up : BOOLEAN, down : BOOLEAN]

\* The sessions of the client: ids are counted, every session has its own, and
\* the map holds exactly the open ones.
ClientSessions ==
    /\ cm.count = Cardinality(Allocated)
    /\ \A u \in Allocated : usr[u].id <= cm.count
    /\ \A u, v \in Allocated : usr[u].id = usr[v].id => u = v
    /\ \A i \in Ids : cm.map[i] # None => /\ cm.map[i] \in Allocated
                                          /\ usr[cm.map[i]].id = i
                                          /\ ~usr[cm.map[i]].closed
    /\ \A u \in Allocated : ~usr[u].closed => cm.map[usr[u].id] = u
    /\ cm.closed => \A i \in Ids : cm.map[i] = None
    /\ \A u \in Users : /\ usr[u].linked <=> usr[u].pc \in Linked
                        /\ usr[u].closed => u \in Allocated
                        /\ usr[u].pc = "over" => usr[u].closed
                        /\ usr[u].pc \notin Sending => usr[u].sent = 0

\* The sessions of the server: one that was opened has the id of its user, and
\* the map holds exactly the open ones.
ServerSessions ==
    /\ \A i \in Ids : sm.map[i] # None => /\ srv[sm.map[i]].pc # "none"
                                          /\ srv[sm.map[i]].id = i
                                          /\ ~srv[sm.map[i]].closed
    /\ \A u \in Users :
          IF srv[u].pc = "none"
          THEN srv[u].got = <<>> /\ srv[u].sent = 0 /\ ~srv[u].closed
          ELSE /\ usr[u].pc \in Sending /\ srv[u].id = usr[u].id
               /\ ~srv[u].closed => sm.map[srv[u].id] = u
    /\ sm.closed => \A i \in Ids : sm.map[i] = None
    /\ rxs.frame # None => ~sm.closed

\* What is on its way to the server: data of a session carries its id and comes
\* after the frame that opens it, which is sent once.
OpensAt(q, k, u) == q[k].kind = "new" /\ q[k].target = u
FramesUpOf(q, x, y) ==
    \A k \in 1 .. Len(q) :
       /\ q[k].kind = "end" => q[k].data = None
       /\ q[k].kind = "new" =>
             /\ q[k].target \in Users /\ x[q[k].target].pc \in Sending
             /\ q[k].id = x[q[k].target].id /\ y[q[k].target].pc = "none"
             /\ q[k].data \in {None, <<q[k].target, 1>>}
             /\ \A j \in 1 .. k - 1 : ~OpensAt(q, j, q[k].target)
       /\ q[k].kind = "keep" =>
             /\ q[k].data # None /\ x[q[k].data[1]].pc \in Sending
             /\ q[k].id = x[q[k].data[1]].id
             /\ y[q[k].data[1]].pc = "none" =>
                   \E j \in 1 .. k - 1 : OpensAt(q, j, q[k].data[1])
FramesUp == FramesUpOf(UpFrames, usr, srv)

\* A session that sends was opened at the server, or will be.
OpenedUp ==
    link.up => \A u \in Users :
       usr[u].pc = "copy" /\ srv[u].pc = "none" =>
          \E j \in 1 .. Len(UpFrames) : OpensAt(UpFrames, j, u)

\* What is on its way to the client: data of a session that was opened.
FramesDownOf(q, y) ==
    \A k \in 1 .. Len(q) :
       /\ q[k].kind # "new"
       /\ q[k].kind = "end" => q[k].data = None
       /\ q[k].kind = "keep" => /\ q[k].data # None /\ y[q[k].data[1]].pc # "none"
                                /\ q[k].id = y[q[k].data[1]].id
FramesDown == FramesDownOf(DownFrames, srv)

\* The session found for a frame is the one of its id; a frame of data for
\* which none was found had a session that is closed.
FoundUp ==
    /\ rxs.to # None => /\ rxs.frame # None /\ rxs.frame.kind # "new"
                        /\ srv[rxs.to].pc # "none"
                        /\ srv[rxs.to].id = rxs.frame.id
    /\ rxs.frame # None /\ rxs.to = None =>
          (rxs.frame.kind = "keep" => srv[rxs.frame.data[1]].closed)

FoundDown ==
    /\ rxc.to # None => /\ rxc.frame # None /\ rxc.to \in Allocated
                        /\ usr[rxc.to].id = rxc.frame.id
                        /\ rxc.frame.kind = "keep" /\ usr[rxc.to].closed
                              => usr[rxc.to].cut
    /\ rxc.frame # None /\ rxc.to = None =>
          (rxc.frame.kind = "keep" => usr[rxc.frame.data[1]].closed)

\* The bytes of u among the frames q go on where `got' ends and come in order;
\* while the session at the end takes them none is missing, and while the link
\* is up the last one sent is among them.
Carries(f, u) == f.data # None /\ f.data[1] = u
Onward(q, u, sent, got, takes, alive) ==
    /\ \A k \in 1 .. Len(q) : Carries(q[k], u) =>
          q[k].data[2] \in Len(got) + 1 .. sent
    /\ \A j, k \in 1 .. Len(q) : j < k /\ Carries(q[j], u) /\ Carries(q[k], u) =>
          q[j].data[2] < q[k].data[2]
    /\ takes => \A k \in 1 .. Len(q) :
          Carries(q[k], u) /\ q[k].data[2] # Len(got) + 1 =>
             \E j \in 1 .. k - 1 : /\ Carries(q[j], u)
                                   /\ q[j].data[2] = q[k].data[2] - 1
    /\ takes /\ alive /\ Len(got) # sent =>
          \E k \in 1 .. Len(q) : Carries(q[k], u) /\ q[k].data[2] = sent
    /\ Len(got) <= sent
    /\ \A i \in 1 .. Len(got) : got[i] = <<u, i>>

BytesUp == \A u \in Users : Onward(UpFrames, u, usr[u].sent, srv[u].got,
                                   ~srv[u].closed, link.up)
BytesDown == \A u \in Users : Onward(DownFrames, u, srv[u].sent, usr[u].got,
                                     ~usr[u].closed, link.down)

MuxInv == /\ MuxTypes /\ ClientSessions /\ ServerSessions
          /\ FramesUp /\ OpenedUp /\ FramesDown /\ FoundUp /\ FoundDown
          /\ BytesUp /\ BytesDown

\* What a frame that carries data carries.
LEMMA FrameData ==
    ASSUME NEW f \in Frames, f.data # None
    PROVE  f.data[1] \in Users /\ f.data[2] \in Nat
BY MuxAssumption DEF Frames, Bytes

\* A byte is sent.
LEMMA OnwardPut ==
    ASSUME NEW q \in Seq(Frames), NEW u \in Users, NEW sent \in Nat,
           NEW got \in Seq(Bytes), NEW takes \in BOOLEAN, NEW f \in Frames,
           Onward(q, u, sent, got, takes, TRUE), f.data = <<u, sent + 1>>,
           sent < MaxBytes
    PROVE  Onward(Append(q, f), u, sent + 1, got, takes, TRUE)
<1> DEFINE r == Append(q, f)
<1>1. /\ Len(r) = Len(q) + 1 /\ r[Len(r)] = f /\ Len(q) \in Nat /\ Len(got) \in Nat
      /\ \A k \in 1 .. Len(q) : r[k] = q[k] /\ q[k] \in Frames
  OBVIOUS
<1>2. f.data[1] = u /\ f.data[2] = sent + 1
  OBVIOUS
<1>2a. Carries(f, u)
  <2>1. f.data # None
    <3>1. <<u, sent + 1>> \in Bytes
      BY MuxAssumption DEF Bytes
    <3> QED
      BY <3>1, MuxAssumption
  <2> QED
    BY <1>2, <2>1 DEF Carries
<1>3. \A k \in 1 .. Len(q) : Carries(q[k], u) =>
         q[k].data[2] \in Nat /\ q[k].data[2] \in Len(got) + 1 .. sent
  BY <1>1, FrameData DEF Onward, Carries
<1> HIDE DEF r
<1>4. \A k \in 1 .. Len(r) : Carries(r[k], u) => r[k].data[2] \in Len(got) + 1 .. sent + 1
  <2> SUFFICES ASSUME NEW k \in 1 .. Len(r), Carries(r[k], u)
               PROVE  r[k].data[2] \in Len(got) + 1 .. sent + 1
    OBVIOUS
  <2>1. Len(got) <= sent /\ Len(got) \in Nat
    BY DEF Onward
  <2>2. CASE k = Len(r)
    BY <1>1, <1>2, <2>1, <2>2
  <2>3. CASE k # Len(r)
    <3>1. k \in 1 .. Len(q) /\ r[k] = q[k]
      BY <1>1, <2>3
    <3> QED
      BY <1>3, <3>1
  <2> QED
    BY <2>2, <2>3
<1>5. \A j, k \in 1 .. Len(r) : j < k /\ Carries(r[j], u) /\ Carries(r[k], u) =>
         r[j].data[2] < r[k].data[2]
  <2> SUFFICES ASSUME NEW j \in 1 .. Len(r), NEW k \in 1 .. Len(r), j < k,
                      Carries(r[j], u), Carries(r[k], u)
               PROVE  r[j].data[2] < r[k].data[2]
    OBVIOUS
  <2>1. CASE k = Len(r)
    <3>1. r[k].data[2] = sent + 1
      BY <1>1, <1>2, <2>1
    <3>2. j \in 1 .. Len(q) /\ r[j] = q[j] /\ Carries(q[j], u)
      BY <1>1, <2>1
    <3>3. q[j].data[2] \in Nat /\ q[j].data[2] <= sent
      BY <1>3, <3>2
    <3> QED
      BY <3>1, <3>2, <3>3
  <2>2. CASE k # Len(r)
    <3>0. Len(r) = Len(q) + 1 /\ Len(q) \in Nat
      BY <1>1
    <3>1. j \in 1 .. Len(q) /\ k \in 1 .. Len(q)
      BY <2>2, <3>0
    <3>2. r[j] = q[j] /\ r[k] = q[k]
      BY <1>1, <3>1
    <3> QED
      BY <3>1, <3>2 DEF Onward
  <2> QED
    BY <2>1, <2>2
<1>6. ASSUME takes, NEW k \in 1 .. Len(r), Carries(r[k], u),
             r[k].data[2] # Len(got) + 1
      PROVE  \E j \in 1 .. k - 1 : Carries(r[j], u) /\ r[j].data[2] = r[k].data[2] - 1
  <2>1. CASE k = Len(r)
    <3>0. Len(r) = Len(q) + 1 /\ Len(q) \in Nat /\ r[k].data[2] = sent + 1
      BY <1>1, <1>2, <2>1
    <3>1. PICK j \in 1 .. Len(q) : Carries(q[j], u) /\ q[j].data[2] = sent
      BY <1>1, <1>2, <1>6, <2>1 DEF Onward
    <3>2. j \in 1 .. k - 1
      BY <2>1, <3>0
    <3>2a. r[k].data[2] - 1 = sent
      BY <3>0
    <3>3. r[j] = q[j]
      BY <1>1, <3>1
    <3> QED
      BY <3>1, <3>2, <3>2a, <3>3
  <2>2. CASE k # Len(r)
    <3>1. k \in 1 .. Len(q) /\ r[k] = q[k]
      BY <1>1, <2>2
    <3>2. PICK j \in 1 .. k - 1 : Carries(q[j], u) /\ q[j].data[2] = q[k].data[2] - 1
      BY <1>6, <3>1 DEF Onward
    <3> QED
      BY <1>1, <3>1, <3>2
  <2> QED
    BY <2>1, <2>2
<1>7. \E k \in 1 .. Len(r) : Carries(r[k], u) /\ r[k].data[2] = sent + 1
  BY <1>1, <1>2, <1>2a
<1>8. Len(got) <= sent + 1 /\ \A i \in 1 .. Len(got) : got[i] = <<u, i>>
  BY <1>1 DEF Onward
<1>9. Onward(r, u, sent + 1, got, takes, TRUE)
  BY <1>4, <1>5, <1>6, <1>7, <1>8 DEF Onward
<1> QED
  BY <1>9 DEF r

\* A frame without a byte of u is sent.
LEMMA OnwardOther ==
    ASSUME NEW q \in Seq(Frames), NEW u \in Users, NEW sent \in Nat,
           NEW got \in Seq(Bytes), NEW takes \in BOOLEAN, NEW alive \in BOOLEAN,
           NEW f \in Frames, Onward(q, u, sent, got, takes, alive), ~Carries(f, u)
    PROVE  Onward(Append(q, f), u, sent, got, takes, alive)
<1> DEFINE r == Append(q, f)
<1>1. /\ Len(r) = Len(q) + 1 /\ r[Len(r)] = f /\ Len(q) \in Nat
      /\ \A k \in 1 .. Len(q) : r[k] = q[k]
  OBVIOUS
<1> HIDE DEF r
<1>2. \A k \in 1 .. Len(r) : Carries(r[k], u) => k \in 1 .. Len(q) /\ r[k] = q[k]
  BY <1>1
<1>3. ASSUME takes, NEW k \in 1 .. Len(r), Carries(r[k], u),
             r[k].data[2] # Len(got) + 1
      PROVE  \E j \in 1 .. k - 1 : Carries(r[j], u) /\ r[j].data[2] = r[k].data[2] - 1
  <2>1. k \in 1 .. Len(q) /\ r[k] = q[k]
    BY <1>2, <1>3
  <2>2. PICK j \in 1 .. k - 1 : Carries(q[j], u) /\ q[j].data[2] = q[k].data[2] - 1
    BY <1>3, <2>1 DEF Onward
  <2> QED
    BY <1>1, <2>1, <2>2
<1>4. ASSUME takes, alive, Len(got) # sent
      PROVE  \E k \in 1 .. Len(r) : Carries(r[k], u) /\ r[k].data[2] = sent
  <2>1. PICK k \in 1 .. Len(q) : Carries(q[k], u) /\ q[k].data[2] = sent
    BY <1>4 DEF Onward
  <2> QED
    BY <1>1, <2>1
<1>5. Onward(r, u, sent, got, takes, alive)
  BY <1>2, <1>3, <1>4 DEF Onward
<1> QED
  BY <1>5 DEF r

\* Frames at the end are lost, and the link is not up any more.
LEMMA OnwardLost ==
    ASSUME NEW q \in Seq(Frames), NEW u \in Users, NEW sent \in Nat,
           NEW got \in Seq(Bytes), NEW takes \in BOOLEAN, NEW alive \in BOOLEAN,
           Onward(q, u, sent, got, takes, alive),
           NEW r \in Seq(Frames), Len(r) <= Len(q),
           \A k \in 1 .. Len(r) : r[k] = q[k]
    PROVE  Onward(r, u, sent, got, takes, FALSE)
<1>1. \A k \in 1 .. Len(r) : k \in 1 .. Len(q) /\ r[k] = q[k]
  OBVIOUS
<1>2. ASSUME takes, NEW k \in 1 .. Len(r), Carries(r[k], u),
             r[k].data[2] # Len(got) + 1
      PROVE  \E j \in 1 .. k - 1 : Carries(r[j], u) /\ r[j].data[2] = r[k].data[2] - 1
  <2>1. PICK j \in 1 .. k - 1 : Carries(q[j], u) /\ q[j].data[2] = q[k].data[2] - 1
    BY <1>1, <1>2 DEF Onward
  <2> QED
    BY <1>1, <2>1
<1> QED
  BY <1>1, <1>2 DEF Onward

\* A session that does not take bytes any more, or a link that is down.
LEMMA OnwardLess ==
    ASSUME NEW q, NEW u, NEW sent, NEW got, NEW takes \in BOOLEAN, NEW alive \in BOOLEAN,
           NEW takes2 \in BOOLEAN, NEW alive2 \in BOOLEAN,
           Onward(q, u, sent, got, takes, alive), takes2 => takes, alive2 => alive
    PROVE  Onward(q, u, sent, got, takes2, alive2)
BY DEF Onward

\* The first frame goes without being delivered: u's session is closed, or the
\* frame carries nothing of u.
LEMMA OnwardDrop ==
    ASSUME NEW q \in Seq(Frames), NEW u \in Users, NEW sent \in Nat,
           NEW got \in Seq(Bytes), NEW takes \in BOOLEAN, NEW alive \in BOOLEAN,
           Onward(q, u, sent, got, takes, alive), q # <<>>,
           Carries(q[1], u) => ~takes
    PROVE  Onward(Tail(q), u, sent, got, takes, alive)
<1> DEFINE r == Tail(q)
<1>1. /\ Len(q) = Len(r) + 1 /\ Len(r) \in Nat
      /\ \A k \in 1 .. Len(r) : r[k] = q[k + 1] /\ k + 1 \in 1 .. Len(q)
  OBVIOUS
<1> HIDE DEF r
<1>2. \A k \in 1 .. Len(r) : Carries(r[k], u) => r[k].data[2] \in Len(got) + 1 .. sent
  BY <1>1 DEF Onward
<1>3. \A j, k \in 1 .. Len(r) : j < k /\ Carries(r[j], u) /\ Carries(r[k], u) =>
         r[j].data[2] < r[k].data[2]
  <2> SUFFICES ASSUME NEW j \in 1 .. Len(r), NEW k \in 1 .. Len(r), j < k,
                      Carries(r[j], u), Carries(r[k], u)
               PROVE  r[j].data[2] < r[k].data[2]
    OBVIOUS
  <2>1. j + 1 < k + 1 /\ r[j] = q[j + 1] /\ r[k] = q[k + 1]
        /\ j + 1 \in 1 .. Len(q) /\ k + 1 \in 1 .. Len(q)
    BY <1>1
  <2> QED
    BY <2>1 DEF Onward
<1>4. ASSUME takes, NEW k \in 1 .. Len(r), Carries(r[k], u),
             r[k].data[2] # Len(got) + 1
      PROVE  \E j \in 1 .. k - 1 : Carries(r[j], u) /\ r[j].data[2] = r[k].data[2] - 1
  <2>1. k + 1 \in 1 .. Len(q) /\ r[k] = q[k + 1]
    BY <1>1
  <2>2. PICK j \in 1 .. k : Carries(q[j], u) /\ q[j].data[2] = q[k + 1].data[2] - 1
    <3>1. \A i \in 1 .. Len(q) : Carries(q[i], u) /\ q[i].data[2] # Len(got) + 1 =>
             \E h \in 1 .. i - 1 : Carries(q[h], u) /\ q[h].data[2] = q[i].data[2] - 1
      BY <1>4 DEF Onward
    <3>2. \E h \in 1 .. (k + 1) - 1 : Carries(q[h], u) /\ q[h].data[2] = q[k + 1].data[2] - 1
      BY <1>4, <2>1, <3>1
    <3>3. (k + 1) - 1 = k
      OBVIOUS
    <3> QED
      BY <3>2, <3>3
  <2>3. j # 1
    <3>1. Carries(q[j], u)
      BY <2>2
    <3>2. ~Carries(q[1], u)
      BY <1>4
    <3> QED
      BY <3>1, <3>2, Zenon
  <2>4. j - 1 \in 1 .. k - 1 /\ r[j - 1] = q[j]
    BY <1>1, <2>3
  <2> QED
    BY <2>1, <2>2, <2>4
<1>5. ASSUME takes, alive, Len(got) # sent
      PROVE  \E k \in 1 .. Len(r) : Carries(r[k], u) /\ r[k].data[2] = sent
  <2>1. PICK k \in 1 .. Len(q) : Carries(q[k], u) /\ q[k].data[2] = sent
    BY <1>5 DEF Onward
  <2>2. k # 1
    BY <1>5, <2>1
  <2>3. k - 1 \in 1 .. Len(r) /\ r[k - 1] = q[k]
    BY <1>1, <2>2
  <2> QED
    BY <2>1, <2>3
<1>6. Onward(r, u, sent, got, takes, alive)
  BY <1>2, <1>3, <1>4, <1>5 DEF Onward
<1> QED
  BY <1>6 DEF r

\* The first frame is delivered to a session that takes it: it is the byte
\* after the last one, and the rest goes on from there.
LEMMA OnwardDeliver ==
    ASSUME NEW q \in Seq(Frames), NEW u \in Users, NEW sent \in Nat,
           NEW got \in Seq(Bytes), NEW alive \in BOOLEAN,
           Onward(q, u, sent, got, TRUE, alive), q # <<>>, Carries(q[1], u)
    PROVE  /\ q[1].data \in Bytes
           /\ Onward(Tail(q), u, sent, Append(got, q[1].data), TRUE, alive)
<1> DEFINE r == Tail(q)
           n == q[1].data[2]
           h == Append(got, q[1].data)
<1>1. /\ Len(q) = Len(r) + 1 /\ Len(r) \in Nat /\ 1 \in 1 .. Len(q) /\ q[1] \in Frames
      /\ \A k \in 1 .. Len(r) : r[k] = q[k + 1] /\ k + 1 \in 1 .. Len(q)
  OBVIOUS
<1>2. q[1].data # None /\ q[1].data[1] = u
  BY DEF Carries
<1>3. q[1].data \in Bytes /\ q[1].data = <<u, n>> /\ n \in Nat
  BY <1>1, <1>2 DEF Frames, Bytes
<1>4. n = Len(got) + 1 /\ n <= sent
  BY <1>1 DEF Onward
<1>5. /\ Len(h) = Len(got) + 1 /\ h[Len(h)] = <<u, n>> /\ Len(got) \in Nat
      /\ \A i \in 1 .. Len(got) : h[i] = got[i]
  BY <1>3
<1>6. \A k \in 1 .. Len(r) : r[k] \in Frames /\ (Carries(r[k], u) => r[k].data[2] \in Nat)
  BY <1>1, FrameData DEF Carries
<1> HIDE DEF r, n, h
<1>7. \A k \in 1 .. Len(r) : Carries(r[k], u) => r[k].data[2] \in Len(h) + 1 .. sent
  <2> SUFFICES ASSUME NEW k \in 1 .. Len(r), Carries(r[k], u)
               PROVE  r[k].data[2] \in Len(h) + 1 .. sent
    OBVIOUS
  <2>1. r[k] = q[k + 1] /\ k + 1 \in 1 .. Len(q) /\ 1 < k + 1
    BY <1>1
  <2>2. n < r[k].data[2] /\ r[k].data[2] \in Len(got) + 1 .. sent
    BY <1>1, <2>1 DEF Onward, n
  <2> QED
    BY <1>4, <1>5, <1>6, <2>2
<1>8. \A j, k \in 1 .. Len(r) : j < k /\ Carries(r[j], u) /\ Carries(r[k], u) =>
         r[j].data[2] < r[k].data[2]
  <2> SUFFICES ASSUME NEW j \in 1 .. Len(r), NEW k \in 1 .. Len(r), j < k,
                      Carries(r[j], u), Carries(r[k], u)
               PROVE  r[j].data[2] < r[k].data[2]
    OBVIOUS
  <2>1. j + 1 < k + 1 /\ r[j] = q[j + 1] /\ r[k] = q[k + 1]
        /\ j + 1 \in 1 .. Len(q) /\ k + 1 \in 1 .. Len(q)
    BY <1>1
  <2> QED
    BY <2>1 DEF Onward
<1>9. ASSUME NEW k \in 1 .. Len(r), Carries(r[k], u), r[k].data[2] # Len(h) + 1
      PROVE  \E j \in 1 .. k - 1 : Carries(r[j], u) /\ r[j].data[2] = r[k].data[2] - 1
  <2>1. k + 1 \in 1 .. Len(q) /\ r[k] = q[k + 1]
    BY <1>1
  <2>2. r[k].data[2] \in Len(h) + 1 .. sent
    BY <1>7, <1>9
  <2>3. PICK j \in 1 .. k : Carries(q[j], u) /\ q[j].data[2] = q[k + 1].data[2] - 1
    <3>1. Carries(q[k + 1], u) /\ q[k + 1].data[2] # Len(got) + 1
      BY <1>5, <1>9, <2>1, <2>2
    <3>2. (k + 1) - 1 = k
      BY <1>1
    <3>3. \E i \in 1 .. (k + 1) - 1 :
             Carries(q[i], u) /\ q[i].data[2] = q[k + 1].data[2] - 1
      BY <2>1, <3>1 DEF Onward
    <3> QED
      BY <3>2, <3>3
  <2>4. j # 1
    <3>1. SUFFICES ASSUME j = 1 PROVE FALSE
      OBVIOUS
    <3>2. n = q[k + 1].data[2] - 1
      BY <2>3, <3>1 DEF n
    <3>3. r[k].data[2] = n + 1
      <4>1. r[k].data[2] \in Nat
        BY <1>6, <1>9
      <4>2. n = r[k].data[2] - 1
        BY <2>1, <3>2
      <4> QED
        BY <1>3, <4>1, <4>2
    <3> QED
      BY <1>4, <1>5, <1>9, <3>3
  <2>5. j - 1 \in 1 .. k - 1 /\ r[j - 1] = q[j]
    BY <1>1, <2>4
  <2> QED
    BY <2>1, <2>3, <2>5
<1>10. ASSUME alive, Len(h) # sent
       PROVE  \E k \in 1 .. Len(r) : Carries(r[k], u) /\ r[k].data[2] = sent
  <2>1. PICK k \in 1 .. Len(q) : Carries(q[k], u) /\ q[k].data[2] = sent
    BY <1>4, <1>5, <1>10 DEF Onward
  <2>2. k # 1
    BY <1>4, <1>5, <1>10, <2>1 DEF n
  <2>3. k - 1 \in 1 .. Len(r) /\ r[k - 1] = q[k]
    BY <1>1, <2>2
  <2> QED
    BY <2>1, <2>3
<1>11. Len(h) <= sent /\ \A i \in 1 .. Len(h) : h[i] = <<u, i>>
  BY <1>4, <1>5 DEF Onward
<1>12. Onward(r, u, sent, h, TRUE, alive)
  BY <1>7, <1>8, <1>9, <1>10, <1>11 DEF Onward
<1> QED
  BY <1>3, <1>12 DEF r, h

\* The empty sequence in front of another.
LEMMA EmptyFirst ==
    ASSUME NEW S, NEW s \in Seq(S)
    PROVE  <<>> \o s = s
OBVIOUS

\* Frames, taken and waiting.
LEMMA WaitingFacts ==
    ASSUME NEW rx \in [frame : Frames \cup {None}, to : Users \cup {None}],
           NEW s \in Seq(Frames)
    PROVE  /\ Waiting(rx, s) \in Seq(Frames)
           /\ rx.frame = None => Waiting(rx, s) = s
           /\ rx.frame # None => /\ Waiting(rx, s) # <<>>
                                 /\ Waiting(rx, s)[1] = rx.frame
                                 /\ Tail(Waiting(rx, s)) = s
<1>1. CASE rx.frame = None
  <2>1. <<>> \o s = s
    BY EmptyFirst
  <2>2. PICK t : t = IF rx.frame = None THEN <<>> ELSE <<rx.frame>>
    OBVIOUS
  <2>3. t = <<>>
    BY <1>1, <2>2
  <2>4. Waiting(rx, s) = t \o s
    BY <2>2 DEF Waiting
  <2>5. Waiting(rx, s) = s
    BY <2>1, <2>3, <2>4, Zenon
  <2> QED
    BY <1>1, <2>5
<1>2. CASE rx.frame # None
  <2>1. rx.frame \in Frames
    BY <1>2
  <2>2. PICK f \in Frames : f = rx.frame
    BY <2>1
  <2>3. Waiting(rx, s) = <<f>> \o s
    BY <1>2, <2>2 DEF Waiting
  <2>4. <<f>> \o s \in Seq(Frames) /\ Len(<<f>> \o s) = Len(s) + 1 /\ (<<f>> \o s)[1] = f
    OBVIOUS
  <2>5. Tail(<<f>> \o s) = s
    OBVIOUS
  <2>6. <<f>> \o s # <<>>
    BY <2>4
  <2> QED
    BY <1>2, <2>2, <2>3, <2>4, <2>5, <2>6, Zenon
<1> QED
  BY <1>1, <1>2

\* A worker takes the next frame.
LEMMA WaitingTake ==
    ASSUME NEW rx \in [frame : Frames \cup {None}, to : Users \cup {None}],
           NEW ry \in [frame : Frames \cup {None}, to : Users \cup {None}],
           NEW s \in Seq(Frames), s # <<>>, rx.frame = None, ry.frame = Head(s)
    PROVE  Waiting(ry, Tail(s)) = Waiting(rx, s)
<1>1. Head(s) \in Frames /\ Tail(s) \in Seq(Frames) /\ s[1] = Head(s)
  OBVIOUS
<1>2. Head(s) # None
  BY <1>1, MuxAssumption
<1>3. <<Head(s)>> \o Tail(s) = s
  OBVIOUS
<1> QED
  BY <1>2, <1>3, WaitingFacts DEF Waiting

\* A frame is sent.
LEMMA WaitingSend ==
    ASSUME NEW rx \in [frame : Frames \cup {None}, to : Users \cup {None}],
           NEW s \in Seq(Frames), NEW f \in Frames
    PROVE  Waiting(rx, Append(s, f)) = Append(Waiting(rx, s), f)
<1>0. Append(s, f) \in Seq(Frames)
  OBVIOUS
<1>1. CASE rx.frame = None
  BY <1>0, <1>1, WaitingFacts
<1>2. CASE rx.frame # None
  <2>1. PICK g \in Frames : g = rx.frame
    BY <1>2
  <2>2. <<g>> \o Append(s, f) = Append(<<g>> \o s, f)
    OBVIOUS
  <2> QED
    BY <1>2, <2>1, <2>2 DEF Waiting
<1> QED
  BY <1>1, <1>2

\* All that is on its way is lost.
LEMMA WaitingLost ==
    ASSUME NEW rx \in [frame : Frames \cup {None}, to : Users \cup {None}],
           NEW s \in Seq(Frames)
    PROVE  /\ Waiting(rx, <<>>) \in Seq(Frames)
           /\ Len(Waiting(rx, <<>>)) <= Len(Waiting(rx, s))
           /\ \A k \in 1 .. Len(Waiting(rx, <<>>)) :
                 Waiting(rx, <<>>)[k] = Waiting(rx, s)[k]
<1>1. CASE rx.frame = None
  <2>1. Waiting(rx, <<>>) = <<>> /\ Waiting(rx, s) = s
    BY <1>1, WaitingFacts, <<>> \in Seq(Frames)
  <2>2. Len(<<>>) = 0 /\ 0 <= Len(s) /\ <<>> \in Seq(Frames)
    OBVIOUS
  <2>3. 1 .. 0 = {}
    OBVIOUS
  <2> QED
    BY <2>1, <2>2, <2>3
<1>2. CASE rx.frame # None
  <2>1. PICK g \in Frames : g = rx.frame
    BY <1>2
  <2>2. Waiting(rx, <<>>) = <<g>> /\ Waiting(rx, s) = <<g>> \o s
    BY <1>2, <2>1 DEF Waiting
  <2>3. Len(<<g>> \o s) = Len(s) + 1 /\ (<<g>> \o s)[1] = g /\ Len(s) \in Nat
    OBVIOUS
  <2>4. Len(<<g>>) = 1 /\ <<g>>[1] = g /\ <<g>> \in Seq(Frames)
    OBVIOUS
  <2>5. 1 <= Len(s) + 1
    BY <2>3
  <2>6. \A k \in 1 .. 1 : k = 1
    OBVIOUS
  <2> QED
    BY <2>2, <2>3, <2>4, <2>5, <2>6
<1> QED
  BY <1>1, <1>2

\* Frames that stay while users go on and sessions of the server stay open or
\* closed as they are.
LEMMA UpStay ==
    ASSUME NEW q \in Seq(Frames), NEW r \in Seq(Frames), Len(r) <= Len(q),
           \A k \in 1 .. Len(r) : r[k] = q[k],
           NEW x, NEW y, NEW x2, NEW y2, FramesUpOf(q, x, y),
           \A u \in Users : x[u].pc \in Sending =>
              x2[u].pc \in Sending /\ x2[u].id = x[u].id,
           \A u \in Users : y2[u].pc = "none" <=> y[u].pc = "none"
    PROVE  FramesUpOf(r, x2, y2)
<1> SUFFICES ASSUME NEW k \in 1 .. Len(r)
             PROVE  /\ r[k].kind = "end" => r[k].data = None
                    /\ r[k].kind = "new" =>
                          /\ r[k].target \in Users /\ x2[r[k].target].pc \in Sending
                          /\ r[k].id = x2[r[k].target].id /\ y2[r[k].target].pc = "none"
                          /\ r[k].data \in {None, <<r[k].target, 1>>}
                          /\ \A j \in 1 .. k - 1 : ~OpensAt(r, j, r[k].target)
                    /\ r[k].kind = "keep" =>
                          /\ r[k].data # None /\ x2[r[k].data[1]].pc \in Sending
                          /\ r[k].id = x2[r[k].data[1]].id
                          /\ y2[r[k].data[1]].pc = "none" =>
                                \E j \in 1 .. k - 1 : OpensAt(r, j, r[k].data[1])
  BY DEF FramesUpOf
<1>1. k \in 1 .. Len(q) /\ r[k] = q[k] /\ q[k] \in Frames
  OBVIOUS
<1>2. \A u : \A j \in 1 .. k - 1 : OpensAt(r, j, u) <=> OpensAt(q, j, u)
  BY <1>1 DEF OpensAt
<1>3. q[k].kind = "keep" => q[k].data[1] \in Users
  BY <1>1, FrameData DEF FramesUpOf
<1> QED
  BY <1>1, <1>2, <1>3 DEF FramesUpOf

\* A frame is sent up.
LEMMA UpSent ==
    ASSUME NEW q \in Seq(Frames), NEW f \in Frames, NEW x, NEW y,
           FramesUpOf(q, x, y),
           f.kind = "end" => f.data = None,
           f.kind = "new" => /\ f.target \in Users /\ x[f.target].pc \in Sending
                             /\ f.id = x[f.target].id /\ y[f.target].pc = "none"
                             /\ f.data \in {None, <<f.target, 1>>}
                             /\ \A j \in 1 .. Len(q) : ~OpensAt(q, j, f.target),
           f.kind = "keep" => /\ f.data # None /\ x[f.data[1]].pc \in Sending
                              /\ f.id = x[f.data[1]].id
                              /\ y[f.data[1]].pc = "none" =>
                                    \E j \in 1 .. Len(q) : OpensAt(q, j, f.data[1])
    PROVE  FramesUpOf(Append(q, f), x, y)
<1>0. Append(q, f) \in Seq(Frames)
  OBVIOUS
<1>1. PICK r \in Seq(Frames) : r = Append(q, f)
  BY <1>0
<1>2. Len(r) = Len(q) + 1 /\ Len(q) \in Nat /\ r[Len(r)] = f
  BY <1>1
<1>3. \A k \in 1 .. Len(q) : r[k] = q[k]
  BY <1>1
<1>4. \A u : \A j \in 1 .. Len(q) : OpensAt(r, j, u) <=> OpensAt(q, j, u)
  BY <1>3 DEF OpensAt
<1> SUFFICES ASSUME NEW k \in 1 .. Len(r)
             PROVE  /\ r[k].kind = "end" => r[k].data = None
                    /\ r[k].kind = "new" =>
                          /\ r[k].target \in Users /\ x[r[k].target].pc \in Sending
                          /\ r[k].id = x[r[k].target].id /\ y[r[k].target].pc = "none"
                          /\ r[k].data \in {None, <<r[k].target, 1>>}
                          /\ \A j \in 1 .. k - 1 : ~OpensAt(r, j, r[k].target)
                    /\ r[k].kind = "keep" =>
                          /\ r[k].data # None /\ x[r[k].data[1]].pc \in Sending
                          /\ r[k].id = x[r[k].data[1]].id
                          /\ y[r[k].data[1]].pc = "none" =>
                                \E j \in 1 .. k - 1 : OpensAt(r, j, r[k].data[1])
  BY <1>1 DEF FramesUpOf
<1>5. CASE k = Len(r)
  <2>1. r[k] = f /\ k - 1 = Len(q)
    BY <1>2, <1>5
  <2> QED
    BY <2>1, <1>4
<1>6. CASE k # Len(r)
  <2>1. k \in 1 .. Len(q)
    BY <1>2, <1>6
  <2>2. r[k] = q[k] /\ \A j \in 1 .. k - 1 : j \in 1 .. Len(q)
    BY <1>3, <2>1
  <2> QED
    BY <1>4, <2>1, <2>2 DEF FramesUpOf
<1> QED
  BY <1>5, <1>6

\* The server has dealt with a frame; one that opens a session does so.
LEMMA UpHandled ==
    ASSUME NEW q \in Seq(Frames), q # <<>>, NEW x, NEW y, NEW y2,
           FramesUpOf(q, x, y),
           \A u \in Users : IF OpensAt(q, 1, u) THEN y2[u].pc # "none"
                            ELSE y2[u].pc = "none" <=> y[u].pc = "none"
    PROVE  FramesUpOf(Tail(q), x, y2)
<1>0. Tail(q) \in Seq(Frames)
  OBVIOUS
<1>1. PICK r \in Seq(Frames) : r = Tail(q)
  BY <1>0
<1>2. Len(q) = Len(r) + 1 /\ Len(r) \in Nat
  BY <1>1
<1>3. \A k \in 1 .. Len(r) : r[k] = q[k + 1] /\ k + 1 \in 1 .. Len(q)
  BY <1>1, <1>2
<1> SUFFICES ASSUME NEW k \in 1 .. Len(r)
             PROVE  /\ r[k].kind = "end" => r[k].data = None
                    /\ r[k].kind = "new" =>
                          /\ r[k].target \in Users /\ x[r[k].target].pc \in Sending
                          /\ r[k].id = x[r[k].target].id /\ y2[r[k].target].pc = "none"
                          /\ r[k].data \in {None, <<r[k].target, 1>>}
                          /\ \A j \in 1 .. k - 1 : ~OpensAt(r, j, r[k].target)
                    /\ r[k].kind = "keep" =>
                          /\ r[k].data # None /\ x[r[k].data[1]].pc \in Sending
                          /\ r[k].id = x[r[k].data[1]].id
                          /\ y2[r[k].data[1]].pc = "none" =>
                                \E j \in 1 .. k - 1 : OpensAt(r, j, r[k].data[1])
  BY <1>1 DEF FramesUpOf
<1>4. r[k] = q[k + 1] /\ k + 1 \in 1 .. Len(q) /\ q[k + 1] \in Frames
      /\ (k + 1) - 1 = k /\ 1 \in 1 .. k
  BY <1>3
<1>5. \A u : \A j \in 1 .. k - 1 : OpensAt(r, j, u) <=> OpensAt(q, j + 1, u)
  BY <1>3 DEF OpensAt
<1>6. r[k].kind = "new" =>
         /\ r[k].target \in Users /\ x[r[k].target].pc \in Sending
         /\ r[k].id = x[r[k].target].id
         /\ r[k].data \in {None, <<r[k].target, 1>>}
         /\ \A j \in 1 .. k : ~OpensAt(q, j, r[k].target)
         /\ y[r[k].target].pc = "none"
  BY <1>4 DEF FramesUpOf
<1>7. r[k].kind = "keep" =>
         /\ r[k].data # None /\ x[r[k].data[1]].pc \in Sending
         /\ r[k].id = x[r[k].data[1]].id /\ r[k].data[1] \in Users
         /\ y[r[k].data[1]].pc = "none" =>
               \E j \in 1 .. k : OpensAt(q, j, r[k].data[1])
  BY <1>4, FrameData DEF FramesUpOf
<1>8. ASSUME r[k].kind = "keep", y2[r[k].data[1]].pc = "none"
      PROVE  \E j \in 1 .. k - 1 : OpensAt(r, j, r[k].data[1])
  <2>1. ~OpensAt(q, 1, r[k].data[1]) /\ y[r[k].data[1]].pc = "none"
    BY <1>7, <1>8
  <2>2. PICK j \in 1 .. k : OpensAt(q, j, r[k].data[1])
    BY <1>7, <1>8, <2>1
  <2>3. j # 1
    BY <2>1, <2>2
  <2>4. j - 1 \in 1 .. k - 1 /\ (j - 1) + 1 = j
    BY <2>3
  <2> QED
    BY <1>5, <2>2, <2>4
<1>9. r[k].kind = "new" => /\ \A j \in 1 .. k - 1 : ~OpensAt(r, j, r[k].target)
                           /\ y2[r[k].target].pc = "none"
  BY <1>4, <1>5, <1>6
<1>10. r[k].kind = "end" => r[k].data = None
  BY <1>4 DEF FramesUpOf
<1> QED
  BY <1>6, <1>7, <1>8, <1>9, <1>10

\* The same of the frames to the client.
LEMMA DownStay ==
    ASSUME NEW q \in Seq(Frames), NEW r \in Seq(Frames), Len(r) <= Len(q),
           \A k \in 1 .. Len(r) : r[k] = q[k],
           NEW y, NEW y2, FramesDownOf(q, y),
           \A u \in Users : y[u].pc # "none" => y2[u].pc # "none" /\ y2[u].id = y[u].id
    PROVE  FramesDownOf(r, y2)
<1>1. \A k \in 1 .. Len(r) : k \in 1 .. Len(q) /\ r[k] = q[k] /\ q[k] \in Frames
  OBVIOUS
<1>2. \A k \in 1 .. Len(r) : q[k].kind = "keep" => q[k].data[1] \in Users
  BY <1>1, FrameData DEF FramesDownOf
<1> QED
  BY <1>1, <1>2 DEF FramesDownOf

\* A frame is sent down.
LEMMA DownSent ==
    ASSUME NEW q \in Seq(Frames), NEW f \in Frames, NEW y, FramesDownOf(q, y),
           f.kind # "new", f.kind = "end" => f.data = None,
           f.kind = "keep" => /\ f.data # None /\ y[f.data[1]].pc # "none"
                              /\ f.id = y[f.data[1]].id
    PROVE  FramesDownOf(Append(q, f), y)
<1>0. Append(q, f) \in Seq(Frames)
  OBVIOUS
<1>1. PICK r \in Seq(Frames) : r = Append(q, f)
  BY <1>0
<1>2. Len(r) = Len(q) + 1 /\ Len(q) \in Nat /\ r[Len(r)] = f
  BY <1>1
<1>3. \A k \in 1 .. Len(q) : r[k] = q[k]
  BY <1>1
<1>4. \A k \in 1 .. Len(r) : r[k] = f \/ (k \in 1 .. Len(q) /\ r[k] = q[k])
  BY <1>2, <1>3
<1> QED
  BY <1>1, <1>4 DEF FramesDownOf

\* The client has dealt with a frame.
LEMMA DownHandled ==
    ASSUME NEW q \in Seq(Frames), q # <<>>, NEW y, FramesDownOf(q, y)
    PROVE  FramesDownOf(Tail(q), y)
<1>1. \A k \in 1 .. Len(Tail(q)) : Tail(q)[k] = q[k + 1] /\ k + 1 \in 1 .. Len(q)
  OBVIOUS
<1> QED
  BY <1>1 DEF FramesDownOf

\* Types, in the form the steps use them.
LEMMA MuxTyped ==
    ASSUME MuxInv
    PROVE  /\ UpFrames \in Seq(Frames) /\ DownFrames \in Seq(Frames)
           /\ rxs.frame = None => UpFrames = up
           /\ rxc.frame = None => DownFrames = down
           /\ rxs.frame # None => UpFrames # <<>> /\ UpFrames[1] = rxs.frame
                                  /\ Tail(UpFrames) = up /\ rxs.frame \in Frames
           /\ rxc.frame # None => DownFrames # <<>> /\ DownFrames[1] = rxc.frame
                                  /\ Tail(DownFrames) = down /\ rxc.frame \in Frames
           /\ \A u \in Users : usr[u].sent \in Nat /\ srv[u].sent \in Nat
                               /\ usr[u].sent <= MaxBytes /\ srv[u].sent <= MaxBytes
<1>1. /\ rxs \in [frame : Frames \cup {None}, to : Users \cup {None}]
      /\ rxc \in [frame : Frames \cup {None}, to : Users \cup {None}]
      /\ up \in Seq(Frames) /\ down \in Seq(Frames)
  BY DEF MuxInv, MuxTypes
<1>2. \A u \in Users : usr[u].sent \in 0 .. MaxBytes /\ srv[u].sent \in 0 .. MaxBytes
  BY DEF MuxInv, MuxTypes, UserStates, SiteStates
<1>3. rxs.frame # None => rxs.frame \in Frames
  BY <1>1
<1>4. rxc.frame # None => rxc.frame \in Frames
  BY <1>1
<1>5. /\ UpFrames \in Seq(Frames)
      /\ rxs.frame = None => UpFrames = up
      /\ rxs.frame # None => UpFrames # <<>> /\ UpFrames[1] = rxs.frame
                             /\ Tail(UpFrames) = up
  BY <1>1, WaitingFacts DEF UpFrames
<1>6. /\ DownFrames \in Seq(Frames)
      /\ rxc.frame = None => DownFrames = down
      /\ rxc.frame # None => DownFrames # <<>> /\ DownFrames[1] = rxc.frame
                             /\ Tail(DownFrames) = down
  BY <1>1, WaitingFacts DEF DownFrames
<1>7. \A u \in Users : usr[u].sent \in Nat /\ srv[u].sent \in Nat
                         /\ usr[u].sent <= MaxBytes /\ srv[u].sent <= MaxBytes
  BY <1>2, MuxAssumption
<1> QED
  BY <1>3, <1>4, <1>5, <1>6, <1>7

\* What users do only ever takes their sessions on: a session keeps its id, and
\* closing it, once it has its link, interrupts its input.
UsersGoOn ==
    \A v \in Users :
       /\ usr[v].pc \in Sending => usr'[v].pc \in Sending
       /\ v \in Allocated => /\ usr'[v].pc \in Linked \cup {"alloc"}
                             /\ usr'[v].id = usr[v].id
       /\ usr[v].closed => usr'[v].closed
       /\ usr[v].closed /\ usr[v].cut => usr'[v].cut
       /\ usr[v].linked /\ usr'[v].closed => usr[v].closed \/ usr'[v].cut

SitesGoOn ==
    \A v \in Users :
       /\ srv'[v].pc = "none" <=> srv[v].pc = "none"
       /\ srv[v].pc # "none" => srv'[v].id = srv[v].id
       /\ srv[v].closed => srv'[v].closed

\* The server's sessions when only users move.
LEMMA ServerUnmoved ==
    ASSUME MuxInv, UsersGoOn, UNCHANGED svars
    PROVE  ServerSessions' /\ FoundUp'
<1>1. sm' = sm /\ srv' = srv /\ rxs' = rxs
  BY DEF svars
<1>2. ServerSessions'
  <2>1. \A u \in Users : srv[u].pc # "none" =>
           /\ usr'[u].pc \in Sending /\ srv[u].id = usr'[u].id
           /\ ~srv[u].closed => sm.map[srv[u].id] = u
    <3> SUFFICES ASSUME NEW u \in Users, srv[u].pc # "none"
                 PROVE  /\ usr'[u].pc \in Sending /\ srv[u].id = usr'[u].id
                        /\ ~srv[u].closed => sm.map[srv[u].id] = u
      OBVIOUS
    <3>1. /\ usr[u].pc \in Sending /\ srv[u].id = usr[u].id
          /\ ~srv[u].closed => sm.map[srv[u].id] = u
      BY DEF MuxInv, ServerSessions
    <3>2. u \in Allocated
      BY <3>1 DEF Allocated, Linked
    <3> QED
      BY <3>1, <3>2 DEF UsersGoOn
  <2> QED
    BY <1>1, <2>1 DEF MuxInv, ServerSessions
<1>3. FoundUp'
  BY <1>1 DEF MuxInv, FoundUp
<1> QED
  BY <1>2, <1>3

\* The session fetchOutput has found, when users move.
LEMMA FoundStays ==
    ASSUME MuxInv, UsersGoOn, UNCHANGED rxc
    PROVE  FoundDown'
<1> USE DEF MuxInv
<1>1. ASSUME rxc.to # None
      PROVE  /\ rxc.frame # None /\ rxc.to \in Allocated' /\ usr'[rxc.to].id = rxc.frame.id
             /\ rxc.frame.kind = "keep" /\ usr'[rxc.to].closed => usr'[rxc.to].cut
  <2>1. /\ rxc.frame # None /\ rxc.to \in Allocated /\ usr[rxc.to].id = rxc.frame.id
        /\ rxc.frame.kind = "keep" /\ usr[rxc.to].closed => usr[rxc.to].cut
    BY <1>1 DEF FoundDown
  <2>2. rxc.to \in Users
    BY <2>1 DEF Allocated
  <2>3. rxc.to \in Allocated' /\ usr'[rxc.to].id = rxc.frame.id
    BY <2>1, <2>2 DEF UsersGoOn, Allocated
  <2>4. ASSUME rxc.frame.kind = "keep"
        PROVE  usr[rxc.to].linked
    <3>1. rxc.frame.data[1] \in Users /\ srv[rxc.frame.data[1]].pc # "none"
          /\ rxc.frame.id = srv[rxc.frame.data[1]].id
      <4>1. 1 \in 1 .. Len(DownFrames)
        BY <2>1, MuxTyped
      <4> QED
        BY <2>1, <2>4, <4>1, MuxTyped, FrameData DEF FramesDown, FramesDownOf
    <3>2. /\ usr[rxc.frame.data[1]].pc \in Sending
          /\ usr[rxc.frame.data[1]].id = rxc.frame.id
      BY <3>1 DEF ServerSessions
    <3>3. rxc.frame.data[1] \in Allocated
      BY <3>1, <3>2 DEF Allocated, Linked
    <3>4. rxc.to = rxc.frame.data[1]
      BY <2>1, <3>2, <3>3 DEF ClientSessions
    <3> QED
      BY <3>1, <3>2, <3>4 DEF ClientSessions, Linked
  <2> QED
    BY <2>1, <2>2, <2>3, <2>4 DEF UsersGoOn
<1>2. ASSUME rxc.frame # None, rxc.to = None, rxc.frame.kind = "keep"
      PROVE  usr'[rxc.frame.data[1]].closed
  <2>1. rxc.frame.data[1] \in Users
    <3>1. 1 \in 1 .. Len(DownFrames)
      BY <1>2, MuxTyped
    <3> QED
      BY <1>2, <3>1, MuxTyped, FrameData DEF FramesDown, FramesDownOf
  <2> QED
    BY <1>2, <2>1 DEF FoundDown, UsersGoOn
<1> QED
  BY <1>1, <1>2 DEF FoundDown

\* The frames to the server, when they stay where they are.
LEMMA UpUnmoved ==
    ASSUME MuxInv, UsersGoOn, UpFrames' = UpFrames, srv' = srv, link'.up = link.up,
           \A v \in Users : /\ usr'[v].sent = usr[v].sent
                            /\ usr'[v].pc = "copy" => usr[v].pc = "copy"
    PROVE  FramesUp' /\ OpenedUp' /\ BytesUp'
<1>1. FramesUp'
  <2>1. \A v \in Users : usr[v].pc \in Sending =>
           usr'[v].pc \in Sending /\ usr'[v].id = usr[v].id
    BY DEF UsersGoOn, Allocated, Linked
  <2>2. \A v \in Users : srv'[v].pc = "none" <=> srv[v].pc = "none"
    OBVIOUS
  <2>3. FramesUpOf(UpFrames, usr, srv) /\ UpFrames \in Seq(Frames)
    BY MuxTyped DEF MuxInv, FramesUp
  <2>4. \A k \in 1 .. Len(UpFrames) : UpFrames[k] = UpFrames[k]
    OBVIOUS
  <2>5. Len(UpFrames) <= Len(UpFrames)
    BY <2>3
  <2>6. FramesUpOf(UpFrames, usr', srv')
    BY <2>1, <2>2, <2>3, <2>4, <2>5, UpStay
  <2> QED
    BY <2>6 DEF FramesUp
<1>2. BytesUp'
  BY DEF MuxInv, BytesUp
<1>3. OpenedUp'
  BY DEF MuxInv, OpenedUp
<1> QED
  BY <1>1, <1>2, <1>3

\* The frames to the client, when they stay where they are.
LEMMA DownUnmoved ==
    ASSUME MuxInv, UsersGoOn, DownFrames' = DownFrames, srv' = srv,
           link'.down = link.down, MuxTypes',
           \A v \in Users : usr'[v].got = usr[v].got
    PROVE  FramesDown' /\ BytesDown'
<1>1. FramesDown'
  BY DEF MuxInv, FramesDown
<1>2. BytesDown'
  <2> SUFFICES ASSUME NEW v \in Users
               PROVE  Onward(DownFrames, v, srv[v].sent, usr[v].got,
                             ~usr'[v].closed, link.down)
    BY DEF BytesDown
  <2>1. Onward(DownFrames, v, srv[v].sent, usr[v].got, ~usr[v].closed, link.down)
    BY DEF MuxInv, BytesDown
  <2>2. /\ (~usr'[v].closed) \in BOOLEAN /\ (~usr[v].closed) \in BOOLEAN
        /\ ~usr'[v].closed => ~usr[v].closed
    BY DEF UsersGoOn
  <2>3. link.down \in BOOLEAN
    BY DEF MuxInv, MuxTypes
  <2> QED
    BY <2>1, <2>2, <2>3, OnwardLess
<1> QED
  BY <1>1, <1>2

\* A step of users that sends and takes nothing.
LEMMA UsersStep ==
    ASSUME MuxInv, MuxTypes', ClientSessions', UsersGoOn,
           UNCHANGED <<rxc, svars, up, down, link>>,
           \A v \in Users : /\ usr'[v].sent = usr[v].sent /\ usr'[v].got = usr[v].got
                            /\ usr'[v].pc = "copy" => usr[v].pc = "copy"
    PROVE  MuxInv'
<1>1. UpFrames' = UpFrames /\ DownFrames' = DownFrames /\ srv' = srv /\ link' = link
      /\ rxc' = rxc /\ UNCHANGED svars
  BY DEF UpFrames, DownFrames, svars
<1> QED
  BY <1>1, ServerUnmoved, FoundStays, UpUnmoved, DownUnmoved DEF MuxInv

\* The client's sessions when only their places move.
LEMMA ClientUnmoved ==
    ASSUME MuxInv, cm' = cm,
           \A v \in Users :
              /\ usr'[v].pc \in Linked \cup {"alloc"} <=> usr[v].pc \in Linked \cup {"alloc"}
              /\ usr'[v].id = usr[v].id /\ usr'[v].closed = usr[v].closed
              /\ usr'[v].linked <=> usr'[v].pc \in Linked
              /\ usr'[v].pc = "over" => usr'[v].closed
              /\ usr'[v].pc \notin Sending => usr'[v].sent = 0
    PROVE  ClientSessions'
<1>1. Allocated' = Allocated
  BY DEF Allocated
<1>2. \A v \in Allocated : v \in Users
  BY DEF Allocated
<1> QED
  BY <1>1, <1>2 DEF MuxInv, ClientSessions

\* One user's place changes.
LEMMA UserAt ==
    ASSUME MuxInv, NEW u \in Users, NEW c \in UserPcs,
           usr' = [usr EXCEPT ![u].pc = c]
    PROVE  /\ usr' \in [Users -> UserStates]
           /\ \A v \in Users \ {u} : usr'[v] = usr[v]
           /\ usr'[u].pc = c /\ usr'[u].id = usr[u].id
           /\ usr'[u].closed = usr[u].closed /\ usr'[u].linked = usr[u].linked
           /\ usr'[u].sent = usr[u].sent /\ usr'[u].got = usr[u].got
           /\ usr'[u].cut = usr[u].cut
<1>1. usr \in [Users -> UserStates] /\ usr[u] \in UserStates
  BY DEF MuxInv, MuxTypes
<1>2. PICK x : x = [usr[u] EXCEPT !.pc = c]
  OBVIOUS
<1>3. /\ x \in UserStates /\ x.pc = c /\ x.id = usr[u].id /\ x.closed = usr[u].closed
      /\ x.linked = usr[u].linked /\ x.sent = usr[u].sent /\ x.got = usr[u].got
      /\ x.cut = usr[u].cut
  BY <1>1, <1>2 DEF UserStates
<1>4. usr' = [usr EXCEPT ![u] = x]
  BY <1>1, <1>2
<1> QED
  BY <1>1, <1>3, <1>4

\* Dispatch, Link and the end of the input only move their user on.
LEMMA MovesOn ==
    ASSUME MuxInv, NEW u \in Users, Dispatch(u) \/ Link(u) \/ InputEnds(u)
    PROVE  MuxInv'
<1>1. /\ UNCHANGED <<cm, done, monitor, rxc, svars, up, down, link>>
      /\ usr' \in [Users -> UserStates]
      /\ \A v \in Users \ {u} : usr'[v] = usr[v]
      /\ usr'[u].id = usr[u].id /\ usr'[u].closed = usr[u].closed
      /\ usr'[u].sent = usr[u].sent /\ usr'[u].got = usr[u].got
      /\ usr'[u].cut = usr[u].cut
      /\ \/ /\ usr[u].pc = "new" /\ usr'[u].pc \in {"refused", "checked"}
            /\ usr'[u].linked = usr[u].linked
         \/ usr[u].pc = "alloc" /\ usr'[u].pc = "first" /\ usr'[u].linked
         \/ /\ usr[u].pc \in {"first", "copy"} /\ usr'[u].pc = "end"
            /\ usr'[u].linked = usr[u].linked
  <2>1. CASE Dispatch(u)
    <3>1. PICK c \in {"refused", "checked"} : usr' = [usr EXCEPT ![u].pc = c]
      BY <2>1 DEF Dispatch
    <3>2. c \in UserPcs
      BY <3>1 DEF UserPcs
    <3> QED
      BY <2>1, <3>1, <3>2, UserAt DEF Dispatch
  <2>2. CASE Link(u)
    <3>1. usr \in [Users -> UserStates] /\ usr[u] \in UserStates
      BY DEF MuxInv, MuxTypes
    <3>2. PICK x : x = [usr[u] EXCEPT !.pc = "first", !.linked = TRUE]
      OBVIOUS
    <3>3. /\ x \in UserStates /\ x.pc = "first" /\ x.id = usr[u].id
          /\ x.closed = usr[u].closed /\ x.linked /\ x.sent = usr[u].sent
          /\ x.got = usr[u].got /\ x.cut = usr[u].cut
      BY <3>1, <3>2 DEF UserStates, UserPcs
    <3>4. usr' = [usr EXCEPT ![u] = x]
      BY <2>2, <3>1, <3>2 DEF Link
    <3> QED
      BY <2>2, <3>1, <3>3, <3>4 DEF Link
  <2>3. CASE InputEnds(u)
    <3>1. "end" \in UserPcs
      BY DEF UserPcs
    <3> QED
      BY <2>3, <3>1, UserAt DEF InputEnds
  <2> QED
    BY <2>1, <2>2, <2>3
<1>2. MuxTypes'
  BY <1>1 DEF MuxInv, MuxTypes, svars
<1>4. /\ usr[u].linked <=> usr[u].pc \in Linked
      /\ usr[u].pc \notin Sending => usr[u].sent = 0
  BY DEF MuxInv, ClientSessions
<1>5. /\ usr'[u].pc \in Linked \cup {"alloc"} <=> usr[u].pc \in Linked \cup {"alloc"}
      /\ usr[u].pc \in Sending => usr'[u].pc \in Sending
      /\ usr'[u].linked <=> usr'[u].pc \in Linked
      /\ usr'[u].pc # "over"
      /\ usr'[u].pc \notin Sending => usr'[u].sent = 0
  BY <1>1, <1>4 DEF Linked, Sending
<1>6. ClientSessions'
  <2>1. \A v \in Users :
              /\ usr[v].linked <=> usr[v].pc \in Linked
              /\ usr[v].pc = "over" => usr[v].closed
              /\ usr[v].pc \notin Sending => usr[v].sent = 0
    BY DEF MuxInv, ClientSessions
  <2> QED
    BY <1>1, <1>5, <2>1, ClientUnmoved
<1>7. UsersGoOn
  BY <1>1, <1>5 DEF UsersGoOn, Allocated
<1> QED
  BY <1>1, <1>2, <1>6, <1>7, UsersStep

\* Allocate gives out an id that nobody has had.
LEMMA AllocateKeeps ==
    ASSUME MuxInv, FewSessions, NEW u \in Users, Allocate(u)
    PROVE  MuxInv'
<1> USE DEF MuxInv
<1>1. usr[u].pc = "checked" /\ UNCHANGED <<done, monitor, rxc, svars, up, down, link>>
  BY DEF Allocate
<1>2. usr[u].sent = 0 /\ ~usr[u].closed /\ ~usr[u].linked /\ u \notin Allocated
  BY <1>1 DEF ClientSessions, Allocated, Sending, Linked
<1>3. CASE cm.closed
  <2>1. usr' = [usr EXCEPT ![u].pc = "refused"] /\ cm' = cm
    BY <1>3 DEF Allocate
  <2>2. /\ usr' \in [Users -> UserStates]
        /\ \A v \in Users \ {u} : usr'[v] = usr[v]
        /\ usr'[u].pc = "refused" /\ usr'[u].id = usr[u].id
        /\ usr'[u].closed = usr[u].closed /\ usr'[u].linked = usr[u].linked
        /\ usr'[u].sent = usr[u].sent /\ usr'[u].got = usr[u].got
        /\ usr'[u].cut = usr[u].cut
    <3>1. "refused" \in UserPcs
      BY DEF UserPcs
    <3> QED
      BY <2>1, <3>1, UserAt
  <2>3. MuxTypes'
    BY <1>1, <2>1, <2>2 DEF MuxTypes, svars
  <2>4. ClientSessions'
    <3>1. \A v \in Users :
              /\ usr[v].linked <=> usr[v].pc \in Linked
              /\ usr[v].pc = "over" => usr[v].closed
              /\ usr[v].pc \notin Sending => usr[v].sent = 0
      BY DEF ClientSessions
    <3>2. /\ usr'[u].pc \notin Linked \cup {"alloc"} /\ usr[u].pc \notin Linked \cup {"alloc"}
          /\ usr'[u].pc \notin Linked
      BY <1>1, <2>2 DEF Linked, Sending
    <3> QED
      BY <1>2, <2>1, <2>2, <3>1, <3>2, ClientUnmoved
  <2>5. UsersGoOn
    BY <1>1, <1>2, <2>2 DEF UsersGoOn, Allocated, Linked, Sending
  <2> QED
    BY <1>1, <2>2, <2>3, <2>4, <2>5, UsersStep
<1>4. CASE ~cm.closed
  <2>1. /\ cm' = [cm EXCEPT !.count = (@ + 1) % IdSpace, !.map[NextId] = u]
        /\ usr' = [usr EXCEPT ![u].pc = "alloc", ![u].id = NextId]
    BY <1>4 DEF Allocate
  <2>2. /\ cm.count \in Nat /\ cm.count + 1 < IdSpace
        /\ Cardinality(Allocated \cup {u}) = cm.count + 1
    <3>1. IsFiniteSet(Allocated) /\ IsFiniteSet(Allocated \cup {u})
      <4>1. Allocated \subseteq Users /\ Allocated \cup {u} \subseteq Users
        BY DEF Allocated
      <4> QED
        BY <4>1, FS_Subset DEF FewSessions
    <3>2. Cardinality(Allocated \cup {u}) = Cardinality(Allocated) + 1
      BY <1>2, <3>1, FS_AddElement
    <3>3. Cardinality(Allocated \cup {u}) <= Cardinality(Users)
      <4>1. Allocated \cup {u} \subseteq Users
        BY DEF Allocated
      <4> QED
        BY <4>1, FS_Subset DEF FewSessions
    <3>4. Cardinality(Users) \in Nat /\ Cardinality(Allocated) \in Nat
      BY <3>1, FS_CardinalityType DEF FewSessions
    <3>5. cm.count = Cardinality(Allocated)
      BY DEF ClientSessions
    <3> QED
      BY <3>2, <3>3, <3>4, <3>5, MuxAssumption DEF FewSessions
  <2>3. NextId = cm.count + 1 /\ (cm.count + 1) % IdSpace = cm.count + 1
        /\ cm.count + 1 \in Ids
    BY <2>2, MuxAssumption DEF NextId, Ids
  <2>4. PICK n \in Ids : n = cm.count + 1
    BY <2>3
  <2>5. /\ cm'.count = n /\ cm'.closed = cm.closed
        /\ cm'.map = [cm.map EXCEPT ![n] = u]
        /\ cm' \in [count : Ids, map : [Ids -> Users \cup {None}], closed : BOOLEAN]
    BY <2>1, <2>3, <2>4 DEF MuxTypes
  <2>6. /\ usr' \in [Users -> UserStates]
        /\ \A v \in Users \ {u} : usr'[v] = usr[v]
        /\ usr'[u].pc = "alloc" /\ usr'[u].id = n
        /\ usr'[u].closed = usr[u].closed /\ usr'[u].linked = usr[u].linked
        /\ usr'[u].sent = usr[u].sent /\ usr'[u].got = usr[u].got
        /\ usr'[u].cut = usr[u].cut
    <3>1. usr \in [Users -> UserStates] /\ usr[u] \in UserStates
      BY DEF MuxTypes
    <3>2. PICK x : x = [usr[u] EXCEPT !.pc = "alloc", !.id = n]
      OBVIOUS
    <3>3. /\ x \in UserStates /\ x.pc = "alloc" /\ x.id = n
          /\ x.closed = usr[u].closed /\ x.linked = usr[u].linked
          /\ x.sent = usr[u].sent /\ x.got = usr[u].got /\ x.cut = usr[u].cut
      BY <3>1, <3>2 DEF UserStates, UserPcs
    <3>4. usr' = [usr EXCEPT ![u] = x]
      BY <2>1, <2>3, <2>4, <3>1, <3>2
    <3> QED
      BY <3>1, <3>3, <3>4
  <2>7. MuxTypes'
    BY <1>1, <2>5, <2>6 DEF MuxTypes, svars
  <2>8. Allocated' = Allocated \cup {u}
    BY <2>6 DEF Allocated
  <2>9. UsersGoOn
    BY <1>1, <1>2, <2>6 DEF UsersGoOn, Allocated, Sending
  <2>10. ClientSessions'
    <3>1. \A v \in Allocated : /\ v \in Users /\ v # u /\ usr'[v] = usr[v]
                               /\ usr[v].id \in Nat /\ usr[v].id < n
      <4>1. \A v \in Allocated : v \in Users /\ v # u /\ usr[v].id \in Ids
                                  /\ usr[v].id <= cm.count
        BY <1>2 DEF Allocated, ClientSessions, MuxTypes, UserStates
      <4> QED
        BY <2>2, <2>4, <2>6, <4>1, MuxAssumption DEF Ids
    <3>2. cm'.count = Cardinality(Allocated')
      BY <2>2, <2>4, <2>5, <2>8
    <3>3. \A v \in Allocated' : usr'[v].id <= cm'.count
      BY <2>2, <2>4, <2>5, <2>6, <2>8, <3>1
    <3>4. \A v, w \in Allocated' : usr'[v].id = usr'[w].id => v = w
      <4>1. \A v, w \in Allocated : usr[v].id = usr[w].id => v = w
        BY DEF ClientSessions
      <4>2. \A v \in Allocated : usr'[v].id # n
        BY <2>2, <2>4, <3>1
      <4> QED
        BY <2>6, <2>8, <3>1, <4>1, <4>2
    <3>5. cm'.map[n] = u /\ \A i \in Ids \ {n} : cm'.map[i] = cm.map[i]
      BY <2>5 DEF MuxTypes
    <3>6. \A i \in Ids : cm'.map[i] # None => /\ cm'.map[i] \in Allocated'
                                              /\ usr'[cm'.map[i]].id = i
                                              /\ ~usr'[cm'.map[i]].closed
      <4>1. \A i \in Ids : cm.map[i] # None => /\ cm.map[i] \in Allocated
                                               /\ usr[cm.map[i]].id = i
                                               /\ ~usr[cm.map[i]].closed
        BY DEF ClientSessions
      <4> QED
        BY <1>2, <2>6, <2>8, <3>1, <3>5, <4>1
    <3>7. \A v \in Allocated' : ~usr'[v].closed => cm'.map[usr'[v].id] = v
      <4>1. \A v \in Allocated : ~usr[v].closed => cm.map[usr[v].id] = v
        BY DEF ClientSessions
      <4>2. \A v \in Allocated : usr[v].id \in Ids \ {n}
        BY <3>1, <2>2, <2>4 DEF MuxTypes, UserStates
      <4> QED
        BY <2>6, <2>8, <3>1, <3>5, <4>1, <4>2
    <3>8. \A v \in Users : /\ usr'[v].linked <=> usr'[v].pc \in Linked
                           /\ usr'[v].closed => v \in Allocated'
                           /\ usr'[v].pc = "over" => usr'[v].closed
                           /\ usr'[v].pc \notin Sending => usr'[v].sent = 0
      <4>1. \A v \in Users : /\ usr[v].linked <=> usr[v].pc \in Linked
                             /\ usr[v].closed => v \in Allocated
                             /\ usr[v].pc = "over" => usr[v].closed
                             /\ usr[v].pc \notin Sending => usr[v].sent = 0
        BY DEF ClientSessions
      <4>2. "alloc" \notin Linked
        BY DEF Linked, Sending
      <4> QED
        BY <1>2, <2>6, <2>8, <4>1, <4>2
    <3> QED
      BY <1>4, <2>5, <3>2, <3>3, <3>4, <3>6, <3>7, <3>8 DEF ClientSessions
  <2> QED
    BY <1>1, <2>6, <2>7, <2>9, <2>10, UsersStep
<1> QED
  BY <1>3, <1>4

\* Frames to the server that are of the right kind.
LEMMA FrameTyped ==
    ASSUME NEW kind \in {"new", "keep", "end"}, NEW id \in Ids,
           NEW u \in Users \cup {None}, NEW data \in Bytes \cup {None}
    PROVE  /\ Frame(kind, id, u, data) \in Frames
           /\ Frame(kind, id, u, data).kind = kind /\ Frame(kind, id, u, data).id = id
           /\ Frame(kind, id, u, data).target = u /\ Frame(kind, id, u, data).data = data
BY DEF Frame, Frames

\* A frame without data is sent to the server.
LEMMA SendsEmpty ==
    ASSUME MuxInv, MuxTypes', UsersGoOn, NEW f \in Frames, f.kind = "end", f.data = None,
           up' = (IF link.up THEN Append(up, f) ELSE up),
           UNCHANGED <<srv, rxs, link>>,
           \A v \in Users : /\ usr'[v].sent = usr[v].sent
                            /\ usr'[v].pc = "copy" => usr[v].pc = "copy"
    PROVE  FramesUp' /\ OpenedUp' /\ BytesUp'
<1> USE DEF MuxInv
<1>1. CASE ~link.up
  <2>1. UpFrames' = UpFrames /\ link'.up = link.up
    BY <1>1 DEF UpFrames
  <2> QED
    BY <2>1, UpUnmoved
<1>2. CASE link.up
  <2>1. UpFrames' = Append(UpFrames, f) /\ UpFrames \in Seq(Frames)
    <3>1. rxs \in [frame : Frames \cup {None}, to : Users \cup {None}] /\ up \in Seq(Frames)
      BY DEF MuxTypes
    <3> QED
      BY <1>2, <3>1, WaitingSend, MuxTyped DEF UpFrames
  <2>2. FramesUp'
    <3>1. \A v \in Users : usr[v].pc \in Sending =>
             usr'[v].pc \in Sending /\ usr'[v].id = usr[v].id
      BY DEF UsersGoOn, Allocated, Linked
    <3>2. FramesUpOf(UpFrames, usr, srv) /\ Len(UpFrames) <= Len(UpFrames)
      BY <2>1 DEF FramesUp
    <3>3. FramesUpOf(UpFrames, usr', srv)
      BY <2>1, <3>1, <3>2, UpStay
    <3>4. FramesUpOf(Append(UpFrames, f), usr', srv)
      BY <2>1, <3>3, UpSent
    <3> QED
      BY <2>1, <3>4 DEF FramesUp
  <2>3. OpenedUp'
    <3>1. /\ Len(UpFrames') = Len(UpFrames) + 1 /\ Len(UpFrames) \in Nat
          /\ \A j \in 1 .. Len(UpFrames) : UpFrames'[j] = UpFrames[j]
      BY <2>1
    <3>2. \A v : \A j \in 1 .. Len(UpFrames) : OpensAt(UpFrames, j, v) =>
             j \in 1 .. Len(UpFrames') /\ OpensAt(UpFrames', j, v)
      BY <3>1 DEF OpensAt
    <3>3. \A v \in Users : usr'[v].pc = "copy" /\ srv'[v].pc = "none" =>
             \E j \in 1 .. Len(UpFrames) : OpensAt(UpFrames, j, v)
      BY <1>2 DEF OpenedUp
    <3> QED
      BY <3>2, <3>3 DEF OpenedUp
  <2>4. BytesUp'
    <3> SUFFICES ASSUME NEW v \in Users
                 PROVE  Onward(Append(UpFrames, f), v, usr[v].sent, srv[v].got,
                               ~srv[v].closed, link.up)
      BY <2>1 DEF BytesUp
    <3>1. Onward(UpFrames, v, usr[v].sent, srv[v].got, ~srv[v].closed, link.up)
      BY DEF BytesUp
    <3>2. /\ usr[v].sent \in Nat /\ srv[v].got \in Seq(Bytes)
          /\ (~srv[v].closed) \in BOOLEAN /\ link.up \in BOOLEAN
      BY MuxTyped DEF MuxTypes, SiteStates
    <3>3. ~Carries(f, v)
      BY DEF Carries
    <3> QED
      BY <2>1, <3>1, <3>2, <3>3, OnwardOther
  <2> QED
    BY <2>2, <2>3, <2>4
<1> QED
  BY <1>1, <1>2

\* fetchInput: the frame that opens the session, or the next byte.
LEMMA fetchInputKeeps ==
    ASSUME MuxInv, NEW u \in Users, fetchInput(u)
    PROVE  MuxInv'
<1> USE DEF MuxInv
<1>1. /\ usr[u].pc \in {"first", "copy"} /\ link.up
      /\ UNCHANGED <<cm, done, monitor, rxc, svars, down, link>>
  BY DEF fetchInput
<1>2. PICK kind \in {"new", "keep"} :
         /\ kind = IF usr[u].pc = "first" THEN "new" ELSE "keep"
         /\ \/ /\ usr[u].sent < MaxBytes
               /\ SendUp(Frame(kind, usr[u].id, u, <<u, usr[u].sent + 1>>))
               /\ usr' = [usr EXCEPT ![u].pc = "copy", ![u].sent = @ + 1]
            \/ /\ kind = "new"
               /\ SendUp(Frame(kind, usr[u].id, u, None))
               /\ usr' = [usr EXCEPT ![u].pc = "copy"]
  BY DEF fetchInput
<1>3. usr \in [Users -> UserStates] /\ usr[u] \in UserStates /\ usr[u].id \in Ids
      /\ usr[u].sent \in Nat
  BY MuxTyped DEF MuxTypes, UserStates
<1>4. PICK f \in Frames, n \in 0 .. MaxBytes :
         /\ f.kind = kind /\ f.id = usr[u].id /\ f.target = u
         /\ up' = Append(up, f)
         /\ \/ f.data = <<u, usr[u].sent + 1>> /\ n = usr[u].sent + 1
               /\ usr[u].sent < MaxBytes
            \/ f.data = None /\ n = usr[u].sent /\ kind = "new"
         /\ usr' \in [Users -> UserStates]
         /\ \A v \in Users \ {u} : usr'[v] = usr[v]
         /\ usr'[u].pc = "copy" /\ usr'[u].id = usr[u].id
         /\ usr'[u].closed = usr[u].closed /\ usr'[u].linked = usr[u].linked
         /\ usr'[u].sent = n /\ usr'[u].got = usr[u].got
         /\ usr'[u].cut = usr[u].cut
  <2>1. CASE /\ usr[u].sent < MaxBytes
             /\ SendUp(Frame(kind, usr[u].id, u, <<u, usr[u].sent + 1>>))
             /\ usr' = [usr EXCEPT ![u].pc = "copy", ![u].sent = @ + 1]
    <3>1. <<u, usr[u].sent + 1>> \in Bytes /\ usr[u].sent + 1 \in 0 .. MaxBytes
      BY <1>3, <2>1, MuxAssumption DEF Bytes
    <3>2. PICK f \in Frames : /\ f = Frame(kind, usr[u].id, u, <<u, usr[u].sent + 1>>)
                              /\ f.kind = kind /\ f.id = usr[u].id /\ f.target = u
                              /\ f.data = <<u, usr[u].sent + 1>>
      BY <1>3, <3>1, FrameTyped
    <3>3. PICK x : x = [usr[u] EXCEPT !.pc = "copy", !.sent = usr[u].sent + 1]
      OBVIOUS
    <3>4. /\ x \in UserStates /\ x.pc = "copy" /\ x.id = usr[u].id
          /\ x.closed = usr[u].closed /\ x.linked = usr[u].linked
          /\ x.sent = usr[u].sent + 1 /\ x.got = usr[u].got /\ x.cut = usr[u].cut
      BY <1>3, <3>1, <3>3 DEF UserStates, UserPcs
    <3>5. usr' = [usr EXCEPT ![u] = x]
      BY <1>3, <2>1, <3>3
    <3>6. /\ usr' \in [Users -> UserStates] /\ usr'[u] = x
          /\ \A v \in Users \ {u} : usr'[v] = usr[v]
      BY <1>3, <3>4, <3>5
    <3>7. up' = Append(up, f)
      BY <1>1, <2>1, <3>2 DEF SendUp
    <3> QED
      BY <2>1, <3>1, <3>2, <3>4, <3>6, <3>7
  <2>2. CASE /\ kind = "new"
             /\ SendUp(Frame(kind, usr[u].id, u, None))
             /\ usr' = [usr EXCEPT ![u].pc = "copy"]
    <3>1. PICK f \in Frames : /\ f = Frame(kind, usr[u].id, u, None)
                              /\ f.kind = kind /\ f.id = usr[u].id /\ f.target = u
                              /\ f.data = None
      BY <1>3, FrameTyped
    <3>2. up' = Append(up, f)
      BY <1>1, <2>2, <3>1 DEF SendUp
    <3>3. "copy" \in UserPcs /\ usr[u].sent \in 0 .. MaxBytes
      BY <1>3 DEF UserPcs, UserStates
    <3> QED
      BY <2>2, <3>1, <3>2, <3>3, UserAt
  <2> QED
    BY <1>2, <2>1, <2>2
<1>5. up' \in Seq(Frames) /\ UpFrames \in Seq(Frames) /\ UpFrames' = Append(UpFrames, f)
  <2>1. rxs \in [frame : Frames \cup {None}, to : Users \cup {None}] /\ up \in Seq(Frames)
        /\ rxs' = rxs
    BY <1>1 DEF MuxTypes, svars
  <2> QED
    BY <1>4, <2>1, WaitingSend, MuxTyped DEF UpFrames
<1>6. MuxTypes'
  BY <1>1, <1>4, <1>5 DEF MuxTypes, svars
<1>7. usr[u].linked /\ "copy" \in Sending /\ "copy" \in Linked /\ u \in Allocated
  BY <1>1 DEF ClientSessions, Linked, Sending, Allocated
<1>8. UsersGoOn
  BY <1>4, <1>7 DEF UsersGoOn, Allocated
<1>9. ClientSessions'
  <2>1. \A v \in Users :
              /\ usr[v].linked <=> usr[v].pc \in Linked
              /\ usr[v].pc = "over" => usr[v].closed
              /\ usr[v].pc \notin Sending => usr[v].sent = 0
    BY DEF ClientSessions
  <2>2. usr'[u].pc \in Linked \cup {"alloc"} /\ usr[u].pc \in Linked \cup {"alloc"}
        /\ usr'[u].pc \in Sending /\ usr'[u].pc # "over"
    BY <1>4, <1>7 DEF Allocated
  <2>3. \A v \in Users :
          /\ usr'[v].pc \in Linked \cup {"alloc"} <=> usr[v].pc \in Linked \cup {"alloc"}
          /\ usr'[v].id = usr[v].id /\ usr'[v].closed = usr[v].closed
          /\ usr'[v].linked <=> usr'[v].pc \in Linked
          /\ usr'[v].pc = "over" => usr'[v].closed
          /\ usr'[v].pc \notin Sending => usr'[v].sent = 0
    <3> SUFFICES ASSUME NEW v \in Users
                 PROVE  /\ usr'[v].pc \in Linked \cup {"alloc"}
                              <=> usr[v].pc \in Linked \cup {"alloc"}
                        /\ usr'[v].id = usr[v].id /\ usr'[v].closed = usr[v].closed
                        /\ usr'[v].linked <=> usr'[v].pc \in Linked
                        /\ usr'[v].pc = "over" => usr'[v].closed
                        /\ usr'[v].pc \notin Sending => usr'[v].sent = 0
      OBVIOUS
    <3>1. CASE v = u
      BY <1>4, <1>7, <2>1, <2>2, <3>1
    <3>2. CASE v # u
      <4>1. usr'[v] = usr[v]
        BY <1>4, <1>7, <3>2
      <4> QED
        BY <2>1, <4>1
    <3> QED
      BY <3>1, <3>2
  <2> QED
    BY <1>1, <2>3, ClientUnmoved
<1>10. ServerSessions' /\ FoundUp' /\ FoundDown'
  BY <1>1, <1>8, ServerUnmoved, FoundStays
<1>11. FramesDown' /\ BytesDown'
  <2>1. DownFrames' = DownFrames /\ srv' = srv /\ link' = link
    BY <1>1 DEF DownFrames, svars
  <2>2. \A v \in Users : usr'[v].got = usr[v].got
    BY <1>4
  <2> QED
    BY <1>6, <1>8, <2>1, <2>2, DownUnmoved
<1>12. kind = "new" => /\ usr[u].sent = 0 /\ srv[u].pc = "none"
                       /\ \A j \in 1 .. Len(UpFrames) : ~OpensAt(UpFrames, j, u)
  <2> SUFFICES ASSUME kind = "new"
               PROVE  /\ usr[u].sent = 0 /\ srv[u].pc = "none"
                      /\ \A j \in 1 .. Len(UpFrames) : ~OpensAt(UpFrames, j, u)
    OBVIOUS
  <2>1. usr[u].pc \notin Sending
    BY <1>1, <1>2 DEF Sending
  <2> QED
    BY <2>1 DEF ClientSessions, ServerSessions, FramesUp, FramesUpOf, OpensAt
<1>13. kind = "keep" /\ srv[u].pc = "none" =>
          \E j \in 1 .. Len(UpFrames) : OpensAt(UpFrames, j, u)
  BY <1>1, <1>2 DEF OpenedUp
<1>14. FramesUp'
  <2>1. \A v \in Users : usr[v].pc \in Sending =>
           usr'[v].pc \in Sending /\ usr'[v].id = usr[v].id
    BY <1>8 DEF UsersGoOn, Allocated, Linked
  <2>2. FramesUpOf(UpFrames, usr, srv) /\ Len(UpFrames) <= Len(UpFrames)
    BY <1>5 DEF FramesUp
  <2>3. FramesUpOf(UpFrames, usr', srv)
    BY <1>5, <2>1, <2>2, UpStay
  <2>4. f.kind = "new" =>
           /\ f.target \in Users /\ usr'[f.target].pc \in Sending
           /\ f.id = usr'[f.target].id /\ srv[f.target].pc = "none"
           /\ f.data \in {None, <<f.target, 1>>}
           /\ \A j \in 1 .. Len(UpFrames) : ~OpensAt(UpFrames, j, f.target)
    <3> SUFFICES ASSUME f.kind = "new"
                 PROVE  /\ f.target \in Users /\ usr'[f.target].pc \in Sending
                        /\ f.id = usr'[f.target].id /\ srv[f.target].pc = "none"
                        /\ f.data \in {None, <<f.target, 1>>}
                        /\ \A j \in 1 .. Len(UpFrames) : ~OpensAt(UpFrames, j, f.target)
      OBVIOUS
    <3>1. usr[u].sent = 0 /\ srv[u].pc = "none" /\ f.target = u
          /\ \A j \in 1 .. Len(UpFrames) : ~OpensAt(UpFrames, j, u)
      BY <1>4, <1>12
    <3>2. f.data = <<u, 1>> \/ f.data = None
      <4>1. usr[u].sent + 1 = 1
        BY <3>1
      <4> QED
        BY <1>4, <4>1
    <3>3. usr'[u].pc \in Sending /\ f.id = usr'[u].id
      BY <1>4, <1>7
    <3> QED
      BY <3>1, <3>2, <3>3
  <2>5. f.kind = "keep" =>
           /\ f.data # None /\ usr'[f.data[1]].pc \in Sending
           /\ f.id = usr'[f.data[1]].id
           /\ srv[f.data[1]].pc = "none" =>
                 \E j \in 1 .. Len(UpFrames) : OpensAt(UpFrames, j, f.data[1])
    <3> SUFFICES ASSUME f.kind = "keep"
                 PROVE  /\ f.data # None /\ usr'[f.data[1]].pc \in Sending
                        /\ f.id = usr'[f.data[1]].id
                        /\ srv[f.data[1]].pc = "none" =>
                             \E j \in 1 .. Len(UpFrames) : OpensAt(UpFrames, j, f.data[1])
      OBVIOUS
    <3>1. f.data = <<u, usr[u].sent + 1>> /\ usr[u].sent < MaxBytes
      BY <1>4
    <3>2. f.data[1] = u /\ f.data \in Bytes
      BY <1>3, <3>1, MuxAssumption DEF Bytes
    <3> QED
      BY <1>4, <1>7, <1>13, <3>2, MuxAssumption
  <2>6. FramesUpOf(Append(UpFrames, f), usr', srv)
    BY <1>4, <1>5, <2>3, <2>4, <2>5, UpSent
  <2> QED
    BY <1>1, <1>5, <2>6 DEF FramesUp, svars
<1>15. OpenedUp'
  <2>1. /\ Len(UpFrames') = Len(UpFrames) + 1 /\ Len(UpFrames) \in Nat
        /\ UpFrames'[Len(UpFrames) + 1] = f
        /\ \A j \in 1 .. Len(UpFrames) : UpFrames'[j] = UpFrames[j]
    BY <1>5
  <2>2. \A v : \A j \in 1 .. Len(UpFrames) : OpensAt(UpFrames, j, v) =>
           j \in 1 .. Len(UpFrames') /\ OpensAt(UpFrames', j, v)
    BY <2>1 DEF OpensAt
  <2>3. \A v \in Users \ {u} : usr'[v].pc = "copy" /\ srv'[v].pc = "none" =>
           \E j \in 1 .. Len(UpFrames) : OpensAt(UpFrames, j, v)
    BY <1>1, <1>4 DEF OpenedUp, svars
  <2>4. f.kind = "new" => Len(UpFrames) + 1 \in 1 .. Len(UpFrames')
                          /\ OpensAt(UpFrames', Len(UpFrames) + 1, u)
    BY <1>4, <2>1 DEF OpensAt
  <2>5. srv'[u].pc = "none" => \E j \in 1 .. Len(UpFrames') : OpensAt(UpFrames', j, u)
    BY <1>1, <1>4, <1>13, <2>2, <2>4 DEF svars
  <2> QED
    BY <2>2, <2>3, <2>5 DEF OpenedUp
<1>16. BytesUp'
  <2> SUFFICES ASSUME NEW v \in Users
               PROVE  Onward(Append(UpFrames, f), v, usr'[v].sent, srv[v].got,
                             ~srv[v].closed, TRUE)
    <3>1. link'.up = TRUE /\ srv' = srv
      BY <1>1 DEF svars, MuxTypes
    <3> QED
      BY <1>5, <3>1 DEF BytesUp
  <2>1. Onward(UpFrames, v, usr[v].sent, srv[v].got, ~srv[v].closed, TRUE)
    <3>1. link.up = TRUE
      BY <1>1 DEF MuxTypes
    <3> QED
      BY <3>1 DEF BytesUp
  <2>2. /\ usr[v].sent \in Nat /\ srv[v].got \in Seq(Bytes)
        /\ (~srv[v].closed) \in BOOLEAN
    BY MuxTyped DEF MuxTypes, SiteStates
  <2>3. CASE v = u /\ f.data = <<u, usr[u].sent + 1>> /\ usr'[u].sent = usr[u].sent + 1
             /\ usr[u].sent < MaxBytes
    BY <1>5, <2>1, <2>2, <2>3, OnwardPut
  <2>4. CASE usr'[v].sent = usr[v].sent /\ (v # u \/ f.data = None)
    <3>1. ~Carries(f, v)
      <4>1. f.data = <<u, usr[u].sent + 1>> => f.data[1] = u
        OBVIOUS
      <4> QED
        BY <1>4, <2>4, <4>1 DEF Carries
    <3> QED
      BY <1>5, <2>1, <2>2, <2>4, <3>1, OnwardOther
  <2>5. CASE v = u
    BY <1>4, <2>3, <2>4, <2>5
  <2>6. CASE v # u
    BY <1>4, <2>4, <2>6
  <2> QED
    BY <2>5, <2>6
<1> QED
  BY <1>6, <1>9, <1>10, <1>11, <1>14, <1>15, <1>16

\* Frames to the server that are lost with the link; sessions may close.
LEMMA UpLost ==
    ASSUME MuxInv, MuxTypes', UsersGoOn, SitesGoOn, ~link'.up,
           Len(UpFrames') <= Len(UpFrames), UpFrames' \in Seq(Frames),
           \A k \in 1 .. Len(UpFrames') : UpFrames'[k] = UpFrames[k],
           \A v \in Users : usr'[v].sent = usr[v].sent /\ srv'[v].got = srv[v].got
    PROVE  FramesUp' /\ OpenedUp' /\ BytesUp'
<1> USE DEF MuxInv
<1>1. FramesUp'
  <2>1. \A v \in Users : usr[v].pc \in Sending =>
           usr'[v].pc \in Sending /\ usr'[v].id = usr[v].id
    BY DEF UsersGoOn, Allocated, Linked
  <2>2. FramesUpOf(UpFrames, usr, srv) /\ UpFrames \in Seq(Frames)
    BY MuxTyped DEF FramesUp
  <2>3. \A v \in Users : srv'[v].pc = "none" <=> srv[v].pc = "none"
    BY DEF SitesGoOn
  <2>4. FramesUpOf(UpFrames', usr', srv')
    BY <2>1, <2>2, <2>3, UpStay
  <2> QED
    BY <2>4 DEF FramesUp
<1>2. OpenedUp'
  BY DEF OpenedUp
<1>3. BytesUp'
  <2> SUFFICES ASSUME NEW v \in Users
               PROVE  Onward(UpFrames', v, usr[v].sent, srv[v].got, ~srv'[v].closed, link'.up)
    BY DEF BytesUp
  <2>1. Onward(UpFrames, v, usr[v].sent, srv[v].got, ~srv[v].closed, link.up)
    BY DEF BytesUp
  <2>2. /\ usr[v].sent \in Nat /\ srv[v].got \in Seq(Bytes) /\ UpFrames \in Seq(Frames)
        /\ (~srv[v].closed) \in BOOLEAN /\ link.up \in BOOLEAN /\ link'.up \in BOOLEAN
        /\ (~srv'[v].closed) \in BOOLEAN
    BY MuxTyped DEF MuxTypes, SiteStates
  <2>3. Onward(UpFrames', v, usr[v].sent, srv[v].got, ~srv[v].closed, FALSE)
    BY <2>1, <2>2, OnwardLost
  <2>4. ~srv'[v].closed => ~srv[v].closed
    BY DEF SitesGoOn
  <2>5. PICK t \in BOOLEAN, t2 \in BOOLEAN, a \in BOOLEAN :
           t = ~srv[v].closed /\ t2 = ~srv'[v].closed /\ a = link'.up
    BY <2>2
  <2>6. Onward(UpFrames', v, usr[v].sent, srv[v].got, t, FALSE) /\ (t2 => t) /\ ~a
    BY <2>3, <2>4, <2>5
  <2>7. Onward(UpFrames', v, usr[v].sent, srv[v].got, t2, a)
    BY <2>6, OnwardLess
  <2> QED
    BY <2>5, <2>7
<1> QED
  BY <1>1, <1>2, <1>3

\* Likewise of the frames to the client.
LEMMA DownLost ==
    ASSUME MuxInv, MuxTypes', SitesGoOn, ~link'.down,
           Len(DownFrames') <= Len(DownFrames), DownFrames' \in Seq(Frames),
           \A k \in 1 .. Len(DownFrames') : DownFrames'[k] = DownFrames[k],
           \A v \in Users : /\ srv'[v].sent = srv[v].sent /\ usr'[v].got = usr[v].got
                            /\ usr[v].closed => usr'[v].closed
    PROVE  FramesDown' /\ BytesDown'
<1> USE DEF MuxInv
<1>1. FramesDown'
  <2>1. \A v \in Users : srv[v].pc # "none" =>
           srv'[v].pc # "none" /\ srv'[v].id = srv[v].id
    BY DEF SitesGoOn
  <2>2. FramesDownOf(DownFrames, srv) /\ DownFrames \in Seq(Frames)
    BY MuxTyped DEF FramesDown
  <2>3. FramesDownOf(DownFrames', srv')
    BY <2>1, <2>2, DownStay
  <2> QED
    BY <2>3 DEF FramesDown
<1>2. BytesDown'
  <2> SUFFICES ASSUME NEW v \in Users
               PROVE  Onward(DownFrames', v, srv[v].sent, usr[v].got, ~usr'[v].closed,
                             link'.down)
    BY DEF BytesDown
  <2>1. Onward(DownFrames, v, srv[v].sent, usr[v].got, ~usr[v].closed, link.down)
    BY DEF BytesDown
  <2>2. /\ srv[v].sent \in Nat /\ usr[v].got \in Seq(Bytes) /\ DownFrames \in Seq(Frames)
        /\ (~usr[v].closed) \in BOOLEAN /\ link.down \in BOOLEAN /\ link'.down \in BOOLEAN
        /\ (~usr'[v].closed) \in BOOLEAN
    BY MuxTyped DEF MuxTypes, UserStates
  <2>3. Onward(DownFrames', v, srv[v].sent, usr[v].got, ~usr[v].closed, FALSE)
    BY <2>1, <2>2, OnwardLost
  <2>4. PICK t \in BOOLEAN, t2 \in BOOLEAN, a \in BOOLEAN :
           t = ~usr[v].closed /\ t2 = ~usr'[v].closed /\ a = link'.down
    BY <2>2
  <2>5. Onward(DownFrames', v, srv[v].sent, usr[v].got, t, FALSE) /\ (t2 => t) /\ ~a
    BY <2>3, <2>4
  <2>6. Onward(DownFrames', v, srv[v].sent, usr[v].got, t2, a)
    BY <2>5, OnwardLess
  <2> QED
    BY <2>4, <2>6
<1> QED
  BY <1>1, <1>2

\* A set of sessions is closed at the client and leaves the map.
LEMMA ClientCloses ==
    ASSUME MuxInv, MuxTypes', NEW S \in SUBSET Allocated, cm'.count = cm.count,
           \A i \in Ids : cm'.map[i] = IF cm.map[i] \in S THEN None ELSE cm.map[i],
           cm'.closed => cm.closed \/ \A i \in Ids : cm'.map[i] = None,
           \A v \in Users :
              /\ usr'[v].pc \in Linked \cup {"alloc"} <=> usr[v].pc \in Linked \cup {"alloc"}
              /\ usr'[v].id = usr[v].id
              /\ usr'[v].closed <=> usr[v].closed \/ v \in S
              /\ usr'[v].linked <=> usr'[v].pc \in Linked
              /\ usr'[v].pc = "over" => usr'[v].closed
              /\ usr'[v].pc \notin Sending => usr'[v].sent = 0
    PROVE  ClientSessions'
<1> USE DEF MuxInv
<1>1. Allocated' = Allocated
  BY DEF Allocated
<1>2. \A v \in Allocated : v \in Users /\ usr[v].id \in Ids
  BY DEF Allocated, MuxTypes, UserStates
<1>3. \A v \in S : v \in Allocated /\ v # None
  BY <1>2, MuxAssumption
<1>4. cm'.count = Cardinality(Allocated') /\ \A v \in Allocated' : usr'[v].id <= cm'.count
  BY <1>1, <1>2 DEF ClientSessions
<1>5. \A v, w \in Allocated' : usr'[v].id = usr'[w].id => v = w
  BY <1>1, <1>2 DEF ClientSessions
<1>6. \A i \in Ids : cm'.map[i] # None => /\ cm'.map[i] \in Allocated'
                                          /\ usr'[cm'.map[i]].id = i
                                          /\ ~usr'[cm'.map[i]].closed
  BY <1>1, <1>2 DEF ClientSessions
<1>7. \A v \in Allocated' : ~usr'[v].closed => cm'.map[usr'[v].id] = v
  BY <1>1, <1>2 DEF ClientSessions
<1>8. cm'.closed => \A i \in Ids : cm'.map[i] = None
  BY DEF ClientSessions
<1>9. \A v \in Users : usr'[v].closed => v \in Allocated'
  BY <1>1, <1>3 DEF ClientSessions
<1> QED
  BY <1>4, <1>5, <1>6, <1>7, <1>8, <1>9 DEF ClientSessions

\* Session.Close at the client, for one session.
LEMMA RemovedFacts ==
    ASSUME MuxInv, NEW u \in Allocated, cm' = Removed(cm, usr[u])
    PROVE  /\ cm' \in [count : Ids, map : [Ids -> Users \cup {None}], closed : BOOLEAN]
           /\ cm'.count = cm.count /\ cm'.closed = cm.closed
           /\ \A i \in Ids : cm'.map[i] = IF cm.map[i] \in {u} THEN None ELSE cm.map[i]
<1> USE DEF MuxInv
<1>1. u \in Users /\ u # None /\ usr[u].id \in Ids
  BY MuxAssumption DEF Allocated, MuxTypes, UserStates
<1>2. CASE usr[u].closed \/ cm.closed
  <2>1. cm' = cm
    BY <1>2 DEF Removed
  <2>2. \A i \in Ids : cm.map[i] # u
    BY <1>1, <1>2 DEF ClientSessions
  <2> QED
    BY <2>1, <2>2 DEF MuxTypes
<1>3. CASE ~usr[u].closed /\ ~cm.closed
  <2>1. cm' = [cm EXCEPT !.map[usr[u].id] = None]
    BY <1>3 DEF Removed
  <2>2. /\ cm' \in [count : Ids, map : [Ids -> Users \cup {None}], closed : BOOLEAN]
        /\ cm'.count = cm.count /\ cm'.closed = cm.closed
        /\ \A i \in Ids : cm'.map[i] = IF i = usr[u].id THEN None ELSE cm.map[i]
    <3>1. cm \in [count : Ids, map : [Ids -> Users \cup {None}], closed : BOOLEAN]
      BY DEF MuxTypes
    <3>2. PICK g : g = [cm.map EXCEPT ![usr[u].id] = None]
      OBVIOUS
    <3>3. /\ g \in [Ids -> Users \cup {None}]
          /\ \A i \in Ids : g[i] = IF i = usr[u].id THEN None ELSE cm.map[i]
      BY <1>1, <3>1, <3>2
    <3>4. cm' = [cm EXCEPT !.map = g]
      BY <2>1, <3>1, <3>2
    <3> QED
      BY <3>1, <3>3, <3>4
  <2>3. \A i \in Ids : cm.map[i] = u <=> i = usr[u].id
    BY <1>1, <1>3 DEF ClientSessions
  <2> QED
    BY <2>2, <2>3
<1> QED
  BY <1>2, <1>3

\* Session.Close of a user: what it leaves alone, and the input interrupted.
LEMMA ClosedUserFacts ==
    ASSUME NEW x \in UserStates
    PROVE  /\ ClosedUser(x) \in UserStates /\ ClosedUser(x).closed
           /\ ClosedUser(x).pc = x.pc /\ ClosedUser(x).id = x.id
           /\ ClosedUser(x).sent = x.sent /\ ClosedUser(x).got = x.got
           /\ ClosedUser(x).linked = x.linked
           /\ x.closed /\ x.cut => ClosedUser(x).cut
           /\ x.linked => x.closed \/ ClosedUser(x).cut
<1>1. CASE x.closed
  BY <1>1 DEF ClosedUser
<1>2. CASE ~x.closed
  <2>1. ClosedUser(x) = [x EXCEPT !.closed = TRUE, !.cut = x.linked]
    BY <1>2 DEF ClosedUser
  <2> QED
    BY <1>2, <2>1 DEF UserStates
<1> QED
  BY <1>1, <1>2

\* WriterClose sends the end of the session, if the link still takes it.
LEMMA WriterCloseKeeps ==
    ASSUME MuxInv, NEW u \in Users, WriterClose(u)
    PROVE  MuxInv'
<1> USE DEF MuxInv
<1>1. /\ usr[u].pc = "end" /\ SendUp(Frame("end", usr[u].id, u, None))
      /\ usr' = [usr EXCEPT ![u].pc = "close"]
      /\ UNCHANGED <<cm, done, monitor, rxc, svars, down, link>>
  BY DEF WriterClose
<1>2. usr[u].id \in Ids /\ "close" \in UserPcs /\ "close" \in Sending /\ "close" \in Linked
      /\ "end" \in Sending /\ "end" \in Linked
  BY DEF MuxTypes, UserStates, UserPcs, Sending, Linked
<1>3. PICK f \in Frames : /\ f = Frame("end", usr[u].id, u, None)
                          /\ f.kind = "end" /\ f.data = None
  BY <1>2, FrameTyped
<1>4. up' = (IF link.up THEN Append(up, f) ELSE up) /\ up' \in Seq(Frames)
  BY <1>1, <1>3 DEF SendUp, MuxTypes
<1>5. /\ usr' \in [Users -> UserStates]
      /\ \A v \in Users \ {u} : usr'[v] = usr[v]
      /\ usr'[u].pc = "close" /\ usr'[u].id = usr[u].id
      /\ usr'[u].closed = usr[u].closed /\ usr'[u].linked = usr[u].linked
      /\ usr'[u].sent = usr[u].sent /\ usr'[u].got = usr[u].got
      /\ usr'[u].cut = usr[u].cut
  BY <1>1, <1>2, UserAt
<1>6. MuxTypes'
  BY <1>1, <1>4, <1>5 DEF MuxTypes, svars
<1>7. UsersGoOn
  BY <1>1, <1>2, <1>5 DEF UsersGoOn, Allocated
<1>8. ClientSessions'
  <2>1. \A v \in Users :
              /\ usr[v].linked <=> usr[v].pc \in Linked
              /\ usr[v].pc = "over" => usr[v].closed
              /\ usr[v].pc \notin Sending => usr[v].sent = 0
    BY DEF ClientSessions
  <2> QED
    BY <1>1, <1>2, <1>5, <2>1, ClientUnmoved
<1>9. ServerSessions' /\ FoundUp' /\ FoundDown'
  BY <1>1, <1>7, ServerUnmoved, FoundStays
<1>10. FramesDown' /\ BytesDown'
  <2>1. DownFrames' = DownFrames /\ srv' = srv /\ link' = link
    BY <1>1 DEF DownFrames, svars
  <2>2. \A v \in Users : usr'[v].got = usr[v].got
    BY <1>5
  <2> QED
    BY <1>6, <1>7, <2>1, <2>2, DownUnmoved
<1>11. FramesUp' /\ OpenedUp' /\ BytesUp'
  <2>1. UNCHANGED <<srv, rxs, link>>
    BY <1>1 DEF svars
  <2>2. \A v \in Users : /\ usr'[v].sent = usr[v].sent
                         /\ usr'[v].pc = "copy" => usr[v].pc = "copy"
    BY <1>5
  <2> QED
    BY <1>3, <1>4, <1>6, <1>7, <2>1, <2>2, SendsEmpty
<1> QED
  BY <1>6, <1>8, <1>9, <1>10, <1>11

\* SessionClose takes the session out of the map.
LEMMA SessionCloseKeeps ==
    ASSUME MuxInv, NEW u \in Users, SessionClose(u)
    PROVE  MuxInv'
<1> USE DEF MuxInv
<1>1. /\ usr[u].pc = "close" /\ cm' = Removed(cm, usr[u])
      /\ usr' = [usr EXCEPT ![u] = [ClosedUser(usr[u]) EXCEPT !.pc = "over"]]
      /\ UNCHANGED <<done, monitor, rxc, svars, up, down, link>>
  BY DEF SessionClose
<1>2. usr \in [Users -> UserStates] /\ usr[u] \in UserStates
  BY DEF MuxTypes
<1>3. "over" \in UserPcs /\ "over" \in Sending /\ "over" \in Linked /\ "close" \in Sending
      /\ "close" \in Linked
  BY DEF UserPcs, Sending, Linked
<1>4. PICK x : x = [ClosedUser(usr[u]) EXCEPT !.pc = "over"]
  OBVIOUS
<1>5. /\ x \in UserStates /\ x.pc = "over" /\ x.closed /\ x.id = usr[u].id
      /\ x.sent = usr[u].sent /\ x.got = usr[u].got /\ x.linked = usr[u].linked
      /\ usr[u].closed /\ usr[u].cut => x.cut
      /\ usr[u].linked => usr[u].closed \/ x.cut
  <2>1. PICK y \in UserStates : y = ClosedUser(usr[u])
    BY <1>2, ClosedUserFacts
  <2>2. /\ x \in UserStates /\ x.pc = "over" /\ x.closed = y.closed /\ x.id = y.id
        /\ x.sent = y.sent /\ x.got = y.got /\ x.linked = y.linked /\ x.cut = y.cut
    BY <1>3, <1>4, <2>1 DEF UserStates
  <2> QED
    BY <1>2, <2>1, <2>2, ClosedUserFacts
<1>6. /\ usr' \in [Users -> UserStates] /\ usr'[u] = x
      /\ \A v \in Users \ {u} : usr'[v] = usr[v]
  BY <1>1, <1>2, <1>4, <1>5
<1>7. u \in Allocated
  BY <1>1, <1>3 DEF Allocated
<1>8. /\ cm' \in [count : Ids, map : [Ids -> Users \cup {None}], closed : BOOLEAN]
      /\ cm'.count = cm.count /\ cm'.closed = cm.closed
      /\ \A i \in Ids : cm'.map[i] = IF cm.map[i] \in {u} THEN None ELSE cm.map[i]
  BY <1>1, <1>7, RemovedFacts
<1>9. MuxTypes'
  BY <1>1, <1>6, <1>8 DEF MuxTypes, svars
<1>10. UsersGoOn
  BY <1>1, <1>3, <1>5, <1>6 DEF UsersGoOn, Allocated
<1>11. ClientSessions'
  <2>1. \A v \in Users :
              /\ usr[v].linked <=> usr[v].pc \in Linked
              /\ usr[v].pc = "over" => usr[v].closed
              /\ usr[v].pc \notin Sending => usr[v].sent = 0
    BY DEF ClientSessions
  <2>2. \A v \in Users :
          /\ usr'[v].pc \in Linked \cup {"alloc"} <=> usr[v].pc \in Linked \cup {"alloc"}
          /\ usr'[v].id = usr[v].id
          /\ usr'[v].closed <=> usr[v].closed \/ v \in {u}
          /\ usr'[v].linked <=> usr'[v].pc \in Linked
          /\ usr'[v].pc = "over" => usr'[v].closed
          /\ usr'[v].pc \notin Sending => usr'[v].sent = 0
    <3> SUFFICES ASSUME NEW v \in Users
                 PROVE  /\ usr'[v].pc \in Linked \cup {"alloc"}
                              <=> usr[v].pc \in Linked \cup {"alloc"}
                        /\ usr'[v].id = usr[v].id
                        /\ usr'[v].closed <=> usr[v].closed \/ v \in {u}
                        /\ usr'[v].linked <=> usr'[v].pc \in Linked
                        /\ usr'[v].pc = "over" => usr'[v].closed
                        /\ usr'[v].pc \notin Sending => usr'[v].sent = 0
      OBVIOUS
    <3>1. CASE v = u
      BY <1>1, <1>3, <1>5, <1>6, <2>1, <3>1
    <3>2. CASE v # u
      <4>1. usr'[v] = usr[v]
        BY <1>6, <3>2
      <4> QED
        BY <2>1, <3>2, <4>1
    <3> QED
      BY <3>1, <3>2
  <2>3. {u} \in SUBSET Allocated
    BY <1>7
  <2> QED
    BY <1>8, <1>9, <2>2, <2>3, ClientCloses
<1>12. \A v \in Users : /\ usr'[v].sent = usr[v].sent /\ usr'[v].got = usr[v].got
                        /\ usr'[v].pc = "copy" => usr[v].pc = "copy"
  BY <1>5, <1>6
<1> QED
  BY <1>1, <1>9, <1>10, <1>11, <1>12, UsersStep

\* The session of the data that comes next for the client.
LEMMA DataDown ==
    ASSUME MuxInv, NEW f, DownFrames # <<>>, f = DownFrames[1]
    PROVE  /\ f \in Frames /\ f.kind # "new"
           /\ \A v : Carries(f, v) => f.kind = "keep" /\ f.data[1] = v
           /\ f.kind = "keep" => /\ f.data # None /\ f.data[1] \in Users
                                 /\ f.data[1] \in Allocated /\ usr[f.data[1]].id = f.id
                                 /\ usr[f.data[1]].linked
                                 /\ \A v \in Allocated : usr[v].id = f.id => v = f.data[1]
<1> USE DEF MuxInv
<1>1. 1 \in 1 .. Len(DownFrames) /\ f \in Frames
  BY MuxTyped
<1>2. /\ f.kind # "new" /\ f.kind = "end" => f.data = None
      /\ f.kind = "keep" => /\ f.data # None /\ srv[f.data[1]].pc # "none"
                            /\ f.id = srv[f.data[1]].id
  BY <1>1 DEF FramesDown, FramesDownOf
<1>3. f.kind \in {"new", "keep", "end"}
  BY <1>1 DEF Frames
<1>4. f.kind = "keep" => f.data[1] \in Users
  BY <1>1, <1>2, FrameData
<1>5. f.kind = "keep" => usr[f.data[1]].pc \in Sending /\ usr[f.data[1]].id = f.id
  BY <1>2, <1>4 DEF ServerSessions
<1>6. f.kind = "keep" => f.data[1] \in Allocated /\ usr[f.data[1]].linked
  BY <1>4, <1>5 DEF Allocated, Linked, ClientSessions
<1>7. f.kind = "keep" => \A v \in Allocated : usr[v].id = f.id => v = f.data[1]
  BY <1>5, <1>6 DEF ClientSessions
<1>8. f.kind # "new"
  BY <1>1 DEF FramesDown, FramesDownOf
<1>9. \A v : Carries(f, v) => f.kind = "keep" /\ f.data[1] = v
  BY <1>1, <1>3, <1>8 DEF Carries, FramesDown, FramesDownOf
<1> QED
  BY <1>1, <1>2, <1>4, <1>5, <1>6, <1>7, <1>8, <1>9

\* fetchOutput takes a frame and looks its session up.
LEMMA ClientTakeKeeps ==
    ASSUME MuxInv, ClientTake
    PROVE  MuxInv'
<1> USE DEF MuxInv
<1>1. /\ rxc.frame = None /\ down # <<>> /\ down' = Tail(down)
      /\ rxc' = [frame |-> Head(down), to |-> Find(cm, Head(down))]
      /\ UNCHANGED <<cm, done, monitor, usr, svars, up, link>>
  BY DEF ClientTake
<1>2. PICK f \in Frames : f = Head(down) /\ f = DownFrames[1] /\ DownFrames # <<>>
  <2>1. DownFrames = down /\ down \in Seq(Frames)
    BY <1>1, MuxTyped DEF MuxTypes
  <2> QED
    BY <1>1, <2>1
<1>3. /\ f.kind # "new" /\ f # None
      /\ f.kind = "keep" => /\ f.data[1] \in Users /\ f.data[1] \in Allocated
                            /\ usr[f.data[1]].id = f.id
  BY <1>2, DataDown, MuxAssumption
<1>4. f.id \in Ids
  BY DEF Frames
<1>5. PICK t \in Users \cup {None} :
         /\ t = Find(cm, f)
         /\ t # None => t \in Allocated /\ usr[t].id = f.id /\ ~usr[t].closed
         /\ t = None => \A v \in Allocated : usr[v].id = f.id => usr[v].closed
  <2>1. CASE cm.closed
    <3>1. Find(cm, f) = None
      BY <2>1 DEF Find
    <3>2. \A v \in Allocated : usr[v].id = f.id => usr[v].closed
      <4>1. \A v \in Allocated : v # None
        BY MuxAssumption DEF Allocated
      <4> QED
        BY <1>4, <2>1, <4>1 DEF ClientSessions
    <3> QED
      BY <3>1, <3>2
  <2>2. CASE ~cm.closed
    <3>1. Find(cm, f) = cm.map[f.id]
      BY <1>3, <2>2 DEF Find
    <3>2. cm.map[f.id] \in Users \cup {None}
      BY <1>4 DEF MuxTypes
    <3>3. cm.map[f.id] = None => \A v \in Allocated : usr[v].id = f.id => usr[v].closed
      <4>1. \A v \in Allocated : v # None
        BY MuxAssumption DEF Allocated
      <4> QED
        BY <4>1 DEF ClientSessions
    <3> QED
      BY <1>4, <3>1, <3>2, <3>3 DEF ClientSessions
  <2> QED
    BY <2>1, <2>2
<1>6. rxc'.frame = f /\ rxc'.to = t
      /\ rxc' \in [frame : Frames \cup {None}, to : Users \cup {None}]
  BY <1>1, <1>2, <1>5
<1>7. DownFrames' = DownFrames
  <2>1. rxc \in [frame : Frames \cup {None}, to : Users \cup {None}] /\ down \in Seq(Frames)
    BY DEF MuxTypes
  <2> QED
    BY <1>1, <1>2, <1>6, <2>1, WaitingTake DEF DownFrames
<1>8. MuxTypes'
  <2>1. Tail(down) \in Seq(Frames)
    BY <1>1 DEF MuxTypes
  <2> QED
    BY <1>1, <1>6, <2>1 DEF MuxTypes, svars
<1>9. UsersGoOn
  BY <1>1 DEF UsersGoOn, Allocated
<1>10. ClientSessions' /\ ServerSessions' /\ FoundUp'
  <2>1. ClientSessions'
    BY <1>1 DEF ClientSessions, Allocated
  <2> QED
    BY <1>1, <1>9, <2>1, ServerUnmoved
<1>11. FramesDown' /\ BytesDown' /\ FramesUp' /\ OpenedUp' /\ BytesUp'
  <2>1. srv' = srv /\ link' = link /\ UpFrames' = UpFrames /\ usr' = usr
    BY <1>1 DEF svars, UpFrames
  <2> QED
    BY <1>7, <1>8, <1>9, <2>1, UpUnmoved, DownUnmoved
<1>12. FoundDown'
  <2>1. Allocated' = Allocated /\ usr' = usr
    BY <1>1 DEF Allocated
  <2> QED
    BY <1>3, <1>5, <1>6, <2>1 DEF FoundDown
<1> QED
  BY <1>8, <1>10, <1>11, <1>12

\* The frame in hand goes to nobody: its session was closed.
LEMMA ClientDrops ==
    ASSUME MuxInv, MuxTypes', rxc.frame # None, rxc.to = None,
           rxc' = NoFrame, UNCHANGED <<usr, srv, down, link>>
    PROVE  FramesDown' /\ FoundDown' /\ BytesDown'
<1> USE DEF MuxInv
<1>1. /\ DownFrames \in Seq(Frames) /\ DownFrames # <<>>
      /\ DownFrames[1] = rxc.frame /\ DownFrames' = Tail(DownFrames)
      /\ rxc'.frame = None /\ rxc'.to = None
  <2>1. rxc'.frame = None /\ rxc'.to = None
    BY DEF NoFrame
  <2>2. DownFrames' = down
    <3>1. rxc' \in [frame : Frames \cup {None}, to : Users \cup {None}] /\ down' \in Seq(Frames)
      BY DEF MuxTypes
    <3> QED
      BY <2>1, <3>1, WaitingFacts DEF DownFrames
  <2> QED
    BY <2>1, <2>2, MuxTyped
<1>2. FramesDown'
  BY <1>1, DownHandled DEF FramesDown
<1>3. FoundDown'
  BY <1>1 DEF FoundDown
<1>4. BytesDown'
  <2> SUFFICES ASSUME NEW v \in Users
               PROVE  Onward(Tail(DownFrames), v, srv[v].sent, usr[v].got,
                             ~usr[v].closed, link.down)
    BY <1>1 DEF BytesDown
  <2>1. Onward(DownFrames, v, srv[v].sent, usr[v].got, ~usr[v].closed, link.down)
    BY DEF BytesDown
  <2>2. /\ srv[v].sent \in Nat /\ usr[v].got \in Seq(Bytes)
        /\ (~usr[v].closed) \in BOOLEAN /\ link.down \in BOOLEAN
    BY MuxTyped DEF MuxTypes, UserStates
  <2>3. Carries(DownFrames[1], v) => usr[v].closed
    BY <1>1, DataDown DEF FoundDown
  <2> QED
    BY <1>1, <2>1, <2>2, <2>3, OnwardDrop
<1> QED
  BY <1>2, <1>3, <1>4

\* The frame in hand is the next byte of the user whose session was found.
LEMMA ClientDelivers ==
    ASSUME MuxInv, MuxTypes', NEW u \in Users, rxc.frame # None, rxc.to = u,
           rxc.frame.kind = "keep", ~usr[u].cut,
           rxc' = NoFrame, UNCHANGED <<srv, down, link>>,
           usr' = [usr EXCEPT ![u].got = Append(@, rxc.frame.data)]
    PROVE  /\ FramesDown' /\ FoundDown' /\ BytesDown'
<1> USE DEF MuxInv
<1>1. /\ DownFrames \in Seq(Frames) /\ DownFrames # <<>>
      /\ DownFrames[1] = rxc.frame /\ DownFrames' = Tail(DownFrames)
      /\ rxc'.frame = None /\ rxc'.to = None
  <2>1. rxc'.frame = None /\ rxc'.to = None
    BY DEF NoFrame
  <2>2. DownFrames' = down
    <3>1. rxc' \in [frame : Frames \cup {None}, to : Users \cup {None}] /\ down' \in Seq(Frames)
      BY DEF MuxTypes
    <3> QED
      BY <2>1, <3>1, WaitingFacts DEF DownFrames
  <2> QED
    BY <2>1, <2>2, MuxTyped
<1>2. FramesDown'
  BY <1>1, DownHandled DEF FramesDown
<1>3. FoundDown'
  BY <1>1 DEF FoundDown
<1>4. u # None /\ u \in Allocated /\ usr[u].id = rxc.frame.id /\ ~usr[u].closed
  BY MuxAssumption DEF FoundDown
<1>5. rxc.frame.data # None /\ rxc.frame.data[1] = u
  BY <1>1, <1>4, DataDown
<1>6. /\ usr'[u].got = Append(usr[u].got, rxc.frame.data) /\ usr'[u].closed = usr[u].closed
      /\ \A v \in Users \ {u} : usr'[v] = usr[v]
  <2>1. usr \in [Users -> UserStates]
    BY DEF MuxTypes
  <2> QED
    BY <2>1 DEF UserStates
<1>7. BytesDown'
  <2> SUFFICES ASSUME NEW v \in Users
               PROVE  Onward(Tail(DownFrames), v, srv[v].sent, usr'[v].got,
                             ~usr'[v].closed, link.down)
    BY <1>1 DEF BytesDown
  <2>1. Onward(DownFrames, v, srv[v].sent, usr[v].got, ~usr[v].closed, link.down)
    BY DEF BytesDown
  <2>2. /\ srv[v].sent \in Nat /\ usr[v].got \in Seq(Bytes)
        /\ (~usr[v].closed) \in BOOLEAN /\ link.down \in BOOLEAN
    BY MuxTyped DEF MuxTypes, UserStates
  <2>3. CASE v = u
    <3>1. (~usr[v].closed) = TRUE /\ (~usr'[v].closed) = TRUE
      BY <1>4, <1>6, <2>3
    <3>2. Onward(DownFrames, v, srv[v].sent, usr[v].got, TRUE, link.down)
      BY <2>1, <3>1
    <3>3. Carries(DownFrames[1], v)
      BY <1>1, <1>5, <2>3 DEF Carries
    <3>4. Onward(Tail(DownFrames), v, srv[v].sent, Append(usr[v].got, DownFrames[1].data),
                 TRUE, link.down)
      BY <1>1, <2>2, <3>2, <3>3, OnwardDeliver
    <3> QED
      BY <1>1, <1>6, <2>3, <3>1, <3>4
  <2>4. CASE v # u
    <3>1. ~Carries(DownFrames[1], v) /\ usr'[v] = usr[v]
      BY <1>1, <1>5, <1>6, <2>4 DEF Carries
    <3> QED
      BY <1>1, <2>1, <2>2, <3>1, OnwardDrop
  <2> QED
    BY <2>3, <2>4
<1> QED
  BY <1>2, <1>3, <1>7

\* The frame in hand ends the session, or finds it interrupted and closes it.
LEMMA ClientEnds ==
    ASSUME MuxInv, MuxTypes', NEW u \in Users, rxc.frame # None, rxc.to = u,
           rxc' = NoFrame, UNCHANGED <<srv, down, link>>, usr'[u].closed,
           \A v \in Users : usr'[v].got = usr[v].got,
           \A v \in Users \ {u} : usr'[v] = usr[v]
    PROVE  FramesDown' /\ FoundDown' /\ BytesDown'
<1> USE DEF MuxInv
<1>1. /\ DownFrames \in Seq(Frames) /\ DownFrames # <<>>
      /\ DownFrames[1] = rxc.frame /\ DownFrames' = Tail(DownFrames)
      /\ rxc'.frame = None /\ rxc'.to = None
  <2>1. rxc'.frame = None /\ rxc'.to = None
    BY DEF NoFrame
  <2>2. DownFrames' = down
    <3>1. rxc' \in [frame : Frames \cup {None}, to : Users \cup {None}] /\ down' \in Seq(Frames)
      BY DEF MuxTypes
    <3> QED
      BY <2>1, <3>1, WaitingFacts DEF DownFrames
  <2> QED
    BY <2>1, <2>2, MuxTyped
<1>2. FramesDown'
  BY <1>1, DownHandled DEF FramesDown
<1>3. FoundDown'
  BY <1>1 DEF FoundDown
<1>4. u # None /\ u \in Allocated /\ usr[u].id = rxc.frame.id
  BY MuxAssumption DEF FoundDown
<1>5. BytesDown'
  <2> SUFFICES ASSUME NEW v \in Users
               PROVE  Onward(Tail(DownFrames), v, srv[v].sent, usr[v].got,
                             ~usr'[v].closed, link.down)
    BY <1>1 DEF BytesDown
  <2>1. Onward(DownFrames, v, srv[v].sent, usr[v].got, ~usr[v].closed, link.down)
    BY DEF BytesDown
  <2>2. /\ srv[v].sent \in Nat /\ usr[v].got \in Seq(Bytes)
        /\ (~usr[v].closed) \in BOOLEAN /\ (~usr'[v].closed) \in BOOLEAN
        /\ link.down \in BOOLEAN
    BY MuxTyped DEF MuxTypes, UserStates
  <2>3. ~usr'[v].closed => ~usr[v].closed
    BY <2>2
  <2>4. Onward(DownFrames, v, srv[v].sent, usr[v].got, ~usr'[v].closed, link.down)
    <3>1. PICK t \in BOOLEAN, t2 \in BOOLEAN : t = ~usr[v].closed /\ t2 = ~usr'[v].closed
      BY <2>2
    <3>2. Onward(DownFrames, v, srv[v].sent, usr[v].got, t, link.down) /\ (t2 => t)
      BY <2>1, <2>3, <3>1
    <3>3. Onward(DownFrames, v, srv[v].sent, usr[v].got, t2, link.down)
      BY <2>2, <3>2, OnwardLess
    <3> QED
      BY <3>1, <3>3
  <2>5. Carries(DownFrames[1], v) => v = u
    BY <1>1, <1>4, DataDown
  <2>6. Carries(DownFrames[1], v) => ~(~usr'[v].closed)
    BY <2>5
  <2>7. PICK t2 \in BOOLEAN : t2 = ~usr'[v].closed
    BY <2>2
  <2>8. /\ Onward(DownFrames, v, srv[v].sent, usr[v].got, t2, link.down)
        /\ Carries(DownFrames[1], v) => ~t2
    BY <2>4, <2>6, <2>7
  <2>9. Onward(Tail(DownFrames), v, srv[v].sent, usr[v].got, t2, link.down)
    BY <1>1, <2>2, <2>8, OnwardDrop
  <2> QED
    BY <2>7, <2>9
<1> QED
  BY <1>2, <1>3, <1>5

\* fetchOutput deals with the frame it has taken.
LEMMA ClientHandleKeeps ==
    ASSUME MuxInv, ClientHandle
    PROVE  MuxInv'
<1> USE DEF MuxInv
<1>1. /\ rxc.frame # None /\ rxc' = NoFrame
      /\ UNCHANGED <<done, monitor, svars, down, link>>
  BY DEF ClientHandle
<1>2. /\ usr \in [Users -> UserStates] /\ rxc.frame \in Frames
      /\ rxc.to \in Users \cup {None} /\ NoFrame \in [frame : Frames \cup {None}, to : Users \cup {None}]
  BY <1>1 DEF MuxTypes, NoFrame
<1>3. UNCHANGED <<srv, down, link>> /\ rxs' = rxs /\ UNCHANGED svars
  BY <1>1 DEF svars
<1>4. \A v \in Users :
              /\ usr[v].linked <=> usr[v].pc \in Linked
              /\ usr[v].pc = "over" => usr[v].closed
              /\ usr[v].pc \notin Sending => usr[v].sent = 0
  BY DEF ClientSessions
<1>5. CASE /\ rxc.to = None /\ UNCHANGED <<cm, usr>>
           /\ IF rxc.frame.kind = "keep"
              THEN SendUp(Frame("end", rxc.frame.id, None, None)) ELSE UNCHANGED up
  <2>1. PICK f \in Frames : /\ f = Frame("end", rxc.frame.id, None, None)
                            /\ f.kind = "end" /\ f.data = None
    <3>1. rxc.frame.id \in Ids
      BY <1>2 DEF Frames
    <3> QED
      BY <3>1, FrameTyped
  <2>2. up' = up \/ up' = (IF link.up THEN Append(up, f) ELSE up)
    BY <1>5, <2>1 DEF SendUp
  <2>3. MuxTypes'
    <3>1. up \in Seq(Frames)
      BY DEF MuxTypes
    <3>2. Append(up, f) \in Seq(Frames)
      BY <2>1, <3>1
    <3>3. up' \in Seq(Frames)
      BY <2>2, <3>1, <3>2
    <3> QED
      BY <1>1, <1>2, <1>3, <1>5, <3>3 DEF MuxTypes, svars
  <2>4. UsersGoOn
    BY <1>5 DEF UsersGoOn, Allocated
  <2>5. FramesDown' /\ FoundDown' /\ BytesDown'
    BY <1>1, <1>3, <1>5, <2>3, ClientDrops
  <2>6. ServerSessions' /\ FoundUp'
    BY <1>3, <2>4, ServerUnmoved
  <2>7. ClientSessions'
    BY <1>4, <1>5, ClientUnmoved
  <2>8. \A v \in Users : /\ usr'[v].sent = usr[v].sent
                         /\ usr'[v].pc = "copy" => usr[v].pc = "copy"
    BY <1>5
  <2>9. FramesUp' /\ OpenedUp' /\ BytesUp'
    <3>1. CASE up' = up
      <4>1. UpFrames' = UpFrames /\ link'.up = link.up
        BY <1>3, <3>1 DEF UpFrames
      <4> QED
        BY <1>3, <2>4, <2>8, <4>1, UpUnmoved
    <3>2. CASE up' = (IF link.up THEN Append(up, f) ELSE up)
      BY <1>3, <2>1, <2>3, <2>4, <2>8, <3>2, SendsEmpty
    <3> QED
      BY <2>2, <3>1, <3>2
  <2> QED
    BY <2>3, <2>5, <2>6, <2>7, <2>9
<1>6. ASSUME rxc.to # None, UNCHANGED up
      PROVE  /\ rxc.to \in Users /\ rxc.to \in Allocated
             /\ UpFrames' = UpFrames /\ link'.up = link.up
  BY <1>2, <1>3, <1>6 DEF UpFrames, FoundDown
<1>7. ASSUME rxc.to # None, UNCHANGED up, rxc.frame.kind = "keep", ~usr[rxc.to].cut,
             usr' = [usr EXCEPT ![rxc.to].got = Append(@, rxc.frame.data)], cm' = cm
      PROVE  MuxInv'
  <2>1. PICK u \in Users : u = rxc.to
    BY <1>6, <1>7
  <2>2. rxc.frame.data \in Bytes
    <3>1. DownFrames # <<>> /\ DownFrames[1] = rxc.frame
      BY <1>1, MuxTyped
    <3>2. rxc.frame.data # None
      BY <1>7, <3>1, DataDown
    <3> QED
      BY <1>2, <3>2 DEF Frames
  <2>3. PICK x : x = [usr[u] EXCEPT !.got = Append(@, rxc.frame.data)]
    OBVIOUS
  <2>4. /\ x \in UserStates /\ x.pc = usr[u].pc /\ x.id = usr[u].id /\ x.sent = usr[u].sent
        /\ x.closed = usr[u].closed /\ x.linked = usr[u].linked /\ x.cut = usr[u].cut
    <3>1. Append(usr[u].got, rxc.frame.data) \in Seq(Bytes) /\ usr[u] \in UserStates
      BY <1>2, <2>2 DEF UserStates
    <3> QED
      BY <2>3, <3>1 DEF UserStates
  <2>5. /\ usr' \in [Users -> UserStates] /\ usr'[u] = x
        /\ \A v \in Users \ {u} : usr'[v] = usr[v]
    BY <1>2, <1>7, <2>1, <2>3, <2>4
  <2>6. MuxTypes'
    BY <1>1, <1>2, <1>3, <1>7, <2>5 DEF MuxTypes, svars
  <2>7. UsersGoOn
    BY <2>4, <2>5 DEF UsersGoOn, Allocated
  <2>8. FramesDown' /\ FoundDown' /\ BytesDown'
    BY <1>1, <1>3, <1>7, <2>1, <2>6, ClientDelivers
  <2>9. ServerSessions' /\ FoundUp'
    BY <1>3, <2>7, ServerUnmoved
  <2>10. ClientSessions'
    BY <1>4, <1>7, <2>4, <2>5, ClientUnmoved
  <2>11. FramesUp' /\ OpenedUp' /\ BytesUp'
    <3>1. \A v \in Users : /\ usr'[v].sent = usr[v].sent
                           /\ usr'[v].pc = "copy" => usr[v].pc = "copy"
      BY <2>4, <2>5
    <3> QED
      BY <1>3, <1>6, <1>7, <2>7, <3>1, UpUnmoved
  <2> QED
    BY <2>6, <2>8, <2>9, <2>10, <2>11
<1>8. ASSUME rxc.to # None, UNCHANGED up, cm' = Removed(cm, usr[rxc.to]),
             usr' = [usr EXCEPT ![rxc.to] = ClosedUser(@)]
      PROVE  MuxInv'
  <2>1. PICK u \in Users : u = rxc.to /\ u \in Allocated
    BY <1>6, <1>8
  <2>2. PICK x \in UserStates : x = ClosedUser(usr[u])
    BY <1>2, ClosedUserFacts
  <2>3. /\ x.pc = usr[u].pc /\ x.id = usr[u].id /\ x.sent = usr[u].sent /\ x.got = usr[u].got
        /\ x.closed /\ x.linked = usr[u].linked
        /\ usr[u].closed /\ usr[u].cut => x.cut
        /\ usr[u].linked => usr[u].closed \/ x.cut
    BY <1>2, <2>2, ClosedUserFacts
  <2>4. /\ usr' \in [Users -> UserStates] /\ usr'[u] = x
        /\ \A v \in Users \ {u} : usr'[v] = usr[v]
    BY <1>2, <1>8, <2>1, <2>2
  <2>5. /\ cm' \in [count : Ids, map : [Ids -> Users \cup {None}], closed : BOOLEAN]
        /\ cm'.count = cm.count /\ cm'.closed = cm.closed
        /\ \A i \in Ids : cm'.map[i] = IF cm.map[i] \in {u} THEN None ELSE cm.map[i]
    BY <1>8, <2>1, RemovedFacts
  <2>6. MuxTypes'
    BY <1>1, <1>2, <1>3, <1>8, <2>4, <2>5 DEF MuxTypes, svars
  <2>7. UsersGoOn
    BY <2>3, <2>4 DEF UsersGoOn, Allocated
  <2>8. \A v \in Users : /\ usr'[v].sent = usr[v].sent /\ usr'[v].got = usr[v].got
                         /\ usr'[v].pc = "copy" => usr[v].pc = "copy"
    BY <2>3, <2>4
  <2>9. FramesDown' /\ FoundDown' /\ BytesDown'
    BY <1>1, <1>3, <2>1, <2>3, <2>4, <2>6, <2>8, ClientEnds
  <2>10. ServerSessions' /\ FoundUp'
    BY <1>3, <2>7, ServerUnmoved
  <2>11. ClientSessions'
    <3>1. \A v \in Users :
            /\ usr'[v].pc \in Linked \cup {"alloc"} <=> usr[v].pc \in Linked \cup {"alloc"}
            /\ usr'[v].id = usr[v].id
            /\ usr'[v].closed <=> usr[v].closed \/ v \in {u}
            /\ usr'[v].linked <=> usr'[v].pc \in Linked
            /\ usr'[v].pc = "over" => usr'[v].closed
            /\ usr'[v].pc \notin Sending => usr'[v].sent = 0
      BY <1>4, <2>3, <2>4
    <3>2. {u} \in SUBSET Allocated
      BY <2>1
    <3> QED
      BY <2>5, <2>6, <3>1, <3>2, ClientCloses
  <2>12. FramesUp' /\ OpenedUp' /\ BytesUp'
    BY <1>3, <1>6, <1>8, <2>7, <2>8, UpUnmoved
  <2> QED
    BY <2>6, <2>9, <2>10, <2>11, <2>12
<1> QED
  BY <1>5, <1>7, <1>8 DEF ClientHandle

\* The end of the link, and the monitor's look at an idle worker, change no
\* session.
LEMMA ClientEOFKeeps ==
    ASSUME MuxInv, UNCHANGED <<cm, usr, rxc, svars, up, down, link>>,
           done' \in BOOLEAN, monitor' \in {"watch", "idle", "over"}
    PROVE  MuxInv'
<1>1. MuxTypes'
  BY DEF MuxInv, MuxTypes, svars
<1>2. UsersGoOn
  BY DEF UsersGoOn, Allocated
<1>3. ClientSessions'
  BY DEF MuxInv, ClientSessions, Allocated
<1> QED
  BY <1>1, <1>2, <1>3, UsersStep

\* A manager without sessions has an empty map.
LEMMA EmptyManager ==
    ASSUME MuxInv, Size(cm) = 0
    PROVE  \A i \in Ids : cm.map[i] = None
<1>1. IdSpace - 1 \in Int
  BY MuxAssumption
<1>2. IsFiniteSet(Ids)
  BY <1>1, FS_Interval DEF Ids
<1>3. IsFiniteSet({i \in Ids : cm.map[i] # None})
  BY <1>2, FS_Subset
<1>4. {i \in Ids : cm.map[i] # None} = {}
  BY <1>3, FS_EmptySet DEF Size
<1> QED
  BY <1>4

\* The monitor closes an idle worker only when it has no session, and
\* dismantles a closed one with all its sessions.
LEMMA MonitorKeeps ==
    ASSUME MuxInv, Monitor
    PROVE  MuxInv'
<1> USE DEF MuxInv
<1>0. UNCHANGED <<rxc, svars, up>>
  BY DEF Monitor
<1>1. CASE monitor' \in {"idle", "watch"} /\ UNCHANGED <<cm, done, usr, down, link>>
  BY <1>0, <1>1, ClientEOFKeeps DEF MuxTypes
<1>2. CASE /\ monitor' = "watch" /\ CloseIfNoSession(cm)
           /\ done' = TRUE /\ cm' = [cm EXCEPT !.closed = TRUE]
           /\ UNCHANGED <<usr, down, link>>
  <2>1. \A i \in Ids : cm.map[i] = None
    BY <1>2, EmptyManager DEF CloseIfNoSession, ClientSessions
  <2>2. /\ cm' \in [count : Ids, map : [Ids -> Users \cup {None}], closed : BOOLEAN]
        /\ cm'.count = cm.count /\ cm'.map = cm.map
    BY <1>2 DEF MuxTypes
  <2>3. MuxTypes'
    BY <1>0, <1>2, <2>2 DEF MuxTypes, svars
  <2>4. UsersGoOn
    BY <1>2 DEF UsersGoOn, Allocated
  <2>5. ClientSessions'
    <3>1. Allocated' = Allocated
      BY <1>2 DEF Allocated
    <3> QED
      BY <1>2, <2>1, <2>2, <3>1 DEF ClientSessions
  <2> QED
    BY <1>0, <1>2, <2>3, <2>4, <2>5, UsersStep
<1>3. CASE /\ monitor' = "over" /\ UNCHANGED done
           /\ usr' = [u \in Users |-> IF ~cm.closed /\ InMap(cm, u)
                                      THEN ClosedUser(usr[u]) ELSE usr[u]]
           /\ cm' = ClosedManager(cm)
           /\ link' = [up |-> FALSE, down |-> FALSE]
           /\ down' = <<>>
  <2>1. PICK S \in SUBSET Users : S = {u \in Users : ~cm.closed /\ InMap(cm, u)}
    OBVIOUS
  <2>2. usr \in [Users -> UserStates]
    BY DEF MuxTypes
  <2>3. \A v \in Users : usr'[v] = IF v \in S THEN ClosedUser(usr[v]) ELSE usr[v]
    BY <1>3, <2>1
  <2>4. usr' \in [Users -> UserStates]
    <3>1. \A v \in Users : ClosedUser(usr[v]) \in UserStates /\ usr[v] \in UserStates
      BY <2>2, ClosedUserFacts
    <3> QED
      BY <1>3, <3>1
  <2>5. \A v \in Users :
          /\ usr'[v].pc = usr[v].pc /\ usr'[v].id = usr[v].id
          /\ usr'[v].sent = usr[v].sent /\ usr'[v].got = usr[v].got
          /\ usr'[v].linked = usr[v].linked
          /\ usr'[v].closed <=> usr[v].closed \/ v \in S
          /\ usr[v].closed /\ usr[v].cut => usr'[v].cut
          /\ usr[v].linked /\ usr'[v].closed => usr[v].closed \/ usr'[v].cut
    <3> SUFFICES ASSUME NEW v \in Users
                 PROVE  /\ usr'[v].pc = usr[v].pc /\ usr'[v].id = usr[v].id
                        /\ usr'[v].sent = usr[v].sent /\ usr'[v].got = usr[v].got
                        /\ usr'[v].linked = usr[v].linked
                        /\ usr'[v].closed <=> usr[v].closed \/ v \in S
                        /\ usr[v].closed /\ usr[v].cut => usr'[v].cut
                        /\ usr[v].linked /\ usr'[v].closed => usr[v].closed \/ usr'[v].cut
      OBVIOUS
    <3>1. CASE v \in S
      <4>1. usr'[v] = ClosedUser(usr[v]) /\ usr[v] \in UserStates
        BY <2>2, <2>3, <3>1
      <4> QED
        BY <3>1, <4>1, ClosedUserFacts
    <3>2. CASE v \notin S
      <4>1. usr'[v] = usr[v]
        BY <2>3, <3>2
      <4> QED
        BY <3>2, <4>1
    <3> QED
      BY <3>1, <3>2
  <2>6. S \in SUBSET Allocated
    BY <2>1, MuxAssumption DEF InMap, ClientSessions
  <2>7. /\ cm' \in [count : Ids, map : [Ids -> Users \cup {None}], closed : BOOLEAN]
        /\ cm'.count = cm.count /\ \A i \in Ids : cm'.map[i] = None
    BY <1>3 DEF ClosedManager, MuxTypes, ClientSessions
  <2>8. \A i \in Ids : cm.map[i] # None => cm.map[i] \in S
    BY <2>1 DEF InMap, ClientSessions, Allocated
  <2>9. \A i \in Ids : cm'.map[i] = IF cm.map[i] \in S THEN None ELSE cm.map[i]
    BY <2>7, <2>8
  <2>10. MuxTypes'
    <3>1. <<>> \in Seq(Frames) /\ link' \in [up : BOOLEAN, down : BOOLEAN]
      BY <1>3
    <3> QED
      BY <1>0, <1>3, <2>4, <2>7, <3>1 DEF MuxTypes, svars
  <2>11. UsersGoOn /\ SitesGoOn
    BY <1>0, <2>5 DEF UsersGoOn, SitesGoOn, Allocated, svars
  <2>12. ClientSessions'
    <3>1. \A v \in Users :
              /\ usr[v].linked <=> usr[v].pc \in Linked
              /\ usr[v].pc = "over" => usr[v].closed
              /\ usr[v].pc \notin Sending => usr[v].sent = 0
      BY DEF ClientSessions
    <3>2. \A v \in Users :
            /\ usr'[v].pc \in Linked \cup {"alloc"} <=> usr[v].pc \in Linked \cup {"alloc"}
            /\ usr'[v].id = usr[v].id
            /\ usr'[v].closed <=> usr[v].closed \/ v \in S
            /\ usr'[v].linked <=> usr'[v].pc \in Linked
            /\ usr'[v].pc = "over" => usr'[v].closed
            /\ usr'[v].pc \notin Sending => usr'[v].sent = 0
      BY <2>5, <3>1
    <3> QED
      BY <2>6, <2>7, <2>9, <2>10, <3>2, ClientCloses
  <2>13. ServerSessions' /\ FoundUp' /\ FoundDown'
    BY <1>0, <2>11, ServerUnmoved, FoundStays
  <2>14. FramesUp' /\ OpenedUp' /\ BytesUp'
    <3>1. UpFrames' = UpFrames /\ UpFrames \in Seq(Frames) /\ ~link'.up /\ srv' = srv
      BY <1>0, <1>3, MuxTyped DEF UpFrames, svars
    <3>2. /\ Len(UpFrames') <= Len(UpFrames) /\ UpFrames' \in Seq(Frames)
          /\ \A k \in 1 .. Len(UpFrames') : UpFrames'[k] = UpFrames[k]
      BY <3>1
    <3>3. \A v \in Users : usr'[v].sent = usr[v].sent /\ srv'[v].got = srv[v].got
      BY <2>5, <3>1
    <3> QED
      BY <2>10, <2>11, <3>1, <3>2, <3>3, UpLost
  <2>15. FramesDown' /\ BytesDown'
    <3>1. DownFrames' = Waiting(rxc, <<>>) /\ ~link'.down /\ srv' = srv
      BY <1>0, <1>3 DEF DownFrames, svars
    <3>2. /\ Len(DownFrames') <= Len(DownFrames) /\ DownFrames' \in Seq(Frames)
          /\ \A k \in 1 .. Len(DownFrames') : DownFrames'[k] = DownFrames[k]
      BY <3>1, WaitingLost DEF DownFrames, MuxTypes
    <3>3. \A v \in Users : /\ srv'[v].sent = srv[v].sent /\ usr'[v].got = usr[v].got
                           /\ usr[v].closed => usr'[v].closed
      BY <2>5, <3>1
    <3> QED
      BY <2>10, <2>11, <3>1, <3>2, <3>3, DownLost
  <2> QED
    BY <2>10, <2>12, <2>13, <2>14, <2>15
<1> QED
  BY <1>1, <1>2, <1>3 DEF Monitor

\* What comes next for the server: the session a frame opens is not open yet,
\* and that of other data is.
LEMMA DataUp ==
    ASSUME MuxInv, NEW f, UpFrames # <<>>, f = UpFrames[1]
    PROVE  /\ f \in Frames
           /\ f.kind = "new" => /\ f.target \in Users /\ usr[f.target].pc \in Sending
                                /\ f.id = usr[f.target].id /\ srv[f.target].pc = "none"
                                /\ f.data \in {None, <<f.target, 1>>}
           /\ f.kind = "keep" => /\ f.data # None /\ f.data[1] \in Users
                                 /\ srv[f.data[1]].pc # "none"
                                 /\ srv[f.data[1]].id = f.id
           /\ \A v : Carries(f, v) /\ f.kind # "new" => f.kind = "keep" /\ f.data[1] = v
<1> USE DEF MuxInv
<1>1. 1 \in 1 .. Len(UpFrames) /\ UpFrames \in Seq(Frames)
  BY MuxTyped
<1>2. f \in Frames /\ f.kind \in {"new", "keep", "end"}
  <2>1. f \in Frames
    BY <1>1
  <2> QED
    BY <2>1 DEF Frames
<1>3. /\ f.kind = "end" => f.data = None
      /\ f.kind = "new" => /\ f.target \in Users /\ usr[f.target].pc \in Sending
                           /\ f.id = usr[f.target].id /\ srv[f.target].pc = "none"
                           /\ f.data \in {None, <<f.target, 1>>}
  BY <1>1 DEF FramesUp, FramesUpOf
<1>4. ASSUME f.kind = "keep"
      PROVE  /\ f.data # None /\ f.data[1] \in Users
             /\ srv[f.data[1]].pc # "none" /\ srv[f.data[1]].id = f.id
  <2>1. /\ f.data # None /\ f.id = usr[f.data[1]].id
        /\ srv[f.data[1]].pc = "none" =>
              \E j \in 1 .. 1 - 1 : OpensAt(UpFrames, j, f.data[1])
    BY <1>1, <1>4 DEF FramesUp, FramesUpOf
  <2>2. f.data[1] \in Users
    BY <1>2, <2>1, FrameData
  <2>3. srv[f.data[1]].pc # "none"
    BY <2>1
  <2> QED
    BY <2>1, <2>2, <2>3 DEF ServerSessions
<1>5. ASSUME NEW v, Carries(f, v), f.kind # "new"
      PROVE  f.kind = "keep" /\ f.data[1] = v
  BY <1>2, <1>3, <1>5 DEF Carries
<1> QED
  BY <1>2, <1>3, <1>4, <1>5

\* Sessions that were opened at the server have ids of their own.
LEMMA OpenIds ==
    ASSUME MuxInv, NEW u \in Users, NEW v \in Users, srv[u].pc # "none",
           usr[v].pc \in Sending, srv[u].id = usr[v].id
    PROVE  u = v
<1>1. u \in Allocated /\ v \in Allocated /\ usr[u].id = usr[v].id
  BY DEF MuxInv, ServerSessions, Allocated, Linked
<1> QED
  BY <1>1 DEF MuxInv, ClientSessions

\* The client when only the server moves.
LEMMA ClientStays ==
    ASSUME MuxInv, UNCHANGED <<cm, usr, rxc>>
    PROVE  UsersGoOn /\ ClientSessions' /\ FoundDown'
<1>1. UsersGoOn
  BY DEF UsersGoOn, Allocated
<1>2. ClientSessions'
  BY DEF MuxInv, ClientSessions, Allocated
<1> QED
  BY <1>1, <1>2, FoundStays

\* The session found for the server's frame, when sessions of the server move.
LEMMA FoundUpStays ==
    ASSUME MuxInv, SitesGoOn, UNCHANGED rxs
    PROVE  FoundUp'
<1> USE DEF MuxInv
<1>1. ASSUME rxs.to # None
      PROVE  /\ rxs.frame # None /\ rxs.frame.kind # "new"
             /\ srv'[rxs.to].pc # "none" /\ srv'[rxs.to].id = rxs.frame.id
  <2>1. rxs.to \in Users
    BY <1>1 DEF MuxTypes
  <2> QED
    BY <1>1, <2>1 DEF FoundUp, SitesGoOn
<1>2. ASSUME rxs.frame # None, rxs.to = None, rxs.frame.kind = "keep"
      PROVE  srv'[rxs.frame.data[1]].closed
  <2>1. UpFrames # <<>> /\ UpFrames[1] = rxs.frame
    BY <1>2, MuxTyped
  <2>2. rxs.frame.data[1] \in Users
    BY <1>2, <2>1, DataUp
  <2> QED
    BY <1>2, <2>2 DEF FoundUp, SitesGoOn
<1> QED
  BY <1>1, <1>2 DEF FoundUp

\* The frames to the server, when its sessions move.
LEMMA UpSites ==
    ASSUME MuxInv, MuxTypes', SitesGoOn, UpFrames' = UpFrames, usr' = usr,
           link'.up = link.up, \A v \in Users : srv'[v].got = srv[v].got
    PROVE  FramesUp' /\ OpenedUp' /\ BytesUp'
<1> USE DEF MuxInv
<1>1. FramesUp'
  <2>1. FramesUpOf(UpFrames, usr, srv) /\ UpFrames \in Seq(Frames)
        /\ Len(UpFrames) <= Len(UpFrames)
    BY MuxTyped DEF FramesUp
  <2>2. \A v \in Users : srv'[v].pc = "none" <=> srv[v].pc = "none"
    BY DEF SitesGoOn
  <2>3. FramesUpOf(UpFrames, usr, srv')
    BY <2>1, <2>2, UpStay
  <2> QED
    BY <2>3 DEF FramesUp
<1>2. OpenedUp'
  BY DEF OpenedUp, SitesGoOn
<1>3. BytesUp'
  <2> SUFFICES ASSUME NEW v \in Users
               PROVE  Onward(UpFrames, v, usr[v].sent, srv[v].got, ~srv'[v].closed, link.up)
    BY DEF BytesUp
  <2>1. Onward(UpFrames, v, usr[v].sent, srv[v].got, ~srv[v].closed, link.up)
    BY DEF BytesUp
  <2>2. /\ (~srv'[v].closed) \in BOOLEAN /\ (~srv[v].closed) \in BOOLEAN
        /\ ~srv'[v].closed => ~srv[v].closed
    BY DEF SitesGoOn
  <2>3. link.up \in BOOLEAN
    BY DEF MuxTypes
  <2> QED
    BY <2>1, <2>2, <2>3, OnwardLess
<1> QED
  BY <1>1, <1>2, <1>3

\* The frames to the client, when sessions of the server move.
LEMMA DownSites ==
    ASSUME MuxInv, DownFrames' = DownFrames, usr' = usr, link'.down = link.down,
           \A v \in Users : /\ srv'[v].sent = srv[v].sent
                            /\ srv[v].pc # "none" => /\ srv'[v].pc # "none"
                                                     /\ srv'[v].id = srv[v].id
    PROVE  FramesDown' /\ BytesDown'
<1> USE DEF MuxInv
<1>1. FramesDown'
  <2>1. FramesDownOf(DownFrames, srv) /\ DownFrames \in Seq(Frames)
        /\ Len(DownFrames) <= Len(DownFrames)
    BY MuxTyped DEF FramesDown
  <2>2. FramesDownOf(DownFrames, srv')
    BY <2>1, DownStay
  <2> QED
    BY <2>2 DEF FramesDown
<1>2. BytesDown'
  BY DEF BytesDown
<1> QED
  BY <1>1, <1>2

\* A frame without data is sent to the client.
LEMMA SendsEmptyDown ==
    ASSUME MuxInv, NEW f \in Frames, f.kind = "end", f.data = None,
           down' = (IF link.down THEN Append(down, f) ELSE down),
           UNCHANGED <<rxc, usr, link>>, SitesGoOn,
           \A v \in Users : srv'[v].sent = srv[v].sent
    PROVE  FramesDown' /\ BytesDown'
<1> USE DEF MuxInv
<1>0. \A v \in Users : srv[v].pc # "none" => srv'[v].pc # "none" /\ srv'[v].id = srv[v].id
  BY DEF SitesGoOn
<1>1. CASE ~link.down
  <2>1. DownFrames' = DownFrames /\ link'.down = link.down
    BY <1>1 DEF DownFrames
  <2> QED
    BY <1>0, <2>1, DownSites
<1>2. CASE link.down
  <2>1. DownFrames' = Append(DownFrames, f) /\ DownFrames \in Seq(Frames)
    <3>1. rxc \in [frame : Frames \cup {None}, to : Users \cup {None}] /\ down \in Seq(Frames)
      BY DEF MuxTypes
    <3> QED
      BY <1>2, <3>1, WaitingSend, MuxTyped DEF DownFrames
  <2>2. FramesDown'
    <3>1. FramesDownOf(DownFrames, srv) /\ Len(DownFrames) <= Len(DownFrames)
      BY <2>1 DEF FramesDown
    <3>2. FramesDownOf(DownFrames, srv')
      BY <1>0, <2>1, <3>1, DownStay
    <3>3. FramesDownOf(Append(DownFrames, f), srv')
      BY <2>1, <3>2, DownSent
    <3> QED
      BY <2>1, <3>3 DEF FramesDown
  <2>3. BytesDown'
    <3> SUFFICES ASSUME NEW v \in Users
                 PROVE  Onward(Append(DownFrames, f), v, srv[v].sent, usr[v].got,
                               ~usr[v].closed, link.down)
      BY <2>1 DEF BytesDown
    <3>1. Onward(DownFrames, v, srv[v].sent, usr[v].got, ~usr[v].closed, link.down)
      BY DEF BytesDown
    <3>2. /\ srv[v].sent \in Nat /\ usr[v].got \in Seq(Bytes)
          /\ (~usr[v].closed) \in BOOLEAN /\ link.down \in BOOLEAN
      BY MuxTyped DEF MuxTypes, UserStates
    <3>3. ~Carries(f, v)
      BY DEF Carries
    <3> QED
      BY <2>1, <3>1, <3>2, <3>3, OnwardOther
  <2> QED
    BY <2>2, <2>3
<1> QED
  BY <1>1, <1>2

\* A set of sessions is closed at the server and leaves the map.
LEMMA ServerCloses ==
    ASSUME MuxInv, MuxTypes', NEW S \in SUBSET Users, usr' = usr, SitesGoOn,
           \A i \in Ids : sm'.map[i] = IF sm.map[i] \in S THEN None ELSE sm.map[i],
           sm'.closed => \A i \in Ids : sm'.map[i] = None,
           rxs'.frame # None => ~sm'.closed,
           \A v \in Users :
              /\ srv'[v].closed <=> srv[v].closed \/ v \in S
              /\ srv[v].pc = "none" => srv'[v] = srv[v] /\ v \notin S
    PROVE  ServerSessions'
<1> USE DEF MuxInv
<1>1. \A i \in Ids : sm'.map[i] # None => /\ srv'[sm'.map[i]].pc # "none"
                                          /\ srv'[sm'.map[i]].id = i
                                          /\ ~srv'[sm'.map[i]].closed
  <2> SUFFICES ASSUME NEW i \in Ids, sm'.map[i] # None
               PROVE  /\ srv'[sm'.map[i]].pc # "none" /\ srv'[sm'.map[i]].id = i
                      /\ ~srv'[sm'.map[i]].closed
    OBVIOUS
  <2>1. sm'.map[i] = sm.map[i] /\ sm.map[i] \notin S
    OBVIOUS
  <2>2. sm.map[i] \in Users
    BY <2>1 DEF MuxTypes
  <2>3. srv[sm.map[i]].pc # "none" /\ srv[sm.map[i]].id = i /\ ~srv[sm.map[i]].closed
    BY <2>1 DEF ServerSessions
  <2> QED
    BY <2>1, <2>2, <2>3 DEF SitesGoOn
<1>2. \A u \in Users :
          IF srv'[u].pc = "none"
          THEN srv'[u].got = <<>> /\ srv'[u].sent = 0 /\ ~srv'[u].closed
          ELSE /\ usr'[u].pc \in Sending /\ srv'[u].id = usr'[u].id
               /\ ~srv'[u].closed => sm'.map[srv'[u].id] = u
  <2> SUFFICES ASSUME NEW u \in Users
               PROVE  IF srv'[u].pc = "none"
                      THEN srv'[u].got = <<>> /\ srv'[u].sent = 0 /\ ~srv'[u].closed
                      ELSE /\ usr'[u].pc \in Sending /\ srv'[u].id = usr'[u].id
                           /\ ~srv'[u].closed => sm'.map[srv'[u].id] = u
    OBVIOUS
  <2>1. CASE srv[u].pc = "none"
    BY <2>1 DEF ServerSessions
  <2>2. CASE srv[u].pc # "none"
    <3>1. /\ srv'[u].pc # "none" /\ srv'[u].id = srv[u].id
      BY <2>2 DEF SitesGoOn
    <3>2. /\ usr[u].pc \in Sending /\ srv[u].id = usr[u].id
          /\ ~srv[u].closed => sm.map[srv[u].id] = u
      BY <2>2 DEF ServerSessions
    <3>3. srv[u].id \in Ids
      BY DEF MuxTypes, SiteStates
    <3> QED
      BY <3>1, <3>2, <3>3
  <2> QED
    BY <2>1, <2>2
<1> QED
  BY <1>1, <1>2 DEF ServerSessions

\* Session.Close at the server, for one session.
LEMMA SiteRemoved ==
    ASSUME MuxInv, NEW u \in Users, srv[u].pc # "none", sm' = Removed(sm, srv[u])
    PROVE  /\ sm' \in [count : Nat, map : [Ids -> Users \cup {None}], closed : BOOLEAN]
           /\ sm'.closed = sm.closed
           /\ \A i \in Ids : sm'.map[i] = IF sm.map[i] \in {u} THEN None ELSE sm.map[i]
           /\ sm'.closed => \A i \in Ids : sm'.map[i] = None
<1> USE DEF MuxInv
<1>1. u # None /\ srv[u].id \in Ids
  BY MuxAssumption DEF MuxTypes, SiteStates
<1>2. CASE srv[u].closed \/ sm.closed
  <2>1. sm' = sm
    BY <1>2 DEF Removed
  <2>2. \A i \in Ids : sm.map[i] # u
    BY <1>1, <1>2 DEF ServerSessions
  <2>3. sm.closed => \A i \in Ids : sm.map[i] = None
    BY DEF ServerSessions
  <2> QED
    BY <2>1, <2>2, <2>3 DEF MuxTypes
<1>3. CASE ~srv[u].closed /\ ~sm.closed
  <2>1. sm' = [sm EXCEPT !.map[srv[u].id] = None]
    BY <1>3 DEF Removed
  <2>2. /\ sm' \in [count : Nat, map : [Ids -> Users \cup {None}], closed : BOOLEAN]
        /\ sm'.closed = sm.closed
        /\ \A i \in Ids : sm'.map[i] = IF i = srv[u].id THEN None ELSE sm.map[i]
    <3>1. sm \in [count : Nat, map : [Ids -> Users \cup {None}], closed : BOOLEAN]
      BY DEF MuxTypes
    <3>2. PICK g : g = [sm.map EXCEPT ![srv[u].id] = None]
      OBVIOUS
    <3>3. /\ g \in [Ids -> Users \cup {None}]
          /\ \A i \in Ids : g[i] = IF i = srv[u].id THEN None ELSE sm.map[i]
      BY <1>1, <3>1, <3>2
    <3>4. sm' = [sm EXCEPT !.map = g]
      BY <2>1, <3>1, <3>2
    <3> QED
      BY <3>1, <3>3, <3>4
  <2>3. \A i \in Ids : sm.map[i] = u <=> i = srv[u].id
    BY <1>1, <1>3 DEF ServerSessions
  <2> QED
    BY <1>3, <2>2, <2>3
<1> QED
  BY <1>2, <1>3

\* The server takes a frame and looks its session up.
LEMMA ServerTakeKeeps ==
    ASSUME MuxInv, ServerTake
    PROVE  MuxInv'
<1> USE DEF MuxInv
<1>1. /\ rxs.frame = None /\ ~sm.closed /\ up # <<>> /\ up' = Tail(up)
      /\ rxs' = [frame |-> Head(up), to |-> Find(sm, Head(up))]
      /\ UNCHANGED <<cm, done, monitor, usr, rxc, sm, srv, down, link>>
  BY DEF ServerTake, cvars
<1>2. PICK f \in Frames : f = Head(up)
  BY <1>1 DEF MuxTypes
<1>3. f # None /\ f.id \in Ids /\ f.kind \in {"new", "keep", "end"}
  BY <1>2, MuxAssumption DEF Frames
<1>4. Find(sm, f) = IF f.kind = "new" THEN None ELSE sm.map[f.id]
  BY <1>1 DEF Find
<1>5. /\ rxs'.frame = f /\ rxs'.to = Find(sm, f)
      /\ rxs' \in [frame : Frames \cup {None}, to : Users \cup {None}]
  <2>1. Find(sm, f) \in Users \cup {None}
    BY <1>3, <1>4 DEF MuxTypes
  <2> QED
    BY <1>1, <1>2, <2>1
<1>6. MuxTypes'
  BY <1>1, <1>5 DEF MuxTypes
<1>7. UpFrames' = UpFrames
  <2>1. rxs \in [frame : Frames \cup {None}, to : Users \cup {None}] /\ up \in Seq(Frames)
    BY DEF MuxTypes
  <2> QED
    BY <1>1, <1>2, <1>5, <2>1, WaitingTake DEF UpFrames
<1>8. UsersGoOn /\ ClientSessions' /\ FoundDown'
  BY <1>1, ClientStays
<1>9. ServerSessions'
  BY <1>1 DEF ServerSessions
<1>10. FramesUp' /\ OpenedUp' /\ BytesUp' /\ FramesDown' /\ BytesDown'
  <2>1. DownFrames' = DownFrames
    BY <1>1 DEF DownFrames
  <2> QED
    BY <1>1, <1>6, <1>7, <1>8, <2>1, UpUnmoved, DownUnmoved
<1>11. FoundUp'
  <2>1. UpFrames # <<>> /\ UpFrames[1] = f
    BY <1>1, <1>2, MuxTyped
  <2>2. ASSUME Find(sm, f) # None
        PROVE  /\ f.kind # "new" /\ srv[Find(sm, f)].pc # "none"
               /\ srv[Find(sm, f)].id = f.id
    BY <1>3, <1>4, <2>2 DEF ServerSessions
  <2>3. ASSUME Find(sm, f) = None, f.kind = "keep"
        PROVE  srv[f.data[1]].closed
    <3>1. /\ f.data[1] \in Users /\ srv[f.data[1]].pc # "none"
          /\ srv[f.data[1]].id = f.id
      BY <2>1, <2>3, DataUp
    <3>2. sm.map[f.id] # f.data[1]
      BY <1>4, <2>3, <3>1, MuxAssumption
    <3> QED
      BY <3>1, <3>2 DEF ServerSessions
  <2> QED
    BY <1>1, <1>3, <1>5, <2>2, <2>3 DEF FoundUp
<1> QED
  BY <1>6, <1>8, <1>9, <1>10, <1>11

\* The server is done with its frame: the others move up.
LEMMA UpNext ==
    ASSUME MuxInv, MuxTypes', rxs.frame # None, rxs' = NoFrame, up' = up
    PROVE  /\ UpFrames \in Seq(Frames) /\ UpFrames # <<>>
           /\ UpFrames[1] = rxs.frame /\ UpFrames' = Tail(UpFrames)
           /\ Len(UpFrames) \in Nat /\ Len(UpFrames') = Len(UpFrames) - 1
           /\ \A k \in 1 .. Len(UpFrames') : UpFrames'[k] = UpFrames[k + 1]
           /\ FoundUp'
<1>1. rxs'.frame = None /\ rxs'.to = None
  BY DEF NoFrame
<1>2. UpFrames' = up
  <2>1. rxs' \in [frame : Frames \cup {None}, to : Users \cup {None}] /\ up' \in Seq(Frames)
    BY DEF MuxTypes
  <2> QED
    BY <1>1, <2>1, WaitingFacts DEF UpFrames
<1>3. /\ UpFrames \in Seq(Frames) /\ UpFrames # <<>>
      /\ UpFrames[1] = rxs.frame /\ UpFrames' = Tail(UpFrames)
  BY <1>2, MuxTyped
<1>4. FoundUp'
  BY <1>1 DEF FoundUp
<1> QED
  BY <1>3, <1>4

\* A frame that opens a session was waited for at its place, the first or a
\* later one.
LEMMA OpensLater ==
    ASSUME MuxInv, MuxTypes', rxs.frame # None, rxs' = NoFrame, up' = up,
           NEW v \in Users, NEW j \in 1 .. Len(UpFrames), OpensAt(UpFrames, j, v),
           ~OpensAt(UpFrames, 1, v)
    PROVE  \E k \in 1 .. Len(UpFrames') : OpensAt(UpFrames', k, v)
<1>1. j # 1 /\ Len(UpFrames) \in Nat /\ Len(UpFrames') = Len(UpFrames) - 1
  BY UpNext
<1>2. j - 1 \in 1 .. Len(UpFrames') /\ (j - 1) + 1 = j
  BY <1>1
<1>3. UpFrames'[j - 1] = UpFrames[j]
  BY <1>2, UpNext
<1> QED
  BY <1>2, <1>3 DEF OpensAt

\* The frame in hand was not one that opens a session.
LEMMA UpTaken ==
    ASSUME MuxInv, MuxTypes', rxs.frame # None, rxs.frame.kind # "new",
           rxs' = NoFrame, UNCHANGED <<usr, up, link>>, SitesGoOn
    PROVE  FramesUp' /\ OpenedUp' /\ FoundUp'
<1> USE DEF MuxInv
<1>1. /\ UpFrames \in Seq(Frames) /\ UpFrames # <<>>
      /\ UpFrames[1] = rxs.frame /\ UpFrames' = Tail(UpFrames) /\ FoundUp'
  BY UpNext
<1>2. \A v : ~OpensAt(UpFrames, 1, v)
  BY <1>1 DEF OpensAt
<1>3. FramesUp'
  <2>1. FramesUpOf(UpFrames, usr, srv)
    BY DEF FramesUp
  <2>2. \A v \in Users : IF OpensAt(UpFrames, 1, v) THEN srv'[v].pc # "none"
                         ELSE srv'[v].pc = "none" <=> srv[v].pc = "none"
    BY <1>2 DEF SitesGoOn
  <2>3. FramesUpOf(Tail(UpFrames), usr, srv')
    BY <1>1, <2>1, <2>2, UpHandled
  <2> QED
    BY <1>1, <2>3 DEF FramesUp
<1>4. OpenedUp'
  <2> SUFFICES ASSUME link.up, NEW v \in Users, usr[v].pc = "copy", srv'[v].pc = "none"
               PROVE  \E k \in 1 .. Len(UpFrames') : OpensAt(UpFrames', k, v)
    BY DEF OpenedUp
  <2>1. PICK j \in 1 .. Len(UpFrames) : OpensAt(UpFrames, j, v)
    BY DEF OpenedUp, SitesGoOn
  <2> QED
    BY <1>2, <2>1, OpensLater
<1> QED
  BY <1>1, <1>3, <1>4

\* ServerNew opens the session of the frame in hand, whose id nobody has.
LEMMA ServerNewKeeps ==
    ASSUME MuxInv, ServerNew
    PROVE  MuxInv'
<1> USE DEF MuxInv
<1>1. PICK f, u : f \in Frames /\ f = rxs.frame /\ u = f.target /\ f.kind = "new"
  BY DEF ServerNew, MuxTypes
<1>2. /\ rxs.frame # None /\ rxs' = NoFrame
      /\ sm' = [sm EXCEPT !.count = @ + 1, !.map[f.id] = u]
      /\ srv' = [srv EXCEPT ![u].pc = "handle", ![u].id = f.id,
                   ![u].got = IF f.data = None THEN @ ELSE Append(@, f.data)]
      /\ UNCHANGED <<cm, done, monitor, usr, rxc, up, down, link>>
  BY <1>1 DEF ServerNew, cvars
<1>3. UpFrames # <<>> /\ UpFrames[1] = f
  BY <1>1, <1>2, MuxTyped
<1>4. /\ u \in Users /\ u # None /\ usr[u].pc \in Sending /\ f.id = usr[u].id /\ f.id \in Ids
      /\ srv[u].pc = "none" /\ f.data \in {None, <<u, 1>>}
  <2>1. /\ u \in Users /\ usr[u].pc \in Sending /\ f.id = usr[u].id
        /\ srv[u].pc = "none" /\ f.data \in {None, <<u, 1>>}
    BY <1>1, <1>3, DataUp
  <2>2. f.id \in Ids
    BY <1>1 DEF Frames
  <2> QED
    BY <2>1, <2>2, MuxAssumption
<1>5. srv[u] \in SiteStates /\ srv \in [Users -> SiteStates] /\ srv[u].got \in Seq(Bytes)
  BY <1>4 DEF MuxTypes, SiteStates
<1>6. PICK g \in Seq(Bytes) : g = IF f.data = None THEN srv[u].got
                                  ELSE Append(srv[u].got, f.data)
  <2>1. f.data = None \/ f.data \in Bytes
    BY <1>1 DEF Frames
  <2>2. f.data # None => Append(srv[u].got, f.data) \in Seq(Bytes)
    BY <1>5, <2>1
  <2> QED
    BY <1>5, <2>2
<1>7. PICK x : x = [srv[u] EXCEPT !.pc = "handle", !.id = f.id, !.got = g]
  OBVIOUS
<1>8. /\ x \in SiteStates /\ x.pc = "handle" /\ x.id = f.id /\ x.got = g
      /\ x.sent = srv[u].sent /\ x.closed = srv[u].closed
  BY <1>4, <1>5, <1>7 DEF SiteStates
<1>9. srv' = [srv EXCEPT ![u] = x]
  BY <1>2, <1>4, <1>5, <1>6, <1>7
<1>10. /\ srv' \in [Users -> SiteStates] /\ srv'[u] = x
       /\ \A v \in Users \ {u} : srv'[v] = srv[v]
  BY <1>4, <1>5, <1>8, <1>9
<1>11. /\ sm' \in [count : Nat, map : [Ids -> Users \cup {None}], closed : BOOLEAN]
       /\ sm'.closed = sm.closed
       /\ \A i \in Ids : sm'.map[i] = IF i = f.id THEN u ELSE sm.map[i]
  <2>1. sm \in [count : Nat, map : [Ids -> Users \cup {None}], closed : BOOLEAN]
    BY DEF MuxTypes
  <2>2. PICK n \in Nat, m \in [Ids -> Users \cup {None}] :
           n = sm.count + 1 /\ m = [sm.map EXCEPT ![f.id] = u]
    <3>1. sm.count + 1 \in Nat
      BY <2>1
    <3>2. [sm.map EXCEPT ![f.id] = u] \in [Ids -> Users \cup {None}]
      BY <1>4, <2>1
    <3> QED
      BY <3>1, <3>2
  <2>3. sm' = [sm EXCEPT !.count = n, !.map = m]
    BY <1>2, <2>1, <2>2
  <2>4. \A i \in Ids : m[i] = IF i = f.id THEN u ELSE sm.map[i]
    BY <1>4, <2>1, <2>2
  <2>5. sm' \in [count : Nat, map : [Ids -> Users \cup {None}], closed : BOOLEAN]
        /\ sm'.closed = sm.closed /\ sm'.map = m
    BY <2>1, <2>2, <2>3
  <2> QED
    BY <2>4, <2>5
<1>12. MuxTypes'
  <2>1. rxs' \in [frame : Frames \cup {None}, to : Users \cup {None}]
    BY <1>2 DEF NoFrame
  <2> QED
    BY <1>2, <1>10, <1>11, <2>1 DEF MuxTypes
<1>13. UsersGoOn /\ ClientSessions' /\ FoundDown'
  BY <1>2, ClientStays
<1>14. ~srv[u].closed /\ ~sm.closed
  BY <1>2, <1>4 DEF ServerSessions
<1>15. ServerSessions'
  <2>1. \A i \in Ids : sm'.map[i] # None => /\ srv'[sm'.map[i]].pc # "none"
                                            /\ srv'[sm'.map[i]].id = i
                                            /\ ~srv'[sm'.map[i]].closed
    <3> SUFFICES ASSUME NEW i \in Ids, sm'.map[i] # None
                 PROVE  /\ srv'[sm'.map[i]].pc # "none" /\ srv'[sm'.map[i]].id = i
                        /\ ~srv'[sm'.map[i]].closed
      OBVIOUS
    <3>1. CASE i = f.id
      BY <1>8, <1>10, <1>11, <1>14, <3>1
    <3>2. CASE i # f.id
      <4>1. sm'.map[i] = sm.map[i] /\ sm.map[i] # None
        BY <1>11, <3>2
      <4>2. srv[sm.map[i]].pc # "none" /\ srv[sm.map[i]].id = i /\ ~srv[sm.map[i]].closed
        BY <4>1 DEF ServerSessions
      <4>3. sm.map[i] \in Users \ {u}
        BY <1>4, <4>1, <4>2 DEF MuxTypes
      <4> QED
        BY <1>10, <4>1, <4>2, <4>3
    <3> QED
      BY <3>1, <3>2
  <2>2. \A v \in Users :
            IF srv'[v].pc = "none"
            THEN srv'[v].got = <<>> /\ srv'[v].sent = 0 /\ ~srv'[v].closed
            ELSE /\ usr'[v].pc \in Sending /\ srv'[v].id = usr'[v].id
                 /\ ~srv'[v].closed => sm'.map[srv'[v].id] = v
    <3> SUFFICES ASSUME NEW v \in Users
                 PROVE  IF srv'[v].pc = "none"
                        THEN srv'[v].got = <<>> /\ srv'[v].sent = 0 /\ ~srv'[v].closed
                        ELSE /\ usr'[v].pc \in Sending /\ srv'[v].id = usr'[v].id
                             /\ ~srv'[v].closed => sm'.map[srv'[v].id] = v
      OBVIOUS
    <3>1. CASE v = u
      BY <1>2, <1>4, <1>8, <1>10, <1>11, <3>1
    <3>2. CASE v # u /\ srv[v].pc = "none"
      BY <1>10, <3>2 DEF ServerSessions
    <3>3. CASE v # u /\ srv[v].pc # "none"
      <4>1. /\ usr[v].pc \in Sending /\ srv[v].id = usr[v].id
            /\ ~srv[v].closed => sm.map[srv[v].id] = v
        BY <3>3 DEF ServerSessions
      <4>2. srv[v].id # f.id /\ srv[v].id \in Ids
        <5>1. srv[v].id # f.id
          BY <1>4, <3>3, OpenIds
        <5> QED
          BY <5>1 DEF MuxTypes, SiteStates
      <4> QED
        BY <1>2, <1>10, <1>11, <3>3, <4>1, <4>2
    <3> QED
      BY <3>1, <3>2, <3>3
  <2>3. rxs'.frame = None
    BY <1>2 DEF NoFrame
  <2>4. sm'.closed => \A i \in Ids : sm'.map[i] = None
    BY <1>11, <1>14
  <2> QED
    BY <2>1, <2>2, <2>3, <2>4 DEF ServerSessions
<1>16. /\ UpFrames \in Seq(Frames) /\ UpFrames' = Tail(UpFrames) /\ FoundUp'
  BY <1>2, <1>12, UpNext
<1>17. \A v \in Users : OpensAt(UpFrames, 1, v) <=> v = u
  BY <1>1, <1>3 DEF OpensAt
<1>18. FramesUp'
  <2>1. FramesUpOf(UpFrames, usr, srv)
    BY DEF FramesUp
  <2>2. \A v \in Users : IF OpensAt(UpFrames, 1, v) THEN srv'[v].pc # "none"
                         ELSE srv'[v].pc = "none" <=> srv[v].pc = "none"
    BY <1>8, <1>10, <1>17
  <2>3. FramesUpOf(Tail(UpFrames), usr, srv')
    BY <1>3, <1>16, <2>1, <2>2, UpHandled
  <2> QED
    BY <1>2, <1>16, <2>3 DEF FramesUp
<1>19. OpenedUp'
  <2> SUFFICES ASSUME link.up, NEW v \in Users, usr[v].pc = "copy", srv'[v].pc = "none"
               PROVE  \E k \in 1 .. Len(UpFrames') : OpensAt(UpFrames', k, v)
    BY <1>2 DEF OpenedUp
  <2>1. v # u /\ srv[v].pc = "none"
    BY <1>8, <1>10
  <2>2. PICK j \in 1 .. Len(UpFrames) : OpensAt(UpFrames, j, v)
    BY <2>1 DEF OpenedUp
  <2> QED
    BY <1>2, <1>12, <1>17, <2>1, <2>2, OpensLater
<1>20. BytesUp'
  <2> SUFFICES ASSUME NEW v \in Users
               PROVE  Onward(Tail(UpFrames), v, usr[v].sent, srv'[v].got,
                             ~srv'[v].closed, link.up)
    BY <1>2, <1>16 DEF BytesUp
  <2>1. Onward(UpFrames, v, usr[v].sent, srv[v].got, ~srv[v].closed, link.up)
    BY DEF BytesUp
  <2>2. /\ usr[v].sent \in Nat /\ srv[v].got \in Seq(Bytes)
        /\ (~srv[v].closed) \in BOOLEAN /\ link.up \in BOOLEAN
    BY MuxTyped DEF MuxTypes, SiteStates
  <2>3. CASE v # u \/ f.data = None
    <3>1. ~Carries(UpFrames[1], v)
      BY <1>3, <1>4, <2>3 DEF Carries
    <3>2. srv'[v].got = srv[v].got /\ srv'[v].closed = srv[v].closed
      BY <1>6, <1>8, <1>10, <2>3
    <3>3. Onward(Tail(UpFrames), v, usr[v].sent, srv[v].got, ~srv[v].closed, link.up)
      BY <1>3, <1>16, <2>1, <2>2, <3>1, OnwardDrop
    <3> QED
      BY <3>2, <3>3
  <2>4. CASE v = u /\ f.data # None
    <3>1. Carries(UpFrames[1], v)
      BY <1>3, <1>4, <2>4 DEF Carries
    <3>2. srv'[v].got = Append(srv[v].got, f.data) /\ ~srv'[v].closed /\ ~srv[v].closed
      BY <1>6, <1>8, <1>10, <1>14, <2>4
    <3>3. Onward(UpFrames, v, usr[v].sent, srv[v].got, TRUE, link.up)
      BY <2>1, <3>2
    <3>4. Onward(Tail(UpFrames), v, usr[v].sent, Append(srv[v].got, f.data), TRUE, link.up)
      BY <1>3, <1>16, <2>2, <3>1, <3>3, OnwardDeliver
    <3> QED
      BY <3>2, <3>4
  <2> QED
    BY <2>3, <2>4
<1>21. FramesDown' /\ BytesDown'
  <2>1. DownFrames' = DownFrames
    BY <1>2 DEF DownFrames
  <2>2. \A v \in Users : /\ srv'[v].sent = srv[v].sent
                         /\ srv[v].pc # "none" => /\ srv'[v].pc # "none"
                                                  /\ srv'[v].id = srv[v].id
    BY <1>4, <1>8, <1>10
  <2> QED
    BY <1>2, <2>1, <2>2, DownSites
<1> QED
  BY <1>12, <1>13, <1>15, <1>16, <1>18, <1>19, <1>20, <1>21

\* ServerHandle: data goes to the session it is of, or its session is closed.
LEMMA ServerHandleKeeps ==
    ASSUME MuxInv, ServerHandle
    PROVE  MuxInv'
<1> USE DEF MuxInv
<1>1. PICK f \in Frames : f = rxs.frame /\ f.kind # "new"
  BY DEF ServerHandle, MuxTypes
<1>2. /\ rxs.frame # None /\ rxs' = NoFrame /\ rxs'.frame = None
      /\ UNCHANGED <<cm, done, monitor, usr, rxc, up, link>>
      /\ rxs' \in [frame : Frames \cup {None}, to : Users \cup {None}]
  BY DEF ServerHandle, cvars, NoFrame
<1>3. UsersGoOn /\ ClientSessions' /\ FoundDown'
  BY <1>2, ClientStays
<1>4. /\ UpFrames # <<>> /\ UpFrames[1] = f /\ UpFrames \in Seq(Frames)
  BY <1>1, <1>2, MuxTyped
<1>5. srv \in [Users -> SiteStates] /\ rxs.to \in Users \cup {None} /\ f.id \in Ids
  BY <1>1 DEF MuxTypes, Frames
<1>6. \A v \in Users :
         /\ Onward(UpFrames, v, usr[v].sent, srv[v].got, ~srv[v].closed, link.up)
         /\ usr[v].sent \in Nat /\ srv[v].got \in Seq(Bytes)
         /\ (~srv[v].closed) \in BOOLEAN /\ link.up \in BOOLEAN
  BY MuxTyped DEF BytesUp, MuxTypes, SiteStates
<1>7. ASSUME rxs.to = None, UNCHANGED <<sm, srv>>,
             IF f.kind = "keep" THEN SendDown(Frame("end", f.id, None, None))
                                ELSE UNCHANGED down
      PROVE  MuxInv'
  <2>1. PICK e \in Frames : /\ e = Frame("end", f.id, None, None)
                            /\ e.kind = "end" /\ e.data = None
    BY <1>5, FrameTyped
  <2>2. down' = down \/ down' = (IF link.down THEN Append(down, e) ELSE down)
    BY <1>7, <2>1 DEF SendDown
  <2>3. MuxTypes'
    <3>1. down \in Seq(Frames)
      BY DEF MuxTypes
    <3>2. Append(down, e) \in Seq(Frames)
      BY <2>1, <3>1
    <3>3. down' \in Seq(Frames)
      BY <2>2, <3>1, <3>2
    <3> QED
      BY <1>2, <1>7, <3>3 DEF MuxTypes
  <2>4. SitesGoOn
    BY <1>7 DEF SitesGoOn
  <2>5. ServerSessions'
    BY <1>2, <1>7 DEF ServerSessions
  <2>6. FramesUp' /\ OpenedUp' /\ FoundUp' /\ UpFrames' = Tail(UpFrames)
    BY <1>1, <1>2, <2>3, <2>4, UpTaken, UpNext
  <2>7. BytesUp'
    <3> SUFFICES ASSUME NEW v \in Users
                 PROVE  Onward(Tail(UpFrames), v, usr[v].sent, srv[v].got,
                               ~srv[v].closed, link.up)
      BY <1>2, <1>7, <2>6 DEF BytesUp
    <3>1. Carries(UpFrames[1], v) => srv[v].closed
      BY <1>1, <1>2, <1>4, <1>7, DataUp DEF FoundUp
    <3> QED
      BY <1>4, <1>6, <3>1, OnwardDrop
  <2>8. FramesDown' /\ BytesDown'
    <3>1. CASE down' = down
      <4>1. DownFrames' = DownFrames /\ link'.down = link.down
        BY <1>2, <3>1 DEF DownFrames
      <4> QED
        BY <1>2, <1>7, <4>1, DownSites
    <3>2. CASE down' = (IF link.down THEN Append(down, e) ELSE down)
      BY <1>2, <1>7, <2>1, <2>4, <3>2, SendsEmptyDown
    <3> QED
      BY <2>2, <3>1, <3>2
  <2> QED
    BY <1>3, <2>3, <2>5, <2>6, <2>7, <2>8
<1>8. ASSUME NEW u \in Users, u = rxs.to
      PROVE  /\ u # None /\ srv[u].pc # "none" /\ srv[u] \in SiteStates
             /\ \A v \in Users : Carries(f, v) => v = u
             /\ f.kind = "keep" => Carries(f, u) /\ f.data \in Bytes
  <2>1. u # None /\ srv[u].pc # "none" /\ srv[u].id = f.id
    BY <1>1, <1>8, MuxAssumption DEF FoundUp
  <2>2. ASSUME f.kind = "keep"
        PROVE  f.data # None /\ f.data[1] = u
    <3>1. /\ f.data # None /\ f.data[1] \in Users /\ srv[f.data[1]].pc # "none"
          /\ srv[f.data[1]].id = f.id
      BY <1>4, <2>2, DataUp
    <3>2. usr[f.data[1]].pc \in Sending /\ usr[f.data[1]].id = f.id
      BY <3>1 DEF ServerSessions
    <3> QED
      BY <2>1, <3>1, <3>2, OpenIds
  <2>3. \A v \in Users : Carries(f, v) => v = u
    BY <1>1, <1>4, <2>2, DataUp
  <2>4. f.kind = "keep" => f.data \in Bytes
    BY <1>1, <2>2 DEF Frames
  <2> QED
    BY <1>5, <2>1, <2>2, <2>3, <2>4 DEF Carries
<1>9. ASSUME NEW u \in Users, u = rxs.to, f.kind = "keep", ~srv[u].closed,
             srv' = [srv EXCEPT ![u].got = Append(@, f.data)], UNCHANGED <<sm, down>>
      PROVE  MuxInv'
  <2>1. /\ u # None /\ srv[u].pc # "none" /\ srv[u] \in SiteStates
        /\ \A v \in Users : Carries(f, v) => v = u
        /\ Carries(f, u) /\ f.data \in Bytes
    BY <1>8, <1>9
  <2>2. PICK x : x = [srv[u] EXCEPT !.got = Append(@, f.data)]
    OBVIOUS
  <2>3. /\ x \in SiteStates /\ x.pc = srv[u].pc /\ x.id = srv[u].id /\ x.sent = srv[u].sent
        /\ x.closed = srv[u].closed /\ x.got = Append(srv[u].got, f.data)
    <3>1. Append(srv[u].got, f.data) \in Seq(Bytes)
      BY <2>1 DEF SiteStates
    <3> QED
      BY <2>1, <2>2, <3>1 DEF SiteStates
  <2>4. /\ srv' \in [Users -> SiteStates] /\ srv'[u] = x
        /\ \A v \in Users \ {u} : srv'[v] = srv[v]
    BY <1>5, <1>9, <2>2, <2>3
  <2>5. MuxTypes'
    BY <1>2, <1>9, <2>4 DEF MuxTypes
  <2>6. SitesGoOn
    BY <2>3, <2>4 DEF SitesGoOn
  <2>7. ServerSessions'
    <3>1. \A v \in Users :
              /\ srv'[v].closed <=> srv[v].closed \/ v \in {}
              /\ srv[v].pc = "none" => srv'[v] = srv[v] /\ v \notin {}
      BY <2>1, <2>3, <2>4
    <3>2. \A i \in Ids : sm'.map[i] = IF sm.map[i] \in {} THEN None ELSE sm.map[i]
      BY <1>9
    <3>3. sm'.closed => \A i \in Ids : sm'.map[i] = None
      BY <1>9 DEF ServerSessions
    <3>4. {} \in SUBSET Users
      OBVIOUS
    <3> QED
      BY <1>2, <2>5, <2>6, <3>1, <3>2, <3>3, <3>4, ServerCloses
  <2>8. FramesUp' /\ OpenedUp' /\ FoundUp' /\ UpFrames' = Tail(UpFrames)
    BY <1>1, <1>2, <2>5, <2>6, UpTaken, UpNext
  <2>9. BytesUp'
    <3> SUFFICES ASSUME NEW v \in Users
                 PROVE  Onward(Tail(UpFrames), v, usr[v].sent, srv'[v].got,
                               ~srv'[v].closed, link.up)
      BY <1>2, <2>8 DEF BytesUp
    <3>1. CASE v # u
      <4>1. ~Carries(UpFrames[1], v) /\ srv'[v] = srv[v]
        BY <1>4, <2>1, <2>4, <3>1
      <4>2. Onward(Tail(UpFrames), v, usr[v].sent, srv[v].got, ~srv[v].closed, link.up)
        BY <1>4, <1>6, <4>1, OnwardDrop
      <4> QED
        BY <4>1, <4>2
    <3>2. CASE v = u
      <4>1. Carries(UpFrames[1], v) /\ UpFrames[1].data = f.data
        BY <1>4, <2>1, <3>2
      <4>2. Onward(UpFrames, v, usr[v].sent, srv[v].got, TRUE, link.up)
        <5>1. Onward(UpFrames, v, usr[v].sent, srv[v].got, ~srv[v].closed, link.up)
          BY <1>6
        <5> QED
          BY <1>9, <3>2, <5>1
      <4>3. Onward(Tail(UpFrames), v, usr[v].sent, Append(srv[v].got, f.data), TRUE, link.up)
        BY <1>4, <1>6, <4>1, <4>2, OnwardDeliver
      <4>4. srv'[v].got = Append(srv[v].got, f.data) /\ ~srv'[v].closed
        BY <1>9, <2>3, <2>4, <3>2
      <4> QED
        BY <4>3, <4>4
    <3> QED
      BY <3>1, <3>2
  <2>10. FramesDown' /\ BytesDown'
    <3>1. DownFrames' = DownFrames
      BY <1>2, <1>9 DEF DownFrames
    <3>2. \A v \in Users : /\ srv'[v].sent = srv[v].sent
                           /\ srv[v].pc # "none" => /\ srv'[v].pc # "none"
                                                    /\ srv'[v].id = srv[v].id
      BY <2>3, <2>4
    <3> QED
      BY <1>2, <3>1, <3>2, DownSites
  <2> QED
    BY <1>3, <2>5, <2>7, <2>8, <2>9, <2>10
<1>10. ASSUME NEW u \in Users, u = rxs.to, sm' = Removed(sm, srv[u]),
              srv' = [srv EXCEPT ![u] = ClosedSite(@)], UNCHANGED down
       PROVE  MuxInv'
  <2>1. /\ u # None /\ srv[u].pc # "none" /\ srv[u] \in SiteStates
        /\ \A v \in Users : Carries(f, v) => v = u
    BY <1>8, <1>10
  <2>2. PICK x : x = ClosedSite(srv[u])
    OBVIOUS
  <2>3. /\ x \in SiteStates /\ x.pc = srv[u].pc /\ x.id = srv[u].id /\ x.sent = srv[u].sent
        /\ x.closed /\ x.got = srv[u].got
    BY <2>1, <2>2 DEF SiteStates, ClosedSite
  <2>4. /\ srv' \in [Users -> SiteStates] /\ srv'[u] = x
        /\ \A v \in Users \ {u} : srv'[v] = srv[v]
    BY <1>5, <1>10, <2>2, <2>3
  <2>5. /\ sm' \in [count : Nat, map : [Ids -> Users \cup {None}], closed : BOOLEAN]
        /\ \A i \in Ids : sm'.map[i] = IF sm.map[i] \in {u} THEN None ELSE sm.map[i]
        /\ sm'.closed => \A i \in Ids : sm'.map[i] = None
    BY <1>10, <2>1, SiteRemoved
  <2>6. MuxTypes'
    BY <1>2, <1>10, <2>4, <2>5 DEF MuxTypes
  <2>7. SitesGoOn
    BY <2>3, <2>4 DEF SitesGoOn
  <2>8. ServerSessions'
    <3>1. \A v \in Users :
              /\ srv'[v].closed <=> srv[v].closed \/ v \in {u}
              /\ srv[v].pc = "none" => srv'[v] = srv[v] /\ v \notin {u}
      BY <2>1, <2>3, <2>4
    <3>2. {u} \in SUBSET Users
      OBVIOUS
    <3> QED
      BY <1>2, <2>5, <2>6, <2>7, <3>1, <3>2, ServerCloses
  <2>9. FramesUp' /\ OpenedUp' /\ FoundUp' /\ UpFrames' = Tail(UpFrames)
    BY <1>1, <1>2, <2>6, <2>7, UpTaken, UpNext
  <2>10. BytesUp'
    <3> SUFFICES ASSUME NEW v \in Users
                 PROVE  Onward(Tail(UpFrames), v, usr[v].sent, srv'[v].got,
                               ~srv'[v].closed, link.up)
      BY <1>2, <2>9 DEF BytesUp
    <3>1. CASE v # u
      <4>1. ~Carries(UpFrames[1], v) /\ srv'[v] = srv[v]
        BY <1>4, <2>1, <2>4, <3>1
      <4>2. Onward(Tail(UpFrames), v, usr[v].sent, srv[v].got, ~srv[v].closed, link.up)
        BY <1>4, <1>6, <4>1, OnwardDrop
      <4> QED
        BY <4>1, <4>2
    <3>2. CASE v = u
      <4>1. Onward(UpFrames, v, usr[v].sent, srv[v].got, FALSE, link.up)
        <5>1. PICK t \in BOOLEAN : /\ Onward(UpFrames, v, usr[v].sent, srv[v].got, t, link.up)
                                   /\ link.up \in BOOLEAN
          BY <1>6
        <5> QED
          BY <5>1, OnwardLess
      <4>2. Onward(Tail(UpFrames), v, usr[v].sent, srv[v].got, FALSE, link.up)
        BY <1>4, <1>6, <4>1, OnwardDrop
      <4>3. srv'[v].got = srv[v].got /\ ~(~srv'[v].closed)
        BY <2>3, <2>4, <3>2
      <4>4. (~srv'[v].closed) = FALSE
        BY <4>3
      <4> QED
        BY <4>2, <4>3, <4>4
    <3> QED
      BY <3>1, <3>2
  <2>11. FramesDown' /\ BytesDown'
    <3>1. DownFrames' = DownFrames
      BY <1>2, <1>10 DEF DownFrames
    <3>2. \A v \in Users : /\ srv'[v].sent = srv[v].sent
                           /\ srv[v].pc # "none" => /\ srv'[v].pc # "none"
                                                    /\ srv'[v].id = srv[v].id
      BY <2>3, <2>4
    <3> QED
      BY <1>2, <3>1, <3>2, DownSites
  <2> QED
    BY <1>3, <2>6, <2>8, <2>9, <2>10, <2>11
<1>11. CASE rxs.to = None
  BY <1>1, <1>7, <1>11 DEF ServerHandle
<1>12. CASE rxs.to # None
  <2>1. PICK u \in Users : u = rxs.to
    BY <1>5, <1>12
  <2>2. CASE f.kind = "keep" /\ ~srv[u].closed /\ ~srv[u].gone
    BY <1>1, <1>9, <1>12, <2>1, <2>2 DEF ServerHandle
  <2>3. CASE ~(f.kind = "keep" /\ ~srv[u].closed /\ ~srv[u].gone)
    BY <1>1, <1>10, <1>12, <2>1, <2>3 DEF ServerHandle
  <2> QED
    BY <2>2, <2>3
<1> QED
  BY <1>11, <1>12

\* The server ends: its sessions are closed and nothing reaches it any more.
LEMMA ServerEndsKeeps ==
    ASSUME MuxInv, ServerEnds
    PROVE  MuxInv'
<1> USE DEF MuxInv
<1>1. /\ ~sm.closed /\ rxs' = NoFrame /\ up' = <<>>
      /\ srv' = [u \in Users |-> IF InMap(sm, u) THEN ClosedSite(srv[u]) ELSE srv[u]]
      /\ sm' = ClosedManager(sm) /\ link' = [link EXCEPT !.up = FALSE]
      /\ UNCHANGED <<cm, done, monitor, usr, rxc, down>>
  BY DEF ServerEnds, cvars
<1>2. PICK S \in SUBSET Users : S = {u \in Users : InMap(sm, u)}
  OBVIOUS
<1>3. srv \in [Users -> SiteStates]
  BY DEF MuxTypes
<1>4. \A v \in Users : ClosedSite(srv[v]) \in SiteStates /\ srv[v] \in SiteStates
  BY <1>3 DEF ClosedSite, SiteStates
<1>5. srv' \in [Users -> SiteStates]
  BY <1>1, <1>4
<1>6. \A v \in Users :
        /\ srv'[v].pc = srv[v].pc /\ srv'[v].id = srv[v].id
        /\ srv'[v].sent = srv[v].sent /\ srv'[v].got = srv[v].got
        /\ srv'[v].closed <=> srv[v].closed \/ v \in S
        /\ v \notin S => srv'[v] = srv[v]
  <2> SUFFICES ASSUME NEW v \in Users
               PROVE  /\ srv'[v].pc = srv[v].pc /\ srv'[v].id = srv[v].id
                      /\ srv'[v].sent = srv[v].sent /\ srv'[v].got = srv[v].got
                      /\ srv'[v].closed <=> srv[v].closed \/ v \in S
                      /\ v \notin S => srv'[v] = srv[v]
    OBVIOUS
  <2>1. CASE v \in S
    <3>1. srv'[v] = ClosedSite(srv[v]) /\ srv[v] \in SiteStates
      BY <1>1, <1>2, <1>4, <2>1
    <3> QED
      BY <2>1, <3>1 DEF ClosedSite, SiteStates
  <2>2. CASE v \notin S
    <3>1. srv'[v] = srv[v]
      BY <1>1, <1>2, <2>2
    <3> QED
      BY <2>2, <3>1
  <2> QED
    BY <2>1, <2>2
<1>7. \A v \in S : srv[v].pc # "none"
  BY <1>2, MuxAssumption DEF InMap, ServerSessions
<1>8. /\ sm' \in [count : Nat, map : [Ids -> Users \cup {None}], closed : BOOLEAN]
      /\ \A i \in Ids : sm'.map[i] = None
  BY <1>1 DEF ClosedManager, MuxTypes
<1>9. \A i \in Ids : sm'.map[i] = IF sm.map[i] \in S THEN None ELSE sm.map[i]
  <2>1. \A i \in Ids : sm.map[i] # None => sm.map[i] \in S
    BY <1>2 DEF InMap, MuxTypes
  <2> QED
    BY <1>8, <2>1
<1>10. link' \in [up : BOOLEAN, down : BOOLEAN] /\ ~link'.up /\ link'.down = link.down
  BY <1>1 DEF MuxTypes
<1>11. rxs' \in [frame : Frames \cup {None}, to : Users \cup {None}]
       /\ rxs'.frame = None /\ rxs'.to = None /\ up' \in Seq(Frames)
  BY <1>1 DEF NoFrame
<1>12. MuxTypes'
  BY <1>1, <1>5, <1>8, <1>10, <1>11 DEF MuxTypes
<1>13. UsersGoOn /\ ClientSessions' /\ FoundDown'
  BY <1>1, ClientStays
<1>14. SitesGoOn
  BY <1>6 DEF SitesGoOn
<1>15. ServerSessions'
  <2>1. \A v \in Users :
              /\ srv'[v].closed <=> srv[v].closed \/ v \in S
              /\ srv[v].pc = "none" => srv'[v] = srv[v] /\ v \notin S
    BY <1>6, <1>7
  <2>2. sm'.closed => \A i \in Ids : sm'.map[i] = None
    BY <1>8
  <2>3. rxs'.frame # None => ~sm'.closed
    BY <1>11
  <2> QED
    BY <1>1, <1>9, <1>12, <1>14, <2>1, <2>2, <2>3, ServerCloses
<1>16. FoundUp'
  BY <1>11 DEF FoundUp
<1>17. FramesUp' /\ OpenedUp' /\ BytesUp'
  <2>1. UpFrames' = <<>>
    BY <1>1, <1>11, WaitingFacts DEF UpFrames
  <2>2. /\ Len(UpFrames') <= Len(UpFrames) /\ UpFrames' \in Seq(Frames)
        /\ \A k \in 1 .. Len(UpFrames') : UpFrames'[k] = UpFrames[k]
    BY <2>1, MuxTyped
  <2> QED
    BY <1>1, <1>6, <1>10, <1>12, <1>13, <1>14, <2>2, UpLost
<1>18. FramesDown' /\ BytesDown'
  <2>1. DownFrames' = DownFrames
    BY <1>1 DEF DownFrames
  <2> QED
    BY <1>1, <1>6, <1>10, <2>1, DownSites
<1> QED
  BY <1>12, <1>13, <1>15, <1>16, <1>17, <1>18

\* One session of the server moves on and nothing else of it does.
LEMMA SiteMoves ==
    ASSUME MuxInv, NEW u \in Users, srv[u].pc # "none", NEW x \in SiteStates,
           srv' = [srv EXCEPT ![u] = x], UNCHANGED <<cvars, rxs, up, link>>,
           x.pc # "none", x.id = srv[u].id, x.got = srv[u].got,
           down' \in Seq(Frames),
           \/ sm' = sm /\ x.closed = srv[u].closed
           \/ sm' = Removed(sm, srv[u]) /\ x.closed
    PROVE  /\ MuxTypes' /\ ClientSessions' /\ ServerSessions' /\ FoundUp' /\ FoundDown'
           /\ FramesUp' /\ OpenedUp' /\ BytesUp' /\ SitesGoOn
           /\ srv'[u] = x /\ \A v \in Users \ {u} : srv'[v] = srv[v]
           /\ UNCHANGED <<rxc, usr, link>>
<1> USE DEF MuxInv
<1>1. UNCHANGED <<cm, done, monitor, usr, rxc>>
  BY DEF cvars
<1>2. /\ srv' \in [Users -> SiteStates] /\ srv'[u] = x
      /\ \A v \in Users \ {u} : srv'[v] = srv[v]
  BY DEF MuxTypes
<1>3. PICK S \in SUBSET {u} :
        /\ sm' \in [count : Nat, map : [Ids -> Users \cup {None}], closed : BOOLEAN]
        /\ sm'.closed = sm.closed
        /\ \A i \in Ids : sm'.map[i] = IF sm.map[i] \in S THEN None ELSE sm.map[i]
        /\ sm'.closed => \A i \in Ids : sm'.map[i] = None
        /\ x.closed <=> srv[u].closed \/ u \in S
  <2>1. CASE sm' = sm /\ x.closed = srv[u].closed
    <3>1. sm.closed => \A i \in Ids : sm.map[i] = None
      BY DEF ServerSessions
    <3>2. {} \in SUBSET {u}
      OBVIOUS
    <3> QED
      BY <2>1, <3>1, <3>2 DEF MuxTypes
  <2>2. CASE sm' = Removed(sm, srv[u]) /\ x.closed
    <3>1. {u} \in SUBSET {u}
      OBVIOUS
    <3> QED
      BY <2>2, <3>1, SiteRemoved
  <2> QED
    BY <2>1, <2>2
<1>4. MuxTypes'
  BY <1>1, <1>2, <1>3 DEF MuxTypes
<1>5. SitesGoOn
  BY <1>2, <1>3 DEF SitesGoOn
<1>6. ServerSessions'
  <2>1. \A v \in Users :
              /\ srv'[v].closed <=> srv[v].closed \/ v \in S
              /\ srv[v].pc = "none" => srv'[v] = srv[v] /\ v \notin S
    BY <1>2, <1>3
  <2>2. rxs'.frame # None => ~sm'.closed
    BY <1>3 DEF ServerSessions
  <2>3. S \in SUBSET Users
    BY <1>3
  <2> QED
    BY <1>1, <1>3, <1>4, <1>5, <2>1, <2>2, <2>3, ServerCloses
<1>7. ClientSessions' /\ FoundDown' /\ FoundUp'
  BY <1>1, <1>5, ClientStays, FoundUpStays
<1>8. FramesUp' /\ OpenedUp' /\ BytesUp'
  <2>1. UpFrames' = UpFrames
    BY DEF UpFrames
  <2>2. \A v \in Users : srv'[v].got = srv[v].got
    BY <1>2
  <2> QED
    BY <1>1, <1>4, <1>5, <2>1, <2>2, UpSites
<1> QED
  BY <1>1, <1>2, <1>4, <1>5, <1>6, <1>7, <1>8

\* handle: the site's next byte is sent.
LEMMA handleKeeps ==
    ASSUME MuxInv, NEW u \in Users, handle(u)
    PROVE  MuxInv'
<1> USE DEF MuxInv
<1>1. /\ srv[u].pc = "handle" /\ srv[u].sent < MaxBytes /\ link.down
      /\ SendDown(Frame("keep", srv[u].id, None, <<u, srv[u].sent + 1>>))
      /\ srv' = [srv EXCEPT ![u].sent = @ + 1]
      /\ UNCHANGED <<cvars, sm, rxs, up, link>>
  BY DEF handle
<1>2. /\ srv \in [Users -> SiteStates] /\ srv[u] \in SiteStates /\ srv[u].id \in Ids
      /\ srv[u].sent \in 0 .. MaxBytes /\ down \in Seq(Frames)
  BY DEF MuxTypes, SiteStates
<1>3. PICK n \in 0 .. MaxBytes : n = srv[u].sent + 1 /\ n \in 1 .. MaxBytes
  BY <1>1, <1>2, MuxAssumption
<1>4. PICK f \in Frames : /\ f = Frame("keep", srv[u].id, None, <<u, n>>)
                          /\ f.kind = "keep" /\ f.id = srv[u].id /\ f.data = <<u, n>>
  <2>1. PICK d \in Bytes : d = <<u, n>>
    BY <1>3 DEF Bytes
  <2>2. PICK i \in Ids : i = srv[u].id
    BY <1>2
  <2>3. /\ Frame("keep", i, None, d) \in Frames
        /\ Frame("keep", i, None, d).kind = "keep" /\ Frame("keep", i, None, d).id = i
        /\ Frame("keep", i, None, d).data = d
    BY FrameTyped
  <2> QED
    BY <2>1, <2>2, <2>3
<1>5. down' = Append(down, f) /\ down' \in Seq(Frames)
  BY <1>1, <1>2, <1>3, <1>4 DEF SendDown
<1>6. PICK x : x = [srv[u] EXCEPT !.sent = n]
  OBVIOUS
<1>7. /\ x \in SiteStates /\ x.pc = "handle" /\ x.id = srv[u].id /\ x.got = srv[u].got
      /\ x.closed = srv[u].closed /\ x.sent = n
  BY <1>1, <1>2, <1>3, <1>6 DEF SiteStates
<1>8. srv' = [srv EXCEPT ![u] = x]
  BY <1>1, <1>2, <1>3, <1>6
<1>9. /\ MuxTypes' /\ ClientSessions' /\ ServerSessions' /\ FoundUp' /\ FoundDown'
      /\ FramesUp' /\ OpenedUp' /\ BytesUp' /\ SitesGoOn
      /\ srv'[u] = x /\ \A v \in Users \ {u} : srv'[v] = srv[v]
      /\ UNCHANGED <<rxc, usr, link>>
  BY <1>1, <1>5, <1>7, <1>8, SiteMoves
<1>10. DownFrames' = Append(DownFrames, f) /\ DownFrames \in Seq(Frames)
  <2>1. rxc \in [frame : Frames \cup {None}, to : Users \cup {None}]
    BY DEF MuxTypes
  <2> QED
    BY <1>2, <1>5, <1>9, <2>1, WaitingSend, MuxTyped DEF DownFrames
<1>11. FramesDown'
  <2>1. FramesDownOf(DownFrames, srv) /\ Len(DownFrames) <= Len(DownFrames)
    BY <1>10 DEF FramesDown
  <2>2. \A v \in Users : srv[v].pc # "none" => srv'[v].pc # "none" /\ srv'[v].id = srv[v].id
    BY <1>9 DEF SitesGoOn
  <2>3. FramesDownOf(DownFrames, srv')
    BY <1>10, <2>1, <2>2, DownStay
  <2>4. f.data # None /\ f.data[1] = u
    BY <1>3, <1>4, MuxAssumption DEF Bytes
  <2>5. FramesDownOf(Append(DownFrames, f), srv')
    BY <1>4, <1>7, <1>9, <1>10, <2>3, <2>4, DownSent
  <2> QED
    BY <1>10, <2>5 DEF FramesDown
<1>12. BytesDown'
  <2> SUFFICES ASSUME NEW v \in Users
               PROVE  Onward(Append(DownFrames, f), v, srv'[v].sent, usr[v].got,
                             ~usr[v].closed, link.down)
    BY <1>9, <1>10 DEF BytesDown
  <2>1. Onward(DownFrames, v, srv[v].sent, usr[v].got, ~usr[v].closed, link.down)
    BY DEF BytesDown
  <2>2. /\ srv[v].sent \in Nat /\ usr[v].got \in Seq(Bytes)
        /\ (~usr[v].closed) \in BOOLEAN /\ link.down \in BOOLEAN
    BY MuxTyped DEF MuxTypes, UserStates
  <2>3. CASE v = u
    <3>1. link.down = TRUE
      BY <1>1, <2>2
    <3>2. Onward(Append(DownFrames, f), v, srv[v].sent + 1, usr[v].got, ~usr[v].closed, TRUE)
      BY <1>1, <1>3, <1>4, <1>10, <2>1, <2>2, <2>3, <3>1, OnwardPut
    <3> QED
      BY <1>3, <1>7, <1>9, <2>3, <3>1, <3>2
  <2>4. CASE v # u
    <3>1. ~Carries(f, v) /\ srv'[v].sent = srv[v].sent
      BY <1>4, <1>9, <2>4 DEF Carries
    <3> QED
      BY <1>10, <2>1, <2>2, <3>1, OnwardOther
  <2> QED
    BY <2>3, <2>4
<1> QED
  BY <1>9, <1>11, <1>12

\* The site ends, and its session is closed.
LEMMA SiteStepsKeep ==
    ASSUME MuxInv, NEW u \in Users, SiteEnds(u) \/ ResponseClose(u) \/ SiteClose(u)
    PROVE  MuxInv'
<1> USE DEF MuxInv
<1>1. srv \in [Users -> SiteStates] /\ srv[u] \in SiteStates /\ down \in Seq(Frames)
      /\ srv[u].id \in Ids
  BY DEF MuxTypes, SiteStates
<1>2. PICK f \in Frames : /\ f = Frame("end", srv[u].id, None, None)
                          /\ f.kind = "end" /\ f.data = None
  <2>1. PICK i \in Ids : i = srv[u].id
    BY <1>1
  <2>2. /\ Frame("end", i, None, None) \in Frames
        /\ Frame("end", i, None, None).kind = "end" /\ Frame("end", i, None, None).data = None
    BY FrameTyped
  <2> QED
    BY <2>1, <2>2
<1>3. PICK x \in SiteStates :
        /\ srv[u].pc # "none" /\ srv' = [srv EXCEPT ![u] = x]
        /\ x.pc # "none" /\ x.id = srv[u].id /\ x.got = srv[u].got /\ x.sent = srv[u].sent
        /\ down' = down \/ down' = (IF link.down THEN Append(down, f) ELSE down)
        /\ \/ sm' = sm /\ x.closed = srv[u].closed
           \/ sm' = Removed(sm, srv[u]) /\ x.closed
  <2>1. CASE SiteEnds(u)
    <3>1. PICK x : x = [srv[u] EXCEPT !.pc = "end", !.gone = TRUE]
      OBVIOUS
    <3>2. /\ x \in SiteStates /\ x.pc # "none" /\ x.id = srv[u].id /\ x.got = srv[u].got
          /\ x.sent = srv[u].sent /\ x.closed = srv[u].closed
      BY <1>1, <3>1 DEF SiteStates
    <3>3. srv[u].pc # "none" /\ srv' = [srv EXCEPT ![u] = x] /\ down' = down /\ sm' = sm
      BY <1>1, <2>1, <3>1 DEF SiteEnds
    <3> QED
      BY <3>2, <3>3
  <2>2. CASE ResponseClose(u)
    <3>1. PICK x : x = [srv[u] EXCEPT !.pc = "close"]
      OBVIOUS
    <3>2. /\ x \in SiteStates /\ x.pc # "none" /\ x.id = srv[u].id /\ x.got = srv[u].got
          /\ x.sent = srv[u].sent /\ x.closed = srv[u].closed
      BY <1>1, <3>1 DEF SiteStates
    <3>3. /\ srv[u].pc # "none" /\ srv' = [srv EXCEPT ![u] = x] /\ sm' = sm
          /\ down' = (IF link.down THEN Append(down, f) ELSE down)
      BY <1>1, <1>2, <2>2, <3>1 DEF ResponseClose, SendDown
    <3> QED
      BY <3>2, <3>3
  <2>3. CASE SiteClose(u)
    <3>1. PICK x : x = [ClosedSite(srv[u]) EXCEPT !.pc = "over"]
      OBVIOUS
    <3>2. /\ x \in SiteStates /\ x.pc # "none" /\ x.id = srv[u].id /\ x.got = srv[u].got
          /\ x.sent = srv[u].sent /\ x.closed
      BY <1>1, <3>1 DEF SiteStates, ClosedSite
    <3>3. /\ srv[u].pc # "none" /\ srv' = [srv EXCEPT ![u] = x] /\ down' = down
          /\ sm' = Removed(sm, srv[u])
      BY <1>1, <2>3, <3>1 DEF SiteClose
    <3> QED
      BY <3>2, <3>3
  <2> QED
    BY <2>1, <2>2, <2>3
<1>4. UNCHANGED <<cvars, rxs, up, link>>
  BY DEF SiteEnds, ResponseClose, SiteClose
<1>5. down' \in Seq(Frames)
  <2>1. Append(down, f) \in Seq(Frames)
    BY <1>1, <1>2
  <2> QED
    BY <1>1, <1>3, <2>1
<1>6. /\ MuxTypes' /\ ClientSessions' /\ ServerSessions' /\ FoundUp' /\ FoundDown'
      /\ FramesUp' /\ OpenedUp' /\ BytesUp' /\ SitesGoOn
      /\ srv'[u] = x /\ \A v \in Users \ {u} : srv'[v] = srv[v]
      /\ UNCHANGED <<rxc, usr, link>>
  BY <1>3, <1>4, <1>5, SiteMoves
<1>7. \A v \in Users : /\ srv'[v].sent = srv[v].sent
                       /\ srv[v].pc # "none" => /\ srv'[v].pc # "none"
                                                /\ srv'[v].id = srv[v].id
  BY <1>3, <1>6
<1>8. FramesDown' /\ BytesDown'
  <2>1. CASE down' = down
    <3>1. DownFrames' = DownFrames /\ link'.down = link.down /\ usr' = usr
      BY <1>6, <2>1 DEF DownFrames
    <3> QED
      BY <1>7, <3>1, DownSites
  <2>2. CASE down' = (IF link.down THEN Append(down, f) ELSE down)
    BY <1>2, <1>6, <1>7, <2>2, SendsEmptyDown
  <2> QED
    BY <1>3, <2>1, <2>2
<1> QED
  BY <1>6, <1>8

\* The transport breaks, with what was on its way or without.
LEMMA BreakKeeps ==
    ASSUME MuxInv, Break
    PROVE  MuxInv'
<1> USE DEF MuxInv
<1>1. /\ link' = [up |-> FALSE, down |-> FALSE] /\ up' \in {up, <<>>} /\ down' \in {down, <<>>}
      /\ UNCHANGED <<cm, done, monitor, usr, rxc, sm, srv, rxs>>
  BY DEF Break, cvars, svars
<1>2. /\ rxs \in [frame : Frames \cup {None}, to : Users \cup {None}] /\ up \in Seq(Frames)
      /\ rxc \in [frame : Frames \cup {None}, to : Users \cup {None}] /\ down \in Seq(Frames)
  BY DEF MuxTypes
<1>3. link' \in [up : BOOLEAN, down : BOOLEAN] /\ ~link'.up /\ ~link'.down
      /\ up' \in Seq(Frames) /\ down' \in Seq(Frames)
  <2>1. up' \in Seq(Frames) /\ down' \in Seq(Frames)
    <3>1. <<>> \in Seq(Frames)
      OBVIOUS
    <3>2. up' \in {up, <<>>} /\ up \in Seq(Frames)
      BY <1>1, <1>2
    <3>3. down' \in {down, <<>>} /\ down \in Seq(Frames)
      BY <1>1, <1>2
    <3>4. up' \in Seq(Frames)
      BY <3>1, <3>2, Zenon
    <3>5. down' \in Seq(Frames)
      BY <3>1, <3>3, Zenon
    <3> QED
      BY <3>4, <3>5
  <2> QED
    BY <1>1, <2>1
<1>4. MuxTypes'
  BY <1>1, <1>3 DEF MuxTypes
<1>5. UsersGoOn /\ ClientSessions' /\ FoundDown' /\ UNCHANGED svars
  BY <1>1, ClientStays DEF svars
<1>6. SitesGoOn
  BY <1>1 DEF SitesGoOn
<1>7. ServerSessions' /\ FoundUp'
  BY <1>5, ServerUnmoved
<1>8. FramesUp' /\ OpenedUp' /\ BytesUp'
  <2>1. UpFrames' \in {Waiting(rxs, up), Waiting(rxs, <<>>)}
    BY <1>1 DEF UpFrames
  <2>2. Waiting(rxs, up) \in Seq(Frames)
    BY <1>2, WaitingFacts
  <2>3. /\ Len(UpFrames') <= Len(UpFrames) /\ UpFrames' \in Seq(Frames)
        /\ \A k \in 1 .. Len(UpFrames') : UpFrames'[k] = UpFrames[k]
    <3>1. CASE UpFrames' = Waiting(rxs, up)
      BY <2>2, <3>1 DEF UpFrames
    <3>2. CASE UpFrames' = Waiting(rxs, <<>>)
      BY <1>2, <3>2, WaitingLost DEF UpFrames
    <3> QED
      BY <2>1, <3>1, <3>2
  <2> QED
    BY <1>1, <1>3, <1>4, <1>5, <1>6, <2>3, UpLost
<1>9. FramesDown' /\ BytesDown'
  <2>1. DownFrames' \in {Waiting(rxc, down), Waiting(rxc, <<>>)}
    BY <1>1 DEF DownFrames
  <2>2. Waiting(rxc, down) \in Seq(Frames)
    BY <1>2, WaitingFacts
  <2>3. /\ Len(DownFrames') <= Len(DownFrames) /\ DownFrames' \in Seq(Frames)
        /\ \A k \in 1 .. Len(DownFrames') : DownFrames'[k] = DownFrames[k]
    <3>1. CASE DownFrames' = Waiting(rxc, down)
      BY <2>2, <3>1 DEF DownFrames
    <3>2. CASE DownFrames' = Waiting(rxc, <<>>)
      BY <1>2, <3>2, WaitingLost DEF DownFrames
    <3> QED
      BY <2>1, <3>1, <3>2
  <2> QED
    BY <1>1, <1>3, <1>4, <1>6, <2>3, DownLost
<1> QED
  BY <1>4, <1>5, <1>7, <1>8, <1>9

\* At the start there are no sessions and no frames.
LEMMA MuxInit ==
    ASSUME Init
    PROVE  MuxInv
<1>1. 0 \in Ids /\ 0 \in 0 .. MaxBytes
  BY MuxAssumption DEF Ids
<1>2. UpFrames = <<>> /\ DownFrames = <<>> /\ Allocated = {}
  BY DEF Init, UpFrames, DownFrames, Waiting, NoFrame, Allocated, Linked, Sending
<1>3. MuxTypes
  <2>1. /\ [pc |-> "new", id |-> 0, sent |-> 0, got |-> <<>>,
            closed |-> FALSE, linked |-> FALSE, cut |-> FALSE] \in UserStates
        /\ [pc |-> "none", id |-> 0, sent |-> 0, got |-> <<>>,
            closed |-> FALSE, gone |-> FALSE] \in SiteStates
    BY <1>1 DEF UserStates, SiteStates, UserPcs
  <2>2. usr \in [Users -> UserStates] /\ srv \in [Users -> SiteStates]
    BY <2>1 DEF Init
  <2>3. NewSessionManager \in [count : Ids, map : [Ids -> Users \cup {None}], closed : BOOLEAN]
        /\ NewSessionManager \in [count : Nat, map : [Ids -> Users \cup {None}], closed : BOOLEAN]
    BY <1>1 DEF NewSessionManager
  <2>4. NoFrame \in [frame : Frames \cup {None}, to : Users \cup {None}]
    BY DEF NoFrame
  <2>5. <<>> \in Seq(Frames)
    OBVIOUS
  <2> QED
    BY <2>2, <2>3, <2>4, <2>5 DEF Init, MuxTypes
<1>4. ClientSessions
  <2>1. cm.count = Cardinality(Allocated)
    BY <1>2, FS_EmptySet DEF Init, NewSessionManager
  <2>2. \A i \in Ids : cm.map[i] = None
    BY DEF Init, NewSessionManager
  <2>3. \A u \in Users : /\ ~usr[u].linked /\ ~usr[u].closed /\ usr[u].pc = "new"
                         /\ usr[u].sent = 0
    BY DEF Init
  <2> QED
    BY <1>2, <2>1, <2>2, <2>3 DEF ClientSessions, Linked, Sending
<1>5. ServerSessions /\ FoundUp /\ FoundDown
  BY DEF Init, NewSessionManager, NoFrame, ServerSessions, FoundUp, FoundDown
<1>6. FramesUp /\ FramesDown /\ OpenedUp
  BY <1>2 DEF FramesUp, FramesUpOf, FramesDown, FramesDownOf, OpenedUp, Init
<1>7. BytesUp /\ BytesDown
  <2>1. \A u \in Users : /\ usr[u].sent = 0 /\ srv[u].sent = 0
                         /\ usr[u].got = <<>> /\ srv[u].got = <<>>
    BY DEF Init
  <2>2. ASSUME NEW u, NEW t, NEW a
        PROVE  Onward(<<>>, u, 0, <<>>, t, a)
    BY DEF Onward
  <2> QED
    BY <1>2, <2>1, <2>2 DEF BytesUp, BytesDown
<1> QED
  BY <1>3, <1>4, <1>5, <1>6, <1>7 DEF MuxInv

\* Every step preserves the invariant.
LEMMA MuxNext ==
    ASSUME FewSessions, MuxInv, [Next]_vars
    PROVE  MuxInv'
<1>1. CASE UNCHANGED vars
  <2>1. /\ UNCHANGED <<cm, usr, rxc, svars, up, down, link>>
        /\ done' \in BOOLEAN /\ monitor' \in {"watch", "idle", "over"}
    BY <1>1 DEF vars, cvars, MuxInv, MuxTypes
  <2> QED
    BY <2>1, ClientEOFKeeps
<1>2. ASSUME NEW u \in Users, UserStep(u) \/ fetchInput(u) \/ InputEnds(u)
                              \/ handle(u) \/ SiteStep(u) \/ SiteEnds(u)
      PROVE  MuxInv'
  <2>1. CASE Dispatch(u) \/ Link(u) \/ InputEnds(u)
    BY <2>1, MovesOn
  <2>2. CASE Allocate(u)
    BY <2>2, AllocateKeeps
  <2>3. CASE WriterClose(u)
    BY <2>3, WriterCloseKeeps
  <2>4. CASE SessionClose(u)
    BY <2>4, SessionCloseKeeps
  <2>5. CASE fetchInput(u)
    BY <2>5, fetchInputKeeps
  <2>6. CASE handle(u)
    BY <2>6, handleKeeps
  <2>7. CASE SiteEnds(u) \/ ResponseClose(u) \/ SiteClose(u)
    BY <2>7, SiteStepsKeep
  <2> QED
    BY <1>2, <2>1, <2>2, <2>3, <2>4, <2>5, <2>6, <2>7 DEF UserStep, SiteStep
<1>3. CASE ClientEOF
  <2>1. /\ UNCHANGED <<cm, usr, rxc, svars, up, down, link>>
        /\ done' \in BOOLEAN /\ monitor' \in {"watch", "idle", "over"}
    BY <1>3 DEF ClientEOF, MuxInv, MuxTypes
  <2> QED
    BY <2>1, ClientEOFKeeps
<1>4. CASE ClientTake \/ ClientHandle \/ Monitor
  BY <1>4, ClientTakeKeeps, ClientHandleKeeps, MonitorKeeps
<1>5. CASE ServerReads
  BY <1>5, ServerTakeKeeps, ServerNewKeeps, ServerHandleKeeps, ServerEndsKeeps
     DEF ServerReads
<1>6. CASE Break
  BY <1>6, BreakKeeps
<1> QED
  BY <1>1, <1>2, <1>3, <1>4, <1>5, <1>6 DEF Next, ClientReads

\* The invariant says what the run checks: the types, and bytes in order.
LEMMA MuxInvApart ==
    ASSUME MuxInv
    PROVE  SessionsApart /\ ClosedWorkerHasNoSession
<1> USE DEF MuxInv
<1>1. \A u \in Users : /\ usr[u] \in UserStates /\ srv[u] \in SiteStates
                       /\ usr[u].got \in Seq(Bytes) /\ srv[u].got \in Seq(Bytes)
  BY DEF MuxTypes, UserStates, SiteStates
<1>2. ASSUME NEW u \in Users, usr[u].pc \in {"alloc", "first", "copy", "end", "close"}
      PROVE  /\ u \in Allocated /\ usr[u].id \in Ids
             /\ ~usr[u].closed => cm.map[usr[u].id] = u
  <2>1. u \in Allocated /\ usr[u].id \in Ids
    BY <1>1, <1>2 DEF Allocated, Linked, Sending, UserStates
  <2> QED
    BY <2>1 DEF ClientSessions
<1>3. TypeOK
  <2>1. \A u \in Users : /\ usr[u].id \in Ids
                         /\ usr[u].sent \in 0 .. MaxBytes /\ srv[u].sent \in 0 .. MaxBytes
    BY <1>1 DEF UserStates, SiteStates
  <2> QED
    BY <1>2, <2>1 DEF TypeOK, MuxTypes
<1>4. NoCrosstalk
  <2> SUFFICES ASSUME NEW u \in Users
               PROVE  /\ srv[u].got = [i \in 1 .. Len(srv[u].got) |-> <<u, i>>]
                      /\ usr[u].got = [i \in 1 .. Len(usr[u].got) |-> <<u, i>>]
    BY DEF NoCrosstalk
  <2>1. \A i \in 1 .. Len(srv[u].got) : srv[u].got[i] = <<u, i>>
    BY DEF BytesUp, Onward
  <2>2. \A i \in 1 .. Len(usr[u].got) : usr[u].got[i] = <<u, i>>
    BY DEF BytesDown, Onward
  <2>3. ASSUME NEW g \in Seq(Bytes), \A i \in 1 .. Len(g) : g[i] = <<u, i>>
        PROVE  g = [i \in 1 .. Len(g) |-> <<u, i>>]
    <3>1. g \in [1 .. Len(g) -> Bytes]
      BY <2>3
    <3> QED
      BY <2>3, <3>1
  <2> QED
    BY <1>1, <2>1, <2>2, <2>3
<1>5. ClosedWorkerHasNoSession
  <2> SUFFICES ASSUME cm.closed, NEW u \in Users, ~usr[u].closed,
                      usr[u].pc \in {"alloc", "first", "copy", "end", "close"}
               PROVE  FALSE
    BY DEF ClosedWorkerHasNoSession
  <2>1. cm.map[usr[u].id] = u /\ usr[u].id \in Ids
    BY <1>2
  <2> QED
    BY <2>1, MuxAssumption DEF ClientSessions
<1> QED
  BY <1>3, <1>4, <1>5 DEF SessionsApart

\* Whatever is closed, broken or refused meanwhile, and however many sessions
\* there are (fewer than ids), each site gets its own user's bytes and each
\* user its own site's, from the first on, in order and without gaps, and a
\* session that is open is the one its id finds (mux/client.go, server.go).
THEOREM MuxSessionsApart ==
    ASSUME FewSessions
    PROVE  Spec => []SessionsApart
<1>1. Init => MuxInv
  BY MuxInit
<1>2. MuxInv /\ [Next]_vars => MuxInv'
  BY MuxNext
<1>3. MuxInv => SessionsApart
  BY MuxInvApart
<1> QED
  BY <1>1, <1>2, <1>3, PTL DEF Spec

\* A client worker that is closed, because it was idle or because its link
\* went, has no session open: SessionManager.CloseIfNoSession and Allocate
\* exclude each other (mux/session.go), and Close closes them all.
THEOREM MuxClosedWorker ==
    ASSUME FewSessions
    PROVE  Spec => []ClosedWorkerHasNoSession
<1>1. Init => MuxInv
  BY MuxInit
<1>2. MuxInv /\ [Next]_vars => MuxInv'
  BY MuxNext
<1>3. MuxInv => ClosedWorkerHasNoSession
  BY MuxInvApart
<1> QED
  BY <1>1, <1>2, <1>3, PTL DEF Spec

-----------------------------------------------------------------------------
(* UdpWorker, instantiated as Udp *)

\* Connections not made yet are as they began.
Unmade ==
    \A k \in Udp!Conns : k > made =>
        conn[k] = [pc |-> "none", done |-> FALSE, inactive |-> FALSE]

\* The connection callback is about has no goroutine yet, and the cleaner does
\* not touch one that has none.
Starting ==
    /\ loop.pc \in {"start", "execute", "serve"} =>
          loop.k \in 1 .. made /\ conn[loop.k].pc = "none"
    /\ \A k \in Udp!Conns : conn[k].pc = "none" => ~conn[k].inactive

\* A connection in the map that is inactive was made so by its own goroutine,
\* which is about to take it out: the cleaner takes out what it makes inactive.
InactiveLeaves ==
    active # 0 /\ conn[active].inactive => conn[active].pc = "remove"

\* A checker that does not run has no timer and no execution under way.
Stopped == ~running => armed = 0 /\ exec = "off" /\ loop.pc # "execute"

UdpInv == Udp!TypeOK /\ Unmade /\ Starting /\ InactiveLeaves /\ Stopped
          /\ Udp!NoStaleEntry

\* Types, in the form the steps use them.
LEMMA UdpTyped ==
    ASSUME UdpInv, Udp!ConnsAssumption
    PROVE  /\ MaxConns \in Nat /\ made \in Nat /\ made <= MaxConns
           /\ active \in Nat /\ active <= made
           /\ active # 0 => active \in Udp!Conns
           /\ \A k \in Udp!Conns :
                 /\ conn[k].pc \in {"none", "process", "closed", "set", "remove", "over"}
                 /\ conn[k].done \in BOOLEAN /\ conn[k].inactive \in BOOLEAN
           /\ loop.pc \in {"receive", "start", "execute", "serve", "dead"}
           /\ loop.k \in 0 .. MaxConns
  BY DEF UdpInv, Udp!TypeOK, Udp!ConnsAssumption, Udp!Conns

\* getConnection: a new connection is one nobody has touched.
LEMMA getConnectionKeeps ==
    ASSUME UdpInv, Udp!ConnsAssumption, Udp!getConnection
    PROVE  UdpInv'
<1> USE DEF UdpInv
<1>1. CASE UNCHANGED <<active, made, loop>>
  BY <1>1 DEF Udp!getConnection, Udp!TypeOK, Unmade, Starting, InactiveLeaves,
              Stopped, Udp!NoStaleEntry
<1>2. CASE /\ made < MaxConns /\ made' = made + 1 /\ active' = made + 1
           /\ loop' = [pc |-> "start", k |-> made + 1]
  <2>1. UNCHANGED <<conn, running, armed, exec, panicked>> /\ loop.pc = "receive"
    BY DEF Udp!getConnection
  <2>2. made + 1 \in Udp!Conns /\ made + 1 \in 1 .. made' /\ made + 1 > made
    BY <1>2, UdpTyped DEF Udp!Conns
  <2>3. conn[made + 1] = [pc |-> "none", done |-> FALSE, inactive |-> FALSE]
    BY <2>2 DEF Unmade
  <2>4. loop' \in [pc : {"receive", "start", "execute", "serve", "dead"},
                   k : 0 .. MaxConns] /\ loop'.pc = "start" /\ loop'.k = made + 1
    BY <1>2, <2>2 DEF Udp!Conns
  <2>5. Udp!TypeOK'
    <3>1. active' \in 0 .. made' /\ made' \in 0 .. MaxConns
      BY <1>2, UdpTyped
    <3> QED
      BY <2>1, <2>4, <3>1 DEF Udp!TypeOK
  <2>6. Unmade'
    BY <1>2, <2>1, UdpTyped DEF Unmade, Udp!Conns
  <2>7. Starting' /\ InactiveLeaves' /\ Udp!NoStaleEntry'
    BY <1>2, <2>1, <2>2, <2>3, <2>4 DEF Starting, InactiveLeaves, Udp!NoStaleEntry
  <2>8. Stopped'
    BY <2>1, <2>4 DEF Stopped
  <2> QED
    BY <2>5, <2>6, <2>7, <2>8
<1> QED
  BY <1>1, <1>2 DEF Udp!getConnection

\* Start: an execution begins only when none is under way.
LEMMA StartKeeps ==
    ASSUME UdpInv, Udp!ConnsAssumption, Udp!Start
    PROVE  UdpInv'
<1> USE DEF UdpInv
<1>1. /\ loop.pc = "start" /\ running' = TRUE
      /\ UNCHANGED <<active, made, conn, armed, exec, panicked>>
      /\ loop' = [loop EXCEPT !.pc = IF ~running THEN "execute" ELSE "serve"]
  BY DEF Udp!Start, Udp!Starts, Udp!LGoto
<1>2. /\ loop' \in [pc : {"receive", "start", "execute", "serve", "dead"},
                    k : 0 .. MaxConns]
      /\ loop'.k = loop.k /\ loop'.pc = IF ~running THEN "execute" ELSE "serve"
  BY <1>1 DEF Udp!TypeOK
<1>3. armed' + (IF exec' = "off" THEN 0 ELSE 1)
             + (IF loop'.pc = "execute" THEN 1 ELSE 0) <= 1
  BY <1>1, <1>2 DEF Stopped, Udp!TypeOK
<1>4. Udp!TypeOK'
  BY <1>1, <1>2, <1>3 DEF Udp!TypeOK
<1>5. Starting' /\ Stopped'
  BY <1>1, <1>2 DEF Starting, Stopped
<1>6. Unmade' /\ InactiveLeaves' /\ Udp!NoStaleEntry'
  BY <1>1 DEF Unmade, InactiveLeaves, Udp!NoStaleEntry
<1> QED
  BY <1>4, <1>5, <1>6

\* clean takes a connection out unless its goroutine has already begun to.
LEMMA CleanKeeps ==
    ASSUME UdpInv, Udp!ConnsAssumption, Udp!clean
    PROVE  /\ active' \in {0, active}
           /\ conn' \in [Udp!Conns -> [pc : {"none", "process", "closed", "set",
                                             "remove", "over"},
                                       done : BOOLEAN, inactive : BOOLEAN]]
           /\ \A k \in Udp!Conns : /\ conn'[k].pc = conn[k].pc
                                   /\ conn[k].pc = "none" => conn'[k] = conn[k]
           /\ active' # 0 /\ conn'[active'].inactive => conn'[active'].pc = "remove"
<1> USE DEF UdpInv
<1>1. CASE UNCHANGED <<conn, active>>
  BY <1>1 DEF Udp!TypeOK, InactiveLeaves
<1>2. CASE Udp!MayBeIdle(active) /\ Udp!Cleaned(active)
  <2>1. active \in Udp!Conns /\ conn[active].pc # "none"
    BY <1>2, UdpTyped DEF Udp!clean, Udp!MayBeIdle
  <2>2. /\ conn' = [conn EXCEPT ![active].inactive = TRUE, ![active].done = TRUE]
        /\ active' = IF conn[active].inactive THEN active ELSE 0
    BY <1>2 DEF Udp!Cleaned
  <2>3. /\ conn' \in [Udp!Conns -> [pc : {"none", "process", "closed", "set",
                                          "remove", "over"},
                                    done : BOOLEAN, inactive : BOOLEAN]]
        /\ conn'[active].pc = conn[active].pc
        /\ \A k \in Udp!Conns \ {active} : conn'[k] = conn[k]
    BY <2>1, <2>2 DEF Udp!TypeOK
  <2> QED
    BY <2>1, <2>2, <2>3 DEF InactiveLeaves
<1> QED
  BY <1>1, <1>2 DEF Udp!clean

\* What clean leaves true of the connections.
LEMMA CleanFacts ==
    ASSUME UdpInv, Udp!ConnsAssumption, Udp!clean, made' = made
    PROVE  Unmade' /\ InactiveLeaves' /\ Udp!NoStaleEntry' /\ active' \in 0 .. made'
<1> USE DEF UdpInv
<1>1. active' \in 0 .. made'
  BY CleanKeeps, UdpTyped
<1>2. Unmade'
  BY CleanKeeps DEF Unmade
<1>3. InactiveLeaves' /\ Udp!NoStaleEntry'
  BY CleanKeeps, UdpTyped DEF InactiveLeaves, Udp!NoStaleEntry
<1> QED
  BY <1>1, <1>2, <1>3

\* The execution inside Start, which panics when there is nothing to clean.
LEMMA StartExecuteKeeps ==
    ASSUME UdpInv, Udp!ConnsAssumption, Udp!StartExecute
    PROVE  UdpInv'
<1> USE DEF UdpInv
<1>1. loop.pc = "execute" /\ UNCHANGED <<made, exec>>
  BY DEF Udp!StartExecute
<1>2. armed = 0 /\ exec = "off" /\ running \in BOOLEAN /\ panicked \in BOOLEAN
  BY <1>1 DEF Udp!TypeOK
<1>3. CASE Udp!clean /\ armed' = armed + 1 /\ Udp!LGoto("serve")
           /\ UNCHANGED <<running, panicked>>
  <2>1. /\ loop' \in [pc : {"receive", "start", "execute", "serve", "dead"},
                      k : 0 .. MaxConns]
        /\ loop'.k = loop.k /\ loop'.pc = "serve"
    BY <1>3 DEF Udp!TypeOK, Udp!LGoto
  <2>2. Udp!TypeOK'
    BY <1>1, <1>2, <1>3, <2>1, CleanKeeps, CleanFacts DEF Udp!TypeOK
  <2>3. Starting'
    <3>1. loop.k \in Udp!Conns /\ loop.k \in 1 .. made
      BY <1>1, UdpTyped DEF Starting, Udp!Conns
    <3> QED
      BY <1>1, <1>3, <2>1, <3>1, CleanKeeps DEF Starting
  <2>4. Stopped'
    BY <1>1, <1>2, <1>3, <2>1 DEF Stopped
  <2> QED
    BY <1>1, <1>3, <2>2, <2>3, <2>4, CleanFacts
<1>4. CASE /\ running' = FALSE /\ panicked' = TRUE /\ Udp!LGoto("dead")
           /\ UNCHANGED <<active, conn, armed>>
  <2>1. /\ loop' \in [pc : {"receive", "start", "execute", "serve", "dead"},
                      k : 0 .. MaxConns]
        /\ loop'.pc = "dead"
    BY <1>4 DEF Udp!TypeOK, Udp!LGoto
  <2>2. Udp!TypeOK'
    <3>1. armed' + (IF exec' = "off" THEN 0 ELSE 1)
                 + (IF loop'.pc = "execute" THEN 1 ELSE 0) <= 1
      BY <1>1, <1>2, <1>4, <2>1
    <3>2. running' \in BOOLEAN /\ panicked' \in BOOLEAN
      BY <1>4
    <3> QED
      BY <1>1, <1>4, <2>1, <3>1, <3>2 DEF Udp!TypeOK
  <2>3. Starting' /\ Stopped' /\ Unmade' /\ InactiveLeaves' /\ Udp!NoStaleEntry'
    BY <1>1, <1>2, <1>4, <2>1 DEF Starting, Stopped, Unmade, InactiveLeaves,
                                  Udp!NoStaleEntry
  <2> QED
    BY <2>2, <2>3
<1> QED
  BY <1>3, <1>4 DEF Udp!StartExecute

\* Serve starts the goroutine of a connection that had none.
LEMMA ServeKeeps ==
    ASSUME UdpInv, Udp!ConnsAssumption, Udp!Serve
    PROVE  UdpInv'
<1> USE DEF UdpInv
<1>1. /\ loop.pc = "serve" /\ conn' = [conn EXCEPT ![loop.k].pc = "process"]
      /\ loop' = [loop EXCEPT !.pc = "receive"]
      /\ UNCHANGED <<active, made, running, armed, exec, panicked>>
  BY DEF Udp!Serve, Udp!LGoto
<1>2. loop.k \in Udp!Conns /\ loop.k \in 1 .. made /\ conn[loop.k].pc = "none"
  BY <1>1, UdpTyped DEF Starting, Udp!Conns
<1>3. /\ conn' \in [Udp!Conns -> [pc : {"none", "process", "closed", "set",
                                        "remove", "over"},
                                  done : BOOLEAN, inactive : BOOLEAN]]
      /\ conn'[loop.k].pc = "process"
      /\ conn'[loop.k].inactive = conn[loop.k].inactive
      /\ \A k \in Udp!Conns \ {loop.k} : conn'[k] = conn[k]
  BY <1>1, <1>2 DEF Udp!TypeOK
<1>4. /\ loop' \in [pc : {"receive", "start", "execute", "serve", "dead"},
                    k : 0 .. MaxConns]
      /\ loop'.pc = "receive"
  BY <1>1 DEF Udp!TypeOK
<1>5. Udp!TypeOK'
  BY <1>1, <1>3, <1>4 DEF Udp!TypeOK
<1>6. ~conn[loop.k].inactive
  BY <1>2 DEF Starting
<1>7. Unmade'
  <2>1. \A k \in Udp!Conns : k > made => k # loop.k
    BY <1>2, UdpTyped DEF Udp!Conns
  <2> QED
    BY <1>1, <1>3, <2>1 DEF Unmade
<1>8. Starting' /\ Stopped'
  BY <1>1, <1>3, <1>4 DEF Starting, Stopped
<1>9. InactiveLeaves' /\ Udp!NoStaleEntry'
  BY <1>1, <1>3, <1>6, UdpTyped DEF InactiveLeaves, Udp!NoStaleEntry
<1> QED
  BY <1>5, <1>7, <1>8, <1>9

\* The timer's goroutine: it hands the chain on, or ends it with the flag.
LEMMA TickKeeps ==
    ASSUME UdpInv, Udp!ConnsAssumption, Udp!Tick \/ Udp!TickExecute \/ Udp!TickEnds
    PROVE  UdpInv'
<1> USE DEF UdpInv
<1>1. CASE Udp!Tick
  <2>1. Udp!TypeOK'
    BY <1>1 DEF Udp!Tick, Udp!TypeOK
  <2> QED
    BY <1>1, <2>1 DEF Udp!Tick, Unmade, Starting, InactiveLeaves, Stopped,
                      Udp!NoStaleEntry
<1>2. CASE Udp!TickExecute
  <2>1. exec = "execute" /\ UNCHANGED <<made, loop, running, armed, panicked>>
    BY <1>2 DEF Udp!TickExecute
  <2>2. CASE Udp!clean /\ exec' = "arm"
    <3>1. Udp!TypeOK'
      BY <2>1, <2>2, CleanKeeps, CleanFacts DEF Udp!TypeOK
    <3>2. Starting'
      <4>1. loop.pc \in {"start", "execute", "serve"} => loop.k \in Udp!Conns
        BY UdpTyped DEF Starting, Udp!Conns
      <4> QED
        BY <2>1, <2>2, <4>1, CleanKeeps DEF Starting
    <3>3. Stopped'
      BY <2>1 DEF Stopped
    <3> QED
      BY <2>1, <2>2, <3>1, <3>2, <3>3, CleanFacts
  <2>3. CASE exec' = "failed" /\ UNCHANGED <<conn, active>>
    <3>1. Udp!TypeOK'
      BY <2>1, <2>3 DEF Udp!TypeOK
    <3> QED
      BY <2>1, <2>3, <3>1 DEF Unmade, Starting, InactiveLeaves, Stopped,
                              Udp!NoStaleEntry
  <2> QED
    BY <1>2, <2>2, <2>3 DEF Udp!TickExecute
<1>3. CASE Udp!TickEnds
  <2>1. /\ exec \in {"failed", "arm"} /\ exec' = "off"
        /\ UNCHANGED <<active, made, conn, loop, panicked>>
        /\ \/ exec = "failed" /\ running' = FALSE /\ armed' = armed
           \/ running' = running /\ armed' = IF running THEN armed + 1 ELSE armed
    BY <1>3 DEF Udp!TickEnds
  <2>2. running /\ armed = 0 /\ loop.pc # "execute"
    <3>1. running
      BY <2>1, Zenon DEF Stopped
    <3>2. armed \in Nat /\ loop.pc \in {"receive", "start", "execute", "serve", "dead"}
          /\ armed + 1 + (IF loop.pc = "execute" THEN 1 ELSE 0) <= 1
      BY <2>1 DEF Udp!TypeOK
    <3>3. armed = 0 /\ loop.pc # "execute"
      BY <3>2
    <3> QED
      BY <3>1, <3>3
  <2>3. running' \in BOOLEAN /\ armed' \in {0, 1}
    <3>1. running' \in BOOLEAN
      BY <2>1, Zenon DEF Udp!TypeOK
    <3>2. armed' = armed \/ armed' = armed + 1
      BY <2>1, Zenon
    <3>3. armed = 0
      BY <2>2, Zenon
    <3>4. armed' \in {0, 1}
      BY <3>2, <3>3
    <3> QED
      BY <3>1, <3>4
  <2>4. Udp!TypeOK'
    <3>1. armed' \in Nat /\ armed' + (IF exec' = "off" THEN 0 ELSE 1)
                 + (IF loop'.pc = "execute" THEN 1 ELSE 0) <= 1
      <4>0. loop' = loop
        BY <1>3 DEF Udp!TickEnds
      <4>1. armed' \in {0, 1} /\ exec' = "off" /\ loop'.pc # "execute"
        <5>1. armed' \in {0, 1}
          BY <2>3, Zenon
        <5>2. exec' = "off"
          BY <1>3 DEF Udp!TickEnds
        <5>3. loop.pc # "execute"
          BY <2>2, Zenon
        <5> QED
          BY <5>1, <5>2, <5>3, <4>0
      <4>2. armed' = 0 \/ armed' = 1
        BY <4>1
      <4>3. (IF exec' = "off" THEN 0 ELSE 1) = 0
            /\ (IF loop'.pc = "execute" THEN 1 ELSE 0) = 0
        BY <4>1
      <4> QED
        BY <4>2, <4>3
    <3> QED
      BY <2>1, <2>3, <3>1 DEF Udp!TypeOK
  <2>5. Stopped'
    BY <2>1, <2>2 DEF Stopped
  <2> QED
    BY <1>3, <2>4, <2>5 DEF Udp!TickEnds, Unmade, Starting, InactiveLeaves,
                      Udp!NoStaleEntry
<1> QED
  BY <1>1, <1>2, <1>3

\* The goroutine of a connection: only one that the cleaner has taken out ends
\* without taking itself out.
LEMMA GoroutineKeeps ==
    ASSUME UdpInv, Udp!ConnsAssumption, NEW k \in Udp!Conns,
           \/ Udp!ProcessEnds(k) \/ Udp!CheckInactive(k)
           \/ Udp!setInactive(k) \/ Udp!removeConn(k)
    PROVE  UdpInv'
<1> USE DEF UdpInv
<1>1. UNCHANGED <<made, loop, running, armed, exec, panicked>>
  BY DEF Udp!ProcessEnds, Udp!CheckInactive, Udp!setInactive, Udp!removeConn
<1>2. /\ conn' \in [Udp!Conns -> [pc : {"none", "process", "closed", "set",
                                        "remove", "over"},
                                  done : BOOLEAN, inactive : BOOLEAN]]
      /\ conn[k].pc # "none" /\ conn'[k].pc # "none"
      /\ \A j \in Udp!Conns \ {k} : conn'[j] = conn[j]
  BY DEF Udp!ProcessEnds, Udp!CheckInactive, Udp!setInactive, Udp!removeConn,
         Udp!TypeOK
<1>3. active' \in {0, active}
  BY DEF Udp!ProcessEnds, Udp!CheckInactive, Udp!setInactive, Udp!removeConn
<1>4. Udp!TypeOK' /\ Stopped'
  BY <1>1, <1>2, <1>3, UdpTyped DEF Udp!TypeOK, Stopped
<1>5. Unmade'
  BY <1>1, <1>2 DEF Unmade
<1>6. Starting'
  <2>1. loop.pc \in {"start", "execute", "serve"} => loop.k \in Udp!Conns
    BY UdpTyped DEF Starting, Udp!Conns
  <2> QED
    BY <1>1, <1>2, <2>1 DEF Starting
<1>7. InactiveLeaves' /\ Udp!NoStaleEntry'
  <2>1. active # k => InactiveLeaves' /\ Udp!NoStaleEntry'
    BY <1>2, <1>3, UdpTyped DEF InactiveLeaves, Udp!NoStaleEntry
  <2>2. active = k => InactiveLeaves' /\ Udp!NoStaleEntry'
    BY UdpTyped DEF Udp!ProcessEnds, Udp!CheckInactive, Udp!Removes,
       Udp!setInactive, Udp!removeConn, Udp!TypeOK, InactiveLeaves, Udp!NoStaleEntry
  <2> QED
    BY <2>1, <2>2
<1> QED
  BY <1>4, <1>5, <1>6, <1>7

\* The map never holds a connection that nobody will take out, for any number
\* of connections: the goroutine and the cleaner, which settle by a flag that
\* one side reads and sets without the lock, never both leave it.
THEOREM UdpNoStaleEntry ==
    ASSUME Udp!ConnsAssumption
    PROVE  Udp!Spec => [](Udp!TypeOK /\ Udp!NoStaleEntry /\ NoStaleEntry)
<1>1. Udp!Init => UdpInv
  <2> SUFFICES ASSUME Udp!Init PROVE UdpInv
    OBVIOUS
  <2>1. /\ active = 0 /\ made = 0 /\ armed = 0 /\ exec = "off"
        /\ loop.pc = "receive" /\ loop.k = 0
        /\ \A k \in Udp!Conns :
              conn[k] = [pc |-> "none", done |-> FALSE, inactive |-> FALSE]
    BY DEF Udp!Init
  <2>2. Udp!TypeOK
    <3>1. conn \in [Udp!Conns -> [pc : {"none", "process", "closed", "set",
                                        "remove", "over"},
                                  done : BOOLEAN, inactive : BOOLEAN]]
      BY DEF Udp!Init
    <3>2. loop \in [pc : {"receive", "start", "execute", "serve", "dead"},
                    k : 0 .. MaxConns]
      BY DEF Udp!Init, Udp!ConnsAssumption
    <3>3. running \in BOOLEAN /\ panicked \in BOOLEAN
      BY DEF Udp!Init
    <3>4. active \in 0 .. made /\ made \in 0 .. MaxConns /\ armed \in Nat
          /\ armed + (IF exec = "off" THEN 0 ELSE 1)
                   + (IF loop.pc = "execute" THEN 1 ELSE 0) <= 1
      BY <2>1 DEF Udp!ConnsAssumption
    <3> QED
      BY <2>1, <3>1, <3>2, <3>3, <3>4 DEF Udp!TypeOK
  <2>3. Unmade /\ Starting /\ InactiveLeaves /\ Stopped /\ Udp!NoStaleEntry
    BY <2>1 DEF Unmade, Starting, InactiveLeaves, Stopped, Udp!NoStaleEntry
  <2> QED
    BY <2>2, <2>3 DEF UdpInv
<1>2. UdpInv /\ [Udp!Next]_(Udp!vars) => UdpInv'
  <2> SUFFICES ASSUME UdpInv, [Udp!Next]_(Udp!vars) PROVE UdpInv'
    OBVIOUS
  <2>1. CASE UNCHANGED Udp!vars
    BY <2>1 DEF Udp!vars, UdpInv, Udp!TypeOK, Unmade, Starting, InactiveLeaves,
                Stopped, Udp!NoStaleEntry
  <2> QED
    BY <2>1, getConnectionKeeps, StartKeeps, StartExecuteKeeps, ServeKeeps,
       TickKeeps, GoroutineKeeps DEF Udp!Next
<1>3. UdpInv => Udp!TypeOK /\ Udp!NoStaleEntry /\ NoStaleEntry
  BY DEF UdpInv, NoStaleEntry
<1> QED
  BY <1>1, <1>2, <1>3, PTL DEF Udp!Spec

-----------------------------------------------------------------------------
(* Kcp, instantiated as Kcp; its usr is closing here *)

KcpTargets == Kcp!States \cup {Kcp!Stay}
KcpChecks == {"loop", "close", "empty", "terminating", "peer", "ready"}
KcpFlushPcs == {"off", "run", "leave", "send"} \cup KcpChecks
KcpMessages ==
    [kind : {"data"}, to : Ends, number : Nat, sendingNext : Nat, close : BOOLEAN]
    \cup [kind : {"ack"}, to : Ends, numbers : SUBSET Nat, receivingNext : Nat,
          window : Nat, close : BOOLEAN]
    \cup [kind : {"ping", "terminate"}, to : Ends, receivingNext : Nat,
          sendingNext : Nat, close : BOOLEAN]
KcpSenders == [win : SUBSET Nat, una : Nat, next : Nat, remote : Nat,
               closed : BOOLEAN, dying : BOOLEAN]
KcpReceivers == [win : SUBSET Nat, next : Nat, acks : SUBSET Nat]
KcpUpdaters == [pc : KcpFlushPcs, from : KcpTargets, to : KcpTargets]
KcpClosings == [pc : {"off", "set"}, from : KcpTargets, to : KcpTargets]
KcpInputs == {Kcp!Idle} \cup [pc : {"option", "command", "process"},
                              from : KcpTargets, to : KcpTargets, seg : KcpMessages]

KcpTypes ==
    /\ st \in [Ends -> Kcp!States]
    /\ snd \in [Ends -> KcpSenders] /\ rcv \in [Ends -> KcpReceivers]
    /\ upd \in [Ends -> [Updaters -> KcpUpdaters]]
    /\ closing \in [Ends -> KcpClosings] /\ inp \in [Ends -> KcpInputs]
    /\ net \subseteq KcpMessages
    /\ writing \subseteq Ends /\ cleared \subseteq Ends /\ race \subseteq Ends

\* What a packet says about its sender was true when it was sent, and stays so.
KcpTruthful(m) ==
    /\ m.kind = "data" => m.number < snd[Kcp!peer(m.to)].next
    /\ m.kind # "ack" => m.sendingNext <= snd[Kcp!peer(m.to)].una
    /\ m.kind # "data" => m.receivingNext <= rcv[Kcp!peer(m.to)].next
    /\ m.kind = "ack" => \A n \in m.numbers : Kcp!Held(Kcp!peer(m.to), n)

KcpPackets ==
    /\ \A m \in net : KcpTruthful(m)
    /\ \A e \in Ends : inp[e].pc # "off" =>
          inp[e].seg.to = e /\ KcpTruthful(inp[e].seg)

\* The numbers of an end, and those of its peer that bound them.
KcpNumbered ==
    \A e \in Ends :
        /\ snd[e].una <= snd[e].next /\ snd[e].next <= Writes[e]
        /\ e \in writing => snd[e].next < Writes[e]
        /\ \A n \in snd[e].win : snd[e].una <= n /\ n < snd[e].next
        /\ Cardinality(snd[e].win) <= SendBuffer + 1
        /\ rcv[e].next <= snd[Kcp!peer(e)].next
        /\ \A n \in rcv[e].win : /\ rcv[e].next <= n /\ n < snd[Kcp!peer(e)].next
                                 /\ n < rcv[e].next + RecvWindow
        /\ \A n \in rcv[e].acks : Kcp!Held(e, n)

\* What the receiver holds and the sender may still repeat is to be acknowledged.
KcpListed ==
    \A e \in Ends : \A n \in Nat :
        snd[e].una <= n /\ Kcp!Held(Kcp!peer(e), n) => n \in rcv[Kcp!peer(e)].acks

KcpNumbers == KcpPackets /\ KcpNumbered /\ KcpListed /\ Kcp!AckedIsHeld

\* The ping updater stops only when the connection has ended, or when a
\* transition was made from a state it was not decided in.
KcpEnded(e) == st[e] = "Terminated" \/ e \in race
KcpTurn(e, u) ==
    /\ u = "ping" => /\ upd[e][u].pc # "run"
                     /\ upd[e][u].pc \in {"off", "leave"} => KcpEnded(e)
    /\ upd[e][u].to # Kcp!Stay => /\ upd[e][u].from # "Terminated"
                                  /\ upd[e][u].pc \in KcpChecks
KcpTurns == \A e \in Ends : \A u \in Updaters : KcpTurn(e, u)

\* Nobody decides to leave the end, so the end stays, or a race is recorded.
KcpDecided ==
    \A e \in Ends : /\ closing[e].pc = "set" => /\ closing[e].from # "Terminated"
                                                /\ closing[e].to # Kcp!Stay
                    /\ inp[e].to # Kcp!Stay => inp[e].from # "Terminated"

KcpInv == KcpTypes /\ KcpNumbers /\ KcpTurns /\ KcpDecided

-----------------------------------------------------------------------------
LEMMA KcpCounts == /\ \A S : Kcp!Cardinality(S) = Cardinality(S)
                   /\ \A S : Kcp!IsFiniteSet(S) <=> IsFiniteSet(S)
<1>1. \A S : Kcp!Cardinality(S) = Cardinality(S)
  BY DEF Kcp!Cardinality, Cardinality
<1>2. \A S : Kcp!IsFiniteSet(S) <=> IsFiniteSet(S)
  BY DEF Kcp!IsFiniteSet, IsFiniteSet
<1> QED
  BY <1>1, <1>2

\* There are two ends, each the other's peer.
LEMMA KcpPeers ==
    ASSUME Kcp!KcpAssumption
    PROVE  \A e \in Ends : /\ Kcp!peer(e) \in Ends /\ Kcp!peer(e) # e
                           /\ Kcp!peer(Kcp!peer(e)) = e
                           /\ \A p \in Ends : p = e \/ p = Kcp!peer(e)
<1>1. IsFiniteSet(Ends) /\ Cardinality(Ends) = 2
  BY KcpCounts DEF Kcp!KcpAssumption
<1>2. ExistsBijection(1 .. 2, Ends)
  BY <1>1, FS_CardinalityType
<1>3. PICK f \in [1 .. 2 -> Ends] : /\ \A i, j \in 1 .. 2 : i # j => f[i] # f[j]
                                    /\ \A p \in Ends : \E i \in 1 .. 2 : f[i] = p
  BY <1>2 DEF ExistsBijection, Bijection, Injection, Surjection, IsInjective
<1>4. f[1] \in Ends /\ f[2] \in Ends /\ f[1] # f[2] /\ \A p \in Ends : p = f[1] \/ p = f[2]
  BY <1>3
<1>5. \A e \in Ends : Kcp!peer(e) \in Ends /\ Kcp!peer(e) # e
  BY <1>4 DEF Kcp!peer
<1> QED
  BY <1>4, <1>5

\* Numbers have a least one.
LEMMA KcpLeast ==
    ASSUME NEW I \in SUBSET Nat, I # {}
    PROVE  \E i \in I : \A j \in I : i <= j
<1>1. IsWellFoundedOn(OpToRel(<, Nat), Nat)
  BY NatLessThanWellFounded, Zenon
<1>2. PICK i \in I : \A j \in I : ~(<<j, i>> \in OpToRel(<, Nat))
  BY <1>1, WFMin, Zenon
<1>3. \A j \in I : ~(j < i)
  BY <1>2, Zenon DEF OpToRel
<1> QED
  BY <1>3

-----------------------------------------------------------------------------
\* What a step may do to the numbers: they grow.
KcpGrows ==
    \A e \in Ends : /\ snd[e].next <= snd'[e].next /\ snd[e].una <= snd'[e].una
                    /\ rcv[e].next <= rcv'[e].next
                    /\ \A n \in Nat : Kcp!Held(e, n) => Kcp!Held(e, n)'

\* Packets under way, and those that Input works on, are old or truthful.
KcpSamePackets ==
    /\ \A m \in net' : m \in net \/ KcpTruthful(m)'
    /\ \A e \in Ends : inp'[e].pc # "off" =>
          /\ inp'[e].seg.to = e
          /\ inp'[e].seg \in net \/ (inp[e].pc # "off" /\ inp'[e].seg = inp[e].seg)

LEMMA KcpTruthStays ==
    ASSUME Kcp!KcpAssumption, KcpTypes, KcpTypes', KcpPackets, KcpGrows, KcpSamePackets
    PROVE  KcpPackets'
<1>1. ASSUME NEW m \in KcpMessages, KcpTruthful(m)
      PROVE  KcpTruthful(m)'
  <2>1. PICK s \in Ends : s = Kcp!peer(m.to)
    BY KcpPeers DEF KcpMessages
  <2>2. /\ snd[s].next \in Nat /\ snd'[s].next \in Nat /\ snd[s].una \in Nat
        /\ snd'[s].una \in Nat /\ rcv[s].next \in Nat /\ rcv'[s].next \in Nat
    BY DEF KcpTypes, KcpSenders, KcpReceivers
  <2>3. /\ snd[s].next <= snd'[s].next /\ snd[s].una <= snd'[s].una
        /\ rcv[s].next <= rcv'[s].next
        /\ \A n \in Nat : Kcp!Held(s, n) => Kcp!Held(s, n)'
    BY DEF KcpGrows
  <2>4. /\ m.kind = "data" => m.number \in Nat
        /\ m.kind # "ack" => m.sendingNext \in Nat
        /\ m.kind # "data" => m.receivingNext \in Nat
        /\ m.kind = "ack" => m.numbers \subseteq Nat
    BY DEF KcpMessages
  <2> QED
    BY <1>1, <2>1, <2>2, <2>3, <2>4 DEF KcpTruthful
<1>2. ASSUME NEW m \in net
      PROVE  KcpTruthful(m)'
  BY <1>1 DEF KcpTypes, KcpPackets
<1>3. ASSUME NEW e \in Ends, inp[e].pc # "off"
      PROVE  \E m \in KcpMessages : m = inp[e].seg /\ KcpTruthful(m)'
  <2>1. PICK m \in KcpMessages : m = inp[e].seg
    BY <1>3 DEF KcpTypes, KcpInputs, Kcp!Idle
  <2>2. KcpTruthful(m)
    BY <1>3, <2>1 DEF KcpPackets
  <2> QED
    BY <1>1, <2>1, <2>2
<1>4. ASSUME NEW e \in Ends, inp'[e].pc # "off"
      PROVE  inp'[e].seg.to = e /\ KcpTruthful(inp[e].seg)'
  <2>1. inp'[e].seg.to = e
    BY <1>4 DEF KcpSamePackets
  <2>2. PICK m : m = inp'[e].seg /\ KcpTruthful(m)'
    BY <1>2, <1>3, <1>4 DEF KcpSamePackets
  <2> QED
    BY <2>1, <2>2 DEF KcpTruthful
<1>5. \A m \in net' : KcpTruthful(m)'
  BY <1>2 DEF KcpSamePackets
<1> QED
  BY <1>4, <1>5 DEF KcpPackets

\* What a step may do to a sender and to a receiver.
KcpSends(e) ==
    /\ snd[e].next <= snd'[e].next /\ snd'[e].next <= Writes[e]
    /\ snd[e].una <= snd'[e].una /\ snd'[e].una <= snd'[e].next
    /\ e \in writing' => snd'[e].next < Writes[e]
    /\ \A n \in snd'[e].win : snd'[e].una <= n /\ n < snd'[e].next
    /\ Cardinality(snd'[e].win) <= SendBuffer + 1
    /\ e \in cleared => e \in cleared'
    /\ e \notin cleared' =>
          \A n \in Nat : n < snd'[e].next =>
             \/ n \in snd'[e].win
             \/ n < snd[e].next /\ n \notin snd[e].win
             \/ Kcp!Held(Kcp!peer(e), n)

KcpReceives(e) ==
    /\ rcv[e].next <= rcv'[e].next /\ rcv'[e].next <= snd[Kcp!peer(e)].next
    /\ \A n \in Nat : Kcp!Held(e, n) => Kcp!Held(e, n)'
    /\ \A n \in Nat : Kcp!Held(e, n)' => Kcp!Held(e, n) \/ n \in rcv'[e].acks
    /\ \A n \in rcv'[e].win : /\ rcv'[e].next <= n /\ n < snd[Kcp!peer(e)].next
                              /\ n < rcv'[e].next + RecvWindow
    /\ \A n \in rcv'[e].acks : Kcp!Held(e, n)'
    /\ \A n \in rcv[e].acks : n \in rcv'[e].acks \/ n < snd[Kcp!peer(e)].una

\* The numbers of an end are numbers.
LEMMA KcpNats ==
    ASSUME KcpTypes, NEW e \in Ends
    PROVE  /\ snd[e].next \in Nat /\ snd[e].una \in Nat /\ snd[e].win \subseteq Nat
           /\ rcv[e].next \in Nat /\ rcv[e].win \subseteq Nat /\ rcv[e].acks \subseteq Nat
BY DEF KcpTypes, KcpSenders, KcpReceivers

LEMMA KcpNatsThen ==
    ASSUME KcpTypes', NEW e \in Ends
    PROVE  /\ snd'[e].next \in Nat /\ snd'[e].una \in Nat /\ snd'[e].win \subseteq Nat
           /\ rcv'[e].next \in Nat /\ rcv'[e].win \subseteq Nat /\ rcv'[e].acks \subseteq Nat
BY DEF KcpTypes, KcpSenders, KcpReceivers

LEMMA KcpBounds ==
    ASSUME Kcp!KcpAssumption
    PROVE  /\ SendBuffer \in Nat /\ RecvWindow \in Nat /\ RemoteNext0 \in Nat
           /\ \A e \in Ends : Writes[e] \in Nat
BY DEF Kcp!KcpAssumption

LEMMA KcpMovesKeep ==
    ASSUME Kcp!KcpAssumption, KcpTypes, KcpTypes', KcpNumbers, KcpSamePackets,
           \A e \in Ends : KcpSends(e) /\ KcpReceives(e)
    PROVE  KcpNumbers'
<1>1. KcpGrows
  BY DEF KcpGrows, KcpSends, KcpReceives
<1>2. KcpPackets'
  BY <1>1, KcpTruthStays DEF KcpNumbers
<1>3. KcpNumbered'
  <2>1. SUFFICES ASSUME NEW e \in Ends
                 PROVE  /\ rcv'[e].next <= snd'[Kcp!peer(e)].next
                        /\ \A n \in rcv'[e].win : n < snd'[Kcp!peer(e)].next
    BY DEF KcpNumbered, KcpSends, KcpReceives
  <2>2. PICK p \in Ends : p = Kcp!peer(e)
    BY KcpPeers
  <2>3. snd[p].next <= snd'[p].next
    BY DEF KcpSends
  <2>4. /\ snd[p].next \in Nat /\ snd'[p].next \in Nat /\ rcv'[e].next \in Nat
        /\ rcv'[e].win \subseteq Nat
    BY KcpNats, KcpNatsThen
  <2> QED
    BY <2>2, <2>3, <2>4 DEF KcpReceives
<1>4. KcpListed'
  <2>1. SUFFICES ASSUME NEW e \in Ends, NEW n \in Nat, snd'[e].una <= n,
                        Kcp!Held(Kcp!peer(e), n)'
                 PROVE  n \in rcv'[Kcp!peer(e)].acks
    BY DEF KcpListed
  <2>2. PICK p \in Ends : p = Kcp!peer(e) /\ Kcp!peer(p) = e
    BY KcpPeers
  <2>3. snd[e].una \in Nat /\ snd'[e].una \in Nat /\ snd[e].una <= snd'[e].una
    BY KcpNats, KcpNatsThen DEF KcpSends
  <2>4. snd[e].una <= n
    BY <2>1, <2>3
  <2>5. Kcp!Held(p, n)'
    BY <2>1, <2>2
  <2>6. CASE Kcp!Held(p, n)
    <3>1. n \in rcv[p].acks
      BY <2>2, <2>4, <2>6 DEF KcpNumbers, KcpListed
    <3> QED
      BY <2>2, <2>3, <2>4, <3>1 DEF KcpReceives
  <2>7. CASE n \in rcv'[p].acks
    BY <2>2, <2>7
  <2> QED
    BY <2>2, <2>5, <2>6, <2>7 DEF KcpReceives
<1>5. Kcp!AckedIsHeld'
  <2>1. SUFFICES ASSUME NEW e \in Ends, e \notin cleared', NEW n \in 0 .. snd'[e].next - 1,
                        n \notin snd'[e].win
                 PROVE  Kcp!Held(Kcp!peer(e), n)'
    BY DEF Kcp!AckedIsHeld
  <2>2. PICK p \in Ends : p = Kcp!peer(e)
    BY KcpPeers
  <2>3. n \in Nat /\ n < snd'[e].next /\ snd[e].next \in Nat
    BY KcpNats, KcpNatsThen
  <2>4. CASE n < snd[e].next /\ n \notin snd[e].win
    <3>1. e \notin cleared
      BY <2>1 DEF KcpSends
    <3>2. Kcp!Held(p, n)
      BY <2>2, <2>3, <2>4, <3>1 DEF KcpNumbers, Kcp!AckedIsHeld
    <3> QED
      BY <2>2, <2>3, <3>2 DEF KcpReceives
  <2>5. CASE Kcp!Held(p, n)
    BY <2>2, <2>3, <2>5 DEF KcpReceives
  <2> QED
    BY <2>1, <2>2, <2>3, <2>4, <2>5 DEF KcpSends
<1> QED
  BY <1>2, <1>3, <1>4, <1>5 DEF KcpNumbers

\* A receiver that does nothing, and a sender that at most drops its window.
LEMMA KcpReceiverStays ==
    ASSUME Kcp!KcpAssumption, KcpTypes, KcpNumbers, NEW e \in Ends, rcv'[e] = rcv[e]
    PROVE  KcpReceives(e)
<1>1. \A n \in Nat : Kcp!Held(e, n)' <=> Kcp!Held(e, n)
  BY DEF Kcp!Held
<1>2. rcv[e].next \in Nat /\ rcv[e].acks \subseteq Nat
  BY KcpNats
<1> QED
  BY <1>1, <1>2 DEF KcpNumbers, KcpNumbered, KcpReceives

LEMMA KcpSenderQuiet ==
    ASSUME Kcp!KcpAssumption, KcpTypes, KcpNumbers, NEW e \in Ends,
           snd'[e].next = snd[e].next, snd'[e].una = snd[e].una,
           e \in writing' => e \in writing \/ snd[e].next < Writes[e],
           e \in cleared => e \in cleared',
           \/ snd'[e].win = snd[e].win
           \/ snd'[e].win = {} /\ (snd[e].win = {} \/ e \in cleared')
    PROVE  KcpSends(e)
<1>1. snd[e].next \in Nat /\ snd[e].una \in Nat /\ SendBuffer \in Nat
  BY KcpNats, KcpBounds
<1>2. Cardinality({}) = 0
  BY FS_EmptySet
<1>3. CASE snd'[e].win = snd[e].win
  BY <1>1, <1>3 DEF KcpNumbers, KcpNumbered, KcpSends
<1>4. CASE snd'[e].win = {} /\ (snd[e].win = {} \/ e \in cleared')
  BY <1>1, <1>2, <1>4 DEF KcpNumbers, KcpNumbered, KcpSends
<1> QED
  BY <1>3, <1>4

-----------------------------------------------------------------------------
(* The operations on the numbers *)

\* ProcessReceivingNext forgets what is below the number that the peer will
\* read next and what the peer acknowledges, and its first number is the least.
LEMMA KcpForgets ==
    ASSUME NEW w \in KcpSenders, NEW a \in Nat, NEW ns \in SUBSET Nat, w.una <= w.next,
           \A n \in w.win : w.una <= n /\ n < w.next,
           NEW v, v = Kcp!ProcessReceivingNext(w, a, ns)
    PROVE  /\ v \in KcpSenders /\ v.next = w.next /\ v.win \subseteq w.win
           /\ w.una <= v.una /\ v.una <= v.next
           /\ \A n \in v.win : v.una <= n
           /\ \A n \in w.win : n \in v.win \/ n < a \/ n \in ns
<1> DEFINE win == Kcp!Removed(Kcp!Cleared(w, a), ns)
           una == Kcp!FirstUnacknowledged(w, win)
<1>1. /\ w.next \in Nat /\ w.una \in Nat /\ w.win \subseteq Nat
  BY DEF KcpSenders
<1>2. win \subseteq w.win /\ \A n \in w.win : n \in win \/ n < a \/ n \in ns
  BY <1>1 DEF Kcp!Removed, Kcp!Cleared
<1>3. v = [w EXCEPT !.win = win, !.una = una]
  BY DEF Kcp!ProcessReceivingNext
<1>4. una \in Nat /\ w.una <= una /\ una <= w.next /\ \A n \in win : una <= n
  <2>1. CASE win = {}
    BY <1>1, <2>1 DEF Kcp!FirstUnacknowledged
  <2>2. CASE win # {}
    <3>1. win \subseteq Nat
      BY <1>1, <1>2
    <3>2. PICK i \in win : \A j \in win : i <= j
      BY <2>2, <3>1, KcpLeast
    <3>3. una \in win /\ \A j \in win : una <= j
      BY <2>2, <3>2 DEF Kcp!FirstUnacknowledged, Kcp!Min
    <3> QED
      BY <1>1, <1>2, <3>1, <3>3
  <2> QED
    BY <2>1, <2>2
<1> HIDE DEF win, una
<1>5. /\ v.win = win /\ v.una = una /\ v.next = w.next /\ v \in KcpSenders
  BY <1>1, <1>2, <1>3, <1>4 DEF KcpSenders
<1> QED
  BY <1>2, <1>4, <1>5

\* A part of a sending window is no longer than the window.
LEMMA KcpShorter ==
    ASSUME KcpTypes, KcpNumbers, Kcp!KcpAssumption, NEW e \in Ends, NEW win,
           win \subseteq snd[e].win
    PROVE  Cardinality(win) <= SendBuffer + 1 /\ Cardinality(win) \in Nat
<1>1. snd[e].next \in Nat /\ snd[e].win \subseteq Nat
  BY KcpNats
<1>2. snd[e].win \subseteq 0 .. snd[e].next
  BY <1>1 DEF KcpNumbers, KcpNumbered
<1>3. IsFiniteSet(snd[e].win)
  <2>1. PICK k \in Int : k = snd[e].next
    BY <1>1
  <2>2. 0 \in Int /\ k \in Int
    OBVIOUS
  <2>3. IsFiniteSet(0 .. k)
    BY <2>2, FS_Interval
  <2> QED
    BY <1>2, <2>1, <2>3, FS_Subset
<1>4. Cardinality(win) <= Cardinality(snd[e].win) /\ Cardinality(win) \in Nat
      /\ Cardinality(snd[e].win) \in Nat
  BY <1>3, FS_Subset, FS_CardinalityType
<1>5. Cardinality(snd[e].win) <= SendBuffer + 1 /\ SendBuffer \in Nat
  BY KcpBounds DEF KcpNumbers, KcpNumbered
<1> QED
  BY <1>4, <1>5

\* The sender's side of ProcessReceivingNext, for what is true of the peer.
LEMMA KcpSenderForgets ==
    ASSUME Kcp!KcpAssumption, KcpTypes, KcpNumbers, NEW e \in Ends,
           NEW w \in KcpSenders, w.next = snd[e].next, w.una = snd[e].una,
           w.win = snd[e].win, NEW a \in Nat, NEW ns \in SUBSET Nat,
           a <= rcv[Kcp!peer(e)].next, \A n \in ns : Kcp!Held(Kcp!peer(e), n),
           snd'[e] = Kcp!ProcessReceivingNext(w, a, ns),
           writing' = writing, cleared' = cleared
    PROVE  snd'[e] \in KcpSenders /\ KcpSends(e)
<1> DEFINE v == snd'[e]
<1>1. /\ snd[e].next \in Nat /\ snd[e].una \in Nat /\ snd[e].win \subseteq Nat
  BY KcpNats
<1>2. /\ snd[e].una <= snd[e].next /\ snd[e].next <= Writes[e]
      /\ e \in writing => snd[e].next < Writes[e]
      /\ \A n \in snd[e].win : snd[e].una <= n /\ n < snd[e].next
  BY DEF KcpNumbers, KcpNumbered
<1>3. /\ v \in KcpSenders /\ v.next = w.next /\ v.win \subseteq w.win
      /\ w.una <= v.una /\ v.una <= v.next
      /\ \A n \in v.win : v.una <= n
      /\ \A n \in w.win : n \in v.win \/ n < a \/ n \in ns
  BY <1>2, KcpForgets
<1>4. Cardinality(v.win) <= SendBuffer + 1
  BY <1>3, KcpShorter
<1>5. PICK p \in Ends : p = Kcp!peer(e)
  BY KcpPeers
<1>6. \A n \in Nat : n < a => Kcp!Held(p, n)
  BY <1>5, KcpNats DEF Kcp!Held
<1>7. \A n \in snd[e].win : n \in v.win \/ Kcp!Held(p, n)
  BY <1>1, <1>3, <1>5, <1>6
<1>8. \A n \in Nat : n < v.next =>
         \/ n \in v.win
         \/ n < snd[e].next /\ n \notin snd[e].win
         \/ Kcp!Held(p, n)
  <2>1. v.next = snd[e].next
    BY <1>3
  <2> QED
    BY <1>7, <2>1
<1> QED
  BY <1>1, <1>2, <1>3, <1>4, <1>5, <1>8 DEF KcpSends

\* Push adds the next number, within what the end writes and the buffer holds.
LEMMA KcpSenderPushes ==
    ASSUME Kcp!KcpAssumption, KcpTypes, KcpNumbers, NEW e \in Ends, e \in writing,
           Cardinality(snd[e].win) <= SendBuffer,
           snd'[e].win = snd[e].win \cup {snd[e].next},
           snd'[e].next = snd[e].next + 1, snd'[e].una = snd[e].una,
           e \notin writing', cleared' = cleared
    PROVE  KcpSends(e)
<1>1. /\ snd[e].next \in Nat /\ snd[e].una \in Nat /\ snd[e].win \subseteq Nat
  BY KcpNats
<1>2. /\ snd[e].una <= snd[e].next /\ snd[e].next < Writes[e] /\ Writes[e] \in Nat
      /\ \A n \in snd[e].win : snd[e].una <= n /\ n < snd[e].next
  BY KcpBounds DEF KcpNumbers, KcpNumbered
<1>3. IsFiniteSet(snd[e].win)
  <2>1. PICK k \in Int : k = snd[e].next
    BY <1>1
  <2>2. 0 \in Int /\ k \in Int
    OBVIOUS
  <2>3. IsFiniteSet(0 .. k)
    BY <2>2, FS_Interval
  <2>4. snd[e].win \subseteq 0 .. k
    BY <1>1, <1>2, <2>1
  <2> QED
    BY <2>3, <2>4, FS_Subset
<1>4. Cardinality(snd'[e].win) <= SendBuffer + 1
  <2>1. snd[e].next \notin snd[e].win
    BY <1>1, <1>2
  <2>2. Cardinality(snd'[e].win) = Cardinality(snd[e].win) + 1
    <3>1. PICK w, n : w = snd[e].win /\ n = snd[e].next
      OBVIOUS
    <3>2. Cardinality(w \cup {n}) = Cardinality(w) + 1
      BY <1>3, <2>1, <3>1, FS_AddElement
    <3> QED
      BY <3>1, <3>2
  <2>3. Cardinality(snd[e].win) \in Nat /\ SendBuffer \in Nat
    BY <1>3, FS_CardinalityType, KcpBounds
  <2> QED
    BY <2>2, <2>3
<1>5. \A n \in Nat : n < snd'[e].next =>
         n \in snd'[e].win \/ (n < snd[e].next /\ n \notin snd[e].win)
  BY <1>1
<1>6. \A n \in snd'[e].win : snd'[e].una <= n /\ n < snd'[e].next
  BY <1>1, <1>2
<1> QED
  BY <1>1, <1>2, <1>4, <1>5, <1>6 DEF KcpSends

\* ReadMultiBuffer takes what is in order, up to a number that it lacks.
LEMMA KcpReady ==
    ASSUME Kcp!KcpAssumption, KcpTypes, KcpNumbers, NEW e \in Ends,
           rcv[e].next \in rcv[e].win
    PROVE  /\ Kcp!ReadyTo(e) \in Nat /\ rcv[e].next < Kcp!ReadyTo(e)
           /\ \A n \in Nat : rcv[e].next <= n /\ n < Kcp!ReadyTo(e) => n \in rcv[e].win
<1> DEFINE Lacking == {m \in Nat : rcv[e].next <= m /\ m \notin rcv[e].win}
<1>1. /\ rcv[e].next \in Nat /\ rcv[e].win \subseteq Nat /\ RecvWindow \in Nat
  BY KcpNats, KcpBounds
<1>2. rcv[e].next + RecvWindow \in Lacking
  BY <1>1 DEF KcpNumbers, KcpNumbered
<1>3. PICK m \in Lacking : \A j \in Lacking : m <= j
  <2>1. Lacking \in SUBSET Nat /\ Lacking # {}
    BY <1>2
  <2> HIDE DEF Lacking
  <2> QED
    BY <2>1, KcpLeast
<1>4. /\ m \in rcv[e].next .. rcv[e].next + RecvWindow
      /\ (rcv[e].next .. m - 1) \subseteq rcv[e].win
      /\ m \notin rcv[e].win
  BY <1>1, <1>2, <1>3
<1>5. /\ Kcp!ReadyTo(e) \in rcv[e].next .. rcv[e].next + RecvWindow
      /\ (rcv[e].next .. Kcp!ReadyTo(e) - 1) \subseteq rcv[e].win
      /\ Kcp!ReadyTo(e) \notin rcv[e].win
  BY <1>4 DEF Kcp!ReadyTo
<1> HIDE DEF Lacking
<1> QED
  BY <1>1, <1>5

LEMMA KcpReceiverReads ==
    ASSUME Kcp!KcpAssumption, KcpTypes, KcpNumbers, NEW e \in Ends,
           rcv[e].next \in rcv[e].win,
           rcv'[e].win = rcv[e].win \ (rcv[e].next .. Kcp!ReadyTo(e) - 1),
           rcv'[e].next = Kcp!ReadyTo(e), rcv'[e].acks = rcv[e].acks
    PROVE  KcpReceives(e)
<1> DEFINE r == Kcp!ReadyTo(e)
<1>1. /\ rcv[e].next \in Nat /\ rcv[e].win \subseteq Nat /\ rcv[e].acks \subseteq Nat
      /\ RecvWindow \in Nat
  BY KcpNats, KcpBounds
<1>2. /\ r \in Nat /\ rcv[e].next < r
      /\ \A n \in Nat : rcv[e].next <= n /\ n < r => n \in rcv[e].win
  BY KcpReady
<1>3. PICK p \in Ends : p = Kcp!peer(e)
  BY KcpPeers
<1>4. snd[p].next \in Nat
  BY KcpNats
<1>5. /\ \A n \in rcv[e].win : /\ rcv[e].next <= n /\ n < snd[p].next
                               /\ n < rcv[e].next + RecvWindow
      /\ \A n \in rcv[e].acks : Kcp!Held(e, n)
  BY <1>3 DEF KcpNumbers, KcpNumbered
<1>6. rcv'[e].next = r /\ rcv'[e].win = rcv[e].win \ (rcv[e].next .. r - 1)
  OBVIOUS
<1> HIDE DEF r
<1>7. \A n \in Nat : Kcp!Held(e, n) <=> Kcp!Held(e, n)'
  BY <1>1, <1>2, <1>6 DEF Kcp!Held
<1>8. r <= snd[p].next
  <2>1. r - 1 \in rcv[e].win
    BY <1>1, <1>2
  <2> QED
    BY <1>2, <1>4, <1>5, <2>1
<1>9. \A n \in rcv'[e].win : r <= n /\ n < snd[p].next /\ n < r + RecvWindow
  BY <1>1, <1>2, <1>5, <1>6
<1> QED
  BY <1>1, <1>2, <1>3, <1>5, <1>6, <1>7, <1>8, <1>9 DEF KcpReceives

\* A segment within the window is kept and listed; below what the sender has
\* acknowledged, the list is shortened.
LEMMA KcpReceiverListens ==
    ASSUME Kcp!KcpAssumption, KcpTypes, KcpNumbers, NEW e \in Ends, NEW m,
           m.number \in rcv[e].next .. rcv[e].next + RecvWindow - 1,
           m.number < snd[Kcp!peer(e)].next, m.sendingNext \in Nat,
           m.sendingNext <= snd[Kcp!peer(e)].una,
           rcv'[e].acks = Kcp!Acked(rcv[e].acks, m.sendingNext, m),
           rcv'[e].win = rcv[e].win \cup {m.number}, rcv'[e].next = rcv[e].next
    PROVE  KcpReceives(e)
<1> DEFINE k == m.number
<1>1. /\ rcv[e].next \in Nat /\ rcv[e].win \subseteq Nat /\ rcv[e].acks \subseteq Nat
      /\ RecvWindow \in Nat
  BY KcpNats, KcpBounds
<1>2. PICK p \in Ends : p = Kcp!peer(e)
  BY KcpPeers
<1>3. snd[p].next \in Nat /\ snd[p].una \in Nat
  BY KcpNats
<1>4. /\ rcv[e].next <= snd[p].next
      /\ \A n \in rcv[e].win : /\ rcv[e].next <= n /\ n < snd[p].next
                               /\ n < rcv[e].next + RecvWindow
      /\ \A n \in rcv[e].acks : Kcp!Held(e, n)
  BY <1>2 DEF KcpNumbers, KcpNumbered
<1>5. k \in Nat /\ rcv[e].next <= k /\ k < rcv[e].next + RecvWindow /\ k < snd[p].next
  BY <1>1, <1>2
<1>6. /\ \A n \in Nat : Kcp!Held(e, n) => Kcp!Held(e, n)'
      /\ \A n \in Nat : Kcp!Held(e, n)' => Kcp!Held(e, n) \/ n = k
      /\ Kcp!Held(e, k)'
  BY <1>1, <1>5 DEF Kcp!Held
<1>7. /\ \A n \in rcv'[e].acks : n \in rcv[e].acks \/ n = k
      /\ k \in rcv'[e].acks
      /\ \A n \in rcv[e].acks : n \in rcv'[e].acks \/ n < m.sendingNext
  BY <1>1 DEF Kcp!Acked
<1>8. \A n \in rcv[e].acks : n \in rcv'[e].acks \/ n < snd[p].una
  BY <1>1, <1>2, <1>3, <1>7
<1>9. \A n \in rcv'[e].win : /\ rcv[e].next <= n /\ n < snd[p].next
                             /\ n < rcv[e].next + RecvWindow
  BY <1>4, <1>5
<1>10. \A n \in rcv'[e].acks : Kcp!Held(e, n)'
  BY <1>1, <1>4, <1>6, <1>7
<1> HIDE DEF k
<1> QED
  BY <1>1, <1>2, <1>4, <1>6, <1>7, <1>8, <1>9, <1>10 DEF KcpReceives

LEMMA KcpReceiverShortens ==
    ASSUME Kcp!KcpAssumption, KcpTypes, KcpNumbers, NEW e \in Ends, NEW a \in Nat,
           a <= snd[Kcp!peer(e)].una, rcv'[e].acks = {n \in rcv[e].acks : n >= a},
           rcv'[e].win = rcv[e].win, rcv'[e].next = rcv[e].next
    PROVE  KcpReceives(e)
<1>1. rcv[e].next \in Nat /\ rcv[e].acks \subseteq Nat
  BY KcpNats
<1>2. PICK p \in Ends : p = Kcp!peer(e)
  BY KcpPeers
<1>3. snd[p].una \in Nat
  BY KcpNats
<1>4. \A n \in Nat : Kcp!Held(e, n)' <=> Kcp!Held(e, n)
  BY DEF Kcp!Held
<1>5. \A n \in rcv[e].acks : n \in rcv'[e].acks \/ n < snd[p].una
  BY <1>1, <1>2, <1>3
<1>6. rcv'[e].acks \subseteq rcv[e].acks
  OBVIOUS
<1> QED
  BY <1>1, <1>2, <1>4, <1>5, <1>6 DEF KcpNumbers, KcpNumbered, KcpReceives

LEMMA KcpSenderIdle ==
    ASSUME Kcp!KcpAssumption, KcpTypes, KcpNumbers, NEW e \in Ends, snd'[e] = snd[e],
           writing' = writing, cleared' = cleared
    PROVE  KcpSends(e)
BY KcpSenderQuiet

\* What Input does with a segment.
LEMMA KcpDataKeeps ==
    ASSUME Kcp!KcpAssumption, KcpTypes, KcpNumbers, NEW e \in Ends, NEW m \in KcpMessages,
           m.kind = "data", m.to = e, KcpTruthful(m), Kcp!ProcessData(e, m),
           writing' = writing, cleared' = cleared
    PROVE  /\ snd' \in [Ends -> KcpSenders] /\ rcv' \in [Ends -> KcpReceivers]
           /\ \A p \in Ends : KcpSends(p) /\ KcpReceives(p)
<1>1. /\ m.number \in Nat /\ m.sendingNext \in Nat
      /\ m.number < snd[Kcp!peer(e)].next /\ m.sendingNext <= snd[Kcp!peer(e)].una
  BY DEF KcpMessages, KcpTruthful
<1>2. snd' = snd
  BY DEF Kcp!ProcessData
<1>3. \A p \in Ends : KcpSends(p)
  BY <1>2, KcpSenderIdle
<1>4. snd \in [Ends -> KcpSenders] /\ rcv \in [Ends -> KcpReceivers]
  BY DEF KcpTypes
<1>5. CASE m.number \in rcv[e].next .. rcv[e].next + RecvWindow - 1
  <2>1. rcv' = [rcv EXCEPT ![e].acks = Kcp!Acked(@, m.sendingNext, m),
                           ![e].win = @ \cup {m.number}]
    BY <1>5 DEF Kcp!ProcessData
  <2>2. /\ Kcp!Acked(rcv[e].acks, m.sendingNext, m) \in SUBSET Nat
        /\ rcv[e].win \cup {m.number} \in SUBSET Nat
    BY <1>1, KcpNats DEF Kcp!Acked
  <2>3. rcv' \in [Ends -> KcpReceivers]
    <3>1. PICK acks \in SUBSET Nat, win \in SUBSET Nat :
             rcv' = [rcv EXCEPT ![e].acks = acks, ![e].win = win]
      BY <2>1, <2>2
    <3>2. rcv[e] \in KcpReceivers /\ rcv' = [p \in Ends |-> rcv'[p]]
      BY <1>4, <3>1
    <3>3. rcv'[e] = [[rcv[e] EXCEPT !.acks = acks] EXCEPT !.win = win]
      BY <1>4, <3>1
    <3>4. rcv'[e] \in KcpReceivers
      BY <3>2, <3>3 DEF KcpReceivers
    <3>5. \A p \in Ends \ {e} : rcv'[p] = rcv[p]
      BY <1>4, <3>1
    <3> QED
      BY <1>4, <3>2, <3>4, <3>5
  <2>4. /\ rcv'[e].acks = Kcp!Acked(rcv[e].acks, m.sendingNext, m)
        /\ rcv'[e].win = rcv[e].win \cup {m.number} /\ rcv'[e].next = rcv[e].next
        /\ \A p \in Ends \ {e} : rcv'[p] = rcv[p]
    BY <1>4, <2>1 DEF KcpReceivers
  <2>5. KcpReceives(e)
    BY <1>1, <1>5, <2>4, KcpReceiverListens
  <2>6. \A p \in Ends \ {e} : KcpReceives(p)
    BY <2>4, KcpReceiverStays
  <2> QED
    BY <1>2, <1>3, <1>4, <2>3, <2>5, <2>6
<1>6. CASE m.number \notin rcv[e].next .. rcv[e].next + RecvWindow - 1
  <2>1. rcv' = rcv
    BY <1>6 DEF Kcp!ProcessData
  <2> QED
    BY <1>2, <1>3, <1>4, <2>1, KcpReceiverStays
<1> QED
  BY <1>5, <1>6

LEMMA KcpAckKeeps ==
    ASSUME Kcp!KcpAssumption, KcpTypes, KcpNumbers, NEW e \in Ends, NEW m \in KcpMessages,
           m.kind = "ack", m.to = e, KcpTruthful(m), Kcp!ProcessAck(e, m),
           writing' = writing, cleared' = cleared
    PROVE  /\ snd' \in [Ends -> KcpSenders] /\ rcv' \in [Ends -> KcpReceivers]
           /\ \A p \in Ends : KcpSends(p) /\ KcpReceives(p)
<1>1. /\ m.numbers \in SUBSET Nat /\ m.receivingNext \in Nat /\ m.window \in Nat
      /\ m.receivingNext <= rcv[Kcp!peer(e)].next
      /\ \A n \in m.numbers : Kcp!Held(Kcp!peer(e), n)
  BY DEF KcpMessages, KcpTruthful
<1>2. rcv' = rcv
  BY DEF Kcp!ProcessAck
<1>3. \A p \in Ends : KcpReceives(p)
  BY <1>2, KcpReceiverStays
<1>4. snd \in [Ends -> KcpSenders] /\ rcv \in [Ends -> KcpReceivers]
  BY DEF KcpTypes
<1>5. CASE snd[e].closed
  <2>1. snd' = snd
    BY <1>5 DEF Kcp!ProcessAck
  <2> QED
    BY <1>2, <1>3, <1>4, <2>1, KcpSenderIdle
<1>6. CASE ~snd[e].closed
  <2> DEFINE w == [snd[e] EXCEPT !.remote = Kcp!Max({snd[e].remote, m.window})]
  <2>1. snd' = [snd EXCEPT ![e] = Kcp!ProcessReceivingNext(w, m.receivingNext, m.numbers)]
    BY <1>6 DEF Kcp!ProcessAck
  <2>2. w \in KcpSenders /\ w.next = snd[e].next /\ w.una = snd[e].una
        /\ w.win = snd[e].win
    <3>1. snd[e] \in KcpSenders /\ snd[e].remote \in Nat
      BY <1>4 DEF KcpSenders
    <3>2. Kcp!Max({snd[e].remote, m.window}) \in Nat
      BY <1>1, <3>1 DEF Kcp!Max
    <3> QED
      BY <3>1, <3>2 DEF KcpSenders
  <2>3. /\ snd'[e] = Kcp!ProcessReceivingNext(w, m.receivingNext, m.numbers)
        /\ \A p \in Ends \ {e} : snd'[p] = snd[p]
        /\ DOMAIN snd' = Ends /\ snd' = [p \in Ends |-> snd'[p]]
    BY <1>4, <2>1
  <2> HIDE DEF w
  <2>4. snd'[e] \in KcpSenders /\ KcpSends(e)
    BY <1>1, <2>2, <2>3, KcpSenderForgets
  <2>5. \A p \in Ends \ {e} : KcpSends(p) /\ snd'[p] \in KcpSenders
    BY <1>4, <2>3, KcpSenderIdle
  <2>6. snd' \in [Ends -> KcpSenders]
    BY <2>3, <2>4, <2>5
  <2> QED
    BY <1>2, <1>3, <1>4, <2>4, <2>5, <2>6
<1> QED
  BY <1>5, <1>6

LEMMA KcpCmdKeeps ==
    ASSUME Kcp!KcpAssumption, KcpTypes, KcpNumbers, NEW e \in Ends, NEW m \in KcpMessages,
           m.kind \notin {"data", "ack"}, m.to = e, KcpTruthful(m), Kcp!ProcessCmd(e, m),
           writing' = writing, cleared' = cleared
    PROVE  /\ snd' \in [Ends -> KcpSenders] /\ rcv' \in [Ends -> KcpReceivers]
           /\ \A p \in Ends : KcpSends(p) /\ KcpReceives(p)
<1>1. /\ m.sendingNext \in Nat /\ m.receivingNext \in Nat
      /\ m.sendingNext <= snd[Kcp!peer(e)].una
      /\ m.receivingNext <= rcv[Kcp!peer(e)].next
  BY DEF KcpMessages, KcpTruthful
<1>2. snd \in [Ends -> KcpSenders] /\ rcv \in [Ends -> KcpReceivers]
  BY DEF KcpTypes
<1>3. /\ snd' = [snd EXCEPT ![e] = Kcp!ProcessReceivingNext(@, m.receivingNext, {})]
      /\ rcv' = [rcv EXCEPT ![e].acks = {n \in @ : n >= m.sendingNext}]
  BY DEF Kcp!ProcessCmd
<1>4. /\ snd'[e] = Kcp!ProcessReceivingNext(snd[e], m.receivingNext, {})
      /\ \A p \in Ends \ {e} : snd'[p] = snd[p]
      /\ snd' = [p \in Ends |-> snd'[p]]
  BY <1>2, <1>3
<1>5. snd'[e] \in KcpSenders /\ KcpSends(e)
  <2>1. {} \in SUBSET Nat /\ snd[e] \in KcpSenders
        /\ \A n \in {} : Kcp!Held(Kcp!peer(e), n)
    BY <1>2
  <2> QED
    BY <1>1, <1>4, <2>1, KcpSenderForgets
<1>6. \A p \in Ends \ {e} : KcpSends(p) /\ snd'[p] \in KcpSenders
  BY <1>2, <1>4, KcpSenderIdle
<1>7. /\ rcv'[e].acks = {n \in rcv[e].acks : n >= m.sendingNext}
      /\ rcv'[e].win = rcv[e].win /\ rcv'[e].next = rcv[e].next
      /\ \A p \in Ends \ {e} : rcv'[p] = rcv[p]
      /\ rcv' \in [Ends -> KcpReceivers]
  BY <1>2, <1>3 DEF KcpReceivers
<1>8. KcpReceives(e)
  BY <1>1, <1>7, KcpReceiverShortens
<1>9. \A p \in Ends \ {e} : KcpReceives(p)
  BY <1>7, KcpReceiverStays
<1>10. snd' \in [Ends -> KcpSenders]
  BY <1>4, <1>5, <1>6
<1> QED
  BY <1>5, <1>6, <1>7, <1>8, <1>9, <1>10

LEMMA KcpProcessKeeps ==
    ASSUME Kcp!KcpAssumption, KcpTypes, KcpNumbers, NEW e \in Ends, NEW m \in KcpMessages,
           m.to = e, KcpTruthful(m), Kcp!Process(e, m),
           writing' = writing, cleared' = cleared
    PROVE  /\ snd' \in [Ends -> KcpSenders] /\ rcv' \in [Ends -> KcpReceivers]
           /\ \A p \in Ends : KcpSends(p) /\ KcpReceives(p)
           /\ upd' = upd \/ Kcp!WakeUp(e)
<1>1. CASE m.kind = "data"
  <2>1. Kcp!ProcessData(e, m)
    BY <1>1 DEF Kcp!Process
  <2> QED
    BY <1>1, <2>1, KcpDataKeeps DEF Kcp!ProcessData
<1>2. CASE m.kind = "ack"
  <2>1. Kcp!ProcessAck(e, m)
    BY <1>2 DEF Kcp!Process
  <2> QED
    BY <1>2, <2>1, KcpAckKeeps DEF Kcp!ProcessAck
<1>3. CASE m.kind \notin {"data", "ack"}
  <2>1. Kcp!ProcessCmd(e, m)
    BY <1>3 DEF Kcp!Process
  <2> QED
    BY <1>3, <2>1, KcpCmdKeeps DEF Kcp!ProcessCmd
<1> QED
  BY <1>1, <1>2, <1>3

-----------------------------------------------------------------------------
(* The states, and who sets them *)

KcpEndStays == \A e \in Ends : KcpEnded(e) => KcpEnded(e)'

\* A sender keeps its numbers, and its window unless it is cleared.
KcpQuiet(e) ==
    /\ snd'[e].next = snd[e].next /\ snd'[e].una = snd[e].una
    /\ e \in cleared => e \in cleared'
    /\ \/ snd'[e].win = snd[e].win
       \/ snd'[e].win = {} /\ (snd[e].win = {} \/ e \in cleared')

LEMMA KcpStates ==
    /\ Kcp!States \subseteq KcpTargets /\ Kcp!Stay \in KcpTargets
    /\ Kcp!Stay \notin Kcp!States
    /\ \A s \in KcpTargets : s # Kcp!Stay => s \in Kcp!States
BY DEF Kcp!States, Kcp!Stay, KcpTargets

LEMMA KcpCloseTargets ==
    ASSUME NEW s \in Kcp!States
    PROVE  /\ Kcp!CloseTarget(s) \in KcpTargets
           /\ Kcp!CloseTarget(s) # Kcp!Stay => s # "Terminated"
BY DEF Kcp!States, Kcp!Stay, KcpTargets, Kcp!CloseTarget

LEMMA KcpInputTargets ==
    ASSUME NEW s \in Kcp!States, NEW pc, NEW m
    PROVE  /\ Kcp!InputTarget(pc, m, s) \in KcpTargets
           /\ Kcp!InputTarget(pc, m, s) # Kcp!Stay => s # "Terminated"
<1>1. /\ Kcp!PeerClosedTarget(s) \in KcpTargets
      /\ Kcp!PeerClosedTarget(s) # Kcp!Stay => s # "Terminated"
  BY DEF Kcp!States, Kcp!Stay, KcpTargets, Kcp!PeerClosedTarget
<1>2. /\ Kcp!TerminateTarget(s) \in KcpTargets
      /\ Kcp!TerminateTarget(s) # Kcp!Stay => s # "Terminated"
  BY DEF Kcp!States, Kcp!Stay, KcpTargets, Kcp!TerminateTarget
<1> QED
  BY <1>1, <1>2, KcpStates DEF Kcp!InputTarget

LEMMA KcpAfter ==
    ASSUME NEW check \in KcpChecks
    PROVE  Kcp!After(check) \in KcpChecks \cup {"send"}
<1>1. \A j \in 1 .. 6 : Kcp!Checks[j] \in KcpChecks
  BY DEF Kcp!Checks, KcpChecks
<1>2. \E j \in 1 .. 6 : Kcp!Checks[j] = check
  BY DEF Kcp!Checks, KcpChecks
<1>3. Kcp!Index(check) \in 1 .. 6 /\ Kcp!Checks[Kcp!Index(check)] = check
  BY <1>2 DEF Kcp!Index
<1>4. Kcp!Checks[6] = "ready"
  BY DEF Kcp!Checks
<1>5. check # "ready" => Kcp!Index(check) + 1 \in 1 .. 6
  BY <1>3, <1>4
<1> QED
  BY <1>1, <1>5 DEF Kcp!After

\* SetState, by somebody who did not decide after the end.
LEMMA KcpSets ==
    ASSUME KcpTypes, NEW e \in Ends, NEW from, NEW to \in Kcp!States,
           from # "Terminated", Kcp!SetState(e, from, to)
    PROVE  /\ st' \in [Ends -> Kcp!States] /\ snd' \in [Ends -> KcpSenders]
           /\ cleared' \subseteq Ends /\ race' \subseteq Ends
           /\ KcpEndStays /\ \A p \in Ends : KcpQuiet(p)
<1>1. /\ st \in [Ends -> Kcp!States] /\ snd \in [Ends -> KcpSenders]
      /\ cleared \subseteq Ends /\ race \subseteq Ends
  BY DEF KcpTypes
<1>2. /\ st' = [st EXCEPT ![e] = to]
      /\ race' = IF st[e] = from THEN race ELSE race \cup {e}
  BY DEF Kcp!SetState
<1>3. KcpEndStays
  BY <1>1, <1>2 DEF KcpEndStays, KcpEnded
<1>4. CASE to = "ReadyToClose"
  BY <1>1, <1>2, <1>3, <1>4 DEF Kcp!SetState, KcpQuiet
<1>5. CASE to # "ReadyToClose"
  <2>1. PICK d \in BOOLEAN : snd' = [snd EXCEPT ![e].win = {}, ![e].dying = d]
    <3>1. snd[e].dying \in BOOLEAN
      BY <1>1 DEF KcpSenders
    <3> QED
      BY <1>5, <3>1 DEF Kcp!SetState
  <2>2. cleared' = IF snd[e].win = {} THEN cleared ELSE cleared \cup {e}
    BY <1>5 DEF Kcp!SetState
  <2>3. snd'[e] = [[snd[e] EXCEPT !.win = {}] EXCEPT !.dying = d]
        /\ snd' = [p \in Ends |-> snd'[p]] /\ \A p \in Ends \ {e} : snd'[p] = snd[p]
    BY <1>1, <2>1
  <2>4. snd[e] \in KcpSenders
    BY <1>1
  <2>5. /\ snd'[e] \in KcpSenders /\ snd'[e].next = snd[e].next
        /\ snd'[e].una = snd[e].una /\ snd'[e].win = {}
    BY <2>3, <2>4 DEF KcpSenders
  <2>6. snd' \in [Ends -> KcpSenders]
    BY <1>1, <2>3, <2>5
  <2>7. \A p \in Ends : KcpQuiet(p)
    BY <2>2, <2>3, <2>5 DEF KcpQuiet
  <2> QED
    BY <1>1, <1>2, <1>3, <2>2, <2>6, <2>7
<1> QED
  BY <1>4, <1>5

\* An updater turns; the others stay where they are.
LEMMA KcpUpdates ==
    ASSUME KcpTypes, KcpTurns, KcpEndStays, NEW e \in Ends, NEW u \in Updaters,
           NEW r \in KcpUpdaters, upd' = [upd EXCEPT ![e][u] = r],
           u = "ping" => r.pc # "run" /\ (r.pc \in {"off", "leave"} => KcpEnded(e)'),
           r.to # Kcp!Stay => r.from # "Terminated" /\ r.pc \in KcpChecks
    PROVE  upd' \in [Ends -> [Updaters -> KcpUpdaters]] /\ KcpTurns'
<1>1. upd \in [Ends -> [Updaters -> KcpUpdaters]]
  BY DEF KcpTypes
<1>2. upd' \in [Ends -> [Updaters -> KcpUpdaters]]
  BY <1>1
<1>3. ASSUME NEW p \in Ends, NEW v \in Updaters
      PROVE  KcpTurn(p, v)'
  <2>1. upd'[p][v] = IF p = e /\ v = u THEN r ELSE upd[p][v]
    BY <1>1
  <2> QED
    BY <2>1 DEF KcpTurns, KcpTurn, KcpEndStays
<1> QED
  BY <1>2, <1>3 DEF KcpTurns

LEMMA KcpUpdatersStay ==
    ASSUME KcpTypes, KcpTurns, KcpEndStays, upd' = upd
    PROVE  upd' \in [Ends -> [Updaters -> KcpUpdaters]] /\ KcpTurns'
<1>1. \A p \in Ends : \A v \in Updaters : KcpTurn(p, v)'
  BY DEF KcpTurns, KcpTurn, KcpEndStays
<1> QED
  BY <1>1 DEF KcpTypes, KcpTurns

LEMMA KcpGoes ==
    ASSUME KcpTypes, KcpTurns, KcpEndStays, NEW e \in Ends, NEW u \in Updaters,
           NEW pc \in KcpFlushPcs, Kcp!UGoto(e, u, pc),
           u = "ping" => pc # "run" /\ (pc \in {"off", "leave"} => KcpEnded(e)')
    PROVE  upd' \in [Ends -> [Updaters -> KcpUpdaters]] /\ KcpTurns'
<1> DEFINE r == [Kcp!Idle EXCEPT !.pc = pc]
<1>1. r \in KcpUpdaters /\ r.pc = pc /\ r.to = Kcp!Stay
  BY KcpStates DEF Kcp!Idle, KcpUpdaters
<1>2. upd' = [upd EXCEPT ![e][u] = r]
  BY DEF Kcp!UGoto
<1> HIDE DEF r
<1> QED
  BY <1>1, <1>2, KcpUpdates

LEMMA KcpWakes ==
    ASSUME KcpTypes, KcpTurns, KcpEndStays, NEW e \in Ends, Kcp!WakeUp(e)
    PROVE  upd' \in [Ends -> [Updaters -> KcpUpdaters]] /\ KcpTurns'
<1>1. CASE "data" \in Updaters /\ upd[e]["data"].pc = "off"
  <2> DEFINE r == [upd[e]["data"] EXCEPT !.pc = "run"]
  <2>1. upd[e]["data"] \in KcpUpdaters /\ upd[e]["data"].to = Kcp!Stay
    BY <1>1 DEF KcpTypes, KcpTurns, KcpTurn, KcpChecks
  <2>2. r \in KcpUpdaters /\ r.to = Kcp!Stay
    BY <2>1 DEF KcpUpdaters, KcpFlushPcs
  <2>3. upd' = [upd EXCEPT ![e]["data"] = r]
    BY <1>1 DEF Kcp!WakeUp
  <2> HIDE DEF r
  <2> QED
    BY <1>1, <2>2, <2>3, KcpUpdates
<1>2. CASE ~("data" \in Updaters /\ upd[e]["data"].pc = "off")
  BY <1>2, KcpUpdatersStay DEF Kcp!WakeUp
<1> QED
  BY <1>1, <1>2

-----------------------------------------------------------------------------
(* The steps *)

LEMMA KcpSameInputs ==
    ASSUME KcpPackets, inp' = inp, \A m \in net' : m \in net \/ KcpTruthful(m)'
    PROVE  KcpSamePackets
BY DEF KcpPackets, KcpSamePackets

LEMMA KcpQuietKeeps ==
    ASSUME Kcp!KcpAssumption, KcpTypes, KcpTypes', KcpNumbers, KcpSamePackets,
           \A p \in Ends : KcpQuiet(p), rcv' = rcv,
           \A p \in writing' : p \in writing \/ snd[p].next < Writes[p]
    PROVE  KcpNumbers'
<1>1. \A p \in Ends : KcpSends(p)
  BY KcpSenderQuiet DEF KcpQuiet
<1>2. \A p \in Ends : KcpReceives(p)
  BY KcpReceiverStays
<1> QED
  BY <1>1, <1>2, KcpMovesKeep

LEMMA KcpSameNumbers ==
    ASSUME Kcp!KcpAssumption, KcpTypes, KcpTypes', KcpNumbers, KcpSamePackets,
           snd' = snd, rcv' = rcv, cleared' = cleared,
           \A p \in writing' : p \in writing \/ snd[p].next < Writes[p]
    PROVE  KcpNumbers'
<1>1. \A p \in Ends : KcpQuiet(p)
  BY DEF KcpQuiet
<1> QED
  BY <1>1, KcpQuietKeeps

LEMMA KcpSameEnds ==
    ASSUME st' = st, race' = race
    PROVE  KcpEndStays
BY DEF KcpEndStays, KcpEnded

LEMMA KcpClose ==
    ASSUME Kcp!KcpAssumption, KcpInv, NEW e \in Ends, Kcp!Close(e)
    PROVE  KcpInv'
<1> DEFINE to == Kcp!CloseTarget(st[e])
           c == [pc |-> "set", from |-> st[e], to |-> to]
<1>1. /\ UNCHANGED <<st, snd, rcv, upd, inp, writing, net, cleared, race>>
      /\ to # Kcp!Stay /\ closing' = [closing EXCEPT ![e] = c]
  BY DEF Kcp!Close
<1>2. st[e] \in Kcp!States
  BY DEF KcpInv, KcpTypes
<1>3. c \in KcpClosings /\ c.from # "Terminated" /\ c.to # Kcp!Stay
  BY <1>1, <1>2, KcpCloseTargets, KcpStates DEF KcpClosings
<1> HIDE DEF c
<1>4. KcpTypes'
  BY <1>1, <1>3 DEF KcpInv, KcpTypes
<1>5. KcpNumbers'
  BY <1>1, <1>4, KcpSameInputs, KcpSameNumbers DEF KcpInv, KcpNumbers
<1>6. KcpTurns'
  BY <1>1, KcpSameEnds, KcpUpdatersStay DEF KcpInv
<1>7. KcpDecided'
  BY <1>1, <1>3 DEF KcpInv, KcpTypes, KcpDecided
<1> QED
  BY <1>4, <1>5, <1>6, <1>7 DEF KcpInv

LEMMA KcpCloseSet ==
    ASSUME Kcp!KcpAssumption, KcpInv, NEW e \in Ends, Kcp!CloseSet(e)
    PROVE  KcpInv'
<1>1. /\ closing[e].pc = "set" /\ Kcp!SetState(e, closing[e].from, closing[e].to)
      /\ closing' = [closing EXCEPT ![e] = Kcp!Idle]
      /\ UNCHANGED <<rcv, upd, inp, writing, net>>
  BY DEF Kcp!CloseSet
<1>2. closing[e].from # "Terminated" /\ closing[e].to \in Kcp!States
  BY <1>1, KcpStates DEF KcpInv, KcpTypes, KcpClosings, KcpDecided
<1>3. /\ st' \in [Ends -> Kcp!States] /\ snd' \in [Ends -> KcpSenders]
      /\ cleared' \subseteq Ends /\ race' \subseteq Ends
      /\ KcpEndStays /\ \A p \in Ends : KcpQuiet(p)
  BY <1>1, <1>2, KcpSets DEF KcpInv
<1>4. Kcp!Idle \in KcpClosings /\ Kcp!Idle.pc = "off"
  BY KcpStates DEF Kcp!Idle, KcpClosings
<1>5. KcpTypes'
  BY <1>1, <1>3, <1>4 DEF KcpInv, KcpTypes
<1>6. KcpNumbers'
  BY <1>1, <1>3, <1>5, KcpSameInputs, KcpQuietKeeps DEF KcpInv, KcpNumbers
<1>7. KcpTurns'
  BY <1>1, <1>3, KcpUpdatersStay DEF KcpInv
<1>8. KcpDecided'
  BY <1>1, <1>4 DEF KcpInv, KcpTypes, KcpDecided
<1> QED
  BY <1>5, <1>6, <1>7, <1>8 DEF KcpInv

LEMMA KcpTerminate ==
    ASSUME Kcp!KcpAssumption, KcpInv, NEW e \in Ends, Kcp!Terminate(e)
    PROVE  KcpInv'
<1>1. /\ snd' = [snd EXCEPT ![e].win = {}, ![e].closed = TRUE, ![e].dying = FALSE]
      /\ cleared' = IF snd[e].win = {} THEN cleared ELSE cleared \cup {e}
      /\ UNCHANGED <<st, rcv, upd, inp, closing, writing, net, race>>
  BY DEF Kcp!Terminate
<1>2. snd \in [Ends -> KcpSenders] /\ cleared \subseteq Ends
  BY DEF KcpInv, KcpTypes
<1>3. /\ snd'[e] = [[[snd[e] EXCEPT !.win = {}] EXCEPT !.closed = TRUE]
                       EXCEPT !.dying = FALSE]
      /\ snd' = [p \in Ends |-> snd'[p]] /\ \A p \in Ends \ {e} : snd'[p] = snd[p]
  BY <1>1, <1>2
<1>4. /\ snd'[e] \in KcpSenders /\ snd'[e].next = snd[e].next
      /\ snd'[e].una = snd[e].una /\ snd'[e].win = {}
  <2>1. snd[e] \in KcpSenders
    BY <1>2
  <2> QED
    BY <1>3, <2>1 DEF KcpSenders
<1>5. \A p \in Ends : KcpQuiet(p)
  BY <1>1, <1>3, <1>4 DEF KcpQuiet
<1>6. snd' \in [Ends -> KcpSenders] /\ cleared' \subseteq Ends
  BY <1>1, <1>2, <1>3, <1>4
<1>7. KcpTypes'
  BY <1>1, <1>6 DEF KcpInv, KcpTypes
<1>8. KcpNumbers'
  BY <1>1, <1>5, <1>7, KcpSameInputs, KcpQuietKeeps DEF KcpInv, KcpNumbers
<1>9. KcpTurns'
  BY <1>1, KcpSameEnds, KcpUpdatersStay DEF KcpInv
<1>10. KcpDecided'
  BY <1>1 DEF KcpInv, KcpDecided
<1> QED
  BY <1>7, <1>8, <1>9, <1>10 DEF KcpInv

LEMMA KcpWrite ==
    ASSUME Kcp!KcpAssumption, KcpInv, NEW e \in Ends, Kcp!Write(e)
    PROVE  KcpInv'
<1>1. /\ snd[e].next < Writes[e] /\ writing' = writing \cup {e}
      /\ UNCHANGED <<st, snd, rcv, upd, inp, closing, net, cleared, race>>
  BY DEF Kcp!Write
<1>2. KcpTypes'
  BY <1>1 DEF KcpInv, KcpTypes
<1>3. KcpNumbers'
  BY <1>1, <1>2, KcpSameInputs, KcpSameNumbers DEF KcpInv, KcpNumbers
<1>4. KcpTurns'
  BY <1>1, KcpSameEnds, KcpUpdatersStay DEF KcpInv
<1>5. KcpDecided'
  BY <1>1 DEF KcpInv, KcpDecided
<1> QED
  BY <1>2, <1>3, <1>4, <1>5 DEF KcpInv

LEMMA KcpPush ==
    ASSUME Kcp!KcpAssumption, KcpInv, NEW e \in Ends, Kcp!Push(e)
    PROVE  KcpInv'
<1>1. /\ e \in writing /\ writing' = writing \ {e}
      /\ UNCHANGED <<st, rcv, inp, closing, net, cleared, race>>
  BY DEF Kcp!Push
<1>2. KcpEndStays
  BY <1>1, KcpSameEnds
<1>3. KcpDecided'
  BY <1>1 DEF KcpInv, KcpDecided
<1>4. CASE snd[e].closed \/ Kcp!Cardinality(snd[e].win) > SendBuffer
  <2>1. snd' = snd /\ upd' = upd
    BY <1>4 DEF Kcp!Push
  <2>2. KcpTypes'
    BY <1>1, <2>1 DEF KcpInv, KcpTypes
  <2>3. KcpNumbers'
    BY <1>1, <2>1, <2>2, KcpSameInputs, KcpSameNumbers DEF KcpInv, KcpNumbers
  <2>4. KcpTurns'
    BY <1>2, <2>1, KcpUpdatersStay DEF KcpInv
  <2> QED
    BY <1>3, <2>2, <2>3, <2>4 DEF KcpInv
<1>5. CASE ~(snd[e].closed \/ Kcp!Cardinality(snd[e].win) > SendBuffer)
  <2>1. /\ snd' = [snd EXCEPT ![e].win = @ \cup {snd[e].next}, ![e].next = @ + 1]
        /\ Kcp!WakeUp(e)
    BY <1>5 DEF Kcp!Push
  <2>2. snd \in [Ends -> KcpSenders]
    BY DEF KcpInv, KcpTypes
  <2>3. /\ snd'[e] = [[snd[e] EXCEPT !.win = snd[e].win \cup {snd[e].next}]
                         EXCEPT !.next = snd[e].next + 1]
        /\ snd' = [p \in Ends |-> snd'[p]] /\ \A p \in Ends \ {e} : snd'[p] = snd[p]
    BY <2>1, <2>2
  <2>4. /\ snd'[e] \in KcpSenders /\ snd'[e].next = snd[e].next + 1
        /\ snd'[e].una = snd[e].una /\ snd'[e].win = snd[e].win \cup {snd[e].next}
    <3>1. snd[e] \in KcpSenders
      BY <2>2
    <3>2. snd[e].win \cup {snd[e].next} \in SUBSET Nat /\ snd[e].next + 1 \in Nat
      BY <3>1 DEF KcpSenders
    <3>3. PICK w \in SUBSET Nat, k \in Nat :
             w = snd[e].win \cup {snd[e].next} /\ k = snd[e].next + 1
      BY <3>2
    <3>4. snd'[e] = [[snd[e] EXCEPT !.win = w] EXCEPT !.next = k]
      BY <2>3, <3>3
    <3> QED
      BY <3>1, <3>3, <3>4 DEF KcpSenders
  <2>5. snd' \in [Ends -> KcpSenders]
    BY <2>2, <2>3, <2>4
  <2>6. upd' \in [Ends -> [Updaters -> KcpUpdaters]] /\ KcpTurns'
    BY <1>2, <2>1, KcpWakes DEF KcpInv
  <2>7. KcpTypes'
    BY <1>1, <2>5, <2>6 DEF KcpInv, KcpTypes
  <2>8. KcpSends(e)
    <3>1. Cardinality(snd[e].win) <= SendBuffer
      <4>1. Cardinality(snd[e].win) \in Nat /\ SendBuffer \in Nat
        BY KcpShorter, KcpBounds DEF KcpInv
      <4>2. ~(Cardinality(snd[e].win) > SendBuffer)
        BY <1>5, KcpCounts
      <4> QED
        BY <4>1, <4>2
    <3> QED
      BY <1>1, <2>4, <3>1, KcpSenderPushes DEF KcpInv
  <2>9. \A p \in Ends \ {e} : KcpSends(p)
    <3>1. \A p \in Ends \ {e} : p \in writing' => p \in writing
      BY <1>1
    <3> QED
      BY <1>1, <2>3, <3>1, KcpSenderQuiet DEF KcpInv
  <2>10. \A p \in Ends : KcpReceives(p)
    BY <1>1, KcpReceiverStays DEF KcpInv
  <2>11. KcpNumbers'
    BY <1>1, <2>7, <2>8, <2>9, <2>10, KcpSameInputs, KcpMovesKeep DEF KcpInv, KcpNumbers
  <2> QED
    BY <1>3, <2>6, <2>7, <2>11 DEF KcpInv
<1> QED
  BY <1>4, <1>5

LEMMA KcpRead ==
    ASSUME Kcp!KcpAssumption, KcpInv, NEW e \in Ends, Kcp!Read(e)
    PROVE  KcpInv'
<1>1. /\ rcv[e].next \in rcv[e].win
      /\ rcv' = [rcv EXCEPT ![e].win = @ \ (rcv[e].next .. Kcp!ReadyTo(e) - 1),
                            ![e].next = Kcp!ReadyTo(e)]
      /\ Kcp!WakeUp(e)
      /\ UNCHANGED <<st, snd, inp, closing, writing, net, cleared, race>>
  BY DEF Kcp!Read
<1>2. rcv \in [Ends -> KcpReceivers] /\ Kcp!ReadyTo(e) \in Nat
  BY <1>1, KcpReady DEF KcpInv, KcpTypes
<1>3. /\ rcv'[e] = [[rcv[e] EXCEPT !.win = rcv[e].win \ (rcv[e].next .. Kcp!ReadyTo(e) - 1)]
                       EXCEPT !.next = Kcp!ReadyTo(e)]
      /\ rcv' = [p \in Ends |-> rcv'[p]] /\ \A p \in Ends \ {e} : rcv'[p] = rcv[p]
  BY <1>1, <1>2
<1>4. /\ rcv'[e] \in KcpReceivers /\ rcv'[e].next = Kcp!ReadyTo(e)
      /\ rcv'[e].win = rcv[e].win \ (rcv[e].next .. Kcp!ReadyTo(e) - 1)
      /\ rcv'[e].acks = rcv[e].acks
  <2>1. rcv[e] \in KcpReceivers
    BY <1>2
  <2>2. rcv[e].win \ (rcv[e].next .. Kcp!ReadyTo(e) - 1) \in SUBSET Nat
    BY <2>1 DEF KcpReceivers
  <2>3. PICK w \in SUBSET Nat, k \in Nat :
           w = rcv[e].win \ (rcv[e].next .. Kcp!ReadyTo(e) - 1) /\ k = Kcp!ReadyTo(e)
    BY <1>2, <2>2
  <2>4. rcv'[e] = [[rcv[e] EXCEPT !.win = w] EXCEPT !.next = k]
    BY <1>3, <2>3
  <2> QED
    BY <2>1, <2>3, <2>4 DEF KcpReceivers
<1>5. rcv' \in [Ends -> KcpReceivers]
  BY <1>2, <1>3, <1>4
<1>6. upd' \in [Ends -> [Updaters -> KcpUpdaters]] /\ KcpTurns'
  BY <1>1, KcpSameEnds, KcpWakes DEF KcpInv
<1>7. KcpTypes'
  BY <1>1, <1>5, <1>6 DEF KcpInv, KcpTypes
<1>8. KcpReceives(e)
  BY <1>1, <1>4, KcpReceiverReads DEF KcpInv
<1>9. \A p \in Ends \ {e} : KcpReceives(p)
  BY <1>3, KcpReceiverStays DEF KcpInv
<1>10. \A p \in Ends : KcpSends(p)
  BY <1>1, KcpSenderIdle DEF KcpInv
<1>11. KcpNumbers'
  BY <1>1, <1>7, <1>8, <1>9, <1>10, KcpSameInputs, KcpMovesKeep DEF KcpInv, KcpNumbers
<1>12. KcpDecided'
  BY <1>1 DEF KcpInv, KcpDecided
<1> QED
  BY <1>6, <1>7, <1>11, <1>12 DEF KcpInv

\* Input at work has a segment.
KcpAtWork == [pc : {"option", "command", "process"}, from : KcpTargets,
              to : KcpTargets, seg : KcpMessages]

LEMMA KcpBusy ==
    ASSUME KcpTypes, NEW e \in Ends, inp[e].pc # "off" \/ inp[e].to # Kcp!Stay
    PROVE  inp[e] \in KcpAtWork
<1>1. inp[e] \in KcpInputs
  BY DEF KcpTypes
<1>2. Kcp!Idle.pc = "off" /\ Kcp!Idle.to = Kcp!Stay
  BY DEF Kcp!Idle
<1> QED
  BY <1>1, <1>2 DEF KcpInputs, KcpAtWork

\* Input takes a step with its segment, and the other one does not.
LEMMA KcpInputGoes ==
    ASSUME KcpInv, NEW e \in Ends, NEW i \in KcpAtWork, inp' = [inp EXCEPT ![e] = i],
           net' \subseteq net, i.seg.to = e,
           i.seg \in net \/ (inp[e].pc # "off" /\ i.seg = inp[e].seg),
           i.to # Kcp!Stay => i.from # "Terminated", closing' = closing
    PROVE  inp' \in [Ends -> KcpInputs] /\ KcpSamePackets /\ KcpDecided'
<1>1. inp \in [Ends -> KcpInputs]
  BY DEF KcpInv, KcpTypes
<1>2. inp'[e] = i /\ \A p \in Ends \ {e} : inp'[p] = inp[p]
  BY <1>1
<1>3. inp' \in [Ends -> KcpInputs]
  BY <1>1 DEF KcpAtWork, KcpInputs
<1>4. KcpSamePackets
  BY <1>2 DEF KcpInv, KcpNumbers, KcpPackets, KcpSamePackets
<1>5. KcpDecided'
  BY <1>2 DEF KcpInv, KcpDecided
<1> QED
  BY <1>3, <1>4, <1>5

\* Once it is done with a segment, or does not look at the state for it.
LEMMA KcpInputProcesses ==
    ASSUME Kcp!KcpAssumption, KcpInv, NEW e \in Ends, NEW m \in KcpMessages,
           m.to = e, KcpTruthful(m), Kcp!Process(e, m), net' \subseteq net,
           inp' = inp \/ inp' = [inp EXCEPT ![e] = Kcp!Idle],
           UNCHANGED <<st, closing, writing, cleared, race>>
    PROVE  KcpInv'
<1>1. inp \in [Ends -> KcpInputs] /\ Kcp!Idle \in KcpInputs
  BY DEF KcpInv, KcpTypes, KcpInputs
<1>2. Kcp!Idle.pc = "off" /\ Kcp!Idle.to = Kcp!Stay
  BY DEF Kcp!Idle
<1>3. \A p \in Ends : inp'[p] = inp[p] \/ inp'[p] = Kcp!Idle
  BY <1>1
<1>4. inp' \in [Ends -> KcpInputs]
  BY <1>1
<1>5. KcpSamePackets
  BY <1>2, <1>3 DEF KcpInv, KcpNumbers, KcpPackets, KcpSamePackets
<1>6. /\ snd' \in [Ends -> KcpSenders] /\ rcv' \in [Ends -> KcpReceivers]
      /\ \A p \in Ends : KcpSends(p) /\ KcpReceives(p)
      /\ upd' = upd \/ Kcp!WakeUp(e)
  BY KcpProcessKeeps DEF KcpInv
<1>7. upd' \in [Ends -> [Updaters -> KcpUpdaters]] /\ KcpTurns'
  BY <1>6, KcpSameEnds, KcpWakes, KcpUpdatersStay DEF KcpInv
<1>8. KcpTypes'
  BY <1>4, <1>6, <1>7 DEF KcpInv, KcpTypes
<1>9. KcpNumbers'
  BY <1>5, <1>6, <1>8, KcpMovesKeep DEF KcpInv
<1>10. KcpDecided'
  BY <1>2, <1>3 DEF KcpInv, KcpDecided
<1> QED
  BY <1>7, <1>8, <1>9, <1>10 DEF KcpInv

LEMMA KcpReceive ==
    ASSUME Kcp!KcpAssumption, KcpInv, NEW e \in Ends, Kcp!Receive(e)
    PROVE  KcpInv'
<1>1. PICK m \in net :
         /\ m.to = e
         /\ net' \in {net, net \ {m}}
         /\ IF m.close \/ m.kind = "terminate"
            THEN /\ inp' = [inp EXCEPT ![e] = [pc |-> "option", from |-> Kcp!Stay,
                                               to |-> Kcp!Stay, seg |-> m]]
                 /\ UNCHANGED <<snd, rcv, upd>>
            ELSE Kcp!Process(e, m) /\ UNCHANGED inp
  BY DEF Kcp!Receive
<1>2. m \in KcpMessages /\ KcpTruthful(m) /\ net' \subseteq net
  BY <1>1 DEF KcpInv, KcpTypes, KcpNumbers, KcpPackets
<1>3. UNCHANGED <<st, closing, writing, cleared, race>>
  BY DEF Kcp!Receive
<1>4. CASE m.close \/ m.kind = "terminate"
  <2> DEFINE i == [pc |-> "option", from |-> Kcp!Stay, to |-> Kcp!Stay, seg |-> m]
  <2>1. inp' = [inp EXCEPT ![e] = i] /\ UNCHANGED <<snd, rcv, upd>>
    BY <1>1, <1>4
  <2>2. i \in KcpAtWork /\ i.seg = m /\ i.to = Kcp!Stay
    BY <1>2, KcpStates DEF KcpAtWork
  <2> HIDE DEF i
  <2>3. inp' \in [Ends -> KcpInputs] /\ KcpSamePackets /\ KcpDecided'
    BY <1>1, <1>2, <1>3, <2>1, <2>2, KcpInputGoes
  <2>4. KcpTypes'
    BY <1>2, <1>3, <2>1, <2>3 DEF KcpInv, KcpTypes
  <2>5. KcpNumbers'
    BY <1>3, <2>1, <2>3, <2>4, KcpSameNumbers DEF KcpInv
  <2>6. KcpTurns'
    BY <1>3, <2>1, KcpSameEnds, KcpUpdatersStay DEF KcpInv
  <2> QED
    BY <2>3, <2>4, <2>5, <2>6 DEF KcpInv
<1>5. CASE ~(m.close \/ m.kind = "terminate")
  BY <1>1, <1>2, <1>3, <1>5, KcpInputProcesses
<1> QED
  BY <1>4, <1>5

LEMMA KcpInputDecide ==
    ASSUME Kcp!KcpAssumption, KcpInv, NEW e \in Ends, Kcp!InputDecide(e)
    PROVE  KcpInv'
<1> DEFINE i == inp[e]
           target == Kcp!InputTarget(i.pc, i.seg, st[e])
           next == IF i.pc = "option" THEN "command" ELSE "process"
           j == IF target = Kcp!Stay THEN [i EXCEPT !.pc = next]
                                     ELSE [i EXCEPT !.from = st[e], !.to = target]
<1>1. /\ i.pc \in {"option", "command"} /\ i.to = Kcp!Stay
      /\ inp' = [inp EXCEPT ![e] = j]
      /\ UNCHANGED <<st, snd, rcv, upd, closing, writing, net, cleared, race>>
  BY DEF Kcp!InputDecide
<1>2. i \in KcpAtWork
  BY <1>1, KcpBusy DEF KcpInv
<1>3. st[e] \in Kcp!States
  BY DEF KcpInv, KcpTypes
<1>4. target \in KcpTargets /\ (target # Kcp!Stay => st[e] # "Terminated")
  BY <1>3, KcpInputTargets
<1>5. j \in KcpAtWork /\ j.seg = i.seg
      /\ (j.to # Kcp!Stay => j.from # "Terminated")
  <2>1. PICK a \in KcpTargets : a = target /\ (a # Kcp!Stay => st[e] # "Terminated")
    BY <1>4
  <2>2. CASE a = Kcp!Stay
    <3>1. j = [i EXCEPT !.pc = next] /\ next \in {"command", "process"}
      BY <2>1, <2>2
    <3> HIDE DEF i, next
    <3> QED
      BY <1>1, <1>2, <3>1 DEF KcpAtWork
  <2>3. CASE a # Kcp!Stay
    <3>1. j = [[i EXCEPT !.from = st[e]] EXCEPT !.to = a]
      BY <2>1, <2>3
    <3>2. st[e] \in KcpTargets
      BY <1>3, KcpStates
    <3> HIDE DEF i, j
    <3> QED
      BY <1>2, <2>1, <2>3, <3>1, <3>2 DEF KcpAtWork
  <2> QED
    BY <2>2, <2>3
<1>6. i.seg.to = e
  BY <1>1 DEF KcpInv, KcpNumbers, KcpPackets
<1>7. inp' \in [Ends -> KcpInputs] /\ KcpSamePackets /\ KcpDecided'
  <2>1. inp[e].pc # "off" /\ j.seg = inp[e].seg /\ j.seg.to = e
    BY <1>1, <1>5, <1>6
  <2> HIDE DEF j
  <2> QED
    BY <1>1, <1>5, <2>1, KcpInputGoes
<1> HIDE DEF i, j
<1>8. KcpTypes'
  BY <1>1, <1>7 DEF KcpInv, KcpTypes
<1>9. KcpNumbers'
  BY <1>1, <1>7, <1>8, KcpSameNumbers DEF KcpInv
<1>10. KcpTurns'
  BY <1>1, KcpSameEnds, KcpUpdatersStay DEF KcpInv
<1> QED
  BY <1>7, <1>8, <1>9, <1>10 DEF KcpInv

LEMMA KcpInputSet ==
    ASSUME Kcp!KcpAssumption, KcpInv, NEW e \in Ends, Kcp!InputSet(e)
    PROVE  KcpInv'
<1> DEFINE i == inp[e]
           next == IF i.pc = "option" THEN "command" ELSE "process"
           j == [i EXCEPT !.pc = next, !.to = Kcp!Stay]
<1>1. /\ i.to # Kcp!Stay /\ Kcp!SetState(e, i.from, i.to)
      /\ inp' = [inp EXCEPT ![e] = j]
      /\ UNCHANGED <<rcv, upd, closing, writing, net>>
  BY DEF Kcp!InputSet
<1>2. i \in KcpAtWork /\ i.pc # "off"
  BY <1>1, KcpBusy DEF KcpInv, KcpAtWork
<1>3. i.to \in Kcp!States /\ i.from # "Terminated"
  BY <1>1, <1>2, KcpStates DEF KcpAtWork, KcpInv, KcpDecided
<1>4. /\ st' \in [Ends -> Kcp!States] /\ snd' \in [Ends -> KcpSenders]
      /\ cleared' \subseteq Ends /\ race' \subseteq Ends
      /\ KcpEndStays /\ \A p \in Ends : KcpQuiet(p)
  BY <1>1, <1>3, KcpSets DEF KcpInv
<1>5. j \in KcpAtWork /\ j.seg = i.seg /\ j.to = Kcp!Stay
  <2>1. j = [[i EXCEPT !.pc = next] EXCEPT !.to = Kcp!Stay]
        /\ next \in {"command", "process"}
    OBVIOUS
  <2> HIDE DEF i, j, next
  <2> QED
    BY <1>2, <2>1, KcpStates DEF KcpAtWork
<1>6. i.seg.to = e
  BY <1>2 DEF KcpInv, KcpNumbers, KcpPackets
<1>7. inp' \in [Ends -> KcpInputs] /\ KcpSamePackets /\ KcpDecided'
  <2>1. inp[e].pc # "off" /\ j.seg = inp[e].seg /\ j.seg.to = e
    BY <1>2, <1>5, <1>6
  <2> HIDE DEF j
  <2> QED
    BY <1>1, <1>5, <2>1, KcpInputGoes
<1> HIDE DEF i, j
<1>8. KcpTypes'
  BY <1>1, <1>4, <1>7 DEF KcpInv, KcpTypes
<1>9. KcpNumbers'
  BY <1>1, <1>4, <1>7, <1>8, KcpQuietKeeps DEF KcpInv
<1>10. KcpTurns'
  BY <1>1, <1>4, KcpUpdatersStay DEF KcpInv
<1> QED
  BY <1>7, <1>8, <1>9, <1>10 DEF KcpInv

LEMMA KcpInputProcess ==
    ASSUME Kcp!KcpAssumption, KcpInv, NEW e \in Ends, Kcp!InputProcess(e)
    PROVE  KcpInv'
<1>1. /\ inp[e].pc = "process" /\ Kcp!Process(e, inp[e].seg)
      /\ inp' = [inp EXCEPT ![e] = Kcp!Idle]
      /\ UNCHANGED <<st, closing, writing, net, cleared, race>>
  BY DEF Kcp!InputProcess
<1>2. inp[e].seg \in KcpMessages
  BY <1>1, KcpBusy DEF KcpInv, KcpAtWork
<1>3. inp[e].seg.to = e /\ KcpTruthful(inp[e].seg)
  BY <1>1 DEF KcpInv, KcpNumbers, KcpPackets
<1> QED
  BY <1>1, <1>2, <1>3, KcpInputProcesses

\* An updater that only moves on, whatever it sends.
LEMMA KcpUpdaterMoves ==
    ASSUME Kcp!KcpAssumption, KcpInv, KcpTurns',
           upd' \in [Ends -> [Updaters -> KcpUpdaters]], net' \subseteq KcpMessages,
           \A m \in net' : m \in net \/ KcpTruthful(m)',
           UNCHANGED <<st, snd, rcv, inp, closing, writing, cleared, race>>
    PROVE  KcpInv'
<1>1. KcpTypes'
  BY DEF KcpInv, KcpTypes
<1>2. KcpSamePackets
  BY KcpSameInputs DEF KcpInv, KcpNumbers
<1>3. KcpNumbers'
  BY <1>1, <1>2, KcpSameNumbers DEF KcpInv
<1>4. KcpDecided'
  BY DEF KcpInv, KcpDecided
<1> QED
  BY <1>1, <1>3, <1>4 DEF KcpInv

LEMMA KcpUpdaterRun ==
    ASSUME Kcp!KcpAssumption, KcpInv, NEW e \in Ends, NEW u \in Updaters,
           Kcp!UpdaterRun(e, u)
    PROVE  KcpInv'
<1>1. UNCHANGED <<st, snd, rcv, inp, closing, writing, net, cleared, race>>
  BY DEF Kcp!UpdaterRun
<1>2. net' \subseteq KcpMessages /\ KcpEndStays
  BY <1>1, KcpSameEnds DEF KcpInv, KcpTypes
<1>3. KcpTurn(e, u) /\ (KcpEnded(e) => KcpEnded(e)')
  BY <1>2 DEF KcpInv, KcpTurns, KcpEndStays
<1>4. {"loop", "leave", "off"} \subseteq KcpFlushPcs
  BY DEF KcpFlushPcs, KcpChecks
<1>5. PICK pc \in {"loop", "leave", "off"} :
         Kcp!UGoto(e, u, pc) /\ (u = "ping" => (pc \in {"off", "leave"} => KcpEnded(e)'))
  <2>1. CASE upd[e][u].pc = "run" /\
             Kcp!UGoto(e, u, IF Kcp!isTerminating(e) THEN "leave" ELSE "loop")
    BY <1>3, <2>1 DEF KcpTurn
  <2>2. CASE upd[e][u].pc = "loop" /\ ~Kcp!shouldContinue(e, u) /\ Kcp!UGoto(e, u, "leave")
    BY <1>3, <2>2 DEF Kcp!shouldContinue, KcpEnded
  <2>3. CASE upd[e][u].pc = "leave" /\ Kcp!UGoto(e, u, "off")
    BY <1>3, <2>3 DEF KcpTurn
  <2> QED
    BY <2>1, <2>2, <2>3 DEF Kcp!UpdaterRun
<1>6. upd' \in [Ends -> [Updaters -> KcpUpdaters]] /\ KcpTurns'
  BY <1>2, <1>4, <1>5, KcpGoes DEF KcpInv
<1> QED
  BY <1>1, <1>2, <1>6, KcpUpdaterMoves

LEMMA KcpFlushOn ==
    ASSUME Kcp!KcpAssumption, KcpInv, NEW e \in Ends, NEW u \in Updaters,
           Kcp!FlushOn(e, u)
    PROVE  KcpInv'
<1>1. /\ UNCHANGED <<st, snd, rcv, inp, closing, writing, net, cleared, race>>
      /\ Kcp!UGoto(e, u, "send")
  BY DEF Kcp!FlushOn
<1>2. net' \subseteq KcpMessages /\ KcpEndStays
  BY <1>1, KcpSameEnds DEF KcpInv, KcpTypes
<1>3. "send" \in KcpFlushPcs
  BY DEF KcpFlushPcs
<1>4. upd' \in [Ends -> [Updaters -> KcpUpdaters]] /\ KcpTurns'
  BY <1>1, <1>2, <1>3, KcpGoes DEF KcpInv
<1> QED
  BY <1>1, <1>2, <1>4, KcpUpdaterMoves

\* What an end sends is of the form of a packet, and true of it.
LEMMA KcpCommands ==
    ASSUME Kcp!KcpAssumption, KcpInv, NEW e \in Ends, NEW cmd \in {"ping", "terminate"},
           snd' = snd, rcv' = rcv, NEW m, m = Kcp!CmdSegment(e, cmd)
    PROVE  m \in KcpMessages /\ KcpTruthful(m)'
<1>1. PICK p \in Ends : p = Kcp!peer(e) /\ Kcp!peer(p) = e
  BY KcpPeers
<1>2. m = [kind |-> cmd, to |-> p, receivingNext |-> rcv[e].next,
           sendingNext |-> snd[e].una, close |-> st[e] = "ReadyToClose"]
  BY <1>1 DEF Kcp!CmdSegment, Kcp!Option
<1>3. rcv[e].next \in Nat /\ snd[e].una \in Nat
  BY KcpNats DEF KcpInv
<1>4. m \in KcpMessages
  BY <1>2, <1>3 DEF KcpMessages
<1>5. /\ m.kind \notin {"data", "ack"} /\ Kcp!peer(m.to) = e
      /\ m.sendingNext = snd[e].una /\ m.receivingNext = rcv[e].next
  BY <1>1, <1>2
<1> QED
  BY <1>3, <1>4, <1>5 DEF KcpTruthful

LEMMA KcpData ==
    ASSUME Kcp!KcpAssumption, KcpInv, NEW e \in Ends, NEW n \in snd[e].win,
           snd' = snd, rcv' = rcv, NEW m, m = Kcp!DataSegment(e, n)
    PROVE  m \in KcpMessages /\ KcpTruthful(m)'
<1>1. PICK p \in Ends : p = Kcp!peer(e) /\ Kcp!peer(p) = e
  BY KcpPeers
<1>2. m = [kind |-> "data", to |-> p, number |-> n, sendingNext |-> snd[e].una,
           close |-> st[e] = "ReadyToClose"]
  BY <1>1 DEF Kcp!DataSegment, Kcp!Option
<1>3. n \in Nat /\ n < snd[e].next /\ snd[e].una \in Nat
  BY KcpNats DEF KcpInv, KcpNumbers, KcpNumbered
<1>4. m \in KcpMessages
  BY <1>2, <1>3 DEF KcpMessages
<1>5. /\ m.kind = "data" /\ Kcp!peer(m.to) = e
      /\ m.sendingNext = snd[e].una /\ m.number = n
  BY <1>1, <1>2
<1> QED
  BY <1>3, <1>4, <1>5 DEF KcpTruthful

LEMMA KcpAcks ==
    ASSUME Kcp!KcpAssumption, KcpInv, NEW e \in Ends,
           snd' = snd, rcv' = rcv, NEW m, m = Kcp!AckSegment(e)
    PROVE  m \in KcpMessages /\ KcpTruthful(m)'
<1>1. PICK p \in Ends : p = Kcp!peer(e) /\ Kcp!peer(p) = e
  BY KcpPeers
<1>2. m = [kind |-> "ack", to |-> p, numbers |-> rcv[e].acks,
           receivingNext |-> rcv[e].next, window |-> rcv[e].next + RecvWindow,
           close |-> st[e] = "ReadyToClose"]
  BY <1>1 DEF Kcp!AckSegment, Kcp!AckNumbers, Kcp!Option
<1>3. /\ rcv[e].next \in Nat /\ rcv[e].acks \subseteq Nat
      /\ rcv[e].next + RecvWindow \in Nat
      /\ \A n \in rcv[e].acks : Kcp!Held(e, n)
  BY KcpNats, KcpBounds DEF KcpInv, KcpNumbers, KcpNumbered
<1>4. m \in KcpMessages
  BY <1>2, <1>3 DEF KcpMessages
<1>5. /\ m.kind = "ack" /\ Kcp!peer(m.to) = e
      /\ m.receivingNext = rcv[e].next /\ m.numbers = rcv[e].acks
  BY <1>1, <1>2
<1>6. \A n \in rcv[e].acks : Kcp!Held(e, n)'
  BY <1>3 DEF Kcp!Held
<1> QED
  BY <1>3, <1>4, <1>5, <1>6 DEF KcpTruthful

LEMMA KcpFlushSend ==
    ASSUME Kcp!KcpAssumption, KcpInv, NEW e \in Ends, NEW u \in Updaters,
           Kcp!FlushSend(e, u)
    PROVE  KcpInv'
<1>1. PICK due \in Kcp!Due(e) :
         Kcp!Send({Kcp!DataSegment(e, n) : n \in due} \cup {Kcp!CmdSegment(e, "ping")}
                     \cup (IF Kcp!AckDue(e) THEN {Kcp!AckSegment(e)} ELSE {}))
  BY DEF Kcp!FlushSend
<1>2. /\ UNCHANGED <<st, snd, rcv, inp, closing, writing, cleared, race>>
      /\ Kcp!UGoto(e, u, "loop")
  BY DEF Kcp!FlushSend
<1>3. due \subseteq snd[e].win
  BY DEF Kcp!Due
<1>4. \A m \in net' : \/ m \in net
                      \/ \E n \in snd[e].win : m = Kcp!DataSegment(e, n)
                      \/ m = Kcp!CmdSegment(e, "ping")
                      \/ m = Kcp!AckSegment(e)
  BY <1>1, <1>3 DEF Kcp!Send
<1>5. \A m \in net' : m \in net \/ (m \in KcpMessages /\ KcpTruthful(m)')
  BY <1>2, <1>4, KcpData, KcpCommands, KcpAcks
<1>6. net' \subseteq KcpMessages
  BY <1>5 DEF KcpInv, KcpTypes
<1>7. KcpEndStays /\ "loop" \in KcpFlushPcs
  BY <1>2, KcpSameEnds DEF KcpFlushPcs, KcpChecks
<1>8. upd' \in [Ends -> [Updaters -> KcpUpdaters]] /\ KcpTurns'
  BY <1>2, <1>7, KcpGoes DEF KcpInv
<1> QED
  BY <1>2, <1>5, <1>6, <1>8, KcpUpdaterMoves

LEMMA KcpFlushSet ==
    ASSUME Kcp!KcpAssumption, KcpInv, NEW e \in Ends, NEW u \in Updaters,
           Kcp!FlushSet(e, u)
    PROVE  KcpInv'
<1> DEFINE f == upd[e][u]
           pc == IF f.pc = "terminating" THEN "loop" ELSE Kcp!After(f.pc)
<1>1. /\ f.to # Kcp!Stay /\ Kcp!SetState(e, f.from, f.to)
      /\ Kcp!UGoto(e, u, pc)
      /\ UNCHANGED <<rcv, inp, closing, writing, net>>
  BY DEF Kcp!FlushSet
<1>2. f \in KcpUpdaters /\ f.from # "Terminated" /\ f.pc \in KcpChecks
  <2>1. upd \in [Ends -> [Updaters -> KcpUpdaters]] /\ KcpTurns
    BY DEF KcpInv, KcpTypes
  <2>2. KcpTurn(e, u)
    BY <2>1 DEF KcpTurns
  <2>3. upd[e][u].to # Kcp!Stay
    BY <1>1
  <2> QED
    BY <2>1, <2>2, <2>3 DEF KcpTurn
<1>3. f.to \in Kcp!States
  BY <1>1, <1>2, KcpStates DEF KcpUpdaters
<1>4. /\ st' \in [Ends -> Kcp!States] /\ snd' \in [Ends -> KcpSenders]
      /\ cleared' \subseteq Ends /\ race' \subseteq Ends
      /\ KcpEndStays /\ \A p \in Ends : KcpQuiet(p)
  BY <1>1, <1>2, <1>3, KcpSets DEF KcpInv
<1>5. pc \in KcpChecks \cup {"send"}
  BY <1>2, KcpAfter DEF KcpChecks
<1>6. pc \in KcpFlushPcs /\ pc \notin {"run", "off", "leave"}
  BY <1>5 DEF KcpFlushPcs, KcpChecks
<1> HIDE DEF f, pc
<1>7. upd' \in [Ends -> [Updaters -> KcpUpdaters]] /\ KcpTurns'
  BY <1>1, <1>4, <1>6, KcpGoes DEF KcpInv
<1>8. KcpTypes'
  BY <1>1, <1>4, <1>7 DEF KcpInv, KcpTypes
<1>9. KcpNumbers'
  BY <1>1, <1>4, <1>8, KcpSameInputs, KcpQuietKeeps DEF KcpInv, KcpNumbers
<1>10. KcpDecided'
  BY <1>1 DEF KcpInv, KcpDecided
<1> QED
  BY <1>7, <1>8, <1>9, <1>10 DEF KcpInv

\* A check of flush that is met: the next state is decided, and not after the end.
LEMMA KcpDecides ==
    ASSUME KcpTypes, KcpTurns, KcpEndStays, NEW e \in Ends, NEW u \in Updaters,
           NEW check \in KcpChecks, NEW to \in Kcp!States, st[e] # "Terminated",
           upd' = [upd EXCEPT ![e][u] = [pc |-> check, from |-> st[e], to |-> to]]
    PROVE  upd' \in [Ends -> [Updaters -> KcpUpdaters]] /\ KcpTurns'
<1>1. st[e] \in KcpTargets /\ to \in KcpTargets
  BY KcpStates DEF KcpTypes
<1>2. PICK r \in KcpUpdaters : /\ r = [pc |-> check, from |-> st[e], to |-> to]
                               /\ r.pc = check /\ r.from = st[e]
  <2>1. [pc |-> check, from |-> st[e], to |-> to] \in KcpUpdaters
    BY <1>1 DEF KcpUpdaters, KcpFlushPcs
  <2> QED
    BY <2>1
<1>3. check \notin {"run", "off", "leave"}
  BY DEF KcpChecks
<1>4. upd' = [upd EXCEPT ![e][u] = r]
  BY <1>2
<1>5. /\ u = "ping" => r.pc # "run" /\ (r.pc \in {"off", "leave"} => KcpEnded(e)')
      /\ r.to # Kcp!Stay => r.from # "Terminated" /\ r.pc \in KcpChecks
  BY <1>2, <1>3
<1> QED
  BY <1>4, <1>5, KcpUpdates

LEMMA KcpFlushDecide ==
    ASSUME Kcp!KcpAssumption, KcpInv, NEW e \in Ends, NEW u \in Updaters,
           Kcp!FlushDecide(e, u)
    PROVE  KcpInv'
<1>1. UNCHANGED <<st, snd, rcv, inp, closing, writing, cleared, race>>
  BY DEF Kcp!FlushDecide
<1>2. KcpEndStays /\ st[e] \in Kcp!States
  BY <1>1, KcpSameEnds DEF KcpInv, KcpTypes
<1>3. \/ \E pc \in KcpChecks : Kcp!UGoto(e, u, pc)
      \/ \E check \in KcpChecks, to \in Kcp!States :
            /\ st[e] # "Terminated"
            /\ upd' = [upd EXCEPT ![e][u] = [pc |-> check, from |-> st[e], to |-> to]]
  <2>1. {"close", "empty", "loop", "peer", "ready", "terminating"} \subseteq KcpChecks
        /\ {"Terminating", "Terminated"} \subseteq Kcp!States
    BY DEF KcpChecks, Kcp!States
  <2>2. Kcp!CloseTarget(st[e]) # Kcp!Stay =>
           Kcp!CloseTarget(st[e]) \in Kcp!States /\ st[e] # "Terminated"
    BY <1>2, KcpCloseTargets, KcpStates
  <2>3. \A check \in {"empty", "peer", "ready", "terminating"} :
           Kcp!Passed(e, check) => st[e] # "Terminated"
    BY DEF Kcp!Passed
  <2> QED
    BY <2>1, <2>2, <2>3 DEF Kcp!FlushDecide
<1>4. \A m \in net' : m \in net \/ m = Kcp!CmdSegment(e, "terminate")
  BY DEF Kcp!FlushDecide, Kcp!Send
<1>5. \A m \in net' : m \in net \/ (m \in KcpMessages /\ KcpTruthful(m)')
  BY <1>1, <1>4, KcpCommands
<1>6. net' \subseteq KcpMessages
  BY <1>5 DEF KcpInv, KcpTypes
<1>7. upd' \in [Ends -> [Updaters -> KcpUpdaters]] /\ KcpTurns'
  <2>1. \A pc \in KcpChecks : pc \in KcpFlushPcs /\ pc \notin {"run", "off", "leave"}
    BY DEF KcpFlushPcs, KcpChecks
  <2>2. ASSUME NEW pc \in KcpChecks, Kcp!UGoto(e, u, pc)
        PROVE  upd' \in [Ends -> [Updaters -> KcpUpdaters]] /\ KcpTurns'
    BY <1>2, <2>1, <2>2, KcpGoes DEF KcpInv
  <2>3. ASSUME NEW check \in KcpChecks, NEW to \in Kcp!States, st[e] # "Terminated",
               upd' = [upd EXCEPT ![e][u] = [pc |-> check, from |-> st[e], to |-> to]]
        PROVE  upd' \in [Ends -> [Updaters -> KcpUpdaters]] /\ KcpTurns'
    BY <1>2, <2>3, KcpDecides DEF KcpInv
  <2> QED
    BY <1>3, <2>2, <2>3
<1> QED
  BY <1>1, <1>5, <1>6, <1>7, KcpUpdaterMoves

-----------------------------------------------------------------------------
(* The invariant, and what it implies *)

LEMMA KcpInitInv ==
    ASSUME Kcp!KcpAssumption, Kcp!Init
    PROVE  KcpInv
<1>1. /\ st = [e \in Ends |-> "Active"]
      /\ snd = [e \in Ends |-> [win |-> {}, una |-> 0, next |-> 0,
                                remote |-> RemoteNext0, closed |-> FALSE, dying |-> FALSE]]
      /\ rcv = [e \in Ends |-> [win |-> {}, next |-> 0, acks |-> {}]]
      /\ upd = [e \in Ends |-> [u \in Updaters |->
                  IF u = "ping" THEN [Kcp!Idle EXCEPT !.pc = "loop"] ELSE Kcp!Idle]]
      /\ inp = [e \in Ends |-> Kcp!Idle] /\ closing = [e \in Ends |-> Kcp!Idle]
      /\ writing = {} /\ net = {} /\ cleared = {} /\ race = {}
  BY DEF Kcp!Init
<1>2. SendBuffer \in Nat /\ RemoteNext0 \in Nat /\ Cardinality({}) = 0
      /\ \A e \in Ends : Writes[e] \in Nat
  BY KcpBounds, FS_EmptySet
<1>3. /\ Kcp!Idle.pc = "off" /\ Kcp!Idle.to = Kcp!Stay
      /\ Kcp!Idle \in KcpUpdaters /\ Kcp!Idle \in KcpClosings
      /\ [Kcp!Idle EXCEPT !.pc = "loop"] \in KcpUpdaters
      /\ [Kcp!Idle EXCEPT !.pc = "loop"].pc = "loop"
      /\ [Kcp!Idle EXCEPT !.pc = "loop"].to = Kcp!Stay
  BY KcpStates DEF Kcp!Idle, KcpUpdaters, KcpClosings, KcpFlushPcs, KcpChecks
<1>4. KcpTypes
  <2>1. st \in [Ends -> Kcp!States]
    BY <1>1 DEF Kcp!States
  <2>2. snd \in [Ends -> KcpSenders] /\ rcv \in [Ends -> KcpReceivers]
    BY <1>1, <1>2 DEF KcpSenders, KcpReceivers
  <2>3. upd \in [Ends -> [Updaters -> KcpUpdaters]]
    BY <1>1, <1>3
  <2>4. closing \in [Ends -> KcpClosings] /\ inp \in [Ends -> KcpInputs]
    BY <1>1, <1>3 DEF KcpInputs
  <2> QED
    BY <1>1, <2>1, <2>2, <2>3, <2>4 DEF KcpTypes
<1>5. /\ \A e \in Ends : /\ snd[e].una = 0 /\ snd[e].next = 0 /\ snd[e].win = {}
                         /\ rcv[e].next = 0 /\ rcv[e].win = {} /\ rcv[e].acks = {}
      /\ \A e \in Ends : inp[e].pc = "off" /\ inp[e].to = Kcp!Stay
      /\ \A e \in Ends : closing[e].pc = "off"
  BY <1>1, <1>3
<1>6. \A e \in Ends : \A n \in Nat : ~Kcp!Held(e, n)
  BY <1>5 DEF Kcp!Held
<1>7. KcpNumbers
  <2>1. KcpPackets
    BY <1>1, <1>5 DEF KcpPackets
  <2>2. KcpNumbered
    <3>1. \A e \in Ends : rcv[e].next <= snd[Kcp!peer(e)].next
      BY <1>5, KcpPeers
    <3>2. \A e \in Ends : Cardinality(snd[e].win) <= SendBuffer + 1
      <4>1. \A e \in Ends : Cardinality(snd[e].win) = 0
        BY <1>2, <1>5, Zenon
      <4> QED
        BY <1>2, <4>1
    <3>3. \A e \in Ends : snd[e].next <= Writes[e] /\ e \notin writing
      BY <1>1, <1>2, <1>5
    <3> QED
      BY <1>5, <3>1, <3>2, <3>3 DEF KcpNumbered
  <2>3. KcpListed
    BY <1>6, KcpPeers DEF KcpListed
  <2>4. Kcp!AckedIsHeld
    BY <1>5 DEF Kcp!AckedIsHeld
  <2> QED
    BY <2>1, <2>2, <2>3, <2>4 DEF KcpNumbers
<1>8. KcpTurns
  <2>1. ASSUME NEW e \in Ends, NEW u \in Updaters
        PROVE  KcpTurn(e, u)
    <3>1. upd[e][u].to = Kcp!Stay /\ (u = "ping" => upd[e][u].pc = "loop")
      BY <1>1, <1>3
    <3> QED
      BY <3>1 DEF KcpTurn
  <2> QED
    BY <2>1 DEF KcpTurns
<1>9. KcpDecided
  BY <1>5 DEF KcpDecided
<1> QED
  BY <1>4, <1>7, <1>8, <1>9 DEF KcpInv

LEMMA KcpStep ==
    ASSUME Kcp!KcpAssumption, KcpInv, [Kcp!Next]_Kcp!vars
    PROVE  KcpInv'
<1>1. ASSUME NEW e \in Ends, Kcp!InputStep(e)
      PROVE  KcpInv'
  BY <1>1, KcpReceive, KcpInputDecide, KcpInputSet, KcpInputProcess DEF Kcp!InputStep
<1>2. ASSUME NEW e \in Ends, Kcp!UserStep(e)
      PROVE  KcpInv'
  BY <1>2, KcpClose, KcpCloseSet, KcpTerminate, KcpWrite, KcpPush, KcpRead
     DEF Kcp!UserStep
<1>3. ASSUME NEW e \in Ends, NEW u \in Updaters, Kcp!UpdaterStep(e, u)
      PROVE  KcpInv'
  BY <1>3, KcpUpdaterRun, KcpFlushOn, KcpFlushDecide, KcpFlushSet, KcpFlushSend
     DEF Kcp!UpdaterStep
<1>4. CASE UNCHANGED Kcp!vars
  <2>1. UNCHANGED <<st, snd, rcv, upd, inp, closing, writing, net, cleared, race>>
    BY <1>4 DEF Kcp!vars
  <2>2. KcpEndStays
    BY <2>1, KcpSameEnds
  <2>3. upd' \in [Ends -> [Updaters -> KcpUpdaters]] /\ KcpTurns'
    BY <2>1, <2>2, KcpUpdatersStay DEF KcpInv
  <2>4. net' \subseteq KcpMessages
    BY <2>1 DEF KcpInv, KcpTypes
  <2> QED
    BY <2>1, <2>3, <2>4, KcpUpdaterMoves
<1> QED
  BY <1>1, <1>2, <1>3, <1>4 DEF Kcp!Next

LEMMA KcpImplies ==
    ASSUME Kcp!KcpAssumption, KcpInv
    PROVE  /\ Kcp!TypeOK /\ Kcp!AckedIsHeld /\ Kcp!HeldIsAcknowledged
           /\ Kcp!WrittenHasFlusher
<1>1. Kcp!TypeOK
  <2>1. ASSUME NEW e \in Ends
        PROVE  /\ snd[e].next \in 0 .. Writes[e]
               /\ snd[e].una \in 0 .. snd[e].next
               /\ snd[e].win \subseteq snd[e].una .. snd[e].next - 1
               /\ Kcp!Cardinality(snd[e].win) <= SendBuffer + 1
               /\ rcv[e].next \in 0 .. snd[Kcp!peer(e)].next
               /\ rcv[e].win \subseteq rcv[e].next .. snd[Kcp!peer(e)].next - 1
               /\ rcv[e].win \subseteq rcv[e].next .. rcv[e].next + RecvWindow - 1
               /\ rcv[e].acks \subseteq 0 .. snd[Kcp!peer(e)].next - 1
    <3>1. PICK p \in Ends : p = Kcp!peer(e)
      BY KcpPeers
    <3>2. /\ snd[e].next \in Nat /\ snd[e].una \in Nat /\ snd[e].win \subseteq Nat
          /\ rcv[e].next \in Nat /\ rcv[e].win \subseteq Nat /\ rcv[e].acks \subseteq Nat
          /\ snd[p].next \in Nat /\ Writes[e] \in Nat /\ RecvWindow \in Nat
      BY KcpNats, KcpBounds DEF KcpInv
    <3>3. /\ snd[e].una <= snd[e].next /\ snd[e].next <= Writes[e]
          /\ \A n \in snd[e].win : snd[e].una <= n /\ n < snd[e].next
          /\ Kcp!Cardinality(snd[e].win) <= SendBuffer + 1
          /\ rcv[e].next <= snd[p].next
          /\ \A n \in rcv[e].win : /\ rcv[e].next <= n /\ n < snd[p].next
                                   /\ n < rcv[e].next + RecvWindow
          /\ \A n \in rcv[e].acks : Kcp!Held(e, n)
      BY <3>1, KcpCounts DEF KcpInv, KcpNumbers, KcpNumbered
    <3>4. \A n \in rcv[e].acks : n < snd[p].next
      BY <3>2, <3>3 DEF Kcp!Held
    <3> QED
      BY <3>1, <3>2, <3>3, <3>4
  <2> QED
    BY <2>1 DEF KcpInv, KcpTypes, Kcp!TypeOK
<1>2. Kcp!HeldIsAcknowledged
  <2>1. SUFFICES ASSUME NEW e \in Ends, NEW n \in snd[e].win, Kcp!Held(Kcp!peer(e), n)
                 PROVE  n \in rcv[Kcp!peer(e)].acks
    BY DEF Kcp!HeldIsAcknowledged
  <2>2. n \in Nat /\ snd[e].una <= n
    BY KcpNats DEF KcpInv, KcpNumbers, KcpNumbered
  <2> QED
    BY <2>1, <2>2 DEF KcpInv, KcpNumbers, KcpListed
<1>3. Kcp!WrittenHasFlusher
  <2>1. SUFFICES ASSUME NEW e \in Ends, ~Kcp!isTerminating(e), e \notin race
                 PROVE  \E u \in DOMAIN upd[e] : upd[e][u].pc \notin {"off", "leave"}
    BY DEF Kcp!WrittenHasFlusher
  <2>2. "ping" \in Updaters
    BY DEF Kcp!KcpAssumption
  <2>3. KcpTurn(e, "ping") /\ ~KcpEnded(e)
    BY <2>1, <2>2 DEF KcpInv, KcpTurns, KcpEnded, Kcp!isTerminating
  <2>4. DOMAIN upd[e] = Updaters
    BY DEF KcpInv, KcpTypes
  <2> QED
    BY <2>2, <2>3, <2>4 DEF KcpTurn
<1> QED
  BY <1>1, <1>2, <1>3 DEF KcpInv, KcpNumbers

\* The sender forgets only what the receiver holds, whatever the network loses,
\* repeats or reorders (SendingWorker.ProcessSegment), and what it still repeats
\* is to be acknowledged (ReceivingWorker.ProcessSegment).
THEOREM KcpAcksTrue ==
    ASSUME Kcp!KcpAssumption
    PROVE  Kcp!Spec => []AcksTrue
<1>1. Kcp!Init => KcpInv
  BY KcpInitInv
<1>2. KcpInv /\ [Kcp!Next]_Kcp!vars => KcpInv'
  BY KcpStep
<1>3. KcpInv => AcksTrue
  BY KcpImplies DEF AcksTrue
<1> QED
  BY <1>1, <1>2, <1>3, PTL DEF Kcp!Spec

\* Whatever the two updaters, Input and Close do in between, written segments
\* have an updater that will flush them (Updater.WakeUp, Updater.run).
THEOREM KcpWrittenHasFlusher ==
    ASSUME Kcp!KcpAssumption
    PROVE  Kcp!Spec => []WrittenHasFlusher
<1>1. Kcp!Init => KcpInv
  BY KcpInitInv
<1>2. KcpInv /\ [Kcp!Next]_Kcp!vars => KcpInv'
  BY KcpStep
<1>3. KcpInv => WrittenHasFlusher
  BY KcpImplies DEF WrittenHasFlusher
<1> QED
  BY <1>1, <1>2, <1>3, PTL DEF Kcp!Spec
=============================================================================
