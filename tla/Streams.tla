------------------------------ MODULE Streams ------------------------------
(***************************************************************************)
(* The carriers of bytes and messages side by side, Pipe, XhttpSession and  *)
(* StatsChannel, which share no state, and what each of them guarantees.    *)
(***************************************************************************)
EXTENDS Pipe

CONSTANTS Posts, None, MaxSessions, PayloadLen, maxPackets, WorkerQuits, Timers
VARIABLES sessions, made, q, connected, reaper, post, get, worker, rd,
          uploaded, closedPosts
Xhttp == INSTANCE XhttpSession WITH delivered <- uploaded, shut <- closedPosts

CONSTANTS Msgs, Subs, blocking, bufferSize, subsLimit
VARIABLES life, channel, sending, unpublished, cancelled, subscribers, news,
          queue, got, shut, g, spawned, panicked, taken, left, missed
Stats == INSTANCE StatsChannel

VARIABLE case   \* the component that runs, and how

-----------------------------------------------------------------------------
(* NobodyStranded and ImplementsStream are Pipe's own; the others are those *)
(* of their component, with its types, about the component that runs.       *)

\* The upload is read in order and once, however the POSTs arrived
\* (uploadQueue.Read).
ReadInOrder == /\ case = "order" => Xhttp!TypeOK
               /\ case \in {"order", "repeat"} => Xhttp!ReadInOrder

\* A closed upload queue leaves no request body open (uploadQueue.Close).
BodyClosed == case = "body" => Xhttp!BodyClosed

\* Subscribers miss nothing that was taken while they were on the list and
\* get nothing twice, and those of a blocking channel see one order
\* (Channel.Start, broadcast).
SubscribersServed ==
    /\ case \in {"blocking", "spawning"} => Stats!TypeOK /\ Stats!NothingPassedBy
    /\ case = "blocking" => Stats!OneOrder
=============================================================================
