----------------------------- MODULE MCStreams -----------------------------
(***************************************************************************)
(* Streams, and MultiBuffer beside it, for TLC.  They share no state: a    *)
(* behaviour picks one case at the start and runs it alone, the other      *)
(* components stay in their initial state.  The constants of the .cfg are, *)
(* for Pipe, those of its two cases together, for XhttpSession those of    *)
(* the case "order" and for StatsChannel those of the case "blocking".     *)
(***************************************************************************)
EXTENDS Streams

VARIABLES mb, out, next, met   \* MultiBuffer

pipeVars == vars
bufferVars == <<mb, out, next, met>>
xhttpVars == <<sessions, made, q, connected, reaper, post, get, worker, rd,
               uploaded, closedPosts>>
statsVars == <<life, channel, sending, unpublished, cancelled, subscribers, news,
               queue, got, shut, g, spawned, panicked, taken, left, missed>>

\* Pipe: two writes of up to two bytes wait while the pipe holds more than
\* one; three writes of one byte are dropped when there is no room.
Blocked == INSTANCE Pipe WITH discardOverflow <- FALSE, MaxWrites <- 2
Discard == INSTANCE Pipe WITH discardOverflow <- TRUE, MaxSize <- 1

\* Up to ten bytes in buffers of three.
Size == 3
MaxBytes == 10
Buffer == INSTANCE MultiBuffer

\* XhttpSession: four packets through a channel of one; two packets, one of
\* them sent twice, with the reaper and a second session; two stream uploads.
Data(n, c) == [kind |-> "data", seq |-> n, copy |-> c]
FourPosts == {Data(n, 1) : n \in 0 .. 3}
Repeated == {Data(0, 1), Data(1, 1), Data(1, 2)}
Bodies == {[kind |-> "stream", seq |-> 0, copy |-> c] : c \in {1, 2}}
Repeat == INSTANCE XhttpSession WITH Posts <- Repeated, MaxSessions <- 2,
    PayloadLen <- 1, WorkerQuits <- TRUE, Timers <- TRUE,
    delivered <- uploaded, shut <- closedPosts
Body == INSTANCE XhttpSession WITH Posts <- Bodies, MaxSessions <- 2,
    PayloadLen <- 1, WorkerQuits <- FALSE, Timers <- TRUE,
    delivered <- uploaded, shut <- closedPosts

\* StatsChannel: a channel that waits for its subscribers, and one for a
\* single subscriber that spawns goroutines instead.
Spawning == INSTANCE StatsChannel WITH blocking <- FALSE, subsLimit <- 1

ASSUME StreamsAssumption ==
    /\ Blocked!OptionAssumption /\ Discard!OptionAssumption
    /\ Buffer!SizeAssumption
    /\ Xhttp!PostsAssumption /\ Repeat!PostsAssumption /\ Body!PostsAssumption
    /\ Stats!ChannelAssumption /\ Spawning!ChannelAssumption

StreamsInit ==
    /\ case \in {"pipe", "discard", "buffer", "order", "repeat", "body",
                 "blocking", "spawning"}
    /\ Init
    /\ Buffer!Init
    /\ CASE case = "repeat" -> Repeat!Init
         [] case = "body" -> Body!Init
         [] OTHER -> Xhttp!Init
    /\ Stats!Init

StreamsNext ==
    /\ UNCHANGED case
    /\ \/ /\ \/ case = "pipe" /\ Blocked!Next
             \/ case = "discard" /\ Discard!Next
          /\ UNCHANGED <<bufferVars, xhttpVars, statsVars>>
       \/ /\ case = "buffer" /\ Buffer!Next
          /\ UNCHANGED <<pipeVars, xhttpVars, statsVars>>
       \/ /\ \/ case = "order" /\ Xhttp!Next
             \/ case = "repeat" /\ Repeat!Next
             \/ case = "body" /\ Body!Next
          /\ UNCHANGED <<pipeVars, bufferVars, statsVars>>
       \/ /\ \/ case = "blocking" /\ Stats!Next
             \/ case = "spawning" /\ Spawning!Next
          /\ UNCHANGED <<pipeVars, bufferVars, xhttpVars>>

StreamsSpec ==
    StreamsInit /\ [][StreamsNext]_<<case, pipeVars, bufferVars, xhttpVars, statsVars>>

-----------------------------------------------------------------------------
\* No operation on a MultiBuffer loses, repeats or reorders a byte, and Compact
\* leaves no two neighbours that would fit into one buffer.
StreamIntact ==
    case = "buffer" => Buffer!TypeOK /\ Buffer!StreamIntact /\ Buffer!CompactTight
=============================================================================
