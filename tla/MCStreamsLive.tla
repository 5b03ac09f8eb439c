--------------------------- MODULE MCStreamsLive ---------------------------
(***************************************************************************)
(* What must eventually happen in Pipe, XhttpSession and StatsChannel, for *)
(* TLC.  They share no state: a behaviour picks one case at the start and  *)
(* runs it alone, under the fairness of its component.                     *)
(* Of Pipe, the constants of the .cfg are the case "pipe": a pipe without  *)
(* room, where every write waits for its read.                             *)
(***************************************************************************)
EXTENDS Pipe

CONSTANT None

VARIABLES
    case,
    sessions, made, q, connected, reaper, post, get, worker, rd, \* XhttpSession
    uploaded, closedPosts,
    life, channel, sending, unpublished, cancelled, subscribers, \* StatsChannel
    news, queue, got, shut, g, spawned, panicked, taken, left, missed

pipeVars == vars
xhttpVars == <<sessions, made, q, connected, reaper, post, get, worker, rd,
               uploaded, closedPosts>>
statsVars == <<life, channel, sending, unpublished, cancelled, subscribers, news,
               queue, got, shut, g, spawned, panicked, taken, left, missed>>

\* Two packets; neither the worker nor the reaper gives up.
Posts == {[kind |-> "data", seq |-> n, copy |-> 1] : n \in 0 .. 1}
Upload == INSTANCE XhttpSession WITH MaxSessions <- 1, PayloadLen <- 2,
    maxPackets <- 2, WorkerQuits <- FALSE, Timers <- FALSE,
    delivered <- uploaded, shut <- closedPosts

\* Two subscribers of a channel that waits for them.
Msgs == {"m1", "m2"}
Subs == {"s1", "s2"}
Blocking == INSTANCE StatsChannel WITH blocking <- TRUE, bufferSize <- 1,
    subsLimit <- 0

ASSUME LiveAssumption == Upload!PostsAssumption /\ Blocking!ChannelAssumption

LiveInit == case \in {"pipe", "upload", "stats"} /\ Init /\ Upload!Init /\ Blocking!Init

LiveNext ==
    /\ UNCHANGED case
    /\ \/ /\ case = "pipe" /\ Next
          /\ UNCHANGED <<xhttpVars, statsVars>>
       \/ /\ case = "upload" /\ Upload!Next
          /\ UNCHANGED <<pipeVars, statsVars>>
       \/ /\ case = "stats" /\ Blocking!Next
          /\ UNCHANGED <<pipeVars, xhttpVars>>

\* Fairness of the components, of the one that runs.
OnPipe(A) == case = "pipe" /\ A
PipeFairness ==
    /\ \A t \in Readers : WF_pipeVars(OnPipe(ReaderStep(t)))
    /\ \A t \in Writers : /\ WF_pipeVars(OnPipe(writeMultiBufferInternal(t)))
                          /\ WF_pipeVars(OnPipe(SignalRead(t)))
                          /\ SF_pipeVars(OnPipe(WaitWrite(t)))

OnUpload(A) == case = "upload" /\ A
XhttpFairness ==
    /\ \A p \in Posts : WF_xhttpVars(OnUpload(Upload!PostStep(p)))
    /\ \A s \in Upload!Ids : WF_xhttpVars(OnUpload(Upload!ReaperStep(s)))
    /\ WF_xhttpVars(OnUpload(Upload!GetStep))
    /\ WF_xhttpVars(OnUpload(/\ Upload!GetEnds
                             /\ worker \in {"close", "drain", "closed"}))
    /\ WF_xhttpVars(OnUpload(Upload!WorkerStep))
    /\ WF_xhttpVars(OnUpload(Upload!Read))

OnStats(A) == case = "stats" /\ Blocking!Live /\ A
StatsFairness ==
    /\ WF_statsVars(OnStats(Blocking!Goroutine))
    /\ \A m \in Msgs : WF_statsVars(OnStats(Blocking!PublishWaiting(m)))
    /\ \A s \in Subs : WF_statsVars(OnStats(Blocking!Receive(s)))

LiveSpec ==
    /\ LiveInit
    /\ [][LiveNext]_<<case, pipeVars, xhttpVars, statsVars>>
    /\ PipeFairness /\ XhttpFairness /\ StatsFairness

-----------------------------------------------------------------------------
\* A pipe that is read keeps moving: a blocked write returns, and what was
\* accepted is read (pipe.ReadMultiBuffer, WriteMultiBuffer).
PipeMoves == BlockedWriteReturns /\ EverythingRead

\* Every byte the upload queue accepted in turn is read (uploadQueue.Read).
UploadArrives == Upload!UploadArrives

\* Close ends the goroutine of a channel (Channel.Close).
CloseEnds == Blocking!CloseEnds
=============================================================================
