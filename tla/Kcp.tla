-------------------------------- MODULE Kcp ---------------------------------
(***************************************************************************)
(* An mKCP connection of Xray (transport/internet/kcp): two ends, each with *)
(* a sending and a receiving worker, over UDP, which loses, delays, reorders *)
(* and repeats packets.  Besides the goroutine that feeds Input, each end    *)
(* runs a data updater (while there is something to send) and a ping updater *)
(* that both call flush, and the user's reads, writes and Close.  The state  *)
(* of the connection is read and set by all of them with no common lock: a   *)
(* transition is decided in one step and made in a later one.                *)
(*                                                                           *)
(* Time is abstracted: a deadline (30 s idle, 15 s, 8 s, 4 s) may have       *)
(* passed whenever flush looks.  Retransmission timers, round-trip times and *)
(* congestion control only choose which segments a flush sends, so any       *)
(* subset may be sent.  Segment numbers do not wrap (fewer than 2^31         *)
(* segments).  Waiting reads and writes look again after 16 s at the latest, *)
(* so their notifications are left out.  `cleared' and `race' are history.   *)
(***************************************************************************)
EXTENDS Integers, FiniteSets, FiniteSetsExt

CONSTANTS
    Ends,        \* the two ends
    Writes,      \* Writes[e]: bound on the segments e writes
    Closers,     \* ends whose user may call Close
    Late,        \* deadlines of flush that may pass
    Updaters,    \* updaters that run: "ping", and "data" when modelled apart
    SendBuffer,  \* GetSendingBufferSize
    RecvWindow,  \* GetReceivingInFlightSize
    RemoteNext0, \* remoteNextNumber at the start (32)
    InFlight,    \* GetSendingInFlightSize
    Magic,       \* the factor of the window in Flush (20)
    MaxNet       \* bound: packets in the network

ASSUME KcpAssumption ==
    /\ IsFiniteSet(Ends) /\ Cardinality(Ends) = 2
    /\ Writes \in [Ends -> Nat]
    /\ Closers \subseteq Ends
    /\ Late \subseteq {"idle", "terminating", "peer", "ready"}
    /\ "ping" \in Updaters /\ Updaters \subseteq {"ping", "data"}
    /\ {SendBuffer, RecvWindow, RemoteNext0, InFlight, Magic, MaxNet} \subseteq Nat

VARIABLES
    st,       \* st[e]: Connection.state
    snd,      \* snd[e]: SendingWorker
    rcv,      \* rcv[e]: ReceivingWorker
    upd,      \* upd[e][u]: updater u, where it is and the state it will set
    inp,      \* inp[e]: Input, likewise, with its segment
    usr,      \* usr[e]: Close, likewise
    writing,  \* ends whose write saw StateActive and is about to Push
    net,      \* packets under way
    cleared,  \* ends whose CloseWrite dropped segments
    race      \* ends where a transition was made from a state it was not
              \* decided in

vars == <<st, snd, rcv, upd, inp, usr, writing, net, cleared, race>>

States == {"Active", "ReadyToClose", "PeerClosed", "Terminating",
           "PeerTerminating", "Terminated"}
Stay == "none"
Idle == [pc |-> "off", from |-> Stay, to |-> Stay]
peer(e) == CHOOSE p \in Ends : p # e

Init ==
    /\ st = [e \in Ends |-> "Active"]
    /\ snd = [e \in Ends |-> [win |-> {}, una |-> 0, next |-> 0,
                              remote |-> RemoteNext0, closed |-> FALSE,
                              dying |-> FALSE]]
    /\ rcv = [e \in Ends |-> [win |-> {}, next |-> 0, acks |-> {}]]
    /\ upd = [e \in Ends |-> [u \in Updaters |->
                IF u = "ping" THEN [Idle EXCEPT !.pc = "loop"] ELSE Idle]]
    /\ inp = [e \in Ends |-> Idle]
    /\ usr = [e \in Ends |-> Idle]
    /\ writing = {}
    /\ net = {}
    /\ cleared = {}
    /\ race = {}

-----------------------------------------------------------------------------
(* Segments *)
Option(e) == st[e] = "ReadyToClose"

DataSegment(e, n) == [kind |-> "data", to |-> peer(e), number |-> n,
                      sendingNext |-> snd[e].una, close |-> Option(e)]
\* AckList.Flush: when a segment is written it carries the numbers that are
\* due and, as candidates, those that are not yet due again.
AckNumbers(e) == rcv[e].acks
AckSegment(e) == [kind |-> "ack", to |-> peer(e), numbers |-> AckNumbers(e),
                  receivingNext |-> rcv[e].next,
                  window |-> rcv[e].next + RecvWindow, close |-> Option(e)]
CmdSegment(e, cmd) == [kind |-> cmd, to |-> peer(e),
                       receivingNext |-> rcv[e].next,
                       sendingNext |-> snd[e].una, close |-> Option(e)]

\* The network takes some of the packets and loses the others.
Send(segs) == \E kept \in SUBSET segs :
                 /\ Cardinality(net \cup kept) <= MaxNet
                 /\ net' = net \cup kept

(* Updater.WakeUp: starts the data updater unless it holds the semaphore. *)
WakeUp(e) ==
    upd' = IF "data" \in Updaters /\ upd[e]["data"].pc = "off"
           THEN [upd EXCEPT ![e]["data"].pc = "run"] ELSE upd

(* SendingWindow.Clear and Remove, then FindFirstUnacknowledged *)
Cleared(w, una) == {n \in w.win : n >= una}
Removed(win, numbers) == win \ numbers
FirstUnacknowledged(w, win) == IF win = {} THEN w.next ELSE Min(win)
ProcessReceivingNext(w, una, numbers) ==
    LET win == Removed(Cleared(w, una), numbers)
    IN  [w EXCEPT !.win = win, !.una = FirstUnacknowledged(w, win)]

-----------------------------------------------------------------------------
(* SetState: the store, and CloseWrite for every state but ReadyToClose;    *)
(* StateTerminated also starts a goroutine for Terminate.  `from' is the    *)
(* state in which the caller decided.                                       *)
SetState(e, from, to) ==
    /\ st' = [st EXCEPT ![e] = to]
    /\ race' = IF st[e] = from THEN race ELSE race \cup {e}
    /\ IF to = "ReadyToClose"
       THEN UNCHANGED <<snd, cleared>>
       ELSE /\ snd' = [snd EXCEPT ![e].win = {},
                                  ![e].dying = @ \/ to = "Terminated"]
            /\ cleared' = IF snd[e].win = {} THEN cleared ELSE cleared \cup {e}

Terminate(e) ==
    /\ snd[e].dying
    /\ snd' = [snd EXCEPT ![e].win = {}, ![e].closed = TRUE, ![e].dying = FALSE]
    /\ cleared' = IF snd[e].win = {} THEN cleared ELSE cleared \cup {e}
    /\ UNCHANGED <<st, rcv, upd, inp, usr, writing, net, race>>

CloseTarget(s) == CASE s = "Active" -> "ReadyToClose"
                    [] s = "PeerClosed" -> "Terminating"
                    [] s = "PeerTerminating" -> "Terminated"
                    [] OTHER -> Stay

PeerClosedTarget(s) == CASE s = "ReadyToClose" -> "Terminating"
                         [] s = "Active" -> "PeerClosed"
                         [] OTHER -> Stay

TerminateTarget(s) == CASE s \in {"Active", "PeerClosed"} -> "PeerTerminating"
                        [] s = "ReadyToClose" -> "Terminating"
                        [] s = "Terminating" -> "Terminated"
                        [] OTHER -> Stay

\* Close looks at the state, and sets the next one.
Close(e) ==
    /\ e \in Closers
    /\ usr[e].pc = "off"
    /\ CloseTarget(st[e]) # Stay
    /\ usr' = [usr EXCEPT ![e] = [pc |-> "set", from |-> st[e],
                                  to |-> CloseTarget(st[e])]]
    /\ UNCHANGED <<st, snd, rcv, upd, inp, writing, net, cleared, race>>

CloseSet(e) ==
    /\ usr[e].pc = "set"
    /\ SetState(e, usr[e].from, usr[e].to)
    /\ usr' = [usr EXCEPT ![e] = Idle]
    /\ UNCHANGED <<rcv, upd, inp, writing, net>>

-----------------------------------------------------------------------------
(* Reads and writes of the user *)
Write(e) ==
    /\ e \notin writing
    /\ st[e] = "Active"
    /\ snd[e].next < Writes[e]
    /\ writing' = writing \cup {e}
    /\ UNCHANGED <<st, snd, rcv, upd, inp, usr, net, cleared, race>>

Push(e) ==
    /\ e \in writing
    /\ writing' = writing \ {e}
    /\ IF snd[e].closed \/ Cardinality(snd[e].win) > SendBuffer
       THEN UNCHANGED <<snd, upd>>
       ELSE /\ snd' = [snd EXCEPT ![e].win = @ \cup {snd[e].next},
                                  ![e].next = @ + 1]
            /\ WakeUp(e)
    /\ UNCHANGED <<st, rcv, inp, usr, net, cleared, race>>

\* ReadMultiBuffer takes the segments that are in order, all at once.
ReadyTo(e) == CHOOSE m \in rcv[e].next .. rcv[e].next + RecvWindow :
                 /\ (rcv[e].next .. m - 1) \subseteq rcv[e].win
                 /\ m \notin rcv[e].win
Read(e) ==
    /\ st[e] \notin {"ReadyToClose", "Terminating", "Terminated"}
    /\ rcv[e].next \in rcv[e].win
    /\ rcv' = [rcv EXCEPT ![e].win = @ \ (rcv[e].next .. ReadyTo(e) - 1),
                          ![e].next = ReadyTo(e)]
    /\ WakeUp(e)
    /\ UNCHANGED <<st, snd, inp, usr, writing, net, cleared, race>>

-----------------------------------------------------------------------------
(* Input.  The option first, then the command, then the workers.            *)
\* ReceivingWorker.ProcessSegment: outside the window a segment is dropped;
\* inside it is acknowledged, again if it is there already.
AckedOneLess(acks, una, m) == {n \in acks : n > una} \cup {m.number}
Acked(acks, una, m) == {n \in acks : n >= una} \cup {m.number}
ProcessData(e, m) ==
    /\ rcv' = IF m.number \in rcv[e].next .. rcv[e].next + RecvWindow - 1
              THEN [rcv EXCEPT ![e].acks = Acked(@, m.sendingNext, m),
                               ![e].win = @ \cup {m.number}]
              ELSE rcv
    /\ WakeUp(e)
    /\ UNCHANGED snd

\* SendingWorker.ProcessSegment
ProcessAck(e, m) ==
    /\ snd' = IF snd[e].closed THEN snd
              ELSE [snd EXCEPT ![e] = ProcessReceivingNext(
                      [snd[e] EXCEPT !.remote = Max({snd[e].remote, m.window})],
                      m.receivingNext, m.numbers)]
    /\ WakeUp(e)
    /\ UNCHANGED rcv

ProcessCmd(e, m) ==
    /\ snd' = [snd EXCEPT ![e] = ProcessReceivingNext(@, m.receivingNext, {})]
    /\ rcv' = [rcv EXCEPT ![e].acks = {n \in @ : n >= m.sendingNext}]
    /\ UNCHANGED upd

Process(e, m) == CASE m.kind = "data" -> ProcessData(e, m)
                   [] m.kind = "ack"  -> ProcessAck(e, m)
                   [] OTHER           -> ProcessCmd(e, m)

\* A packet arrives; the network may keep a copy of it.  Only a close option
\* or a terminate command makes Input look at the state.
Receive(e) ==
    /\ inp[e].pc = "off"
    /\ \E m \in net :
          /\ m.to = e
          /\ net' \in {net, net \ {m}}
          /\ IF m.close \/ m.kind = "terminate"
             THEN /\ inp' = [inp EXCEPT ![e] = [pc |-> "option", from |-> Stay,
                                                to |-> Stay, seg |-> m]]
                  /\ UNCHANGED <<snd, rcv, upd>>
             ELSE Process(e, m) /\ UNCHANGED inp
    /\ UNCHANGED <<st, usr, writing, cleared, race>>

InputTarget(pc, m, s) ==
    IF pc = "option" THEN IF m.close THEN PeerClosedTarget(s) ELSE Stay
                     ELSE IF m.kind = "terminate" THEN TerminateTarget(s)
                                                  ELSE Stay

InputDecide(e) ==
    LET i == inp[e]
        to == InputTarget(i.pc, i.seg, st[e])
        next == IF i.pc = "option" THEN "command" ELSE "process"
    IN  /\ i.pc \in {"option", "command"} /\ i.to = Stay
        /\ inp' = [inp EXCEPT ![e] =
              IF to = Stay THEN [i EXCEPT !.pc = next]
                           ELSE [i EXCEPT !.from = st[e], !.to = to]]
        /\ UNCHANGED <<st, snd, rcv, upd, usr, writing, net, cleared,
                       race>>

InputSet(e) ==
    LET i == inp[e]
        next == IF i.pc = "option" THEN "command" ELSE "process"
    IN  /\ i.to # Stay
        /\ SetState(e, i.from, i.to)
        /\ inp' = [inp EXCEPT ![e] = [i EXCEPT !.pc = next, !.to = Stay]]
        /\ UNCHANGED <<rcv, upd, usr, writing, net>>

InputProcess(e) ==
    /\ inp[e].pc = "process"
    /\ Process(e, inp[e].seg)
    /\ inp' = [inp EXCEPT ![e] = Idle]
    /\ UNCHANGED <<st, usr, writing, net, cleared, race>>

-----------------------------------------------------------------------------
(* The updaters: run, then flush while shouldContinue.                      *)
isTerminating(e) == st[e] \in {"Terminating", "Terminated"}
SomethingToSend(e) == snd[e].win # {} \/ rcv[e].acks # {}
shouldContinueAlike(e, u) == ~isTerminating(e) /\ SomethingToSend(e)
shouldContinueEarly(e, u) ==
    ~isTerminating(e) /\ (u = "ping" \/ SomethingToSend(e))
shouldContinue(e, u) ==
    IF u = "ping" THEN st[e] # "Terminated"
                  ELSE ~isTerminating(e) /\ SomethingToSend(e)
UGoto(e, u, pc) == upd' = [upd EXCEPT ![e][u] = [Idle EXCEPT !.pc = pc]]

\* run: shouldTerminate before the loop, and the Signal it defers.
UpdaterRun(e, u) ==
    /\ \/ /\ upd[e][u].pc = "run"
          /\ UGoto(e, u, IF isTerminating(e) THEN "leave" ELSE "loop")
       \/ /\ upd[e][u].pc = "loop"
          /\ ~shouldContinue(e, u)
          /\ UGoto(e, u, "leave")
       \/ /\ upd[e][u].pc = "leave"
          /\ UGoto(e, u, "off")
    /\ UNCHANGED <<st, snd, rcv, inp, usr, writing, net, cleared, race>>

\* The checks of flush in their order; "close" is the one inside Close.
Checks == <<"loop", "close", "empty", "terminating", "peer", "ready">>
Passed(e, check) ==
    CASE check = "loop"  -> st[e] = "Active" /\ "idle" \in Late
      [] check = "close" -> FALSE
      [] check = "empty" -> st[e] = "ReadyToClose" /\ snd[e].win = {}
      [] check = "terminating" -> st[e] = "Terminating"
      [] check = "peer"  -> st[e] = "PeerTerminating" /\ "peer" \in Late
      [] check = "ready" -> st[e] = "ReadyToClose" /\ "ready" \in Late
Index(check) == CHOOSE j \in 1 .. 6 : Checks[j] = check
After(check) == IF check = "ready" THEN "send" ELSE Checks[Index(check) + 1]

\* No check from here on is met: flush goes on to send.  A deadline that
\* may have passed may as well not have passed.
FlushOn(e, u) ==
    LET check == upd[e][u].pc
    IN  /\ check \in {"loop", "empty", "terminating", "peer", "ready"}
        /\ upd[e][u].to = Stay
        /\ check = "loop" => shouldContinue(e, u)
        /\ \A j \in Index(check) .. 6 :
              Checks[j] \in {"empty", "terminating"} => ~Passed(e, Checks[j])
        /\ UGoto(e, u, "send")
        /\ UNCHANGED <<st, snd, rcv, inp, usr, writing, net, cleared, race>>

\* The first check that is met.  In StateTerminating a terminate command is
\* sent and flush returns, having set StateTerminated after 8 s.
FlushDecide(e, u) ==
    LET f == upd[e][u]
        Decide(check, to) == upd' = [upd EXCEPT ![e][u] =
                                [pc |-> check, from |-> st[e], to |-> to]]
    IN  /\ f.pc \in {Checks[j] : j \in 1 .. 6} /\ f.to = Stay
        /\ f.pc = "loop" => shouldContinue(e, u)
        /\ \/ /\ f.pc = "loop" /\ Passed(e, "loop")
              /\ UGoto(e, u, "close")
              /\ UNCHANGED net
           \/ /\ f.pc = "close"
              /\ IF CloseTarget(st[e]) = Stay THEN UGoto(e, u, "empty")
                 ELSE Decide("close", CloseTarget(st[e]))
              /\ UNCHANGED net
           \/ \E check \in {"empty", "peer", "ready"} :
                 /\ f.pc # "close" /\ Index(f.pc) <= Index(check)
                 /\ Passed(e, check)
                 /\ check = "ready" => ~Passed(e, "empty") \/ Index(f.pc) > 3
                 /\ Decide(check, "Terminating")
                 /\ UNCHANGED net
           \/ /\ f.pc # "close" /\ Index(f.pc) <= 4
              /\ Passed(e, "terminating")
              /\ Send({CmdSegment(e, "terminate")})
              /\ \/ "terminating" \in Late /\ Decide("terminating", "Terminated")
                 \/ UGoto(e, u, "loop")
        /\ UNCHANGED <<st, snd, rcv, inp, usr, writing, cleared, race>>

FlushSet(e, u) ==
    LET f == upd[e][u]
    IN  /\ f.to # Stay
        /\ SetState(e, f.from, f.to)
        /\ UGoto(e, u, IF f.pc = "terminating" THEN "loop" ELSE After(f.pc))
        /\ UNCHANGED <<rcv, inp, usr, writing, net>>

\* SendingWorker.Flush sends at least one of the segments that are due.
Window(e) == Max({1, Magic * Min({InFlight, snd[e].remote - snd[e].una})})

\* SendingWindow.Flush: which segments are due is a matter of their timers.
Due(e) == {due \in SUBSET snd[e].win : Cardinality(due) <= Window(e)}

\* AckList.Flush writes a segment when a number is due or the list is dirty;
\* both take a segment that was received.
AckDue(e) == rcv[e].next > 0 \/ rcv[e].win # {}

\* Acknowledgements, segments that are due, and a ping.
FlushSend(e, u) ==
    /\ upd[e][u].pc = "send"
    /\ \E due \in Due(e) :
          Send({DataSegment(e, n) : n \in due} \cup {CmdSegment(e, "ping")}
                  \cup (IF AckDue(e) THEN {AckSegment(e)} ELSE {}))
    /\ UGoto(e, u, "loop")
    /\ UNCHANGED <<st, snd, rcv, inp, usr, writing, cleared, race>>

-----------------------------------------------------------------------------
InputStep(e) == Receive(e) \/ InputDecide(e) \/ InputSet(e) \/ InputProcess(e)
UserStep(e) == \/ Close(e) \/ CloseSet(e) \/ Terminate(e)
               \/ Write(e) \/ Push(e) \/ Read(e)
UpdaterStep(e, u) == \/ UpdaterRun(e, u)
                     \/ FlushOn(e, u)
                     \/ FlushDecide(e, u)
                     \/ FlushSet(e, u)
                     \/ FlushSend(e, u)

Next == \E e \in Ends : \/ InputStep(e)
                        \/ UserStep(e)
                        \/ \E u \in Updaters : UpdaterStep(e, u)

\* The goroutines run and time passes: an updater does not stand still and
\* the deadlines of a closing connection pass in the end; Input and Close,
\* once begun, go on.  Nothing is assumed of the network or of the users;
\* "idle" is put into Late where no packet arrives for 30 s.
Fairness ==
    \A e \in Ends :
       /\ WF_vars(InputDecide(e) \/ InputSet(e) \/ InputProcess(e))
       /\ WF_vars(CloseSet(e)) /\ WF_vars(Terminate(e))
       /\ \A u \in Updaters :
             /\ WF_vars(UpdaterStep(e, u))
             /\ SF_vars(FlushDecide(e, u) /\ upd'[e][u].to # Stay)
             /\ "idle" \in Late =>
                   SF_vars(FlushDecide(e, u) /\ upd'[e][u].pc = "close")

Spec == Init /\ [][Next]_vars
FairSpec == Spec /\ Fairness

-----------------------------------------------------------------------------
Held(e, n) == n < rcv[e].next \/ n \in rcv[e].win

\* Reliability: a segment leaves the sending window only when the other end
\* has it, whatever acknowledgements were lost, repeated or overtaken,
\* unless CloseWrite dropped the window.
AckedIsHeld ==
    \A e \in Ends : e \notin cleared =>
        \A n \in 0 .. snd[e].next - 1 : n \in snd[e].win \/ Held(peer(e), n)

\* Retransmission can stop: what the sender still repeats and the receiver
\* already has is still in the receiver's list of acknowledgements (a
\* segment read long ago falls below the window and is not listed again).
HeldIsAcknowledged ==
    \A e \in Ends : \A n \in snd[e].win :
        Held(peer(e), n) => n \in rcv[peer(e)].acks

\* Numbers: both windows stay within what was written, the receiver's within
\* its size, and the sender's first unacknowledged number is its smallest.
TypeOK ==
    /\ st \in [Ends -> States]
    /\ \A e \in Ends :
          /\ snd[e].next \in 0 .. Writes[e]
          /\ snd[e].una \in 0 .. snd[e].next
          /\ snd[e].win \subseteq snd[e].una .. snd[e].next - 1
          /\ Cardinality(snd[e].win) <= SendBuffer + 1
          /\ rcv[e].next \in 0 .. snd[peer(e)].next
          /\ rcv[e].win \subseteq rcv[e].next .. snd[peer(e)].next - 1
          /\ rcv[e].win \subseteq rcv[e].next .. rcv[e].next + RecvWindow - 1
          /\ rcv[e].acks \subseteq 0 .. snd[peer(e)].next - 1
    /\ writing \subseteq Ends
    /\ cleared \subseteq Ends
    /\ race \subseteq Ends

\* Written segments have a goroutine that will flush them: WakeUp does
\* nothing while the data updater is leaving its loop, and a segment written
\* at that moment is found by the ping updater only.  That one leaves only a
\* connection that has ended, unless two transitions crossed.
WrittenHasFlusher ==
    \A e \in Ends : snd[e].win # {} /\ ~isTerminating(e) /\ e \notin race =>
        \E u \in DOMAIN upd[e] : upd[e][u].pc \notin {"off", "leave"}

\* A connection that is closed here is destroyed in the end, whatever the
\* network and the other end do, and even when another goroutine overwrites
\* the state Close has set (Close, flush's deadlines).  Only a Close that met
\* the one flush makes after 30 s of silence may set its state after the end.
CloseTerminates ==
    \A e \in Closers :
        st[e] = "ReadyToClose" ~> \/ st[e] = "Terminated"
                                  \/ "idle" \in Late /\ e \in race

=============================================================================
