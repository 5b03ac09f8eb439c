------------------------------- MODULE Links -------------------------------
(***************************************************************************)
(* The links of an inbound or outbound side by side, Mux, UdpWorker and     *)
(* Kcp, which share no state, and what each of them guarantees.             *)
(***************************************************************************)
EXTENDS Mux

CONSTANT MaxConns
VARIABLES active, made, conn, loop, running, armed, exec, panicked
Udp == INSTANCE UdpWorker

CONSTANTS Ends, Writes, Closers, Late, Updaters, SendBuffer, RecvWindow,
          RemoteNext0, InFlight, Magic, MaxNet
VARIABLES st, snd, rcv, upd, inp, closing, writing, net, cleared, race
Kcp == INSTANCE Kcp WITH usr <- closing

VARIABLE case   \* the component that runs, and how

-----------------------------------------------------------------------------
(* SessionsApart and ClosedWorkerHasNoSession are Mux's own.                *)

\* A UDP connection that ended does not stay in the table (removeConn); with
\* the types of UdpWorker, while it runs.
NoStaleEntry == case = "udp" => Udp!TypeOK /\ Udp!NoStaleEntry

\* Acknowledgements are true: the sender forgets only what the receiver holds
\* (SendingWorker.ProcessSegment), and what the receiver holds and the sender
\* does not know of is still to be acknowledged (ReceivingWorker.ProcessSegment);
\* with the types of Kcp, while it runs.
AcksTrue ==
    case \in {"transfer", "closing", "flushing"} =>
        Kcp!TypeOK /\ Kcp!AckedIsHeld /\ Kcp!HeldIsAcknowledged

\* Written data has an updater that will send it (Updater.WakeUp).
WrittenHasFlusher ==
    case \in {"transfer", "closing", "flushing"} => Kcp!WrittenHasFlusher
=============================================================================
