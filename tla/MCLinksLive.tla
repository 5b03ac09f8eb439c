---------------------------- MODULE MCLinksLive ----------------------------
(***************************************************************************)
(* What must eventually happen in Kcp and in Mux, for TLC.  They share no  *)
(* state: a behaviour picks one case at the start and runs it alone, under *)
(* the fairness of its component.  Of Kcp, the constants of the .cfg are   *)
(* the case "closing": one end closes, and the network loses, repeats and  *)
(* delivers as it likes.                                                   *)
(***************************************************************************)
EXTENDS Kcp, Sequences

CONSTANTS
    Users,  \* users of the mux connection
    Nil

VARIABLES
    case,
    cm, done, monitor, dispatch, rxc, sm, srv, rxs, up, down, link  \* Mux

kcpVars == vars
muxVars == <<cm, done, monitor, dispatch, rxc, sm, srv, rxs, up, down, link>>

NoWrites == [e \in Ends |-> 0]

\* Kcp: no packet arrives any more, and the 30 s of silence pass.
AnyDeadline == {"idle", "terminating", "peer", "ready"}
Silent == INSTANCE Kcp WITH Late <- AnyDeadline, MaxNet <- 0

\* Mux: a connection that may break, refuse and idle.
Events == {"break", "refuse", "tick"}
Session == INSTANCE Mux WITH None <- Nil, IdSpace <- 4, MaxConcurrency <- 0,
    MaxConnection <- 3, MaxBytes <- 1, MaxFrames <- 2, usr <- dispatch

ASSUME LiveAssumption == Silent!KcpAssumption /\ Session!MuxAssumption

LiveInit == case \in {"closing", "silent", "mux"} /\ Init /\ Session!Init

LiveNext ==
    /\ UNCHANGED case
    /\ \/ /\ \/ case = "closing" /\ Next
             \/ case = "silent" /\ Silent!Next
          /\ UNCHANGED muxVars
       \/ case = "mux" /\ Session!Next /\ UNCHANGED kcpVars

\* Fairness of Kcp and of Mux, of the one that runs.
Kcp(A) == case # "mux" /\ A
KcpFairness ==
    \A e \in Ends :
       /\ WF_kcpVars(Kcp(InputDecide(e) \/ InputSet(e) \/ InputProcess(e)))
       /\ WF_kcpVars(Kcp(CloseSet(e))) /\ WF_kcpVars(Kcp(Terminate(e)))
       /\ \A u \in Updaters :
             /\ WF_kcpVars(\/ case = "closing" /\ UpdaterStep(e, u)
                           \/ case = "silent" /\ Silent!UpdaterStep(e, u))
             /\ SF_kcpVars(/\ \/ case = "closing" /\ FlushDecide(e, u)
                              \/ case = "silent" /\ Silent!FlushDecide(e, u)
                           /\ upd'[e][u].to # Stay)
             /\ SF_kcpVars(/\ case = "silent" /\ Silent!FlushDecide(e, u)
                           /\ upd'[e][u].pc = "close")

Mux(A) == case = "mux" /\ A
MuxFairness ==
    /\ \A u \in Users : /\ WF_muxVars(Mux(Session!UserStep(u)))
                        /\ WF_muxVars(Mux(Session!InputStops(u)))
                        /\ WF_muxVars(Mux(Session!SiteStep(u)))
                        /\ WF_muxVars(Mux(Session!SiteStops(u)))
    /\ WF_muxVars(Mux(Session!ClientReads))
    /\ WF_muxVars(Mux(Session!ServerReads))
    /\ WF_muxVars(Mux(Session!Monitor))
    /\ WF_muxVars(Mux(Session!Break /\ ~link.up))

LiveSpec == /\ LiveInit /\ [][LiveNext]_<<case, kcpVars, muxVars>>
            /\ KcpFairness /\ MuxFairness

-----------------------------------------------------------------------------
\* A connection that was closed here is destroyed in the end, and so are both
\* ends that hear nothing any more: they close and end by their deadlines
\* (Connection.Close, flush), the latter unless two transitions crossed.
ConnectionsEnd ==
    (\/ case = "silent"
     \/ case = "closing" /\ \A e \in Closers : st[e] = "ReadyToClose")
    ~> (\A e \in IF case = "silent" THEN Ends ELSE Closers :
           st[e] = "Terminated" \/ (case = "silent" /\ e \in race))

\* A mux session that is over at one end goes away at the other.
BothEnds == Session!BothEnds
=============================================================================
