------------------------------ MODULE MCLinks ------------------------------
(***************************************************************************)
(* Links for TLC: a behaviour picks one case at the start and runs it      *)
(* alone, the other components stay in their initial state, so one run     *)
(* covers the sum of their states.  Cases of one component differ in its   *)
(* constants.  Of Mux, the constants of the .cfg are the case "route": two *)
(* users exchange a byte each way; of Kcp, they bound all its cases.       *)
(***************************************************************************)
EXTENDS Links, TLC

muxVars == vars
kcpVars == <<st, snd, rcv, upd, inp, closing, writing, net, cleared, race>>
udpVars == <<active, made, conn, loop, running, armed, exec, panicked>>

\* Mux: the connection breaks, the server refuses, the monitor ticks.
AllEvents == {"break", "refuse", "tick"}
Faulty == INSTANCE Mux WITH MaxBytes <- 0, MaxFrames <- 2, Events <- AllEvents

\* Kcp: end "a" writes, end "b" only reads.
One == [e \in Ends |-> IF e = "a" THEN 1 ELSE 0]
Two == [e \in Ends |-> 2 * One[e]]
Three == [e \in Ends |-> 3 * One[e]]
Ping == {"ping"}
Writer == {"a"}
Deadlines == {"peer", "ready"}

\* Three segments over a network that holds two packets.
Transfer == INSTANCE Kcp WITH Updaters <- Ping, usr <- closing

\* The writer closes, and the deadlines of the closing states pass.
Closing == INSTANCE Kcp WITH Writes <- One, Closers <- Writer,
    Late <- Deadlines, Updaters <- Ping, MaxNet <- 1, usr <- closing

\* Both updaters, which stop and are woken.
Flushing == INSTANCE Kcp WITH Writes <- Two, MaxNet <- 1, usr <- closing

ASSUME LinksAssumption ==
    /\ Faulty!MuxAssumption
    /\ Transfer!KcpAssumption /\ Closing!KcpAssumption /\ Flushing!KcpAssumption
    /\ Udp!ConnsAssumption

LinksInit ==
    /\ case \in {"route", "faulty", "transfer", "closing", "flushing", "udp"}
    /\ Init
    /\ IF case = "flushing" THEN Flushing!Init ELSE Transfer!Init
    /\ Udp!Init

LinksNext ==
    /\ UNCHANGED case
    /\ \/ /\ \/ case = "route" /\ Next
             \/ case = "faulty" /\ Faulty!Next
          /\ UNCHANGED <<kcpVars, udpVars>>
       \/ /\ \/ case = "transfer" /\ Transfer!Next
             \/ case = "closing" /\ Closing!Next
             \/ case = "flushing" /\ Flushing!Next
          /\ UNCHANGED <<muxVars, udpVars>>
       \/ /\ case = "udp" /\ Udp!Next
          /\ UNCHANGED <<muxVars, kcpVars>>

LinksSpec == LinksInit /\ [][LinksNext]_<<case, muxVars, kcpVars, udpVars>>

\* The users of a mux connection differ only in name.
Symmetric == Permutations(Users)

=============================================================================
