------------------------------ MODULE UdpWorker ------------------------------
(***************************************************************************)
(* The UDP worker of an inbound (app/proxyman/inbound/worker.go) and the    *)
(* periodic task that cleans its connections (common/task/periodic.go), for *)
(* one client address.  A connection is made by the packet that finds none; *)
(* a goroutine serves it, closes it and takes it out of the map; the        *)
(* cleaner takes out the ones idle for two minutes and stops itself when    *)
(* the map is empty.  Connections are numbered as they are made.            *)
(***************************************************************************)
EXTENDS Integers

CONSTANT MaxConns  \* bound: connections made

ConnsAssumption == MaxConns \in Nat

VARIABLES
    active,   \* activeConn of the address, 0: none
    made,     \* connections made
    conn,     \* conn[k]: where its goroutine is, done, and inactive
    loop,     \* handlePackets: where callback is, and its connection
    running,  \* Periodic.running
    armed,    \* timers that will call checkedExecute
    exec,     \* the timer's goroutine
    panicked  \* common.Must(w.checker.Start()) failed

vars == <<active, made, conn, loop, running, armed, exec, panicked>>

Conns == 1 .. MaxConns

Init ==
    /\ active = 0
    /\ made = 0
    /\ conn = [k \in Conns |-> [pc |-> "none", done |-> FALSE, inactive |-> FALSE]]
    /\ loop = [pc |-> "receive", k |-> 0]
    /\ running = FALSE
    /\ armed = 0
    /\ exec = "off"
    /\ panicked = FALSE

LGoto(pc) == loop' = [loop EXCEPT !.pc = pc]

-----------------------------------------------------------------------------
(* callback: getConnection, then the checker, then the goroutine.           *)
getConnection ==
    /\ loop.pc = "receive"
    /\ \/ /\ active # 0 /\ ~conn[active].done
          /\ UNCHANGED <<active, made, loop>>
       \/ /\ active # 0 => conn[active].done
          /\ made < MaxConns
          /\ made' = made + 1
          /\ active' = made + 1
          /\ loop' = [pc |-> "start", k |-> made + 1]
    /\ UNCHANGED <<conn, running, armed, exec, panicked>>

\* Periodic.Start: nothing while it runs; otherwise it executes at once.
Starts == ~running
Start ==
    /\ loop.pc = "start"
    /\ running' = TRUE
    /\ LGoto(IF Starts THEN "execute" ELSE "serve")
    /\ UNCHANGED <<active, made, conn, armed, exec, panicked>>

(* clean: an error if there is nothing to clean.  The connection of the     *)
(* address is idle or not; one that callback has just made is not.          *)
MayBeIdle(k) == conn[k].pc # "none"
Cleaned(k) == /\ conn' = [conn EXCEPT ![k].inactive = TRUE, ![k].done = TRUE]
              /\ active' = IF conn[k].inactive THEN active ELSE 0
clean == /\ active # 0
         /\ \/ MayBeIdle(active) /\ Cleaned(active)
            \/ UNCHANGED <<conn, active>>

\* checkedExecute, called by Start: common.Must panics on its error.
StartExecute ==
    /\ loop.pc = "execute"
    /\ \/ /\ clean
          /\ armed' = armed + 1
          /\ LGoto("serve")
          /\ UNCHANGED <<running, panicked>>
       \/ /\ active = 0
          /\ running' = FALSE
          /\ panicked' = TRUE
          /\ LGoto("dead")
          /\ UNCHANGED <<active, conn, armed>>
    /\ UNCHANGED <<made, exec>>

Serve ==
    /\ loop.pc = "serve"
    /\ conn' = [conn EXCEPT ![loop.k].pc = "process"]
    /\ LGoto("receive")
    /\ UNCHANGED <<active, made, running, armed, exec, panicked>>

-----------------------------------------------------------------------------
(* checkedExecute, called by the timer *)
Tick ==
    /\ armed > 0 /\ exec = "off"
    /\ armed' = armed - 1
    /\ exec' = IF running THEN "execute" ELSE "off"
    /\ UNCHANGED <<active, made, conn, loop, running, panicked>>

TickExecute ==
    /\ exec = "execute"
    /\ \/ clean /\ exec' = "arm"
       \/ active = 0 /\ exec' = "failed" /\ UNCHANGED <<conn, active>>
    /\ UNCHANGED <<made, loop, running, armed, panicked>>

TickEnds ==
    /\ \/ /\ exec = "failed"
          /\ running' = FALSE
          /\ UNCHANGED armed
       \/ /\ exec = "arm"
          /\ armed' = IF running THEN armed + 1 ELSE armed
          /\ UNCHANGED running
    /\ exec' = "off"
    /\ UNCHANGED <<active, made, conn, loop, panicked>>

-----------------------------------------------------------------------------
(* The goroutine of a connection: Process, Close, and removeConn unless the *)
(* cleaner took the connection out.                                         *)
ProcessEnds(k) ==
    /\ conn[k].pc = "process"
    /\ conn' = [conn EXCEPT ![k].pc = "closed", ![k].done = TRUE]
    /\ UNCHANGED <<active, made, loop, running, armed, exec, panicked>>

RemovesNever(k) == FALSE
Removes(k) == ~conn[k].inactive
CheckInactive(k) ==
    /\ conn[k].pc = "closed"
    /\ conn' = [conn EXCEPT ![k].pc = IF Removes(k) THEN "set" ELSE "over"]
    /\ UNCHANGED <<active, made, loop, running, armed, exec, panicked>>

setInactive(k) ==
    /\ conn[k].pc = "set"
    /\ conn' = [conn EXCEPT ![k].pc = "remove", ![k].inactive = TRUE]
    /\ UNCHANGED <<active, made, loop, running, armed, exec, panicked>>

\* removeConn deletes whatever connection the address has now.
removeConn(k) ==
    /\ conn[k].pc = "remove"
    /\ active' = 0
    /\ conn' = [conn EXCEPT ![k].pc = "over"]
    /\ UNCHANGED <<made, loop, running, armed, exec, panicked>>

-----------------------------------------------------------------------------
Next == \/ getConnection \/ Start \/ StartExecute \/ Serve
        \/ Tick \/ TickExecute \/ TickEnds
        \/ \E k \in Conns : ProcessEnds(k) \/ CheckInactive(k)
                           \/ setInactive(k) \/ removeConn(k)

Spec == Init /\ [][Next]_vars

-----------------------------------------------------------------------------
\* Types, and one chain of executions: a timer that is armed, its goroutine
\* and the execution inside Start exclude each other.
TypeOK ==
    /\ active \in 0 .. made
    /\ made \in 0 .. MaxConns
    /\ conn \in [Conns -> [pc : {"none", "process", "closed", "set",
                                 "remove", "over"},
                           done : BOOLEAN, inactive : BOOLEAN]]
    /\ loop \in [pc : {"receive", "start", "execute", "serve", "dead"},
                 k : 0 .. MaxConns]
    /\ running \in BOOLEAN
    /\ exec \in {"off", "execute", "failed", "arm"}
    /\ panicked \in BOOLEAN
    /\ armed \in Nat
    /\ armed + (IF exec = "off" THEN 0 ELSE 1)
             + (IF loop.pc = "execute" THEN 1 ELSE 0) <= 1

\* The map holds no connection that nobody will take out: its goroutine is
\* still to run removeConn, or to be started.  The goroutine and the cleaner
\* settle with the flag `inactive', which is not guarded on one side, who
\* takes the connection out.
NoStaleEntry == active # 0 => conn[active].pc # "over"

=============================================================================
