-------------------------------- MODULE Pipe --------------------------------
(***************************************************************************)
(* The in-memory pipe between an inbound and an outbound of Xray (package   *)
(* transport/pipe).  Writers append a buffer under the lock and wake the    *)
(* reader afterwards; a reader takes everything under the lock and wakes a  *)
(* writer afterwards.  The two signals are channels of capacity one, shared *)
(* by all waiters; `done' is closed with the state and wakes everyone.      *)
(*                                                                          *)
(* A byte is named by the write it belongs to.  `delivered' and `eof' are   *)
(* history; no action reads them.  The channel `done' is closed in the      *)
(* critical sections that leave the state `open', so it is not a variable.  *)
(***************************************************************************)
EXTENDS Integers, Sequences

CONSTANTS
    Writers,    \* goroutines that hold the Writer
    Readers,    \* goroutines that hold the Reader
    limit,      \* pipeOption.limit, -1: no limit
    discardOverflow,
    MaxWrites,  \* bound: writes begun
    MaxSize     \* bound: bytes of one write

ASSUME OptionAssumption ==
    /\ limit \in Int
    /\ discardOverflow \in BOOLEAN
    /\ MaxWrites \in Nat
    /\ MaxSize \in Nat

VARIABLES
    data,        \* pipe.data
    state,       \* pipe.state
    readSignal,  \* a notification is buffered in readSignal
    writeSignal, \* a notification is buffered in writeSignal
    errChan,     \* an error is buffered in errChan
    writes,      \* writes begun
    w,           \* w[t]: writer t, where it is and what it writes
    r,           \* r[t]: reader t, where it is and whether it has a timer
    delivered,   \* bytes the readers got, in the order of the lock
    eof          \* a reader was given io.EOF

vars == <<data, state, readSignal, writeSignal, errChan, writes, w, r,
          delivered, eof>>

Bytes == 1 .. MaxWrites
States == {"open", "closed", "errord"}
WriterPCs == {"idle", "try", "wait", "signal"}
ReaderPCs == {"idle", "try", "wait", "signal"}

\* Types of the buffer, the signals and the goroutines' places, and the
\* size: a pipe holds at most its limit and one write more.
TypeOK ==
    /\ data \in Seq(Bytes)
    /\ limit >= 0 => Len(data) <= limit + MaxSize
    /\ state \in States
    /\ readSignal \in BOOLEAN
    /\ writeSignal \in BOOLEAN
    /\ errChan \in BOOLEAN
    /\ writes \in 0 .. MaxWrites
    /\ w \in [Writers -> [pc : WriterPCs, mb : Seq(Bytes)]]
    /\ \A t \in Writers : Len(w[t].mb) <= MaxSize
    /\ r \in [Readers -> [pc : ReaderPCs, timed : BOOLEAN]]
    /\ delivered \in Seq(Bytes)
    /\ eof \in BOOLEAN

Init ==
    /\ data = <<>>
    /\ state = "open"
    /\ readSignal = FALSE
    /\ writeSignal = FALSE
    /\ errChan = FALSE
    /\ writes = 0
    /\ w = [t \in Writers |-> [pc |-> "idle", mb |-> <<>>]]
    /\ r = [t \in Readers |-> [pc |-> "idle", timed |-> FALSE]]
    /\ delivered = <<>>
    /\ eof = FALSE

isFull(size) == limit >= 0 /\ size > limit

done == state # "open"

\* Where a call goes after its critical section: to notify the other side.
AfterWriteSilent == "idle"
AfterWrite == "signal"
AfterReadSilent == "idle"
AfterRead == "signal"

MergeReplaced(mb) == mb
MergeMulti(mb) == data \o mb

WGoto(t, pc) == w' = [w EXCEPT ![t].pc = pc]
RGoto(t, pc) == r' = [r EXCEPT ![t].pc = pc]

-----------------------------------------------------------------------------
\* WriteMultiBuffer is called with a buffer that is not empty.
WriteMultiBuffer(t) ==
    /\ w[t].pc = "idle"
    /\ writes < MaxWrites
    /\ \E n \in 1 .. MaxSize :
          w' = [w EXCEPT ![t] = [pc |-> "try",
                                 mb |-> [i \in 1 .. n |-> writes + 1]]]
    /\ writes' = writes + 1
    /\ UNCHANGED <<data, state, readSignal, writeSignal, errChan, r,
                   delivered, eof>>

\* writeMultiBufferInternal: a closed pipe refuses, a full one makes the
\* writer wait or drops the buffer, and otherwise the buffer is appended.
writeMultiBufferInternal(t) ==
    /\ w[t].pc = "try"
    /\ \/ /\ state = "open"
          /\ ~isFull(Len(data))
          /\ data' = MergeMulti(w[t].mb)
          /\ WGoto(t, AfterWrite)
       \/ /\ state = "open"
          /\ isFull(Len(data))
          /\ WGoto(t, IF discardOverflow THEN "idle" ELSE "wait")
          /\ UNCHANGED data
       \/ /\ state # "open"
          /\ WGoto(t, "signal")
          /\ UNCHANGED data
    /\ UNCHANGED <<state, readSignal, writeSignal, errChan, writes, r,
                   delivered, eof>>

\* The reader is notified outside the lock, then the write returns.
SignalRead(t) ==
    /\ w[t].pc = "signal"
    /\ readSignal' = TRUE
    /\ WGoto(t, "idle")
    /\ UNCHANGED <<data, state, writeSignal, errChan, writes, r, delivered,
                   eof>>

\* A writer that found the pipe full wakes up: to try again, or to give up.
WaitWrite(t) ==
    /\ w[t].pc = "wait"
    /\ \/ /\ writeSignal
          /\ writeSignal' = FALSE
          /\ WGoto(t, "try")
       \/ /\ done
          /\ WGoto(t, "idle")
          /\ UNCHANGED writeSignal
    /\ UNCHANGED <<data, state, readSignal, errChan, writes, r, delivered,
                   eof>>

-----------------------------------------------------------------------------
\* ReadMultiBuffer, or ReadMultiBufferTimeout when a timer runs.
ReadMultiBuffer(t) ==
    /\ r[t].pc = "idle"
    /\ \E timed \in BOOLEAN : r' = [r EXCEPT ![t] = [pc |-> "try",
                                                     timed |-> timed]]
    /\ UNCHANGED <<data, state, readSignal, writeSignal, errChan, writes, w,
                   delivered, eof>>

\* readMultiBufferInternal: everything at once, or the end, or a wait.
readMultiBufferInternal(t) ==
    /\ r[t].pc = "try"
    /\ \/ /\ state # "errord"
          /\ data # <<>>
          /\ delivered' = delivered \o data
          /\ data' = <<>>
          /\ RGoto(t, AfterRead)
          /\ UNCHANGED eof
       \/ /\ state = "open"
          /\ data = <<>>
          /\ RGoto(t, "wait")
          /\ UNCHANGED <<data, delivered, eof>>
       \/ /\ state = "closed"
          /\ data = <<>>
          /\ eof' = TRUE
          /\ RGoto(t, "signal")
          /\ UNCHANGED <<data, delivered>>
       \/ /\ state = "errord"
          /\ RGoto(t, "signal")
          /\ UNCHANGED <<data, delivered, eof>>
    /\ UNCHANGED <<state, readSignal, writeSignal, errChan, writes, w>>

\* A writer is notified outside the lock, then the read returns.
SignalWrite(t) ==
    /\ r[t].pc = "signal"
    /\ writeSignal' = TRUE
    /\ RGoto(t, "idle")
    /\ UNCHANGED <<data, state, readSignal, errChan, writes, w, delivered,
                   eof>>

\* A waiting reader wakes up; the timer and an error make the read return.
WaitRead(t) ==
    /\ r[t].pc = "wait"
    /\ \/ /\ readSignal
          /\ readSignal' = FALSE
          /\ RGoto(t, "try")
          /\ UNCHANGED errChan
       \/ /\ done
          /\ RGoto(t, "try")
          /\ UNCHANGED <<readSignal, errChan>>
       \/ /\ ~r[t].timed
          /\ errChan
          /\ errChan' = FALSE
          /\ RGoto(t, "idle")
          /\ UNCHANGED readSignal
       \/ /\ r[t].timed
          /\ RGoto(t, "idle")
          /\ UNCHANGED <<readSignal, errChan>>
    /\ UNCHANGED <<data, state, writeSignal, writes, w, delivered, eof>>

-----------------------------------------------------------------------------
\* Reader.ReturnAnError and Reader.Recover
ReturnAnError ==
    /\ ~errChan
    /\ errChan' = TRUE
    /\ UNCHANGED <<data, state, readSignal, writeSignal, writes, w, r,
                   delivered, eof>>

Recover ==
    /\ errChan
    /\ errChan' = FALSE
    /\ UNCHANGED <<data, state, readSignal, writeSignal, writes, w, r,
                   delivered, eof>>

Close ==
    /\ state = "open"
    /\ state' = "closed"
    /\ UNCHANGED <<data, readSignal, writeSignal, errChan, writes, w, r,
                   delivered, eof>>

Interrupt ==
    /\ state = "open"
    /\ state' = "errord"
    /\ data' = <<>>
    /\ UNCHANGED <<readSignal, writeSignal, errChan, writes, w, r,
                   delivered, eof>>

WriterStep(t) == \/ WriteMultiBuffer(t)
                 \/ writeMultiBufferInternal(t)
                 \/ SignalRead(t)
                 \/ WaitWrite(t)

ReaderStep(t) == \/ ReadMultiBuffer(t)
                 \/ readMultiBufferInternal(t)
                 \/ SignalWrite(t)
                 \/ WaitRead(t)

Next == \/ \E t \in Writers : WriterStep(t)
        \/ \E t \in Readers : ReaderStep(t)
        \/ ReturnAnError
        \/ Recover
        \/ Close
        \/ Interrupt

\* Goroutines keep running, and the consumer keeps reading (buf.Copy loops
\* until an error); nobody has to write, close or interrupt.  A waiter that
\* is notified again and again is served: the runtime hands a notification
\* to the receiver that has waited longest.
Fairness ==
    /\ \A t \in Readers : WF_vars(ReaderStep(t))
    /\ \A t \in Writers : /\ WF_vars(writeMultiBufferInternal(t))
                          /\ WF_vars(SignalRead(t))
                          /\ SF_vars(WaitWrite(t))

Spec == Init /\ [][Next]_vars
FairSpec == Spec /\ Fairness

-----------------------------------------------------------------------------
\* A reader is never left asleep next to data: when one waits and the pipe
\* holds data, a notification is buffered or on its way, another reader is
\* about to take the data, or the pipe is closed (which wakes everyone).
ReaderNotStranded ==
    \A t \in Readers : r[t].pc = "wait" /\ data # <<>> =>
        \/ readSignal
        \/ done
        \/ \E u \in Writers : w[u].pc = "signal"
        \/ \E u \in Readers : r[u].pc = "try"

\* A writer is never left asleep next to an empty pipe: the one slot of
\* writeSignal is shared by all writers, so while one waits there is data
\* whose read will notify, or a notification, or somebody who will produce
\* one, or the pipe is closed.
WriterNotStranded ==
    \A t \in Writers : w[t].pc = "wait" =>
        \/ data # <<>>
        \/ writeSignal
        \/ done
        \/ \E u \in Readers : r[u].pc = "signal"
        \/ \E u \in Writers : w[u].pc = "try"

\* No reader and no writer of a pipe sleeps through the event it waits for
\* (ReadMultiBuffer, WriteMultiBuffer and the one-slot signals between them),
\* and the buffer keeps to its size.
NobodyStranded == TypeOK /\ ReaderNotStranded /\ WriterNotStranded

Stream == INSTANCE ByteStream WITH queue <- data, status <- state

\* Whatever the goroutines do, the pipe is a stream: what a reader gets is
\* what was written, in order and once, and io.EOF comes after all of it.
ImplementsStream == Stream!Spec

\* A write that waits for room returns, because every read passes the slot on.
BlockedWriteReturns ==
    \A t \in Writers : w[t].pc = "wait" ~> w[t].pc = "idle"

\* What was accepted is read or dropped by Interrupt: no reader sleeps on it.
EverythingRead == data # <<>> ~> data = <<>>
=============================================================================
