---------------------------- MODULE StreamsProofs ----------------------------
(***************************************************************************)
(* What is proved about the carriers of bytes.  Pipe: its types and size,   *)
(* that nobody sleeps through a wake-up, and that it implements ByteStream. *)
(* XhttpSession: that the upload is read in order, and that no request body *)
(* is left open.  StatsChannel: that nobody on the list is passed by, that  *)
(* nothing comes twice, and the one order of a blocking channel.            *)
(***************************************************************************)
EXTENDS Streams, FiniteSetTheorems, SequenceTheorems, TLAPS

-----------------------------------------------------------------------------
(* Pipe *)

\* A write that tries, or will try again, has something to write, so that
\* whoever appends leaves data behind (WriteMultiBuffer is called with a
\* buffer that is not empty).
TriesHaveData ==
    \A t \in Writers : w[t].pc \in {"try", "wait"} => w[t].mb # <<>>

PipeInv == NobodyStranded /\ TriesHaveData

\* Types and places of one goroutine, which the provers read better one by one.
LEMMA Typed ==
    ASSUME TypeOK
    PROVE  /\ \A t \in Writers : /\ w[t].pc \in WriterPCs
                                 /\ w[t].mb \in Seq(Bytes)
                                 /\ Len(w[t].mb) <= MaxSize
           /\ \A t \in Readers : r[t].pc \in ReaderPCs /\ r[t].timed \in BOOLEAN
           /\ Len(data) \in Nat
  BY DEF TypeOK

\* Moving a writer keeps the types and its buffer.
LEMMA WriterMoves ==
    ASSUME TypeOK, NEW t \in Writers, NEW pc \in WriterPCs, WGoto(t, pc)
    PROVE  /\ w' \in [Writers -> [pc : WriterPCs, mb : Seq(Bytes)]]
           /\ w'[t].pc = pc
           /\ \A u \in Writers : w'[u].mb = w[u].mb
           /\ \A u \in Writers \ {t} : w'[u] = w[u]
  BY DEF TypeOK, WGoto

\* Moving a reader keeps the types and the other readers.
LEMMA ReaderMoves ==
    ASSUME TypeOK, NEW t \in Readers, NEW pc \in ReaderPCs, RGoto(t, pc)
    PROVE  /\ r' \in [Readers -> [pc : ReaderPCs, timed : BOOLEAN]]
           /\ r'[t].pc = pc
           /\ \A u \in Readers \ {t} : r'[u] = r[u]
  BY DEF TypeOK, RGoto

\* A full pipe holds data.
LEMMA FullHasData ==
    ASSUME TypeOK, isFull(Len(data))
    PROVE  data # <<>>
  BY OptionAssumption DEF TypeOK, isFull

-----------------------------------------------------------------------------
\* WriteMultiBuffer keeps the invariant: the write it begins is not empty.
LEMMA WriteMultiBufferKeeps ==
    ASSUME PipeInv, NEW t \in Writers, WriteMultiBuffer(t)
    PROVE  PipeInv'
<1> USE DEF PipeInv, NobodyStranded
<1>1. PICK n \in 1 .. MaxSize :
         w' = [w EXCEPT ![t] = [pc |-> "try",
                                mb |-> [i \in 1 .. n |-> writes + 1]]]
  BY DEF WriteMultiBuffer
<1> DEFINE m == [i \in 1 .. n |-> writes + 1]
<1>2. m \in Seq(Bytes) /\ Len(m) = n /\ m # <<>>
  <2>1. writes + 1 \in Bytes
    BY OptionAssumption DEF TypeOK, Bytes, WriteMultiBuffer
  <2>2. n \in Nat /\ n > 0
    BY OptionAssumption
  <2>3. m \in [1 .. n -> Bytes]
    BY <2>1
  <2>4. m \in Seq(Bytes)
    BY <2>2, <2>3
  <2>5. Len(m) = n
    BY <2>2, <2>4
  <2> QED
    BY <2>2, <2>4, <2>5
<1>3. /\ w' \in [Writers -> [pc : WriterPCs, mb : Seq(Bytes)]]
      /\ w'[t].pc = "try" /\ w'[t].mb = m
      /\ \A u \in Writers \ {t} : w'[u] = w[u]
  BY <1>1, <1>2 DEF TypeOK, WriterPCs
<1>4. TypeOK'
  BY <1>2, <1>3, Typed, OptionAssumption DEF TypeOK, WriteMultiBuffer
<1>5. ReaderNotStranded'
  BY <1>3 DEF ReaderNotStranded, WriteMultiBuffer, done
<1>6. WriterNotStranded'
  BY <1>3 DEF WriterNotStranded, WriteMultiBuffer, done
<1>7. TriesHaveData'
  BY <1>2, <1>3 DEF TriesHaveData
<1> QED
  BY <1>4, <1>5, <1>6, <1>7

\* The critical section of a write: it appends and will notify, or finds the
\* pipe full, and then there is data, or closed.
LEMMA WriteInternalKeeps ==
    ASSUME PipeInv, NEW t \in Writers, writeMultiBufferInternal(t)
    PROVE  PipeInv'
<1> USE DEF PipeInv, NobodyStranded
<1> DEFINE mb == w[t].mb
<1>1. CASE /\ state = "open" /\ ~isFull(Len(data))
           /\ data' = MergeMulti(mb) /\ WGoto(t, AfterWrite)
  <2>1. /\ mb \in Seq(Bytes) /\ Len(mb) <= MaxSize /\ mb # <<>>
    BY Typed DEF TriesHaveData, writeMultiBufferInternal
  <2>2. /\ data' \in Seq(Bytes) /\ Len(data') = Len(data) + Len(mb)
        /\ data' # <<>>
    BY <1>1, <2>1 DEF MergeMulti, TypeOK
  <2>3. /\ w' \in [Writers -> [pc : WriterPCs, mb : Seq(Bytes)]]
        /\ w'[t].pc = "signal"
        /\ \A u \in Writers : w'[u].mb = w[u].mb
        /\ \A u \in Writers \ {t} : w'[u] = w[u]
    BY <1>1, WriterMoves DEF AfterWrite, WriterPCs
  <2>4. limit >= 0 => Len(data') <= limit + MaxSize
    BY <1>1, <2>1, <2>2, Typed, OptionAssumption DEF isFull
  <2>5. TypeOK'
    BY <2>2, <2>3, <2>4, Typed DEF TypeOK, writeMultiBufferInternal
  <2>6. ReaderNotStranded' /\ WriterNotStranded' /\ TriesHaveData'
    BY <2>2, <2>3 DEF ReaderNotStranded, WriterNotStranded, TriesHaveData
  <2> QED
    BY <2>5, <2>6
<1>2. CASE /\ state = "open" /\ isFull(Len(data)) /\ UNCHANGED data
           /\ WGoto(t, IF discardOverflow THEN "idle" ELSE "wait")
  <2>1. data # <<>>
    BY <1>2, FullHasData
  <2>2. /\ w' \in [Writers -> [pc : WriterPCs, mb : Seq(Bytes)]]
        /\ w'[t].pc \in {"idle", "wait"}
        /\ \A u \in Writers : w'[u].mb = w[u].mb
        /\ \A u \in Writers \ {t} : w'[u] = w[u]
    BY <1>2, WriterMoves, OptionAssumption DEF WriterPCs
  <2>3. TypeOK'
    BY <1>2, <2>2, Typed DEF TypeOK, writeMultiBufferInternal
  <2>4. ReaderNotStranded'
    BY <1>2, <2>2 DEF ReaderNotStranded, writeMultiBufferInternal, done
  <2>5. WriterNotStranded' /\ TriesHaveData'
    BY <1>2, <2>1, <2>2 DEF WriterNotStranded, TriesHaveData,
                            writeMultiBufferInternal
  <2> QED
    BY <2>3, <2>4, <2>5
<1>3. CASE state # "open" /\ WGoto(t, "signal") /\ UNCHANGED data
  <2>1. /\ w' \in [Writers -> [pc : WriterPCs, mb : Seq(Bytes)]]
        /\ w'[t].pc = "signal"
        /\ \A u \in Writers : w'[u].mb = w[u].mb
        /\ \A u \in Writers \ {t} : w'[u] = w[u]
    BY <1>3, WriterMoves DEF WriterPCs
  <2>2. TypeOK'
    BY <1>3, <2>1, Typed DEF TypeOK, writeMultiBufferInternal
  <2>3. ReaderNotStranded' /\ WriterNotStranded' /\ TriesHaveData'
    BY <1>3, <2>1 DEF ReaderNotStranded, WriterNotStranded, TriesHaveData,
                      writeMultiBufferInternal, done
  <2> QED
    BY <2>2, <2>3
<1> QED
  BY <1>1, <1>2, <1>3 DEF writeMultiBufferInternal

\* The notification of the reader, which replaces the writer that owed it.
LEMMA SignalReadKeeps ==
    ASSUME PipeInv, NEW t \in Writers, SignalRead(t)
    PROVE  PipeInv'
<1> USE DEF PipeInv, NobodyStranded
<1>1. /\ w' \in [Writers -> [pc : WriterPCs, mb : Seq(Bytes)]]
      /\ w'[t].pc = "idle"
      /\ \A u \in Writers : w'[u].mb = w[u].mb
      /\ \A u \in Writers \ {t} : w'[u] = w[u]
  BY WriterMoves DEF WriterPCs, SignalRead
<1>2. TypeOK'
  BY <1>1, Typed DEF TypeOK, SignalRead
<1>3. ReaderNotStranded' /\ WriterNotStranded' /\ TriesHaveData'
  BY <1>1 DEF ReaderNotStranded, WriterNotStranded, TriesHaveData, SignalRead,
              done
<1> QED
  BY <1>2, <1>3

\* A woken writer tries again: it takes the slot from all others, and they are
\* not stranded because it will leave data or a notification.
LEMMA WaitWriteKeeps ==
    ASSUME PipeInv, NEW t \in Writers, WaitWrite(t)
    PROVE  PipeInv'
<1> USE DEF PipeInv, NobodyStranded
<1>1. CASE writeSignal /\ writeSignal' = FALSE /\ WGoto(t, "try")
  <2>1. /\ w' \in [Writers -> [pc : WriterPCs, mb : Seq(Bytes)]]
        /\ w'[t].pc = "try"
        /\ \A u \in Writers : w'[u].mb = w[u].mb
        /\ \A u \in Writers \ {t} : w'[u] = w[u]
    BY <1>1, WriterMoves DEF WriterPCs
  <2>2. TypeOK'
    BY <1>1, <2>1, Typed DEF TypeOK, WaitWrite
  <2>3. ReaderNotStranded' /\ WriterNotStranded'
    BY <2>1 DEF ReaderNotStranded, WriterNotStranded, WaitWrite, done
  <2>4. TriesHaveData'
    BY <2>1 DEF TriesHaveData, WaitWrite
  <2> QED
    BY <2>2, <2>3, <2>4
<1>2. CASE done /\ WGoto(t, "idle") /\ UNCHANGED writeSignal
  <2>1. /\ w' \in [Writers -> [pc : WriterPCs, mb : Seq(Bytes)]]
        /\ w'[t].pc = "idle"
        /\ \A u \in Writers : w'[u].mb = w[u].mb
        /\ \A u \in Writers \ {t} : w'[u] = w[u]
    BY <1>2, WriterMoves DEF WriterPCs
  <2>2. TypeOK'
    BY <1>2, <2>1, Typed DEF TypeOK, WaitWrite
  <2>3. ReaderNotStranded' /\ WriterNotStranded' /\ TriesHaveData'
    BY <1>2, <2>1 DEF ReaderNotStranded, WriterNotStranded, TriesHaveData,
                      WaitWrite, done
  <2> QED
    BY <2>2, <2>3
<1> QED
  BY <1>1, <1>2 DEF WaitWrite

-----------------------------------------------------------------------------
\* A read begins.
LEMMA ReadMultiBufferKeeps ==
    ASSUME PipeInv, NEW t \in Readers, ReadMultiBuffer(t)
    PROVE  PipeInv'
<1> USE DEF PipeInv, NobodyStranded
<1>1. /\ r' \in [Readers -> [pc : ReaderPCs, timed : BOOLEAN]]
      /\ r'[t].pc = "try"
      /\ \A u \in Readers \ {t} : r'[u] = r[u]
  BY DEF TypeOK, ReaderPCs, ReadMultiBuffer
<1>2. TypeOK'
  BY <1>1, Typed DEF TypeOK, ReadMultiBuffer
<1>3. ReaderNotStranded' /\ WriterNotStranded' /\ TriesHaveData'
  BY <1>1 DEF ReaderNotStranded, WriterNotStranded, TriesHaveData,
              ReadMultiBuffer, done
<1> QED
  BY <1>2, <1>3

\* The critical section of a read: it empties the pipe and will notify a
\* writer, or the pipe was empty, or closed.
LEMMA ReadInternalKeeps ==
    ASSUME PipeInv, NEW t \in Readers, readMultiBufferInternal(t)
    PROVE  PipeInv'
<1> USE DEF PipeInv, NobodyStranded
<1>1. CASE /\ state # "errord" /\ data # <<>>
           /\ delivered' = delivered \o data /\ data' = <<>>
           /\ RGoto(t, AfterRead) /\ UNCHANGED eof
  <2>1. /\ r' \in [Readers -> [pc : ReaderPCs, timed : BOOLEAN]]
        /\ r'[t].pc = "signal"
        /\ \A u \in Readers \ {t} : r'[u] = r[u]
    BY <1>1, ReaderMoves DEF ReaderPCs, AfterRead
  <2>2. delivered' \in Seq(Bytes) /\ data' \in Seq(Bytes) /\ Len(data') = 0
    BY <1>1 DEF TypeOK
  <2>3. TypeOK'
    BY <1>1, <2>1, <2>2, Typed, OptionAssumption
       DEF TypeOK, readMultiBufferInternal
  <2>4. ReaderNotStranded' /\ WriterNotStranded' /\ TriesHaveData'
    BY <1>1, <2>1 DEF ReaderNotStranded, WriterNotStranded, TriesHaveData,
                      readMultiBufferInternal
  <2> QED
    BY <2>3, <2>4
<1>2. CASE /\ state = "open" /\ data = <<>> /\ RGoto(t, "wait")
           /\ UNCHANGED <<data, delivered, eof>>
  <2>1. /\ r' \in [Readers -> [pc : ReaderPCs, timed : BOOLEAN]]
        /\ r'[t].pc = "wait"
        /\ \A u \in Readers \ {t} : r'[u] = r[u]
    BY <1>2, ReaderMoves DEF ReaderPCs
  <2>2. TypeOK'
    BY <1>2, <2>1, Typed DEF TypeOK, readMultiBufferInternal
  <2>3. ReaderNotStranded' /\ TriesHaveData'
    BY <1>2 DEF ReaderNotStranded, TriesHaveData, readMultiBufferInternal
  <2>4. WriterNotStranded'
    BY <1>2, <2>1 DEF WriterNotStranded, readMultiBufferInternal, done
  <2> QED
    BY <2>2, <2>3, <2>4
<1>3. CASE /\ state # "open" /\ RGoto(t, "signal")
           /\ eof' \in BOOLEAN /\ UNCHANGED <<data, delivered>>
  <2>1. /\ r' \in [Readers -> [pc : ReaderPCs, timed : BOOLEAN]]
        /\ r'[t].pc = "signal"
        /\ \A u \in Readers \ {t} : r'[u] = r[u]
    BY <1>3, ReaderMoves DEF ReaderPCs
  <2>2. TypeOK'
    BY <1>3, <2>1, Typed DEF TypeOK, readMultiBufferInternal
  <2>3. ReaderNotStranded' /\ WriterNotStranded' /\ TriesHaveData'
    BY <1>3, <2>1 DEF ReaderNotStranded, WriterNotStranded, TriesHaveData,
                      readMultiBufferInternal, done
  <2> QED
    BY <2>2, <2>3
<1>4. eof \in BOOLEAN
  BY DEF TypeOK
<1> QED
  BY <1>1, <1>2, <1>3, <1>4 DEF readMultiBufferInternal

\* The notification of a writer, which replaces the reader that owed it.
LEMMA SignalWriteKeeps ==
    ASSUME PipeInv, NEW t \in Readers, SignalWrite(t)
    PROVE  PipeInv'
<1> USE DEF PipeInv, NobodyStranded
<1>1. /\ r' \in [Readers -> [pc : ReaderPCs, timed : BOOLEAN]]
      /\ r'[t].pc = "idle"
      /\ \A u \in Readers \ {t} : r'[u] = r[u]
  BY ReaderMoves DEF ReaderPCs, SignalWrite
<1>2. TypeOK'
  BY <1>1, Typed DEF TypeOK, SignalWrite
<1>3. ReaderNotStranded' /\ WriterNotStranded' /\ TriesHaveData'
  BY <1>1 DEF ReaderNotStranded, WriterNotStranded, TriesHaveData,
              SignalWrite, done
<1> QED
  BY <1>2, <1>3

\* A reader that takes the notification tries at once; one that gives up, by
\* its timer or an error, leaves the notification where it is.
LEMMA WaitReadKeeps ==
    ASSUME PipeInv, NEW t \in Readers, WaitRead(t)
    PROVE  PipeInv'
<1> USE DEF PipeInv, NobodyStranded
<1>1. CASE RGoto(t, "try") /\ readSignal' \in BOOLEAN
  <2>1. /\ r' \in [Readers -> [pc : ReaderPCs, timed : BOOLEAN]]
        /\ r'[t].pc = "try"
        /\ \A u \in Readers \ {t} : r'[u] = r[u]
    BY <1>1, ReaderMoves DEF ReaderPCs
  <2>2. errChan' \in BOOLEAN
    BY DEF TypeOK, WaitRead
  <2>3. TypeOK'
    BY <1>1, <2>1, <2>2, Typed DEF TypeOK, WaitRead
  <2>4. ReaderNotStranded' /\ WriterNotStranded' /\ TriesHaveData'
    BY <2>1 DEF ReaderNotStranded, WriterNotStranded, TriesHaveData,
                WaitRead, done
  <2> QED
    BY <2>3, <2>4
<1>2. CASE RGoto(t, "idle") /\ UNCHANGED readSignal
  <2>1. /\ r' \in [Readers -> [pc : ReaderPCs, timed : BOOLEAN]]
        /\ r'[t].pc = "idle"
        /\ \A u \in Readers \ {t} : r'[u] = r[u]
    BY <1>2, ReaderMoves DEF ReaderPCs
  <2>2. errChan' \in BOOLEAN
    BY DEF TypeOK, WaitRead
  <2>3. TypeOK'
    BY <1>2, <2>1, <2>2, Typed DEF TypeOK, WaitRead
  <2>4. ReaderNotStranded' /\ WriterNotStranded' /\ TriesHaveData'
    BY <1>2, <2>1 DEF ReaderNotStranded, WriterNotStranded, TriesHaveData,
                      WaitRead, done
  <2> QED
    BY <2>3, <2>4
<1>3. readSignal \in BOOLEAN
  BY DEF TypeOK
<1> QED
  BY <1>1, <1>2, <1>3 DEF WaitRead

\* Errors, Close and Interrupt: the last two leave the state open for good,
\* which wakes everyone.
LEMMA OthersKeep ==
    ASSUME PipeInv, ReturnAnError \/ Recover \/ Close \/ Interrupt
    PROVE  PipeInv'
<1> USE DEF PipeInv, NobodyStranded
<1>1. CASE ReturnAnError \/ Recover
  <2>1. TypeOK'
    BY <1>1 DEF TypeOK, ReturnAnError, Recover
  <2> QED
    BY <1>1, <2>1 DEF ReaderNotStranded, WriterNotStranded, TriesHaveData,
                      ReturnAnError, Recover, done
<1>2. CASE Close \/ Interrupt
  <2>1. state' \in States
    BY <1>2 DEF Close, Interrupt, States
  <2>2. data' \in Seq(Bytes) /\ (limit >= 0 => Len(data') <= limit + MaxSize)
    <3>1. CASE Close
      BY <3>1 DEF TypeOK, Close
    <3>2. CASE Interrupt
      <4>1. data' \in Seq(Bytes) /\ Len(data') = 0
        BY <3>2 DEF Interrupt
      <4> QED
        BY <4>1, OptionAssumption
    <3> QED
      BY <1>2, <3>1, <3>2
  <2>3. TypeOK'
    BY <1>2, <2>1, <2>2 DEF TypeOK, Close, Interrupt
  <2> QED
    BY <1>2, <2>3 DEF ReaderNotStranded, WriterNotStranded, TriesHaveData,
                      Close, Interrupt, done
<1> QED
  BY <1>1, <1>2

\* Every step of the pipe keeps the invariant.
LEMMA PipeStep ==
    ASSUME PipeInv, [Next]_vars
    PROVE  PipeInv'
<1>1. ASSUME NEW t \in Writers, WriterStep(t)
      PROVE  PipeInv'
  BY <1>1, WriteMultiBufferKeeps, WriteInternalKeeps, SignalReadKeeps,
     WaitWriteKeeps DEF WriterStep
<1>2. ASSUME NEW t \in Readers, ReaderStep(t)
      PROVE  PipeInv'
  BY <1>2, ReadMultiBufferKeeps, ReadInternalKeeps, SignalWriteKeeps,
     WaitReadKeeps DEF ReaderStep
<1>3. CASE UNCHANGED vars
  BY <1>3 DEF vars, PipeInv, NobodyStranded, TypeOK, ReaderNotStranded,
              WriterNotStranded, TriesHaveData, done
<1> QED
  BY <1>1, <1>2, <1>3, OthersKeep DEF Next

\* The pipe starts empty and open, with nobody in it.
LEMMA PipeInit == Init => PipeInv
<1> SUFFICES ASSUME Init PROVE PipeInv
  OBVIOUS
<1>1. /\ data \in Seq(Bytes) /\ Len(data) = 0 /\ delivered \in Seq(Bytes)
      /\ <<>> \in Seq(Bytes) /\ Len(<<>>) = 0
  BY DEF Init
<1>2. /\ w \in [Writers -> [pc : WriterPCs, mb : Seq(Bytes)]]
      /\ \A t \in Writers : w[t].mb = <<>> /\ w[t].pc = "idle"
      /\ r \in [Readers -> [pc : ReaderPCs, timed : BOOLEAN]]
  BY <1>1 DEF Init, WriterPCs, ReaderPCs
<1>3. /\ limit >= 0 => Len(data) <= limit + MaxSize
      /\ \A t \in Writers : Len(w[t].mb) <= MaxSize
      /\ writes \in 0 .. MaxWrites
  BY <1>1, <1>2, OptionAssumption DEF Init
<1>4. TypeOK
  BY <1>1, <1>2, <1>3 DEF Init, TypeOK, States
<1> QED
  BY <1>2, <1>4 DEF Init, PipeInv, NobodyStranded, ReaderNotStranded,
                    WriterNotStranded, TriesHaveData

\* No reader sleeps next to data and no writer next to an empty pipe unless a
\* notification is there, on its way or owed by someone, for any number of
\* readers and writers that share the one-slot signals, with and without a
\* limit, whether writes wait or are dropped; and the pipe keeps to its size.
THEOREM PipeNobodyStranded == Spec => []NobodyStranded
<1>1. Init => PipeInv
  BY PipeInit
<1>2. PipeInv /\ [Next]_vars => PipeInv'
  BY PipeStep
<1>3. PipeInv => NobodyStranded
  BY DEF PipeInv
<1> QED
  BY <1>1, <1>2, <1>3, PTL DEF Spec

-----------------------------------------------------------------------------
(* The refinement: each critical section is one step of the stream, and     *)
(* everything outside the lock is none.                                     *)

\* What follows a sequence leaves it as a prefix.
LEMMA PrefixOfConcat ==
    ASSUME NEW S, NEW s \in Seq(S), NEW t \in Seq(S)
    PROVE  /\ Len(s) <= Len(s \o t)
           /\ SubSeq(s \o t, 1, Len(s)) = s
<1>1. Len(s) \in Nat /\ Len(t) \in Nat /\ Len(s \o t) = Len(s) + Len(t)
  OBVIOUS
<1>2. SubSeq(s \o t, 1, Len(s)) \in Seq(S)
  BY <1>1
<1>3. Len(SubSeq(s \o t, 1, Len(s))) = Len(s)
  BY <1>1
<1>4. \A i \in 1 .. Len(s) : SubSeq(s \o t, 1, Len(s))[i] = s[i]
  BY <1>1
<1> QED
  BY <1>1, <1>2, <1>3, <1>4

\* All of a sequence, and nothing of it, as subsequences.
LEMMA WholeSubSeq ==
    ASSUME NEW S, NEW s \in Seq(S)
    PROVE  SubSeq(s, 1, Len(s)) = s /\ SubSeq(s, Len(s) + 1, Len(s)) = <<>>
<1>1. Len(s) \in Nat
  OBVIOUS
<1>2. SubSeq(s, 1, Len(s)) = s
  <2>1. SubSeq(s, 1, Len(s)) \in Seq(S) /\ Len(SubSeq(s, 1, Len(s))) = Len(s)
    BY <1>1
  <2>2. \A i \in 1 .. Len(s) : SubSeq(s, 1, Len(s))[i] = s[i]
    BY <1>1
  <2> QED
    BY <1>1, <2>1, <2>2
<1>3. SubSeq(s, Len(s) + 1, Len(s)) = <<>>
  BY <1>1
<1> QED
  BY <1>2, <1>3

\* A write that is accepted puts its bytes behind those of earlier writes.
LEMMA WriteIsPut ==
    ASSUME TypeOK, NEW t \in Writers, writeMultiBufferInternal(t)
    PROVE  Stream!Put \/ UNCHANGED Stream!streamVars
<1>1. CASE /\ state = "open" /\ data' = MergeMulti(w[t].mb)
  <2>1. data \in Seq(Bytes) /\ w[t].mb \in Seq(Bytes)
    BY Typed DEF TypeOK
  <2>2. Len(data) <= Len(data') /\ SubSeq(data', 1, Len(data)) = data
    BY <1>1, <2>1, PrefixOfConcat DEF MergeMulti
  <2> QED
    BY <1>1, <2>2 DEF Stream!Put, Stream!Starts, writeMultiBufferInternal
<1>2. CASE UNCHANGED data
  BY <1>2 DEF Stream!streamVars, writeMultiBufferInternal
<1> QED
  BY <1>1, <1>2 DEF writeMultiBufferInternal

\* A read takes everything there is, or reports the end, or nothing.
LEMMA ReadIsTake ==
    ASSUME TypeOK, NEW t \in Readers, readMultiBufferInternal(t)
    PROVE  Stream!Take \/ Stream!End \/ UNCHANGED Stream!streamVars
<1>1. CASE /\ state # "errord" /\ data # <<>>
           /\ delivered' = delivered \o data /\ data' = <<>> /\ UNCHANGED eof
  <2>1. data \in Seq(Bytes) /\ Len(data) \in 1 .. Len(data)
    BY <1>1 DEF TypeOK
  <2>2. /\ delivered' = delivered \o SubSeq(data, 1, Len(data))
        /\ data' = SubSeq(data, Len(data) + 1, Len(data))
    BY <1>1, <2>1, WholeSubSeq
  <2> QED
    BY <1>1, <2>1, <2>2 DEF Stream!Take, readMultiBufferInternal
<1>2. CASE /\ state = "closed" /\ data = <<>> /\ eof' = TRUE
           /\ UNCHANGED <<data, delivered>>
  BY <1>2 DEF Stream!End, readMultiBufferInternal
<1>3. CASE UNCHANGED <<data, delivered, eof>>
  BY <1>3 DEF Stream!streamVars, readMultiBufferInternal
<1> QED
  BY <1>1, <1>2, <1>3 DEF readMultiBufferInternal

\* Every step of the pipe is a step of the stream or leaves it alone.
LEMMA StreamStep ==
    ASSUME TypeOK, [Next]_vars
    PROVE  [Stream!Next]_(Stream!streamVars)
<1>1. ASSUME NEW t \in Writers, WriterStep(t)
      PROVE  Stream!Put \/ UNCHANGED Stream!streamVars
  <2>1. CASE writeMultiBufferInternal(t)
    BY <2>1, WriteIsPut
  <2>2. CASE WriteMultiBuffer(t) \/ SignalRead(t) \/ WaitWrite(t)
    BY <2>2 DEF Stream!streamVars, WriteMultiBuffer, SignalRead, WaitWrite
  <2> QED
    BY <1>1, <2>1, <2>2 DEF WriterStep
<1>2. ASSUME NEW t \in Readers, ReaderStep(t)
      PROVE  Stream!Take \/ Stream!End \/ UNCHANGED Stream!streamVars
  <2>1. CASE readMultiBufferInternal(t)
    BY <2>1, ReadIsTake
  <2>2. CASE ReadMultiBuffer(t) \/ SignalWrite(t) \/ WaitRead(t)
    BY <2>2 DEF Stream!streamVars, ReadMultiBuffer, SignalWrite, WaitRead
  <2> QED
    BY <1>2, <2>1, <2>2 DEF ReaderStep
<1>3. CASE ReturnAnError \/ Recover \/ UNCHANGED vars
  BY <1>3 DEF Stream!streamVars, ReturnAnError, Recover, vars
<1>4. CASE Close
  BY <1>4 DEF Stream!Next, Stream!Close, Close
<1>5. CASE Interrupt
  BY <1>5 DEF Stream!Next, Stream!Break, Interrupt
<1> QED
  BY <1>1, <1>2, <1>3, <1>4, <1>5 DEF Next, Stream!Next

\* The pipe implements ByteStream: what readers get, in the order of the lock,
\* is what writers had accepted, in order and once; io.EOF comes after all of
\* it; after Close nothing is accepted and after Interrupt nothing delivered.
THEOREM PipeRefinesStream == Spec => ImplementsStream
<1>1. Init => Stream!Init
  BY DEF Init, Stream!Init
<1>2. TypeOK /\ [Next]_vars => [Stream!Next]_(Stream!streamVars)
  BY StreamStep
<1>3. Spec => []TypeOK
  <2>1. NobodyStranded => TypeOK
    BY DEF NobodyStranded
  <2> QED
    BY <2>1, PipeNobodyStranded, PTL
<1> QED
  BY <1>1, <1>2, <1>3, PTL DEF Spec, ImplementsStream, Stream!Spec
-----------------------------------------------------------------------------
(* XhttpSession, instantiated as Xhttp *)

Packets == [post : Posts, seq : Nat, from : 0 .. PayloadLen - 1]
Queues == [chan : Seq(Packets), open : BOOLEAN, heap : SUBSET Packets,
           nextSeq : Nat, closed : BOOLEAN, nomore : BOOLEAN,
           reader : Posts \cup {None},
           lock : {None, "post", "reaper", "get", "worker"}]
PostPcs == {"new", "push", "refused", "send", "stream", "ok"}
GetPcs == {"new", "connect", "serve", "close", "drain", "closed", "done"}
WorkerPcs == {"none", "serve", "close", "drain", "closed"}
ReadPcs == {"off", "first", "next", "loop", "stream", "ended"}

\* Types, and who has a session: what there is of a request or the GET is in
\* one that was made.
XhttpTypes ==
    /\ made \in 0 .. MaxSessions /\ sessions \in 0 .. made
    /\ q \in [Xhttp!Ids -> Queues]
    /\ connected \subseteq 1 .. made
    /\ post \in [Posts -> [pc : PostPcs, s : 0 .. MaxSessions]]
    /\ get \in [pc : GetPcs, s : 0 .. made]
    /\ worker \in WorkerPcs
    /\ rd \in [pc : ReadPcs, packet : Packets \cup {None}]
    /\ uploaded \in Seq(Nat)
    /\ closedPosts \subseteq Posts
    /\ \A p \in Posts : post[p].pc # "new" => post[p].s # 0
    /\ get.pc # "new" <=> get.s # 0
    /\ worker # "none" => get.s # 0
    /\ rd.pc # "off" => get.s # 0

\* The lock of a queue: who sends holds it, and nobody does once it is closed,
\* as it is by whoever closes it.
Closers == {"reaper", "get", "worker"}
Locked ==
    /\ \A s \in Xhttp!Ids :
          /\ Len(q[s].chan) <= maxPackets
          /\ ~q[s].open => q[s].closed /\ q[s].chan = <<>>
          /\ q[s].closed => q[s].lock # "post"
          /\ q[s].lock \in Closers => q[s].closed
    /\ \A p \in Posts : post[p].pc = "send" => q[post[p].s].lock = "post"
    /\ \A p, o \in Posts : post[p].pc = "send" /\ post[o].pc = "send"
                             /\ post[p].s = post[o].s => p = o

\* A packet on its way is that of a POST its session has accepted.
OfPost(e, s) ==
    /\ e.seq = e.post.seq
    /\ post[e.post].s = s /\ post[e.post].pc \in {"stream", "ok"}
Sent ==
    /\ \A s \in Xhttp!Ids :
          /\ \A i \in 1 .. Len(q[s].chan) : /\ OfPost(q[s].chan[i], s)
                                            /\ q[s].chan[i].from = 0
          /\ \A e \in q[s].heap : OfPost(e, s)
    /\ rd.pc = "stream" => rd.packet \in Packets /\ OfPost(rd.packet, get.s)

\* Every POST has one packet.
OncePosted ==
    \A s \in Xhttp!Ids :
        /\ \A i, j \in 1 .. Len(q[s].chan) :
              q[s].chan[i].post = q[s].chan[j].post => i = j
        /\ \A i \in 1 .. Len(q[s].chan) : \A e \in q[s].heap :
              q[s].chan[i].post # e.post
        /\ \A e, o \in q[s].heap : e.post = o.post => e = o

\* The heap of the session that is read; the others are empty.
HeapBound ==
    /\ \A s \in Xhttp!Ids : /\ IsFiniteSet(q[s].heap)
                            /\ Cardinality(q[s].heap) <= maxPackets + 2
                            /\ s # get.s => q[s].heap = {} /\ q[s].nextSeq = 0
    /\ rd.pc = "first" => q[get.s].heap = {}
    /\ rd.pc = "next" => Cardinality(q[get.s].heap) <= maxPackets + 1

\* What was read ends in the packet in turn, `f' bytes into it; the other
\* packets of the heap are whole.
Reached(n, f, h) ==
    /\ Len(uploaded) = n * PayloadLen + f
    /\ \A e \in h : e.from = IF e.seq = n THEN f ELSE 0
    /\ f > 0 => \E e \in h : e.seq = n
InTurnOnly ==
    /\ get.s = 0 => uploaded = <<>>
    /\ get.s # 0 => \E f \in 0 .. PayloadLen - 1 :
                       Reached(q[get.s].nextSeq, f, q[get.s].heap)
    /\ Xhttp!ReadInOrder

\* No packet comes twice, or Read takes each in one piece: after a part of one
\* copy heap.Pop may yield the other.
NoPartOfCopies ==
    (\A p, o \in Posts : p.seq = o.seq => p = o) \/ PayloadLen = 1

XhttpInv == XhttpTypes /\ Locked /\ Sent /\ OncePosted /\ HeapBound /\ InTurnOnly

\* A request body that was accepted: its POST is the only one of the session.
Accepted(p, s) ==
    p.kind = "stream" /\ post[p].s = s /\ post[p].pc \in {"send", "stream", "ok"}

\* An open body is where somebody will find it: in the channel, with the Read
\* that has taken it, or as the queue's reader.
BodyFound(p) ==
    LET s == post[p].s
    IN  \/ \E i \in 1 .. Len(q[s].chan) : q[s].chan[i].post = p
        \/ q[s].reader = p
        \/ rd.pc = "stream" /\ get.s = s /\ rd.packet.post = p

OneBody ==
    \A s \in Xhttp!Ids :
        /\ \A p, o \in Posts : Accepted(p, s) /\ Accepted(o, s) => p = o
        /\ \A p \in Posts : Accepted(p, s) => q[s].nomore
        /\ q[s].reader # None => Accepted(q[s].reader, s)
BodiesFound ==
    /\ rd.pc = "stream" => rd.packet.post.kind = "stream"
    /\ \A p \in Posts : post[p].pc = "stream" =>
          /\ p.kind = "stream"
          /\ p \notin closedPosts => BodyFound(p)

\* The worker closes the queue when there is nothing more to read, and leaves
\* no reader open.
WorkerClosed ==
    /\ worker \in {"close", "drain", "closed"} => rd.pc = "ended"
    /\ worker = "closed" => /\ ~q[get.s].open
                            /\ q[get.s].reader \in closedPosts \cup {None}

Bodies == OneBody /\ BodiesFound /\ WorkerClosed
BodyInv == XhttpInv /\ Bodies

-----------------------------------------------------------------------------
\* Types one by one.
LEMMA XhttpTyped ==
  ASSUME Xhttp!PostsAssumption, XhttpTypes
  PROVE  /\ maxPackets \in Nat /\ PayloadLen \in Nat /\ PayloadLen > 0
         /\ MaxSessions \in Nat
         /\ None \notin Posts
         /\ None \notin {"post", "reaper", "get", "worker"}
         /\ \A p \in Posts : p.kind \in {"data", "stream"} /\ p.seq \in Nat
         /\ Xhttp!Ids = 1 .. MaxSessions
         /\ made \in 0 .. MaxSessions /\ made \in Nat
         /\ get.s \in 0 .. made /\ get.pc \in GetPcs
         /\ get.s # 0 => get.s \in Xhttp!Ids
         /\ \A p \in Posts : /\ post[p].pc \in PostPcs
                             /\ post[p].s \in 0 .. MaxSessions
                             /\ post[p].pc # "new" => post[p].s \in Xhttp!Ids
         /\ rd.pc \in ReadPcs /\ rd.packet \in Packets \cup {None}
         /\ uploaded \in Seq(Nat)
  BY DEF Xhttp!PostsAssumption, XhttpTypes, Xhttp!Ids

\* The fields of a queue.
LEMMA QueueTyped ==
  ASSUME XhttpTypes, NEW s \in Xhttp!Ids
  PROVE  /\ q[s] \in Queues
         /\ q[s].chan \in Seq(Packets) /\ q[s].heap \in SUBSET Packets
         /\ q[s].open \in BOOLEAN /\ q[s].closed \in BOOLEAN
         /\ q[s].nextSeq \in Nat /\ q[s].nomore \in BOOLEAN
         /\ q[s].reader \in Posts \cup {None}
         /\ q[s].lock \in {None, "post", "reaper", "get", "worker"}
  BY DEF XhttpTypes, Queues

\* The fields of a packet.
LEMMA PacketTyped ==
  ASSUME NEW e \in Packets
  PROVE  e.post \in Posts /\ e.seq \in Nat /\ e.from \in 0 .. PayloadLen - 1
  BY DEF Packets

\* The first packet of a channel, and the rest.
LEMMA ChanTail ==
  ASSUME NEW ch \in Seq(Packets), ch # <<>>
  PROVE  /\ Head(ch) = ch[1] /\ Head(ch) \in Packets /\ 1 \in 1 .. Len(ch)
         /\ Tail(ch) \in Seq(Packets) /\ Len(Tail(ch)) = Len(ch) - 1
         /\ \A i \in 1 .. Len(Tail(ch)) : /\ Tail(ch)[i] = ch[i + 1]
                                          /\ i + 1 \in 2 .. Len(ch)
  OBVIOUS

\* Nothing of the queues, the Read and what was read changes.
LEMMA QueuesSame ==
  ASSUME XhttpInv, q' = q, rd' = rd, get'.s = get.s, uploaded' = uploaded
  PROVE  OncePosted' /\ HeapBound' /\ InTurnOnly'
<1>1. OncePosted'
  BY DEF XhttpInv, OncePosted, Xhttp!Ids
<1>2. HeapBound'
  BY DEF XhttpInv, HeapBound, Xhttp!Ids
<1>3. InTurnOnly'
  BY DEF XhttpInv, InTurnOnly, Reached, Xhttp!ReadInOrder
<1> QED BY <1>1, <1>2, <1>3

\* No packet of a heap moves and nothing is read.
LEMMA HeapSame ==
  ASSUME Xhttp!PostsAssumption, XhttpInv, rd'.pc = rd.pc, get'.s = get.s,
         uploaded' = uploaded,
         \A s \in Xhttp!Ids : q'[s].heap = q[s].heap
                                /\ q'[s].nextSeq = q[s].nextSeq
  PROVE  HeapBound' /\ InTurnOnly'
<1>1. ASSUME NEW s \in Xhttp!Ids
      PROVE  /\ IsFiniteSet(q'[s].heap)
             /\ Cardinality(q'[s].heap) <= maxPackets + 2
             /\ s # get.s => q'[s].heap = {} /\ q'[s].nextSeq = 0
  BY DEF XhttpInv, HeapBound
<1>2. rd.pc \in {"first", "next"} => get.s \in Xhttp!Ids
  BY XhttpTyped DEF XhttpInv, XhttpTypes
<1>3. HeapBound'
  BY <1>1, <1>2 DEF XhttpInv, HeapBound, Xhttp!Ids
<1>4. get.s # 0 => get.s \in Xhttp!Ids
  BY XhttpTyped DEF XhttpInv
<1>5. InTurnOnly'
  BY <1>4 DEF XhttpInv, InTurnOnly, Reached, Xhttp!ReadInOrder
<1> QED BY <1>3, <1>5

\* No packet moves, and those whose POST is done stay so.
LEMMA SentSame ==
  ASSUME Xhttp!PostsAssumption, XhttpInv, rd' = rd, get'.s = get.s,
         \A s \in Xhttp!Ids : q'[s].chan = q[s].chan /\ q'[s].heap = q[s].heap,
         \A o \in Posts : post[o].pc \in {"stream", "ok"} =>
             post'[o].s = post[o].s /\ post'[o].pc \in {"stream", "ok"}
  PROVE  Sent'
<1>1. XhttpTypes /\ Sent
  BY DEF XhttpInv
<1>2. ASSUME NEW s \in Xhttp!Ids, NEW i \in 1 .. Len(q[s].chan)
      PROVE  OfPost(q[s].chan[i], s)' /\ q[s].chan[i].from = 0
  <2>1. OfPost(q[s].chan[i], s) /\ q[s].chan[i].from = 0
    BY <1>1 DEF Sent
  <2>2. q[s].chan[i] \in Packets
    BY <1>1, QueueTyped
  <2> QED BY <2>1, <2>2, PacketTyped DEF OfPost
<1>3. ASSUME NEW s \in Xhttp!Ids, NEW e \in q[s].heap
      PROVE  OfPost(e, s)'
  <2>1. OfPost(e, s) /\ e \in Packets
    BY <1>1, QueueTyped DEF Sent
  <2> QED BY <2>1, PacketTyped DEF OfPost
<1>4. ASSUME rd.pc = "stream"
      PROVE  rd.packet \in Packets /\ OfPost(rd.packet, get.s)'
  <2>1. rd.packet \in Packets /\ OfPost(rd.packet, get.s) /\ rd.packet \in Packets
    BY <1>1, <1>4, XhttpTyped DEF Sent
  <2> QED BY <2>1, PacketTyped DEF OfPost
<1> QED BY <1>2, <1>3, <1>4 DEF Sent, Xhttp!Ids

\* upsertSession yields a session that was made.
LEMMA upsertSessionMakes ==
  ASSUME Xhttp!PostsAssumption, XhttpTypes, NEW s \in Xhttp!Ids,
         Xhttp!upsertSession(s)
  PROVE  /\ made' \in 0 .. MaxSessions /\ made <= made'
         /\ sessions' \in 0 .. made' /\ s \in 1 .. made'
<1>1. CASE sessions # 0 /\ s = sessions /\ UNCHANGED <<sessions, made, reaper>>
  BY <1>1 DEF XhttpTypes
<1>2. CASE made < MaxSessions /\ s = made + 1 /\ made' = s /\ sessions' = s
  BY <1>2, XhttpTyped
<1> QED BY <1>1, <1>2 DEF Xhttp!upsertSession

\* A POST finds its session; its packet is nowhere yet.
LEMMA PostArrivesKeeps ==
  ASSUME Xhttp!PostsAssumption, XhttpInv, NEW p \in Posts,
         Xhttp!PostArrives(p)
  PROVE  XhttpInv'
<1>1. PICK s \in Xhttp!Ids : /\ Xhttp!upsertSession(s)
                             /\ post' = [post EXCEPT ![p] =
                                            [pc |-> "push", s |-> s]]
  BY DEF Xhttp!PostArrives
<1>2. /\ post[p].pc = "new"
      /\ UNCHANGED <<q, connected, get, worker, rd, uploaded, closedPosts>>
  BY DEF Xhttp!PostArrives
<1>3. XhttpTypes
  BY DEF XhttpInv
<1>4. /\ made' \in 0 .. MaxSessions /\ made <= made'
      /\ sessions' \in 0 .. made' /\ s \in 1 .. made'
  BY <1>1, <1>3, upsertSessionMakes
<1>5. /\ post' \in [Posts -> [pc : PostPcs, s : 0 .. MaxSessions]]
      /\ post'[p] = [pc |-> "push", s |-> s]
      /\ \A o \in Posts \ {p} : post'[o] = post[o]
  BY <1>1, <1>3, XhttpTyped DEF XhttpTypes, PostPcs
<1>6. XhttpTypes'
  <2>1. connected' \subseteq 1 .. made' /\ get' \in [pc : GetPcs, s : 0 .. made']
    BY <1>2, <1>3, <1>4, XhttpTyped DEF XhttpTypes
  <2>2. \A o \in Posts : post'[o].pc # "new" => post'[o].s # 0
    <3>1. s # 0
      BY <1>4
    <3>2. post'[p].s = s
      BY <1>5
    <3>3. \A o \in Posts : post[o].pc # "new" => post[o].s # 0
      BY <1>3 DEF XhttpTypes
    <3> QED BY <1>5, <3>1, <3>2, <3>3
  <2> QED BY <1>2, <1>3, <1>4, <1>5, <2>1, <2>2 DEF XhttpTypes, Xhttp!Ids
<1>7. Locked'
  <2>1. \A o \in Posts : post'[o].pc = "send" => post'[o] = post[o]
    BY <1>5
  <2> QED BY <1>2, <2>1 DEF XhttpInv, Locked, Xhttp!Ids
<1>8. Sent'
  BY <1>2, <1>5, SentSame
<1> QED BY <1>2, <1>6, <1>7, <1>8, QueuesSame DEF XhttpInv

\* Push is refused, or takes the lock and keeps it.
LEMMA PushKeeps ==
  ASSUME Xhttp!PostsAssumption, XhttpInv, NEW p \in Posts, Xhttp!Push(p)
  PROVE  XhttpInv'
<1> DEFINE s == post[p].s
<1>1. /\ post[p].pc = "push" /\ q[s].lock = None
      /\ UNCHANGED <<sessions, made, connected, reaper, get, worker, rd,
                     uploaded>>
  BY DEF Xhttp!Push, Xhttp!Held
<1>2. XhttpTypes /\ s \in Xhttp!Ids
  BY <1>1, XhttpTyped DEF XhttpInv
<1>3. CASE Xhttp!PushRefuses(q[s])
  <2>1. /\ post' = [post EXCEPT ![p].pc = "refused"] /\ q' = q
        /\ closedPosts' \subseteq Posts
    BY <1>2, <1>3 DEF Xhttp!Push, Xhttp!PGoto, XhttpTypes
  <2>2. Sent'
    <3>1. \A o \in Posts : /\ post'[o].s = post[o].s
                           /\ o # p => post'[o].pc = post[o].pc
      BY <1>2, <2>1 DEF XhttpTypes
    <3> QED BY <1>1, <2>1, <3>1, SentSame
  <2>3. XhttpTypes'
    BY <1>1, <1>2, <2>1 DEF XhttpTypes, PostPcs, Xhttp!Ids
  <2>4. Locked'
    <3>1. \A o \in Posts : post'[o].pc = "send" => post'[o] = post[o]
      BY <1>2, <2>1 DEF XhttpTypes
    <3> QED BY <2>1, <3>1 DEF XhttpInv, Locked, Xhttp!Ids
  <2> QED BY <1>1, <2>1, <2>2, <2>3, <2>4, QueuesSame DEF XhttpInv
<1>4. CASE ~Xhttp!PushRefuses(q[s])
  <2>1. /\ q' = [q EXCEPT ![s].lock = "post", ![s].nomore = p.kind = "stream"]
        /\ post' = [post EXCEPT ![p].pc = "send"] /\ closedPosts' = closedPosts
        /\ ~q[s].closed
    BY <1>4 DEF Xhttp!Push, Xhttp!PGoto, Xhttp!PushRefuses
  <2>2. /\ q'[s] = [q[s] EXCEPT !.lock = "post", !.nomore = p.kind = "stream"]
        /\ \A t \in Xhttp!Ids \ {s} : q'[t] = q[t]
    BY <1>2, <2>1 DEF XhttpTypes
  <2>3. /\ q' \in [Xhttp!Ids -> Queues]
        /\ q'[s].lock = "post"
        /\ \A t \in Xhttp!Ids : /\ q'[t].chan = q[t].chan
                                /\ q'[t].heap = q[t].heap
                                /\ q'[t].nextSeq = q[t].nextSeq
                                /\ q'[t].open = q[t].open
                                /\ q'[t].closed = q[t].closed
                                /\ q'[t].reader = q[t].reader
    <3>1. (p.kind = "stream") \in BOOLEAN
      OBVIOUS
    <3>2. q[s] \in Queues
      BY <1>2, QueueTyped
    <3>3. q'[s] \in Queues /\ q'[s].lock = "post" /\ q'[s].chan = q[s].chan
          /\ q'[s].heap = q[s].heap /\ q'[s].nextSeq = q[s].nextSeq
          /\ q'[s].open = q[s].open /\ q'[s].closed = q[s].closed
          /\ q'[s].reader = q[s].reader
      BY <2>2, <3>1, <3>2 DEF Queues
    <3>4. q' \in [Xhttp!Ids -> Queues]
      BY <1>2, <2>1, <2>2, <3>3 DEF XhttpTypes
    <3> QED BY <2>2, <3>3, <3>4
  <2>4. /\ post' \in [Posts -> [pc : PostPcs, s : 0 .. MaxSessions]]
        /\ post'[p].pc = "send" /\ post'[p].s = s
        /\ \A o \in Posts \ {p} : post'[o] = post[o]
    BY <1>2, <2>1 DEF XhttpTypes, PostPcs
  <2>5. XhttpTypes'
    BY <1>1, <1>2, <2>1, <2>3, <2>4 DEF XhttpTypes, Xhttp!Ids
  <2>6. Locked'
    <3>1. ASSUME NEW o \in Posts, post'[o].pc = "send"
          PROVE  /\ q'[post'[o].s].lock = "post"
                 /\ o # p => post'[o] = post[o] /\ post[o].s # s
      <4>1. CASE o = p
        BY <2>3, <2>4, <4>1
      <4>2. CASE o # p
        <5>1. post'[o] = post[o] /\ post[o].pc = "send"
          BY <2>4, <3>1, <4>2
        <5>2. q[post[o].s].lock = "post" /\ post[o].s \in Xhttp!Ids
          <6>1. post[o].s \in Xhttp!Ids
            BY <1>2, <5>1, XhttpTyped
          <6> QED BY <5>1, <6>1 DEF XhttpInv, Locked
        <5>3. post[o].s # s
          <6>1. None \notin {"post", "reaper", "get", "worker"}
            BY DEF Xhttp!PostsAssumption
          <6> QED BY <1>1, <5>2, <6>1, Zenon
        <5> QED BY <2>2, <5>1, <5>2, <5>3
      <4> QED BY <4>1, <4>2
    <3>2. ASSUME NEW t \in Xhttp!Ids
          PROVE  /\ q'[t].closed => q'[t].lock # "post"
                 /\ q'[t].lock \in Closers => q'[t].closed
      BY <2>1, <2>2, <2>3 DEF XhttpInv, Locked, Closers
    <3>3. ASSUME NEW t \in Xhttp!Ids
          PROVE  /\ Len(q'[t].chan) <= maxPackets
                 /\ ~q'[t].open => q'[t].closed /\ q'[t].chan = <<>>
      BY <2>3 DEF XhttpInv, Locked
    <3>4. ASSUME NEW o \in Posts, NEW u \in Posts, post'[o].pc = "send",
                 post'[u].pc = "send", post'[o].s = post'[u].s
          PROVE  o = u
      <4>1. o # p /\ u # p => o = u
        BY <3>1, <3>4 DEF XhttpInv, Locked
      <4>2. post'[p].s = s
        BY <2>4
      <4>3. o = p /\ u # p => FALSE
        BY <3>1, <3>4, <4>2
      <4>4. u = p /\ o # p => FALSE
        BY <3>1, <3>4, <4>2
      <4> QED BY <4>1, <4>3, <4>4
    <3> QED BY <3>1, <3>2, <3>3, <3>4 DEF Locked, Xhttp!Ids
  <2>7. Sent'
    BY <1>1, <2>3, <2>4, SentSame
  <2>8. OncePosted'
    BY <2>3 DEF XhttpInv, OncePosted, Xhttp!Ids
  <2>9. HeapBound' /\ InTurnOnly'
    BY <1>1, <2>3, HeapSame
  <2> QED BY <2>5, <2>6, <2>7, <2>8, <2>9 DEF XhttpInv
<1> QED BY <1>3, <1>4

\* The packet goes into the channel: no other is of this POST.
LEMMA PushSendKeeps ==
  ASSUME Xhttp!PostsAssumption, XhttpInv, NEW p \in Posts, Xhttp!PushSend(p)
  PROVE  XhttpInv'
<1>1. PICK s \in Xhttp!Ids : s = post[p].s
  BY XhttpTyped DEF XhttpInv, Xhttp!PushSend
<1>2. /\ post[p].pc = "send" /\ Len(q[s].chan) < maxPackets
      /\ q' = [q EXCEPT ![s].chan = Append(@, Xhttp!Packet(p)), ![s].lock = None]
      /\ post' = [post EXCEPT ![p].pc = IF p.kind = "stream" THEN "stream"
                                                           ELSE "ok"]
      /\ UNCHANGED <<sessions, made, connected, reaper, get, worker, rd,
                     uploaded, closedPosts>>
  <2>1. Len(q[s].chan) \in Nat /\ maxPackets \in Nat
    BY QueueTyped, XhttpTyped DEF XhttpInv
  <2> QED BY <1>1, <2>1 DEF Xhttp!PushSend, Xhttp!Full, Xhttp!PGoto
<1>3. XhttpTypes /\ Locked /\ Sent /\ OncePosted /\ HeapBound
  BY DEF XhttpInv
<1>4. PICK e \in Packets : e = Xhttp!Packet(p)
  <2>1. 0 \in 0 .. PayloadLen - 1 /\ p.seq \in Nat
    BY <1>3, XhttpTyped
  <2> QED BY <2>1 DEF Xhttp!Packet, Packets
<1>5. e.post = p /\ e.seq = p.seq /\ e.from = 0
  BY <1>4 DEF Xhttp!Packet
<1>6. q[s] \in Queues /\ q[s].chan \in Seq(Packets)
  BY <1>3, QueueTyped
<1>7. /\ q'[s] = [q[s] EXCEPT !.chan = Append(q[s].chan, e), !.lock = None]
      /\ \A t \in Xhttp!Ids \ {s} : q'[t] = q[t]
  BY <1>2, <1>3, <1>4 DEF XhttpTypes
<1>8. /\ q'[s] \in Queues /\ q'[s].chan = Append(q[s].chan, e)
      /\ q'[s].lock = None /\ q'[s].heap = q[s].heap
      /\ q'[s].nextSeq = q[s].nextSeq /\ q'[s].open = q[s].open
      /\ q'[s].closed = q[s].closed
  <2>1. Append(q[s].chan, e) \in Seq(Packets)
    BY <1>6
  <2> QED BY <1>6, <1>7, <2>1 DEF Queues
<1>9. q' \in [Xhttp!Ids -> Queues]
  BY <1>2, <1>3, <1>7, <1>8 DEF XhttpTypes
<1>10. /\ post' \in [Posts -> [pc : PostPcs, s : 0 .. MaxSessions]]
       /\ post'[p].pc \in {"stream", "ok"} /\ post'[p].s = s
       /\ \A o \in Posts \ {p} : post'[o] = post[o]
  BY <1>1, <1>2, <1>3 DEF XhttpTypes, PostPcs
<1>11. /\ Len(q'[s].chan) = Len(q[s].chan) + 1
       /\ \A i \in 1 .. Len(q[s].chan) : q'[s].chan[i] = q[s].chan[i]
       /\ q'[s].chan[Len(q[s].chan) + 1] = e
       /\ Len(q[s].chan) \in Nat
  BY <1>6, <1>8
<1>12. q[s].lock = "post" /\ ~q[s].closed /\ q[s].open
  BY <1>1, <1>2, <1>3, QueueTyped DEF Locked
<1>13. XhttpTypes'
  <2>1. \A o \in Posts : post'[o].pc # "new" => post'[o].s # 0
    <3>1. s # 0
      BY XhttpTyped, <1>3
    <3>2. \A o \in Posts : post[o].pc # "new" => post[o].s # 0
      BY <1>3 DEF XhttpTypes
    <3> QED BY <1>10, <3>1, <3>2
  <2> QED BY <1>2, <1>3, <1>9, <1>10, <2>1 DEF XhttpTypes, Xhttp!Ids
<1>14. Locked'
  <2>1. ASSUME NEW t \in Xhttp!Ids
        PROVE  /\ Len(q'[t].chan) <= maxPackets
               /\ ~q'[t].open => q'[t].closed /\ q'[t].chan = <<>>
               /\ q'[t].closed => q'[t].lock # "post"
               /\ q'[t].lock \in Closers => q'[t].closed
    <3>1. CASE t = s
      <4>1. Len(q'[t].chan) <= maxPackets
        <5>1. maxPackets \in Nat /\ Len(q[s].chan) < maxPackets
          BY <1>2, <1>3, XhttpTyped
        <5>2. Len(q'[s].chan) = Len(q[s].chan) + 1 /\ Len(q[s].chan) \in Nat
          BY <1>11
        <5> QED BY <3>1, <5>1, <5>2
      <4>2. None # "post" /\ None \notin Closers
        BY <1>3, XhttpTyped DEF Closers
      <4>3. q'[t].lock # "post" /\ q'[t].lock \notin Closers
        BY <1>8, <3>1, <4>2
      <4>4. q'[t].open
        BY <1>8, <1>12, <3>1
      <4> QED BY <4>1, <4>3, <4>4
    <3>2. CASE t # s
      BY <1>3, <1>7, <3>2 DEF Locked
    <3> QED BY <3>1, <3>2
  <2>2. ASSUME NEW o \in Posts, post'[o].pc = "send"
        PROVE  q'[post'[o].s].lock = "post" /\ post'[o] = post[o]
    <3>1. o # p /\ post'[o] = post[o]
      BY <1>10, <2>2
    <3>2. post[o].s \in Xhttp!Ids /\ post[o].pc = "send"
      BY <1>3, <2>2, <3>1, XhttpTyped
    <3>3. post[o].s # s
      BY <1>1, <1>2, <1>3, <3>1, <3>2 DEF Locked
    <3> QED BY <1>3, <1>7, <3>1, <3>2, <3>3 DEF Locked
  <2>3. \A o, u \in Posts : post'[o].pc = "send" /\ post'[u].pc = "send"
                              /\ post'[o].s = post'[u].s => o = u
    BY <1>3, <2>2 DEF Locked
  <2> QED BY <2>1, <2>2, <2>3 DEF Locked, Xhttp!Ids
<1>15. \A o \in Packets, t \in Xhttp!Ids : OfPost(o, t) =>
           /\ o.post # p /\ o.seq = o.post.seq
           /\ post'[o.post].s = t /\ post'[o.post].pc \in {"stream", "ok"}
  BY <1>2, <1>10, PacketTyped DEF OfPost
<1>16. Sent'
  <2>1. ASSUME NEW t \in Xhttp!Ids, NEW i \in 1 .. Len(q'[t].chan)
        PROVE  OfPost(q[t].chan[i], t)' /\ q'[t].chan[i].from = 0
    <3>1. CASE t = s /\ i = Len(q[s].chan) + 1
      <4>1. q'[t].chan[i] = e
        BY <1>11, <3>1
      <4> QED BY <1>5, <1>10, <3>1, <4>1 DEF OfPost
    <3>2. CASE ~(t = s /\ i = Len(q[s].chan) + 1)
      <4>1. q'[t].chan[i] = q[t].chan[i] /\ i \in 1 .. Len(q[t].chan)
        <5>1. CASE t = s
          <6>1. i \in 1 .. Len(q[s].chan) + 1 /\ i # Len(q[s].chan) + 1
            BY <1>11, <3>2, <5>1
          <6> QED BY <1>11, <5>1, <6>1
        <5>2. CASE t # s
          BY <1>7, <5>2
        <5> QED BY <5>1, <5>2
      <4>2. /\ q[t].chan[i] \in Packets /\ OfPost(q[t].chan[i], t)
            /\ q[t].chan[i].from = 0
        BY <1>3, <4>1, QueueTyped DEF Sent
      <4> QED BY <1>15, <4>1, <4>2 DEF OfPost
    <3> QED BY <3>1, <3>2
  <2>2. ASSUME NEW t \in Xhttp!Ids, NEW o \in q'[t].heap
        PROVE  OfPost(o, t)'
    <3>1. o \in q[t].heap
      BY <1>7, <1>8
    <3>2. o \in Packets /\ OfPost(o, t)
      BY <1>3, <3>1, QueueTyped DEF Sent
    <3> QED BY <1>15, <3>2 DEF OfPost
  <2>3. ASSUME rd.pc = "stream"
        PROVE  rd.packet \in Packets /\ OfPost(rd.packet, get.s)'
    <3>1. /\ rd.packet \in Packets /\ OfPost(rd.packet, get.s)
          /\ rd.packet \in Packets /\ get.s \in Xhttp!Ids
      BY <1>3, <2>3, XhttpTyped DEF Sent, XhttpTypes
    <3> QED BY <1>2, <1>15, <3>1 DEF OfPost
  <2> QED BY <1>2, <2>1, <2>2, <2>3 DEF Sent, Xhttp!Ids
<1>17. \A o \in Packets : OfPost(o, s) => o.post # e.post
  BY <1>5, <1>15
<1>18. OncePosted'
  <2>1. ASSUME NEW t \in Xhttp!Ids, t # s
        PROVE  /\ q'[t] = q[t]
    BY <1>7, <2>1
  <2>2. ASSUME NEW i \in 1 .. Len(q[s].chan)
        PROVE  q[s].chan[i].post # e.post
    <3>1. q[s].chan[i] \in Packets /\ OfPost(q[s].chan[i], s)
      BY <1>3, QueueTyped DEF Sent
    <3> QED BY <1>17, <3>1
  <2>3. ASSUME NEW o \in q[s].heap
        PROVE  o.post # e.post
    <3>1. o \in Packets /\ OfPost(o, s)
      BY <1>3, QueueTyped DEF Sent
    <3> QED BY <1>17, <3>1
  <2>4. \A i, j \in 1 .. Len(q'[s].chan) :
            q'[s].chan[i].post = q'[s].chan[j].post => i = j
    <3> SUFFICES ASSUME NEW i \in 1 .. Len(q[s].chan) + 1,
                        NEW j \in 1 .. Len(q[s].chan) + 1,
                        q'[s].chan[i].post = q'[s].chan[j].post
                 PROVE  i = j
      BY <1>11
    <3>1. CASE i \in 1 .. Len(q[s].chan) /\ j \in 1 .. Len(q[s].chan)
      BY <1>3, <1>11, <3>1 DEF OncePosted
    <3>2. CASE i \in 1 .. Len(q[s].chan) /\ j = Len(q[s].chan) + 1
      BY <1>11, <2>2, <3>2
    <3>3. CASE i = Len(q[s].chan) + 1 /\ j \in 1 .. Len(q[s].chan)
      BY <1>11, <2>2, <3>3
    <3>4. /\ i \in 1 .. Len(q[s].chan) \/ i = Len(q[s].chan) + 1
          /\ j \in 1 .. Len(q[s].chan) \/ j = Len(q[s].chan) + 1
      BY <1>11
    <3> QED BY <3>1, <3>2, <3>3, <3>4
  <2>5. \A i \in 1 .. Len(q'[s].chan) : \A o \in q'[s].heap :
            q'[s].chan[i].post # o.post
    BY <1>3, <1>8, <1>11, <2>3 DEF OncePosted
  <2>6. \A o, u \in q'[s].heap : o.post = u.post => o = u
    BY <1>3, <1>8 DEF OncePosted
  <2>7. ASSUME NEW t \in Xhttp!Ids
        PROVE  /\ \A i, j \in 1 .. Len(q'[t].chan) :
                     q'[t].chan[i].post = q'[t].chan[j].post => i = j
               /\ \A i \in 1 .. Len(q'[t].chan) : \A o \in q'[t].heap :
                     q'[t].chan[i].post # o.post
               /\ \A o, u \in q'[t].heap : o.post = u.post => o = u
    <3>1. CASE t = s
      BY <2>4, <2>5, <2>6, <3>1
    <3>2. CASE t # s
      BY <1>3, <2>1, <3>2 DEF OncePosted
    <3> QED BY <3>1, <3>2
  <2> QED BY <2>7 DEF OncePosted, Xhttp!Ids
<1>19. HeapBound' /\ InTurnOnly'
  BY <1>2, <1>7, <1>8, HeapSame
<1> QED BY <1>13, <1>14, <1>16, <1>18, <1>19 DEF XhttpInv

\* A stream POST ends, or its client leaves.
LEMMA StreamStepsKeep ==
  ASSUME Xhttp!PostsAssumption, XhttpInv, NEW p \in Posts,
         Xhttp!StreamEnds(p) \/ Xhttp!StreamLeaves(p)
  PROVE  XhttpInv'
<1>1. /\ post[p].pc = "stream" /\ closedPosts' \subseteq Posts
      /\ post' = [post EXCEPT ![p].pc = "ok"] \/ post' = post
      /\ UNCHANGED <<sessions, made, q, connected, reaper, get, worker, rd,
                     uploaded>>
  BY DEF Xhttp!StreamEnds, Xhttp!StreamLeaves, Xhttp!PGoto, XhttpInv, XhttpTypes
<1>2. /\ post' \in [Posts -> [pc : PostPcs, s : 0 .. MaxSessions]]
      /\ \A o \in Posts : /\ post'[o].s = post[o].s
                          /\ post'[o].pc = post[o].pc
                               \/ (o = p /\ post'[o].pc = "ok")
  BY <1>1 DEF XhttpInv, XhttpTypes, PostPcs
<1>3. XhttpTypes'
  <2>1. \A o \in Posts : post'[o].pc # "new" => post'[o].s # 0
    BY <1>1, <1>2 DEF XhttpInv, XhttpTypes
  <2> QED BY <1>1, <1>2, <2>1 DEF XhttpInv, XhttpTypes, Xhttp!Ids
<1>4. Locked'
  <2>1. \A o \in Posts : post'[o].pc = "send" => post[o].pc = "send"
    BY <1>2
  <2> QED BY <1>1, <1>2, <2>1 DEF XhttpInv, Locked, Xhttp!Ids
<1>5. Sent'
  BY <1>1, <1>2, SentSame
<1> QED BY <1>1, <1>3, <1>4, <1>5, QueuesSame DEF XhttpInv

-----------------------------------------------------------------------------
(* Close, whoever calls it *)
CloseSteps(s, closer) ==
    \/ Xhttp!CloseLock(s, closer)
    \/ Xhttp!CloseDrain(s, closer)
    \/ Xhttp!CloseReader(s, closer)

\* Close takes packets out of the channel, and touches nothing else that is
\* read; the heap stays as it is.
LEMMA CloseFacts ==
  ASSUME Xhttp!PostsAssumption, XhttpInv, NEW s \in Xhttp!Ids,
         NEW closer \in Closers, CloseSteps(s, closer)
  PROVE  /\ q' \in [Xhttp!Ids -> Queues]
         /\ \A t \in Xhttp!Ids \ {s} : q'[t] = q[t]
         /\ q[s].lock \in {None, closer} /\ q'[s].lock \in {None, closer}
         /\ q'[s].heap = q[s].heap /\ q'[s].nextSeq = q[s].nextSeq
         /\ q'[s].nomore = q[s].nomore
         /\ \/ q'[s].chan = q[s].chan /\ q'[s].reader = q[s].reader
            \/ /\ q[s].chan # <<>> /\ q'[s].chan = Tail(q[s].chan)
               /\ q[s].open /\ q'[s].closed = q[s].closed
               /\ q'[s].reader = Xhttp!Drained(q[s].reader,
                                               Head(q[s].chan).post)
         /\ q[s].closed => q'[s].closed
         /\ ~q[s].open => ~q'[s].open
         /\ ~q'[s].open => ~q[s].open \/ (q[s].chan = <<>> /\ q'[s].chan = <<>>
                                           /\ q'[s].closed = q[s].closed
                                           /\ q[s].lock = closer)
         /\ q'[s].lock \in Closers => q'[s].closed = TRUE \/
                (q'[s].closed = q[s].closed /\ q[s].lock = closer)
<1>1. /\ q[s] \in Queues /\ q[s].chan \in Seq(Packets)
      /\ q[s].reader \in Posts \cup {None}
  BY QueueTyped DEF XhttpInv
<1>2. q \in [Xhttp!Ids -> Queues]
  BY DEF XhttpInv, XhttpTypes
<1>3. CASE Xhttp!CloseLock(s, closer)
  <2>1. /\ q[s].lock = None
        /\ q' = [q EXCEPT ![s].lock = closer, ![s].closed = TRUE]
    BY <1>3 DEF Xhttp!CloseLock, Xhttp!Held
  <2>2. /\ q'[s] = [q[s] EXCEPT !.lock = closer, !.closed = TRUE]
        /\ \A t \in Xhttp!Ids \ {s} : q'[t] = q[t]
    BY <1>2, <2>1
  <2>3. /\ q'[s] \in Queues /\ q'[s].lock = closer /\ q'[s].chan = q[s].chan
        /\ q'[s].heap = q[s].heap /\ q'[s].nextSeq = q[s].nextSeq
        /\ q'[s].nomore = q[s].nomore /\ q'[s].reader = q[s].reader
        /\ q'[s].closed = TRUE /\ q'[s].open = q[s].open
    BY <1>1, <2>2 DEF Queues, Closers
  <2>4. q' \in [Xhttp!Ids -> Queues]
    BY <1>2, <2>1, <2>2, <2>3
  <2> QED BY <2>1, <2>2, <2>3, <2>4
<1>4. CASE Xhttp!CloseDrain(s, closer)
  <2>1. q[s].lock = closer /\ q[s].open
    BY <1>4 DEF Xhttp!CloseDrain, Xhttp!Held
  <2>2. CASE q[s].chan # <<>>
    <3>1. q' = [q EXCEPT ![s].chan = Tail(@),
                         ![s].reader = Xhttp!Drained(@, Head(q[s].chan).post)]
      BY <1>4, <2>2 DEF Xhttp!CloseDrain
    <3>2. /\ q'[s] = [q[s] EXCEPT !.chan = Tail(q[s].chan),
                !.reader = Xhttp!Drained(q[s].reader, Head(q[s].chan).post)]
          /\ \A t \in Xhttp!Ids \ {s} : q'[t] = q[t]
      BY <1>2, <3>1
    <3>3. Head(q[s].chan).post \in Posts
      BY <1>1, <2>2, ChanTail, PacketTyped
    <3>4. Xhttp!Drained(q[s].reader, Head(q[s].chan).post)
             \in Posts \cup {None}
      BY <1>1, <3>3 DEF Xhttp!Drained
    <3>5. Tail(q[s].chan) \in Seq(Packets)
      BY <1>1, <2>2, ChanTail
    <3>6. /\ q'[s] \in Queues /\ q'[s].lock = q[s].lock
          /\ q'[s].chan = Tail(q[s].chan)
          /\ q'[s].heap = q[s].heap /\ q'[s].nextSeq = q[s].nextSeq
          /\ q'[s].nomore = q[s].nomore
          /\ q'[s].reader = Xhttp!Drained(q[s].reader, Head(q[s].chan).post)
          /\ q'[s].closed = q[s].closed /\ q'[s].open = q[s].open
      BY <1>1, <3>2, <3>4, <3>5 DEF Queues
    <3>7. q' \in [Xhttp!Ids -> Queues]
      BY <1>2, <3>1, <3>2, <3>6
    <3> QED BY <2>1, <2>2, <3>2, <3>6, <3>7
  <2>3. CASE q[s].chan = <<>>
    <3>1. q' = [q EXCEPT ![s].open = FALSE]
      BY <1>4, <2>3 DEF Xhttp!CloseDrain
    <3>2. /\ q'[s] = [q[s] EXCEPT !.open = FALSE]
          /\ \A t \in Xhttp!Ids \ {s} : q'[t] = q[t]
      BY <1>2, <3>1
    <3>3. /\ q'[s] \in Queues /\ q'[s].lock = q[s].lock
          /\ q'[s].chan = q[s].chan
          /\ q'[s].heap = q[s].heap /\ q'[s].nextSeq = q[s].nextSeq
          /\ q'[s].nomore = q[s].nomore /\ q'[s].reader = q[s].reader
          /\ q'[s].closed = q[s].closed /\ q'[s].open = FALSE
      BY <1>1, <3>2 DEF Queues
    <3>4. q' \in [Xhttp!Ids -> Queues]
      BY <1>2, <3>1, <3>2, <3>3
    <3> QED BY <2>1, <2>3, <3>2, <3>3, <3>4
  <2> QED BY <2>2, <2>3
<1>5. CASE Xhttp!CloseReader(s, closer)
  <2>1. /\ q[s].lock = closer /\ ~q[s].open
        /\ q' = [q EXCEPT ![s].lock = None]
    BY <1>5 DEF Xhttp!CloseReader, Xhttp!Held
  <2>2. /\ q'[s] = [q[s] EXCEPT !.lock = None]
        /\ \A t \in Xhttp!Ids \ {s} : q'[t] = q[t]
    BY <1>2, <2>1
  <2>3. /\ q'[s] \in Queues /\ q'[s].lock = None /\ q'[s].chan = q[s].chan
        /\ q'[s].heap = q[s].heap /\ q'[s].nextSeq = q[s].nextSeq
        /\ q'[s].nomore = q[s].nomore /\ q'[s].reader = q[s].reader
        /\ q'[s].closed = q[s].closed /\ q'[s].open = q[s].open
    BY <1>1, <2>2 DEF Queues
  <2>4. q' \in [Xhttp!Ids -> Queues]
    BY <1>2, <2>1, <2>2, <2>3
  <2>5. None \notin Closers
    BY XhttpTyped DEF Closers, XhttpInv
  <2> QED BY <2>1, <2>2, <2>3, <2>4, <2>5
<1> QED BY <1>3, <1>4, <1>5 DEF CloseSteps

\* Close keeps what is invariant of the queues, and no packet is repeated.
LEMMA CloseKeeps ==
  ASSUME Xhttp!PostsAssumption, XhttpInv, NEW s \in Xhttp!Ids,
         NEW closer \in Closers, CloseSteps(s, closer),
         rd' = rd, post' = post, get'.s = get.s, uploaded' = uploaded
  PROVE  /\ q' \in [Xhttp!Ids -> Queues]
         /\ Locked' /\ Sent' /\ OncePosted' /\ HeapBound' /\ InTurnOnly'
<1>1. XhttpTypes /\ Locked /\ Sent /\ OncePosted
  BY DEF XhttpInv
<1>2. q[s].chan \in Seq(Packets) /\ Len(q[s].chan) \in Nat
  BY <1>1, QueueTyped
<1>3. \A t \in Xhttp!Ids \ {s} : q'[t] = q[t]
  BY CloseFacts
<1>4. /\ q'[s].heap = q[s].heap /\ q'[s].nextSeq = q[s].nextSeq
  BY CloseFacts
<1>5. PICK d \in {0, 1} :
         /\ Len(q'[s].chan) = Len(q[s].chan) - d
         /\ \A i \in 1 .. Len(q'[s].chan) : /\ q'[s].chan[i] = q[s].chan[i + d]
                                            /\ i + d \in 1 .. Len(q[s].chan)
         /\ q'[s].chan # q[s].chan => q[s].chan # <<>>
  <2>1. CASE q'[s].chan = q[s].chan
    <3> WITNESS 0 \in {0, 1}
    <3> QED BY <1>2, <2>1
  <2>2. CASE q[s].chan # <<>> /\ q'[s].chan = Tail(q[s].chan)
    <3> WITNESS 1 \in {0, 1}
    <3>1. /\ Len(q'[s].chan) = Len(q[s].chan) - 1
          /\ \A i \in 1 .. Len(q'[s].chan) :
                /\ q'[s].chan[i] = q[s].chan[i + 1]
                /\ i + 1 \in 2 .. Len(q[s].chan)
      BY <1>2, <2>2, ChanTail
    <3>2. \A i \in 2 .. Len(q[s].chan) : i \in 1 .. Len(q[s].chan)
      OBVIOUS
    <3> QED BY <2>2, <3>1, <3>2
  <2> QED BY <2>1, <2>2, CloseFacts
<1>6. Locked'
  <2>1. None # "post" /\ maxPackets \in Nat /\ closer # "post"
    BY <1>1, XhttpTyped DEF Closers
  <2>2. Len(q'[s].chan) <= maxPackets
    <3>1. Len(q[s].chan) <= maxPackets
      BY <1>1 DEF Locked
    <3> QED BY <1>2, <1>5, <2>1, <3>1
  <2>3. ASSUME ~q'[s].open
        PROVE  q'[s].closed /\ q'[s].chan = <<>>
    <3>1. CASE ~q[s].open
      <4>1. q[s].closed /\ q[s].chan = <<>>
        BY <1>1, <3>1 DEF Locked
      <4> QED BY <1>5, <4>1, CloseFacts
    <3>2. CASE /\ q[s].chan = <<>> /\ q'[s].chan = <<>>
               /\ q'[s].closed = q[s].closed /\ q[s].lock = closer
      BY <1>1, <3>2 DEF Locked
    <3> QED BY <2>3, <3>1, <3>2, CloseFacts
  <2>4. q'[s].lock # "post"
    BY <2>1, CloseFacts
  <2>5. q'[s].lock \in Closers => q'[s].closed
    <3>1. q'[s].lock \in Closers => q'[s].closed = TRUE \/
                (q'[s].closed = q[s].closed /\ q[s].lock = closer)
      BY CloseFacts
    <3>2. q[s].lock = closer => q[s].closed
      BY <1>1 DEF Locked
    <3> QED BY <3>1, <3>2
  <2>6. ASSUME NEW p \in Posts, post[p].pc = "send"
        PROVE  q'[post[p].s].lock = "post"
    <3>1. post[p].s \in Xhttp!Ids /\ q[post[p].s].lock = "post"
      BY <1>1, <2>6, XhttpTyped DEF Locked
    <3>2. post[p].s # s
      BY <2>1, <3>1, CloseFacts
    <3> QED BY <1>3, <3>1, <3>2
  <2>7. ASSUME NEW t \in Xhttp!Ids
        PROVE  /\ Len(q'[t].chan) <= maxPackets
               /\ ~q'[t].open => q'[t].closed /\ q'[t].chan = <<>>
               /\ q'[t].closed => q'[t].lock # "post"
               /\ q'[t].lock \in Closers => q'[t].closed
    <3>1. CASE t = s
      BY <2>2, <2>3, <2>4, <2>5, <3>1
    <3>2. CASE t # s
      BY <1>1, <1>3, <3>2 DEF Locked
    <3> QED BY <3>1, <3>2
  <2> QED BY <1>1, <2>6, <2>7 DEF Locked, Xhttp!Ids
<1>7. Sent'
  <2>1. ASSUME NEW t \in Xhttp!Ids, NEW i \in 1 .. Len(q'[t].chan)
        PROVE  OfPost(q[t].chan[i], t)' /\ q'[t].chan[i].from = 0
    <3>1. PICK j \in 1 .. Len(q[t].chan) : q'[t].chan[i] = q[t].chan[j]
      <4>1. CASE t = s
        BY <1>5, <4>1
      <4>2. CASE t # s
        BY <1>3, <4>2
      <4> QED BY <4>1, <4>2
    <3>2. /\ q[t].chan[j] \in Packets /\ OfPost(q[t].chan[j], t)
          /\ q[t].chan[j].from = 0
      BY <1>1, QueueTyped DEF Sent
    <3> QED BY <3>1, <3>2 DEF OfPost
  <2>2. ASSUME NEW t \in Xhttp!Ids, NEW o \in q'[t].heap
        PROVE  OfPost(o, t)'
    <3>1. o \in q[t].heap
      BY <1>3, <1>4
    <3>2. o \in Packets /\ OfPost(o, t)
      BY <1>1, <3>1, QueueTyped DEF Sent
    <3> QED BY <3>2 DEF OfPost
  <2>3. ASSUME rd.pc = "stream"
        PROVE  rd.packet \in Packets /\ OfPost(rd.packet, get.s)'
    BY <1>1, <2>3 DEF Sent, OfPost
  <2> QED BY <2>1, <2>2, <2>3 DEF Sent, Xhttp!Ids
<1>8. OncePosted'
  <2>1. ASSUME NEW t \in Xhttp!Ids
        PROVE  /\ \A i, j \in 1 .. Len(q'[t].chan) :
                     q'[t].chan[i].post = q'[t].chan[j].post => i = j
               /\ \A i \in 1 .. Len(q'[t].chan) : \A o \in q'[t].heap :
                     q'[t].chan[i].post # o.post
               /\ \A o, u \in q'[t].heap : o.post = u.post => o = u
    <3>1. CASE t # s
      BY <1>1, <1>3, <3>1 DEF OncePosted
    <3>2. CASE t = s
      <4>1. ASSUME NEW i \in 1 .. Len(q'[s].chan), NEW j \in 1 .. Len(q'[s].chan),
                   q'[s].chan[i].post = q'[s].chan[j].post
            PROVE  i = j
        <5>1. i + d = j + d
          <6>1. /\ i + d \in 1 .. Len(q[s].chan) /\ j + d \in 1 .. Len(q[s].chan)
                /\ q[s].chan[i + d].post = q[s].chan[j + d].post
            BY <1>5, <4>1
          <6>2. \A k, l \in 1 .. Len(q[s].chan) :
                    q[s].chan[k].post = q[s].chan[l].post => k = l
            BY <1>1 DEF OncePosted
          <6> QED BY <6>1, <6>2
        <5>2. i \in Nat /\ j \in Nat /\ d \in Nat
          OBVIOUS
        <5> QED BY <5>1, <5>2
      <4>2. \A i \in 1 .. Len(q'[s].chan) : \A o \in q'[s].heap :
                q'[s].chan[i].post # o.post
        BY <1>1, <1>4, <1>5 DEF OncePosted
      <4>3. \A o, u \in q'[s].heap : o.post = u.post => o = u
        BY <1>1, <1>4 DEF OncePosted
      <4> QED BY <3>2, <4>1, <4>2, <4>3
    <3> QED BY <3>1, <3>2
  <2> QED BY <2>1 DEF OncePosted, Xhttp!Ids
<1>9. HeapBound' /\ InTurnOnly'
  BY <1>3, <1>4, HeapSame
<1> QED BY <1>6, <1>7, <1>8, <1>9, CloseFacts

\* Types when nothing was made and the POSTs stand still.
LEMMA TypesKept ==
  ASSUME XhttpInv, UNCHANGED <<made, connected, post, uploaded, rd>>,
         sessions' \in {0, sessions}, q' \in [Xhttp!Ids -> Queues],
         get' = get \/ \E pc \in GetPcs \ {"new"} :
                          get.pc # "new" /\ get' = [get EXCEPT !.pc = pc],
         worker' = worker \/ (worker # "none" /\ worker' \in WorkerPcs),
         closedPosts' \subseteq Posts
  PROVE  XhttpTypes' /\ get'.s = get.s
<1>1. XhttpTypes
  BY DEF XhttpInv
<1>2. /\ get' \in [pc : GetPcs, s : 0 .. made] /\ get'.s = get.s
      /\ get'.pc # "new" <=> get.pc # "new"
  BY <1>1 DEF XhttpTypes, GetPcs
<1>3. /\ sessions' \in 0 .. made /\ worker' \in WorkerPcs
      /\ worker' # "none" => worker # "none"
  BY <1>1 DEF XhttpTypes
<1> QED BY <1>1, <1>2, <1>3 DEF XhttpTypes, Xhttp!Ids

\* The shut bodies are POSTs.
LEMMA ShutTyped ==
  ASSUME Xhttp!PostsAssumption, XhttpInv, NEW s \in Xhttp!Ids,
         NEW closer \in Closers,
         Xhttp!CloseReader(s, closer) \/ closedPosts' = closedPosts
  PROVE  closedPosts' \subseteq Posts
<1>1. closedPosts \subseteq Posts /\ q[s].reader \in Posts \cup {None}
  BY QueueTyped DEF XhttpInv, XhttpTypes
<1> QED BY <1>1 DEF Xhttp!CloseReader

\* The reaper ends the session or closes its queue.
LEMMA ReaperKeeps ==
  ASSUME Xhttp!PostsAssumption, XhttpInv, NEW s \in Xhttp!Ids,
         Xhttp!ReaperStep(s)
  PROVE  XhttpInv'
<1>1. UNCHANGED <<made, connected, post, get, worker, rd, uploaded>>
  BY DEF Xhttp!ReaperStep
<1>2. sessions' \in {0, sessions}
  BY DEF Xhttp!ReaperStep, Xhttp!Reaper
<1>3. CASE q' = q /\ closedPosts' = closedPosts
  <2>1. XhttpTypes'
    BY <1>1, <1>2, <1>3, TypesKept DEF XhttpInv, XhttpTypes
  <2>2. Locked'
    BY <1>1, <1>3 DEF XhttpInv, Locked, Xhttp!Ids
  <2>3. Sent'
    BY <1>1, <1>3, SentSame DEF XhttpInv, XhttpTypes
  <2> QED BY <1>1, <1>3, <2>1, <2>2, <2>3, QueuesSame DEF XhttpInv
<1>4. CASE /\ CloseSteps(s, "reaper")
           /\ Xhttp!CloseReader(s, "reaper") \/ closedPosts' = closedPosts
  <2>1. "reaper" \in Closers
    BY DEF Closers
  <2>2. closedPosts' \subseteq Posts
    BY <1>4, <2>1, ShutTyped
  <2>3. /\ q' \in [Xhttp!Ids -> Queues]
        /\ Locked' /\ Sent' /\ OncePosted' /\ HeapBound' /\ InTurnOnly'
    BY <1>1, <1>4, <2>1, CloseKeeps
  <2>4. XhttpTypes'
    BY <1>1, <1>2, <2>2, <2>3, TypesKept
  <2> QED BY <2>3, <2>4 DEF XhttpInv
<1> QED BY <1>3, <1>4 DEF Xhttp!ReaperStep, Xhttp!Reaper, CloseSteps

-----------------------------------------------------------------------------
(* GET and the worker *)

\* The GET finds its session, of which nothing was read.
LEMMA GetArrivesKeeps ==
  ASSUME Xhttp!PostsAssumption, XhttpInv, Xhttp!GetArrives
  PROVE  XhttpInv'
<1>1. PICK s \in Xhttp!Ids : /\ Xhttp!upsertSession(s)
                             /\ get' = [pc |-> "connect", s |-> s]
  BY DEF Xhttp!GetArrives
<1>2. /\ get.pc = "new"
      /\ UNCHANGED <<q, connected, post, worker, rd, uploaded, closedPosts>>
  BY DEF Xhttp!GetArrives
<1>3. XhttpTypes /\ HeapBound /\ InTurnOnly
  BY DEF XhttpInv
<1>4. /\ made' \in 0 .. MaxSessions /\ made <= made'
      /\ sessions' \in 0 .. made' /\ s \in 1 .. made'
  BY <1>1, <1>3, upsertSessionMakes
<1>5. /\ get.s = 0 /\ rd.pc = "off" /\ worker = "none" /\ uploaded = <<>>
      /\ get'.s = s /\ get'.pc = "connect"
  BY <1>1, <1>2, <1>3 DEF XhttpTypes, InTurnOnly
<1>6. s # 0 /\ MaxSessions \in Nat /\ made \in Nat /\ PayloadLen \in Nat
      /\ PayloadLen > 0
  BY <1>3, <1>4, XhttpTyped
<1>7. XhttpTypes'
  <2>1. connected' \subseteq 1 .. made'
    BY <1>2, <1>3, <1>4, <1>6 DEF XhttpTypes
  <2>2. get' \in [pc : GetPcs, s : 0 .. made'] /\ (get'.pc # "new" <=> get'.s # 0)
    BY <1>1, <1>4, <1>5, <1>6 DEF GetPcs
  <2> QED BY <1>2, <1>3, <1>4, <1>5, <1>6, <2>1, <2>2 DEF XhttpTypes, Xhttp!Ids
<1>8. Locked' /\ OncePosted'
  BY <1>2 DEF XhttpInv, Locked, OncePosted, Xhttp!Ids
<1>9. Sent'
  <2>1. ASSUME NEW t \in Xhttp!Ids, NEW i \in 1 .. Len(q[t].chan)
        PROVE  OfPost(q[t].chan[i], t)' /\ q[t].chan[i].from = 0
    <3>1. OfPost(q[t].chan[i], t) /\ q[t].chan[i].from = 0
      BY DEF XhttpInv, Sent
    <3> QED BY <1>2, <3>1 DEF OfPost
  <2>2. ASSUME NEW t \in Xhttp!Ids, NEW e \in q[t].heap
        PROVE  OfPost(e, t)'
    <3>1. OfPost(e, t)
      BY DEF XhttpInv, Sent
    <3> QED BY <1>2, <3>1 DEF OfPost
  <2> QED BY <1>2, <1>5, <2>1, <2>2 DEF Sent, Xhttp!Ids
<1>10. \A t \in Xhttp!Ids : q[t].heap = {} /\ q[t].nextSeq = 0
                              /\ IsFiniteSet(q[t].heap)
                              /\ Cardinality(q[t].heap) <= maxPackets + 2
  <2>1. 0 \notin Xhttp!Ids
    BY DEF Xhttp!Ids
  <2> QED BY <1>3, <1>5, <2>1 DEF HeapBound
<1>11. HeapBound'
  BY <1>2, <1>5, <1>10 DEF HeapBound, Xhttp!Ids
<1>12. InTurnOnly'
  <2>1. Reached(q[s].nextSeq, 0, q[s].heap)
    <3>1. Len(uploaded) = 0 /\ q[s].nextSeq = 0 /\ q[s].heap = {}
      BY <1>5, <1>10
    <3>2. 0 * PayloadLen + 0 = 0 /\ ~(0 > 0)
      BY <1>6
    <3> QED BY <3>1, <3>2 DEF Reached
  <2>2. 0 \in 0 .. PayloadLen - 1
    BY <1>6
  <2>3. Xhttp!ReadInOrder
    BY <1>3 DEF InTurnOnly
  <2> QED BY <1>2, <1>5, <1>6, <2>1, <2>2, <2>3
          DEF InTurnOnly, Reached, Xhttp!ReadInOrder
<1> QED BY <1>7, <1>8, <1>9, <1>11, <1>12 DEF XhttpInv

\* GET and worker move, and no queue.
LEMMA GetMovesKeep ==
  ASSUME Xhttp!PostsAssumption, XhttpInv,
         \/ Xhttp!GetConnects \/ Xhttp!GetEnds \/ Xhttp!GetReturns
         \/ Xhttp!WorkerEnds
  PROVE  XhttpInv'
<1>1. XhttpTypes
  BY DEF XhttpInv
<1>2. /\ UNCHANGED <<made, q, post, rd, uploaded, closedPosts>>
      /\ sessions' \in {0, sessions} /\ connected' \in {connected, connected \cup {get.s}}
      /\ get.pc # "new"
      /\ get' = get \/ \E pc \in GetPcs \ {"new"} : get' = [get EXCEPT !.pc = pc]
      /\ worker' = worker \/ worker' \in {"serve", "close"}
  <2>1. CASE Xhttp!GetConnects
    BY <2>1 DEF Xhttp!GetConnects, GetPcs
  <2>2. CASE Xhttp!GetEnds
    BY <2>2 DEF Xhttp!GetEnds, GetPcs
  <2>3. CASE Xhttp!GetReturns
    BY <2>3 DEF Xhttp!GetReturns, GetPcs
  <2>4. CASE Xhttp!WorkerEnds
    BY <1>1, <2>4 DEF Xhttp!WorkerEnds, XhttpTypes
  <2> QED BY <2>1, <2>2, <2>3, <2>4
<1>3. /\ get' \in [pc : GetPcs, s : 0 .. made] /\ get'.s = get.s
      /\ get'.pc # "new" /\ get.s # 0
  BY <1>1, <1>2 DEF XhttpTypes, GetPcs
<1>4. XhttpTypes'
  <2>1. connected' \subseteq 1 .. made
    <3>1. get.s \in 1 .. made
      BY <1>1, <1>3, XhttpTyped
    <3> QED BY <1>1, <1>2, <3>1 DEF XhttpTypes
  <2>2. worker' \in WorkerPcs /\ sessions' \in 0 .. made
    BY <1>1, <1>2 DEF XhttpTypes, WorkerPcs
  <2> QED BY <1>1, <1>2, <1>3, <2>1, <2>2 DEF XhttpTypes, Xhttp!Ids
<1>5. Locked'
  BY <1>2 DEF XhttpInv, Locked, Xhttp!Ids
<1>6. Sent'
  BY <1>2, <1>3, SentSame
<1> QED BY <1>2, <1>3, <1>4, <1>5, <1>6, QueuesSame DEF XhttpInv

\* GET or worker in Close.
LEMMA ClosingKeeps ==
  ASSUME Xhttp!PostsAssumption, XhttpInv,
         Xhttp!GetCloses \/ Xhttp!WorkerCloses
  PROVE  XhttpInv'
<1>1. PICK closer \in {"get", "worker"}, pc \in {"close", "drain"},
           goto \in {"drain", "closed"} :
         /\ Xhttp!Closing(get.s, closer, pc, goto)
         /\ get' = get \/ (get.pc = pc /\ get' = [get EXCEPT !.pc = goto])
         /\ worker' = worker \/ (worker = pc /\ worker' = goto)
         /\ get.pc = pc \/ worker = pc
  <2>1. CASE Xhttp!GetCloses
    <3>1. PICK goto \in {"drain", "closed"} :
            /\ Xhttp!Closing(get.s, "get", get.pc, goto)
            /\ get' = [get EXCEPT !.pc = goto] /\ worker' = worker
      BY <2>1 DEF Xhttp!GetCloses
    <3>2. get.pc \in {"close", "drain"}
      BY <3>1 DEF Xhttp!Closing
    <3> QED BY <3>1, <3>2
  <2>2. CASE Xhttp!WorkerCloses
    <3>1. PICK goto \in {"drain", "closed"} :
            /\ Xhttp!Closing(get.s, "worker", worker, goto)
            /\ worker' = goto /\ get' = get
      BY <2>2 DEF Xhttp!WorkerCloses
    <3>2. worker \in {"close", "drain"}
      BY <3>1 DEF Xhttp!Closing
    <3> QED BY <3>1, <3>2
  <2> QED BY <2>1, <2>2
<1>2. UNCHANGED <<sessions, made, connected, reaper, post, rd, uploaded>>
  BY DEF Xhttp!GetCloses, Xhttp!WorkerCloses
<1>3. get.pc # "new" /\ get.s \in Xhttp!Ids
  <2>1. get.pc = "new" => get.s = 0 /\ worker = "none"
    BY DEF XhttpInv, XhttpTypes
  <2>2. get.pc # "new"
    BY <1>1, <2>1
  <2> QED BY <2>2, XhttpTyped DEF XhttpInv, XhttpTypes
<1>4. /\ CloseSteps(get.s, closer) /\ closer \in Closers
      /\ Xhttp!CloseReader(get.s, closer) \/ closedPosts' = closedPosts
  BY <1>1 DEF Xhttp!Closing, CloseSteps, Closers
<1>5. get'.s = get.s
  BY <1>1 DEF XhttpInv, XhttpTypes
<1>6. /\ q' \in [Xhttp!Ids -> Queues]
      /\ Locked' /\ Sent' /\ OncePosted' /\ HeapBound' /\ InTurnOnly'
  BY <1>2, <1>3, <1>4, <1>5, CloseKeeps
<1>7. closedPosts' \subseteq Posts
  BY <1>3, <1>4, ShutTyped
<1>8. XhttpTypes'
  <2>1. goto \in GetPcs \ {"new"} /\ goto \in WorkerPcs /\ pc # "none"
    BY DEF GetPcs, WorkerPcs
  <2> QED BY <1>1, <1>2, <1>3, <1>6, <1>7, <2>1, TypesKept
<1> QED BY <1>6, <1>8 DEF XhttpInv

-----------------------------------------------------------------------------
(* Read *)

\* What every step of Read leaves alone.
LEMMA ReadFacts ==
  ASSUME Xhttp!PostsAssumption, XhttpInv, Xhttp!Read
  PROVE  /\ get.s \in Xhttp!Ids /\ get.s # 0
         /\ UNCHANGED <<sessions, made, connected, reaper, post, get, worker,
                        closedPosts>>
  BY XhttpTyped DEF Xhttp!Read, XhttpInv

\* Types after a step of Read.
LEMMA ReadTypes ==
  ASSUME Xhttp!PostsAssumption, XhttpInv, get.s # 0,
         UNCHANGED <<sessions, made, connected, reaper, post, get, worker,
                     closedPosts>>,
         q' \in [Xhttp!Ids -> Queues], uploaded' \in Seq(Nat),
         rd' \in [pc : ReadPcs, packet : Packets \cup {None}]
  PROVE  XhttpTypes'
  BY DEF XhttpInv, XhttpTypes, Xhttp!Ids

\* Only the Read moves.
LEMMA ReadMoves ==
  ASSUME Xhttp!PostsAssumption, XhttpInv, get.s \in Xhttp!Ids, get.s # 0,
         UNCHANGED <<sessions, made, connected, reaper, post, get, worker,
                     closedPosts, q, uploaded>>,
         NEW pc \in ReadPcs \ {"stream"}, rd' = [pc |-> pc, packet |-> None],
         pc = "first" => q[get.s].heap = {},
         pc = "next" => Cardinality(q[get.s].heap) <= maxPackets + 1
  PROVE  XhttpInv'
<1>1. rd'.pc = pc /\ rd' \in [pc : ReadPcs, packet : Packets \cup {None}]
  OBVIOUS
<1>2. XhttpTypes'
  BY <1>1, ReadTypes DEF XhttpInv, XhttpTypes
<1>3. Locked' /\ OncePosted'
  BY DEF XhttpInv, Locked, OncePosted, Xhttp!Ids
<1>4. Sent'
  <2>1. ASSUME NEW t \in Xhttp!Ids, NEW i \in 1 .. Len(q[t].chan)
        PROVE  OfPost(q[t].chan[i], t)' /\ q[t].chan[i].from = 0
    <3>1. OfPost(q[t].chan[i], t) /\ q[t].chan[i].from = 0
      BY DEF XhttpInv, Sent
    <3> QED BY <3>1 DEF OfPost
  <2>2. ASSUME NEW t \in Xhttp!Ids, NEW e \in q[t].heap
        PROVE  OfPost(e, t)'
    <3>1. OfPost(e, t)
      BY DEF XhttpInv, Sent
    <3> QED BY <3>1 DEF OfPost
  <2> QED BY <1>1, <2>1, <2>2 DEF Sent, Xhttp!Ids
<1>5. HeapBound'
  BY <1>1 DEF XhttpInv, HeapBound, Xhttp!Ids
<1>6. InTurnOnly'
  BY DEF XhttpInv, InTurnOnly, Reached, Xhttp!ReadInOrder
<1> QED BY <1>2, <1>3, <1>4, <1>5, <1>6 DEF XhttpInv

\* Read begins where the reader, Close or the heap sends it.
LEMMA ReadBeginsKeeps ==
  ASSUME Xhttp!PostsAssumption, XhttpInv, Xhttp!Read, Xhttp!ReadBegins
  PROVE  XhttpInv'
<1>1. \E pc \in {"off", "ended", "first", "loop"} :
         /\ rd' = [pc |-> pc, packet |-> None]
         /\ pc = "first" => q[get.s].heap = {}
  BY DEF Xhttp!ReadBegins, Xhttp!RGoto
<1>2. UNCHANGED <<q, uploaded>>
  BY DEF Xhttp!ReadBegins
<1>3. /\ get.s \in Xhttp!Ids /\ get.s # 0
      /\ UNCHANGED <<sessions, made, connected, reaper, post, get, worker,
                     closedPosts>>
  BY ReadFacts
<1>4. PICK pc \in {"off", "ended", "first", "loop"} :
         /\ rd' = [pc |-> pc, packet |-> None]
         /\ pc = "first" => q[get.s].heap = {}
  BY <1>1, Zenon
<1>5. pc \in ReadPcs \ {"stream"} /\ pc # "next"
  BY SMTT(20) DEF ReadPcs
<1> QED BY <1>2, <1>3, <1>4, <1>5, ReadMoves

\* Receiving takes the first packet of the channel.
LEMMA ReceiveFacts ==
  ASSUME Xhttp!PostsAssumption, XhttpInv, Xhttp!Read, q[get.s].chan # <<>>,
         NEW h \in SUBSET Packets,
         q' = [q EXCEPT ![get.s].chan = Tail(@), ![get.s].heap = h]
  PROVE  /\ q' \in [Xhttp!Ids -> Queues]
         /\ \A t \in Xhttp!Ids \ {get.s} : q'[t] = q[t]
         /\ q'[get.s].chan = Tail(q[get.s].chan)
         /\ q'[get.s].heap = h /\ q'[get.s].nextSeq = q[get.s].nextSeq
         /\ q'[get.s].nomore = q[get.s].nomore
         /\ q'[get.s].reader = q[get.s].reader
         /\ q'[get.s].open = q[get.s].open
         /\ Head(q[get.s].chan) \in Packets
         /\ OfPost(Head(q[get.s].chan), get.s)
         /\ Head(q[get.s].chan).from = 0
         /\ Head(q[get.s].chan) = q[get.s].chan[1]
         /\ Locked'
<1>1. XhttpTypes /\ Locked /\ Sent /\ get.s \in Xhttp!Ids
  BY ReadFacts DEF XhttpInv
<1>2. q[get.s] \in Queues /\ q[get.s].chan \in Seq(Packets)
  BY <1>1, QueueTyped
<1>3. /\ q'[get.s] = [q[get.s] EXCEPT !.chan = Tail(q[get.s].chan), !.heap = h]
      /\ \A t \in Xhttp!Ids \ {get.s} : q'[t] = q[t]
  BY <1>1 DEF XhttpTypes
<1>4. /\ Head(q[get.s].chan) = q[get.s].chan[1]
      /\ Head(q[get.s].chan) \in Packets
      /\ 1 \in 1 .. Len(q[get.s].chan)
      /\ Tail(q[get.s].chan) \in Seq(Packets)
      /\ Len(Tail(q[get.s].chan)) = Len(q[get.s].chan) - 1
  BY <1>2, ChanTail
<1>5. /\ q'[get.s] \in Queues
      /\ q'[get.s].chan = Tail(q[get.s].chan)
      /\ q'[get.s].heap = h /\ q'[get.s].nextSeq = q[get.s].nextSeq
      /\ q'[get.s].nomore = q[get.s].nomore
      /\ q'[get.s].reader = q[get.s].reader
      /\ q'[get.s].open = q[get.s].open
      /\ q'[get.s].closed = q[get.s].closed
      /\ q'[get.s].lock = q[get.s].lock
  <2>1. PICK u \in Queues : u = q[get.s]
    BY <1>2
  <2>2. PICK ch \in Seq(Packets) : ch = Tail(q[get.s].chan)
    BY <1>4
  <2>3. q'[get.s] = [u EXCEPT !.chan = ch, !.heap = h]
    BY <1>3, <2>1, <2>2
  <2>4. /\ [u EXCEPT !.chan = ch, !.heap = h] \in Queues
        /\ [u EXCEPT !.chan = ch, !.heap = h].chan = ch
        /\ [u EXCEPT !.chan = ch, !.heap = h].heap = h
        /\ [u EXCEPT !.chan = ch, !.heap = h].nextSeq = u.nextSeq
        /\ [u EXCEPT !.chan = ch, !.heap = h].nomore = u.nomore
        /\ [u EXCEPT !.chan = ch, !.heap = h].reader = u.reader
        /\ [u EXCEPT !.chan = ch, !.heap = h].open = u.open
        /\ [u EXCEPT !.chan = ch, !.heap = h].closed = u.closed
        /\ [u EXCEPT !.chan = ch, !.heap = h].lock = u.lock
    BY DEF Queues
  <2> QED BY <2>1, <2>2, <2>3, <2>4
<1>6. q' \in [Xhttp!Ids -> Queues]
  BY <1>1, <1>3, <1>5 DEF XhttpTypes
<1>7. OfPost(Head(q[get.s].chan), get.s) /\ Head(q[get.s].chan).from = 0
  <2>1. \A i \in 1 .. Len(q[get.s].chan) :
            OfPost(q[get.s].chan[i], get.s) /\ q[get.s].chan[i].from = 0
    BY <1>1, Zenon DEF Sent
  <2>2. OfPost(q[get.s].chan[1], get.s) /\ q[get.s].chan[1].from = 0
    BY <1>4, <2>1, Zenon
  <2> QED BY <1>4, <2>2, Zenon
<1>8. Locked'
  <2>1. ASSUME NEW t \in Xhttp!Ids
        PROVE  /\ Len(q'[t].chan) <= maxPackets
               /\ ~q'[t].open => q'[t].closed /\ q'[t].chan = <<>>
               /\ q'[t].closed => q'[t].lock # "post"
               /\ q'[t].lock \in Closers => q'[t].closed
    <3>1. CASE t = get.s
      <4>1. Len(q[get.s].chan) <= maxPackets /\ maxPackets \in Nat
        BY <1>1, XhttpTyped DEF Locked
      <4>2. Len(q'[t].chan) <= maxPackets
        <5>1. Len(q[get.s].chan) \in Nat
          BY <1>2
        <5>2. Len(q'[t].chan) = Len(q[get.s].chan) - 1
          BY <1>4, <1>5, <3>1
        <5> QED BY <4>1, <5>1, <5>2
      <4>3. q[get.s].open
        BY <1>1 DEF Locked
      <4> QED BY <1>1, <1>5, <3>1, <4>2, <4>3 DEF Locked
    <3>2. CASE t # get.s
      BY <1>1, <1>3, <3>2 DEF Locked
    <3> QED BY <3>1, <3>2
  <2>2. \A t \in Xhttp!Ids : q'[t].lock = q[t].lock
    BY <1>3, <1>5
  <2>3. post' = post
    BY ReadFacts
  <2>4. \A p \in Posts : post[p].pc = "send" => post[p].s \in Xhttp!Ids
    BY <1>1, XhttpTyped
  <2> QED BY <1>1, <2>1, <2>2, <2>3, <2>4 DEF Locked, Xhttp!Ids
<1> QED BY <1>3, <1>4, <1>5, <1>6, <1>7, <1>8

\* The rest of the channel is still of POSTs, each once.
LEMMA ReceivedRest ==
  ASSUME Xhttp!PostsAssumption, XhttpInv, Xhttp!Read, q[get.s].chan # <<>>,
         q'[get.s].chan = Tail(q[get.s].chan)
  PROVE  /\ \A i \in 1 .. Len(q'[get.s].chan) :
               /\ OfPost(q'[get.s].chan[i], get.s)
               /\ q'[get.s].chan[i].from = 0
               /\ q'[get.s].chan[i].post # Head(q[get.s].chan).post
               /\ \A e \in q[get.s].heap : q'[get.s].chan[i].post # e.post
         /\ \A i, j \in 1 .. Len(q'[get.s].chan) :
               q'[get.s].chan[i].post = q'[get.s].chan[j].post => i = j
         /\ \A e \in q[get.s].heap : Head(q[get.s].chan).post # e.post
<1>1. XhttpTypes /\ Sent /\ OncePosted /\ get.s \in Xhttp!Ids
  BY ReadFacts DEF XhttpInv
<1>2. q[get.s].chan \in Seq(Packets)
  BY <1>1, QueueTyped
<1>3. /\ Head(q[get.s].chan) = q[get.s].chan[1]
      /\ 1 \in 1 .. Len(q[get.s].chan)
      /\ \A i \in 1 .. Len(q'[get.s].chan) :
            /\ q'[get.s].chan[i] = q[get.s].chan[i + 1]
            /\ i + 1 \in 2 .. Len(q[get.s].chan)
  BY <1>2, ChanTail
<1>4. /\ \A k \in 1 .. Len(q[get.s].chan) :
            OfPost(q[get.s].chan[k], get.s) /\ q[get.s].chan[k].from = 0
      /\ \A k, l \in 1 .. Len(q[get.s].chan) :
            q[get.s].chan[k].post = q[get.s].chan[l].post => k = l
      /\ \A k \in 1 .. Len(q[get.s].chan) : \A e \in q[get.s].heap :
            q[get.s].chan[k].post # e.post
  BY <1>1 DEF Sent, OncePosted
<1>5. ASSUME NEW i \in 1 .. Len(q'[get.s].chan)
      PROVE  i + 1 \in 1 .. Len(q[get.s].chan) /\ i + 1 # 1 /\ i \in Nat
  BY <1>3
<1>6. ASSUME NEW i \in 1 .. Len(q'[get.s].chan)
      PROVE  /\ OfPost(q[get.s].chan[i + 1], get.s)
             /\ q[get.s].chan[i + 1].from = 0
             /\ q[get.s].chan[i + 1].post # q[get.s].chan[1].post
             /\ \A e \in q[get.s].heap : q[get.s].chan[i + 1].post # e.post
  BY <1>3, <1>4, <1>5
<1>7. ASSUME NEW i \in 1 .. Len(q'[get.s].chan),
             NEW j \in 1 .. Len(q'[get.s].chan),
             q'[get.s].chan[i].post = q'[get.s].chan[j].post
      PROVE  i = j
  <2>1. i + 1 = j + 1
    <3>1. /\ q'[get.s].chan[i] = q[get.s].chan[i + 1]
          /\ q'[get.s].chan[j] = q[get.s].chan[j + 1]
      BY <1>3
    <3>2. q[get.s].chan[i + 1].post = q[get.s].chan[j + 1].post
      BY <1>7, <3>1
    <3>3. i + 1 \in 1 .. Len(q[get.s].chan) /\ j + 1 \in 1 .. Len(q[get.s].chan)
      BY <1>5
    <3> QED BY <1>4, <3>2, <3>3, Zenon
  <2> QED BY <1>5, <2>1
<1>8. ASSUME NEW i \in 1 .. Len(q'[get.s].chan)
      PROVE  /\ OfPost(q'[get.s].chan[i], get.s)
             /\ q'[get.s].chan[i].from = 0
             /\ q'[get.s].chan[i].post # Head(q[get.s].chan).post
             /\ \A e \in q[get.s].heap : q'[get.s].chan[i].post # e.post
  <2>1. /\ q'[get.s].chan[i] = q[get.s].chan[i + 1]
        /\ Head(q[get.s].chan) = q[get.s].chan[1]
    BY <1>3
  <2> QED BY <1>6, <2>1
<1>9. \A e \in q[get.s].heap : Head(q[get.s].chan).post # e.post
  BY <1>3, <1>4
<1> QED BY <1>7, <1>8, <1>9, Zenon

\* Sent and OncePosted when the rest of a channel stays and the heap grows by
\* nothing or by the packet that was received.
LEMMA ReceivedSent ==
  ASSUME Xhttp!PostsAssumption, XhttpInv, Xhttp!Read, q[get.s].chan # <<>>,
         q'[get.s].chan = Tail(q[get.s].chan),
         q'[get.s].heap \subseteq q[get.s].heap \cup {Head(q[get.s].chan)},
         \A t \in Xhttp!Ids \ {get.s} : q'[t] = q[t],
         rd'.pc = "stream" => rd'.packet = Head(q[get.s].chan)
  PROVE  Sent' /\ OncePosted'
<1>1. XhttpTypes /\ Sent /\ OncePosted /\ get.s \in Xhttp!Ids
      /\ post' = post /\ get' = get
  BY ReadFacts DEF XhttpInv
<1>2. /\ OfPost(Head(q[get.s].chan), get.s)
      /\ Head(q[get.s].chan) \in Packets
  <2>1. /\ q[get.s].chan \in Seq(Packets)
        /\ Head(q[get.s].chan) = q[get.s].chan[1]
        /\ 1 \in 1 .. Len(q[get.s].chan)
    BY <1>1, QueueTyped, ChanTail
  <2> QED BY <1>1, <2>1 DEF Sent
<1>3. Sent'
  <2>1. ASSUME NEW t \in Xhttp!Ids, NEW i \in 1 .. Len(q'[t].chan)
        PROVE  OfPost(q[t].chan[i], t)' /\ q'[t].chan[i].from = 0
    <3>1. OfPost(q'[t].chan[i], t) /\ q'[t].chan[i].from = 0
      <4>1. CASE t = get.s
        BY <4>1, ReceivedRest
      <4>2. CASE t # get.s
        BY <1>1, <4>2 DEF Sent
      <4> QED BY <4>1, <4>2
    <3> QED BY <1>1, <3>1 DEF OfPost
  <2>2. ASSUME NEW t \in Xhttp!Ids, NEW e \in q'[t].heap
        PROVE  OfPost(e, t)'
    <3>1. OfPost(e, t)
      BY <1>1, <1>2 DEF Sent
    <3> QED BY <1>1, <3>1 DEF OfPost
  <2>3. ASSUME rd'.pc = "stream"
        PROVE  rd'.packet \in Packets /\ OfPost(rd.packet, get.s)'
    BY <1>1, <1>2, <2>3 DEF OfPost
  <2> QED BY <1>1, <2>1, <2>2, <2>3 DEF Sent, Xhttp!Ids
<1>4. OncePosted'
  <2>1. ASSUME NEW t \in Xhttp!Ids
        PROVE  /\ \A i, j \in 1 .. Len(q'[t].chan) :
                     q'[t].chan[i].post = q'[t].chan[j].post => i = j
               /\ \A i \in 1 .. Len(q'[t].chan) : \A o \in q'[t].heap :
                     q'[t].chan[i].post # o.post
               /\ \A o, u \in q'[t].heap : o.post = u.post => o = u
    <3>1. CASE t = get.s
      <4>1. \A o, u \in q[get.s].heap : o.post = u.post => o = u
        BY <1>1 DEF OncePosted
      <4>2. /\ \A i \in 1 .. Len(q'[get.s].chan) :
                  /\ q'[get.s].chan[i].post # Head(q[get.s].chan).post
                  /\ \A e \in q[get.s].heap : q'[get.s].chan[i].post # e.post
            /\ \A i, j \in 1 .. Len(q'[get.s].chan) :
                  q'[get.s].chan[i].post = q'[get.s].chan[j].post => i = j
            /\ \A e \in q[get.s].heap : Head(q[get.s].chan).post # e.post
        BY ReceivedRest
      <4>3. ASSUME NEW o \in q'[get.s].heap
            PROVE  o \in q[get.s].heap \/ o = Head(q[get.s].chan)
        OBVIOUS
      <4>4. ASSUME NEW i \in 1 .. Len(q'[get.s].chan), NEW o \in q'[get.s].heap
            PROVE  q'[get.s].chan[i].post # o.post
        BY <4>2, <4>3, Zenon
      <4>5. ASSUME NEW o \in q'[get.s].heap, NEW u \in q'[get.s].heap,
                   o.post = u.post
            PROVE  o = u
        BY <4>1, <4>2, <4>3, <4>5, Zenon
      <4> QED BY <3>1, <4>2, <4>4, <4>5, Zenon
    <3>2. CASE t # get.s
      BY <1>1, <3>2 DEF OncePosted
    <3> QED BY <3>1, <3>2
  <2> QED BY <2>1 DEF OncePosted, Xhttp!Ids
<1> QED BY <1>3, <1>4

\* A packet that is received is whole, and goes into the heap.
LEMMA ReadReceivesKeeps ==
  ASSUME Xhttp!PostsAssumption, NoPartOfCopies, XhttpInv, Xhttp!Read,
         Xhttp!ReadReceives
  PROVE  XhttpInv'
<1>1. /\ XhttpTypes /\ HeapBound /\ InTurnOnly
      /\ get.s \in Xhttp!Ids /\ get.s # 0
      /\ UNCHANGED <<sessions, made, connected, reaper, post, get, worker,
                     closedPosts>>
  BY ReadFacts DEF XhttpInv
<1>2. uploaded' = uploaded /\ rd.pc \in {"first", "next"}
  BY DEF Xhttp!ReadReceives
<1>3. q[get.s] \in Queues /\ q[get.s].heap \in SUBSET Packets
      /\ q[get.s].chan \in Seq(Packets)
  BY <1>1, QueueTyped
<1>4. CASE q[get.s].chan = <<>> /\ q' = q /\ rd' = [pc |-> "ended", packet |-> None]
  BY <1>1, <1>2, <1>4, ReadMoves DEF ReadPcs
<1>5. CASE /\ q[get.s].chan # <<>>
           /\ rd' = [pc |-> "stream", packet |-> Head(q[get.s].chan)]
           /\ q' = [q EXCEPT ![get.s].chan = Tail(@)]
  <2>1. q' = [q EXCEPT ![get.s].chan = Tail(@), ![get.s].heap = q[get.s].heap]
    <3>1. PICK u, ch : u \in Queues /\ u = q[get.s] /\ ch = Tail(q[get.s].chan)
      BY <1>3
    <3>2. [u EXCEPT !.chan = ch] = [u EXCEPT !.chan = ch, !.heap = u.heap]
      BY <3>1 DEF Queues
    <3>3. q' = [q EXCEPT ![get.s] = [u EXCEPT !.chan = ch]]
      BY <1>1, <1>5, <3>1 DEF XhttpTypes
    <3>4. [q EXCEPT ![get.s].chan = Tail(@), ![get.s].heap = q[get.s].heap]
             = [q EXCEPT ![get.s] = [u EXCEPT !.chan = ch, !.heap = u.heap]]
      BY <1>1, <3>1 DEF XhttpTypes
    <3> QED BY <3>2, <3>3, <3>4
  <2>2. /\ q' \in [Xhttp!Ids -> Queues]
        /\ \A t \in Xhttp!Ids \ {get.s} : q'[t] = q[t]
        /\ q'[get.s].chan = Tail(q[get.s].chan)
        /\ q'[get.s].heap = q[get.s].heap
        /\ q'[get.s].nextSeq = q[get.s].nextSeq
        /\ Head(q[get.s].chan) \in Packets
        /\ Locked'
    BY <1>3, <1>5, <2>1, ReceiveFacts
  <2>3. rd'.pc = "stream" /\ rd'.packet = Head(q[get.s].chan)
    BY <1>5
  <2>4. XhttpTypes'
    BY <1>1, <1>2, <1>5, <2>2, ReadTypes DEF XhttpTypes, ReadPcs
  <2>5. Sent' /\ OncePosted'
    BY <1>5, <2>2, <2>3, ReceivedSent
  <2>6. HeapBound'
    <3>1. ASSUME NEW t \in Xhttp!Ids
          PROVE  /\ IsFiniteSet(q'[t].heap)
                 /\ Cardinality(q'[t].heap) <= maxPackets + 2
                 /\ t # get.s => q'[t].heap = {} /\ q'[t].nextSeq = 0
      <4>1. q'[t].heap = q[t].heap /\ q'[t].nextSeq = q[t].nextSeq
        BY <2>2
      <4> QED BY <1>1, <4>1 DEF HeapBound
    <3> QED BY <1>1, <2>3, <3>1 DEF HeapBound, Xhttp!Ids
  <2>7. InTurnOnly'
    BY <1>1, <1>2, <2>2 DEF InTurnOnly, Reached, Xhttp!ReadInOrder
  <2> QED BY <2>2, <2>4, <2>5, <2>6, <2>7 DEF XhttpInv
<1>6. CASE /\ q[get.s].chan # <<>>
           /\ rd' = [pc |-> "loop", packet |-> None]
           /\ q' = [q EXCEPT ![get.s].chan = Tail(@),
                             ![get.s].heap = @ \cup {Head(q[get.s].chan)}]
  <2>1. PICK e \in Packets : e = Head(q[get.s].chan)
    BY <1>3, <1>6, ChanTail, Zenon
  <2>2. PICK h \in SUBSET Packets : h = q[get.s].heap \cup {e}
    BY <1>3
  <2>3. q' = [q EXCEPT ![get.s].chan = Tail(@), ![get.s].heap = h]
    BY <1>6, <2>1, <2>2
  <2>4. /\ q' \in [Xhttp!Ids -> Queues]
        /\ \A t \in Xhttp!Ids \ {get.s} : q'[t] = q[t]
        /\ q'[get.s].chan = Tail(q[get.s].chan)
        /\ q'[get.s].heap = h
        /\ q'[get.s].nextSeq = q[get.s].nextSeq
        /\ OfPost(e, get.s) /\ e.from = 0
        /\ Locked'
    BY <1>6, <2>1, <2>3, ReceiveFacts
  <2>5. rd'.pc = "loop" /\ rd' \in [pc : ReadPcs, packet : Packets \cup {None}]
    BY <1>6 DEF ReadPcs
  <2>6. XhttpTypes'
    BY <1>1, <1>2, <2>4, <2>5, ReadTypes DEF XhttpTypes
  <2>7. Sent' /\ OncePosted'
    BY <1>6, <2>1, <2>2, <2>4, <2>5, ReceivedSent
  <2>8. HeapBound'
    <3>1. /\ IsFiniteSet(q[get.s].heap) /\ maxPackets \in Nat
          /\ Cardinality(q[get.s].heap) \in Nat
          /\ Cardinality(q[get.s].heap) <= maxPackets + 1
      <4>1. IsFiniteSet(q[get.s].heap) /\ maxPackets \in Nat
        BY <1>1, XhttpTyped DEF HeapBound
      <4>2. Cardinality({}) = 0
        BY FS_EmptySet
      <4>3. rd.pc = "first" => Cardinality(q[get.s].heap) = 0
        BY <1>1, <4>2 DEF HeapBound
      <4>4. rd.pc = "next" => Cardinality(q[get.s].heap) <= maxPackets + 1
        BY <1>1 DEF HeapBound
      <4> QED BY <1>2, <4>1, <4>3, <4>4, FS_CardinalityType
    <3>2. /\ IsFiniteSet(h)
          /\ Cardinality(h) <= Cardinality(q[get.s].heap) + 1
      <4>1. IsFiniteSet(q[get.s].heap \cup {e})
               /\ (Cardinality(q[get.s].heap \cup {e})
                     = Cardinality(q[get.s].heap)
                  \/ Cardinality(q[get.s].heap \cup {e})
                     = Cardinality(q[get.s].heap) + 1)
        BY <3>1, FS_AddElement
      <4> QED BY <2>2, <3>1, <4>1
    <3>3. Cardinality(h) <= maxPackets + 2
      <4>1. Cardinality(h) \in Nat
        BY <3>2, FS_CardinalityType
      <4> QED BY <3>1, <3>2, <4>1
    <3>4. ASSUME NEW t \in Xhttp!Ids
          PROVE  /\ IsFiniteSet(q'[t].heap)
                 /\ Cardinality(q'[t].heap) <= maxPackets + 2
                 /\ t # get.s => q'[t].heap = {} /\ q'[t].nextSeq = 0
      <4>1. CASE t = get.s
        BY <2>4, <3>2, <3>3, <4>1
      <4>2. CASE t # get.s
        BY <1>1, <2>4, <4>2 DEF HeapBound
      <4> QED BY <4>1, <4>2
    <3> QED BY <1>1, <2>5, <3>4 DEF HeapBound, Xhttp!Ids
  <2>9. InTurnOnly'
    <3>1. PICK f \in 0 .. PayloadLen - 1 :
            Reached(q[get.s].nextSeq, f, q[get.s].heap)
      BY <1>1 DEF InTurnOnly
    <3>2. f > 0 => e.seq # q[get.s].nextSeq
      <4>1. SUFFICES ASSUME f > 0, e.seq = q[get.s].nextSeq PROVE FALSE
        OBVIOUS
      <4>2. PICK o \in q[get.s].heap : o.seq = q[get.s].nextSeq
        BY <3>1, <4>1 DEF Reached
      <4>3. o.post.seq = e.post.seq /\ e.post \in Posts /\ o.post \in Posts
        <5>1. OfPost(o, get.s) /\ o \in Packets
          BY <1>1, <1>3, <4>2 DEF XhttpInv, Sent
        <5>2. o.seq = o.post.seq /\ e.seq = e.post.seq
          <6>1. OfPost(e, get.s)
            BY <2>4
          <6> QED BY <5>1, <6>1 DEF OfPost
        <5> QED BY <4>1, <4>2, <5>1, <5>2, PacketTyped
      <4>4. o.post # e.post
        BY <1>6, <2>1, <2>4, <4>2, ReceivedRest, Zenon
      <4>5. PayloadLen # 1
        BY <3>1, <4>1
      <4> QED BY <4>3, <4>4, <4>5 DEF NoPartOfCopies
    <3>3. /\ Len(uploaded) = q[get.s].nextSeq * PayloadLen + f
          /\ \A o \in h : o.from = IF o.seq = q[get.s].nextSeq THEN f ELSE 0
          /\ f > 0 => \E o \in h : o.seq = q[get.s].nextSeq
      <4>1. f = 0 \/ f > 0
        BY <1>1, XhttpTyped
      <4>2. e.from = IF e.seq = q[get.s].nextSeq THEN f ELSE 0
        BY <2>4, <3>2, <4>1
      <4> QED BY <2>2, <3>1, <4>2 DEF Reached
    <3> QED BY <1>1, <1>2, <2>4, <3>3 DEF InTurnOnly, Reached, Xhttp!ReadInOrder
  <2> QED BY <2>4, <2>6, <2>7, <2>8, <2>9 DEF XhttpInv
<1> QED BY <1>4, <1>5, <1>6 DEF Xhttp!ReadReceives, Xhttp!RGoto

\* The queue's reader is the body that was received.
LEMMA ReadTakesBodyKeeps ==
  ASSUME Xhttp!PostsAssumption, XhttpInv, Xhttp!Read, Xhttp!ReadTakesBody
  PROVE  XhttpInv'
<1>1. /\ XhttpTypes /\ Sent
      /\ get.s \in Xhttp!Ids /\ get.s # 0
      /\ UNCHANGED <<sessions, made, connected, reaper, post, get, worker,
                     closedPosts>>
  BY ReadFacts DEF XhttpInv
<1>2. /\ rd.pc = "stream" /\ q' = [q EXCEPT ![get.s].reader = rd.packet.post]
      /\ rd' = [pc |-> "off", packet |-> None] /\ uploaded' = uploaded
  BY DEF Xhttp!ReadTakesBody, Xhttp!RGoto
<1>3. rd.packet.post \in Posts
  BY <1>1, <1>2, PacketTyped DEF Sent
<1>4. /\ q'[get.s] = [q[get.s] EXCEPT !.reader = rd.packet.post]
      /\ \A t \in Xhttp!Ids \ {get.s} : q'[t] = q[t]
  BY <1>1, <1>2 DEF XhttpTypes
<1>5. /\ q'[get.s] \in Queues
      /\ q'[get.s].chan = q[get.s].chan /\ q'[get.s].heap = q[get.s].heap
      /\ q'[get.s].nextSeq = q[get.s].nextSeq
      /\ q'[get.s].open = q[get.s].open /\ q'[get.s].closed = q[get.s].closed
      /\ q'[get.s].lock = q[get.s].lock
  <2>1. PICK u \in Queues, p \in Posts : u = q[get.s] /\ p = rd.packet.post
    BY <1>1, <1>3, QueueTyped
  <2>2. q'[get.s] = [u EXCEPT !.reader = p]
    BY <1>4, <2>1
  <2> QED BY <2>1, <2>2 DEF Queues
<1>6. q' \in [Xhttp!Ids -> Queues]
  BY <1>1, <1>4, <1>5, <1>2 DEF XhttpTypes
<1>7. XhttpTypes'
  BY <1>1, <1>2, <1>6, ReadTypes DEF XhttpTypes, ReadPcs
<1>8. \A t \in Xhttp!Ids : /\ q'[t].chan = q[t].chan /\ q'[t].heap = q[t].heap
                           /\ q'[t].nextSeq = q[t].nextSeq
                           /\ q'[t].open = q[t].open
                           /\ q'[t].closed = q[t].closed
                           /\ q'[t].lock = q[t].lock
  BY <1>4, <1>5
<1>9. Locked'
  <2>1. \A p \in Posts : post[p].pc = "send" => post[p].s \in Xhttp!Ids
    BY <1>1, XhttpTyped
  <2> QED BY <1>1, <1>8, <2>1 DEF XhttpInv, Locked, Xhttp!Ids
<1>10. Sent'
  <2>1. ASSUME NEW t \in Xhttp!Ids, NEW i \in 1 .. Len(q'[t].chan)
        PROVE  OfPost(q[t].chan[i], t)' /\ q'[t].chan[i].from = 0
    <3>1. OfPost(q[t].chan[i], t) /\ q[t].chan[i].from = 0
      BY <1>1, <1>8 DEF Sent
    <3> QED BY <1>1, <1>8, <3>1 DEF OfPost
  <2>2. ASSUME NEW t \in Xhttp!Ids, NEW e \in q'[t].heap
        PROVE  OfPost(e, t)'
    <3>1. OfPost(e, t)
      BY <1>1, <1>8 DEF Sent
    <3> QED BY <1>1, <3>1 DEF OfPost
  <2> QED BY <1>1, <1>2, <2>1, <2>2 DEF Sent, Xhttp!Ids
<1>11. OncePosted'
  BY <1>8 DEF XhttpInv, OncePosted, Xhttp!Ids
<1>12. HeapBound'
  <2>1. ASSUME NEW t \in Xhttp!Ids
        PROVE  /\ IsFiniteSet(q'[t].heap)
               /\ Cardinality(q'[t].heap) <= maxPackets + 2
               /\ t # get.s => q'[t].heap = {} /\ q'[t].nextSeq = 0
    BY <1>8 DEF XhttpInv, HeapBound
  <2> QED BY <1>1, <1>2, <2>1 DEF HeapBound, Xhttp!Ids
<1>13. InTurnOnly'
  BY <1>1, <1>2, <1>8 DEF XhttpInv, InTurnOnly, Reached, Xhttp!ReadInOrder
<1> QED BY <1>7, <1>9, <1>10, <1>11, <1>12, <1>13 DEF XhttpInv
-----------------------------------------------------------------------------
(* Read of a packet of the heap *)

\* One heap keeps packets of POSTs it had, the channels stay.
LEMMA OnceKept ==
  ASSUME OncePosted, NEW s \in Xhttp!Ids,
         \A t \in Xhttp!Ids : q'[t].chan = q[t].chan,
         \A t \in Xhttp!Ids \ {s} : q'[t].heap = q[t].heap,
         \A e \in q'[s].heap : \E o \in q[s].heap : e.post = o.post,
         \A e, o \in q'[s].heap : e.post = o.post => e = o
  PROVE  OncePosted'
<1>1. ASSUME NEW t \in Xhttp!Ids
      PROVE  /\ \A i, j \in 1 .. Len(q[t].chan) :
                   q[t].chan[i].post = q[t].chan[j].post => i = j
             /\ \A i \in 1 .. Len(q[t].chan) : \A e \in q'[t].heap :
                   q[t].chan[i].post # e.post
             /\ \A e, o \in q'[t].heap : e.post = o.post => e = o
  <2>1. CASE t = s
    BY <2>1 DEF OncePosted
  <2>2. CASE t # s
    BY <2>2 DEF OncePosted
  <2> QED BY <2>1, <2>2
<1> QED BY <1>1 DEF OncePosted, Xhttp!Ids

\* A step of Read that leaves the channels alone: what must be shown of the
\* heap it takes from.
LEMMA HeapMoves ==
  ASSUME Xhttp!PostsAssumption, XhttpInv, get.s \in Xhttp!Ids, get.s # 0,
         UNCHANGED <<sessions, made, connected, reaper, post, get, worker,
                     closedPosts>>,
         NEW h \in SUBSET Packets, NEW n \in Nat,
         q' = [q EXCEPT ![get.s].heap = h, ![get.s].nextSeq = n],
         uploaded' \in Seq(Nat),
         NEW pc \in ReadPcs \ {"stream", "first"},
         rd' = [pc |-> pc, packet |-> None],
         \A e \in h : \E o \in q[get.s].heap : e.post = o.post /\ e.seq = o.seq,
         \A e, o \in h : e.post = o.post => e = o,
         IsFiniteSet(h), Cardinality(h) <= maxPackets + 2,
         pc = "next" => Cardinality(h) <= maxPackets + 1,
         Xhttp!ReadInOrder',
         \E f \in 0 .. PayloadLen - 1 :
            /\ Len(uploaded') = n * PayloadLen + f
            /\ \A e \in h : e.from = IF e.seq = n THEN f ELSE 0
            /\ f > 0 => \E e \in h : e.seq = n
  PROVE  XhttpInv'
<1>1. XhttpTypes /\ Locked /\ Sent /\ OncePosted /\ HeapBound
  BY DEF XhttpInv
<1>2. /\ q' \in [Xhttp!Ids -> Queues]
      /\ \A t \in Xhttp!Ids \ {get.s} : q'[t] = q[t]
      /\ q'[get.s].heap = h /\ q'[get.s].nextSeq = n
      /\ \A t \in Xhttp!Ids : /\ q'[t].chan = q[t].chan
                              /\ q'[t].open = q[t].open
                              /\ q'[t].closed = q[t].closed
                              /\ q'[t].lock = q[t].lock
  <2>1. PICK u \in Queues : u = q[get.s]
    BY <1>1, QueueTyped
  <2>2. /\ q'[get.s] = [u EXCEPT !.heap = h, !.nextSeq = n]
        /\ \A t \in Xhttp!Ids \ {get.s} : q'[t] = q[t]
        /\ q' = [q EXCEPT ![get.s] = [u EXCEPT !.heap = h, !.nextSeq = n]]
    BY <1>1, <2>1 DEF XhttpTypes
  <2>3. /\ [u EXCEPT !.heap = h, !.nextSeq = n] \in Queues
        /\ [u EXCEPT !.heap = h, !.nextSeq = n].heap = h
        /\ [u EXCEPT !.heap = h, !.nextSeq = n].nextSeq = n
        /\ [u EXCEPT !.heap = h, !.nextSeq = n].chan = u.chan
        /\ [u EXCEPT !.heap = h, !.nextSeq = n].open = u.open
        /\ [u EXCEPT !.heap = h, !.nextSeq = n].closed = u.closed
        /\ [u EXCEPT !.heap = h, !.nextSeq = n].lock = u.lock
    BY DEF Queues
  <2>4. q' \in [Xhttp!Ids -> Queues]
    BY <1>1, <2>2, <2>3 DEF XhttpTypes
  <2> QED BY <2>1, <2>2, <2>3, <2>4
<1>3. rd'.pc = pc /\ rd' \in [pc : ReadPcs, packet : Packets \cup {None}]
  OBVIOUS
<1>4. XhttpTypes'
  BY <1>1, <1>2, <1>3, ReadTypes
<1>5. Locked'
  <2>1. \A p \in Posts : post[p].pc = "send" => post[p].s \in Xhttp!Ids
    BY <1>1, XhttpTyped
  <2> QED BY <1>1, <1>2, <2>1 DEF Locked, Xhttp!Ids
<1>6. Sent'
  <2>1. ASSUME NEW t \in Xhttp!Ids, NEW i \in 1 .. Len(q'[t].chan)
        PROVE  OfPost(q[t].chan[i], t)' /\ q'[t].chan[i].from = 0
    <3>1. OfPost(q[t].chan[i], t) /\ q[t].chan[i].from = 0
      BY <1>1, <1>2 DEF Sent
    <3> QED BY <1>2, <3>1, Zenon DEF OfPost
  <2>2. ASSUME NEW t \in Xhttp!Ids, NEW e \in q'[t].heap
        PROVE  OfPost(e, t)'
    <3>1. OfPost(e, t)
      <4>1. CASE t = get.s
        <5>1. PICK o \in q[get.s].heap : e.post = o.post /\ e.seq = o.seq
          BY <1>2, <4>1
        <5> QED BY <1>1, <4>1, <5>1 DEF Sent, OfPost
      <4>2. CASE t # get.s
        <5>1. q'[t] = q[t]
          BY <1>2, <4>2
        <5> QED BY <1>1, <5>1, Zenon DEF Sent
      <4> QED BY <4>1, <4>2
    <3> QED BY <3>1, Zenon DEF OfPost
  <2> QED BY <1>2, <1>3, <2>1, <2>2 DEF Sent, Xhttp!Ids
<1>7. OncePosted'
  <2>1. \A t \in Xhttp!Ids \ {get.s} : q'[t].heap = q[t].heap
    BY <1>2
  <2>2. \A e \in q'[get.s].heap : \E o \in q[get.s].heap : e.post = o.post
    BY <1>2
  <2>3. \A e, o \in q'[get.s].heap : e.post = o.post => e = o
    BY <1>2
  <2> QED BY <1>1, <1>2, <2>1, <2>2, <2>3, OnceKept
<1>8. HeapBound'
  <2>1. ASSUME NEW t \in Xhttp!Ids
        PROVE  /\ IsFiniteSet(q'[t].heap)
               /\ Cardinality(q'[t].heap) <= maxPackets + 2
               /\ t # get.s => q'[t].heap = {} /\ q'[t].nextSeq = 0
    <3>1. CASE t = get.s
      BY <1>2, <3>1
    <3>2. CASE t # get.s
      BY <1>1, <1>2, <3>2 DEF HeapBound
    <3> QED BY <3>1, <3>2
  <2> QED BY <1>2, <1>3, <2>1 DEF HeapBound, Xhttp!Ids
<1>9. InTurnOnly'
  <2>1. PICK f \in 0 .. PayloadLen - 1 :
            /\ Len(uploaded') = n * PayloadLen + f
            /\ \A e \in h : e.from = IF e.seq = n THEN f ELSE 0
            /\ f > 0 => \E e \in h : e.seq = n
    OBVIOUS
  <2>2. Reached(q[get.s].nextSeq, f, q[get.s].heap)'
    BY <1>2, <2>1 DEF Reached
  <2> QED BY <2>2 DEF InTurnOnly
<1> QED BY <1>4, <1>5, <1>6, <1>7, <1>8, <1>9 DEF XhttpInv

\* The instance counts as FiniteSets does.
LEMMA CountedSame ==
  ASSUME NEW h
  PROVE  Xhttp!Cardinality(h) = Cardinality(h)
  BY DEF Xhttp!Cardinality, Cardinality

\* Taking one packet out of a finite heap.
LEMMA HeapDrop ==
  ASSUME NEW h \in SUBSET Packets, IsFiniteSet(h), NEW e \in h
  PROVE  /\ IsFiniteSet(h \ {e}) /\ Cardinality(h) \in Nat
         /\ Cardinality(h \ {e}) = Cardinality(h) - 1
         /\ Cardinality(h \ {e}) \in Nat
  BY FS_RemoveElement, FS_CardinalityType

\* A packet ahead of its turn stays in the heap, one that was read is dropped.
LEMMA ReadReordersKeeps ==
  ASSUME Xhttp!PostsAssumption, XhttpInv, Xhttp!Read,
         NEW e \in Xhttp!Lowest(q[get.s].heap), Xhttp!ReadReorders(e)
  PROVE  XhttpInv'
<1>1. /\ XhttpTypes /\ Sent /\ OncePosted /\ HeapBound /\ InTurnOnly
      /\ get.s \in Xhttp!Ids /\ get.s # 0
      /\ UNCHANGED <<sessions, made, connected, reaper, post, get, worker,
                     closedPosts>>
  BY ReadFacts DEF XhttpInv
<1>2. /\ uploaded' = uploaded /\ rd.pc = "loop" /\ e \in q[get.s].heap
      /\ e.seq # q[get.s].nextSeq
      /\ \A o \in q[get.s].heap : e.seq <= o.seq
  BY DEF Xhttp!ReadReorders, Xhttp!InTurn, Xhttp!Lowest
<1>3. /\ q[get.s].heap \in SUBSET Packets /\ q[get.s].nextSeq \in Nat
      /\ uploaded \in Seq(Nat) /\ maxPackets \in Nat
  BY <1>1, QueueTyped, XhttpTyped
<1>4. /\ IsFiniteSet(q[get.s].heap)
      /\ Cardinality(q[get.s].heap) <= maxPackets + 2
      /\ IsFiniteSet(q[get.s].heap \ {e})
      /\ Cardinality(q[get.s].heap) \in Nat
      /\ Cardinality(q[get.s].heap \ {e}) = Cardinality(q[get.s].heap) - 1
  BY <1>1, <1>2, <1>3, HeapDrop DEF HeapBound
<1>5. CASE Xhttp!Misordered(e, q[get.s])
  <2>1. /\ q' = q
        /\ rd' = [pc |-> IF Cardinality(q[get.s].heap) - 1 > maxPackets
                         THEN "ended" ELSE "next",
                  packet |-> None]
    BY <1>5, CountedSame DEF Xhttp!ReadReorders, Xhttp!RGoto
  <2>2. CASE Cardinality(q[get.s].heap) - 1 > maxPackets
    <3>1. rd' = [pc |-> "ended", packet |-> None]
      BY <2>1, <2>2
    <3> QED BY <1>1, <1>2, <2>1, <3>1, ReadMoves DEF ReadPcs
  <2>3. CASE ~(Cardinality(q[get.s].heap) - 1 > maxPackets)
    <3>1. rd' = [pc |-> "next", packet |-> None]
      BY <2>1, <2>3
    <3>2. Cardinality(q[get.s].heap) <= maxPackets + 1
      BY <1>3, <1>4, <2>3
    <3> QED BY <1>1, <1>2, <2>1, <3>1, <3>2, ReadMoves DEF ReadPcs
  <2> QED BY <2>2, <2>3
<1>6. CASE ~Xhttp!Misordered(e, q[get.s])
  <2>1. PICK h \in SUBSET Packets : h = q[get.s].heap \ {e}
    BY <1>3
  <2>2. q' = [q EXCEPT ![get.s].heap = h,
                       ![get.s].nextSeq = q[get.s].nextSeq]
    <3>1. PICK u \in Queues : u = q[get.s]
      BY <1>1, QueueTyped
    <3>2. [u EXCEPT !.heap = h] = [u EXCEPT !.heap = h, !.nextSeq = u.nextSeq]
      BY DEF Queues
    <3>3. q' = [q EXCEPT ![get.s] = [u EXCEPT !.heap = h]]
      BY <1>1, <1>6, <2>1, <3>1 DEF Xhttp!ReadReorders, XhttpTypes
    <3>4. [q EXCEPT ![get.s].heap = h, ![get.s].nextSeq = q[get.s].nextSeq]
             = [q EXCEPT ![get.s] = [u EXCEPT !.heap = h, !.nextSeq = u.nextSeq]]
      BY <1>1, <3>1 DEF XhttpTypes
    <3> QED BY <3>2, <3>3, <3>4
  <2>3. PICK pc \in {"off", "loop"} : rd' = [pc |-> pc, packet |-> None]
    BY <1>6 DEF Xhttp!ReadReorders, Xhttp!RGoto
  <2>4. \A o, u \in h : o.post = u.post => o = u
    BY <1>1, <2>1 DEF OncePosted
  <2>5. IsFiniteSet(h) /\ Cardinality(h) <= maxPackets + 2
    BY <1>3, <1>4, <2>1
  <2>6. \E f \in 0 .. PayloadLen - 1 :
            /\ Len(uploaded') = q[get.s].nextSeq * PayloadLen + f
            /\ \A o \in h : o.from = IF o.seq = q[get.s].nextSeq THEN f ELSE 0
            /\ f > 0 => \E o \in h : o.seq = q[get.s].nextSeq
    <3>1. PICK f \in 0 .. PayloadLen - 1 :
            Reached(q[get.s].nextSeq, f, q[get.s].heap)
      BY <1>1 DEF InTurnOnly
    <3>2. f > 0 => \E o \in h : o.seq = q[get.s].nextSeq
      BY <1>2, <2>1, <3>1 DEF Reached
    <3> QED BY <1>2, <2>1, <3>1, <3>2 DEF Reached
  <2>7. Xhttp!ReadInOrder'
    BY <1>1, <1>2 DEF InTurnOnly, Xhttp!ReadInOrder
  <2>8. \A o \in h : \E u \in q[get.s].heap : o.post = u.post /\ o.seq = u.seq
    BY <2>1
  <2>9. pc \in ReadPcs \ {"stream", "first"} /\ pc # "next"
    BY <2>3 DEF ReadPcs
  <2> QED BY <1>1, <1>2, <1>3, <2>2, <2>3, <2>4, <2>5, <2>6, <2>7, <2>8, <2>9,
             HeapMoves
<1> QED BY <1>5, <1>6

\* Two sequences one after the other.
LEMMA ConcatAt ==
  ASSUME NEW d \in Seq(Nat), NEW b \in Seq(Nat),
         NEW i \in 1 .. Len(d) + Len(b)
  PROVE  (d \o b)[i] = IF i <= Len(d) THEN d[i] ELSE b[i - Len(d)]
  OBVIOUS

\* Bytes that follow what was read in order are read in order.
LEMMA InOrderOn ==
  ASSUME NEW d \in Seq(Nat), \A i \in 1 .. Len(d) : d[i] = i - 1,
         NEW b \in Seq(Nat), \A i \in 1 .. Len(b) : b[i] = Len(d) + i - 1
  PROVE  /\ d \o b \in Seq(Nat) /\ Len(d \o b) = Len(d) + Len(b)
         /\ \A i \in 1 .. Len(d) + Len(b) : (d \o b)[i] = i - 1
<1>1. d \o b \in Seq(Nat) /\ Len(d \o b) = Len(d) + Len(b)
  OBVIOUS
<1>2. ASSUME NEW i \in 1 .. Len(d) + Len(b) PROVE (d \o b)[i] = i - 1
  <2>1. CASE i <= Len(d)
    <3>1. (d \o b)[i] = d[i] /\ i \in 1 .. Len(d)
      BY <2>1, ConcatAt
    <3> QED BY <3>1
  <2>2. CASE ~(i <= Len(d))
    <3>1. (d \o b)[i] = b[i - Len(d)] /\ i - Len(d) \in 1 .. Len(b)
      BY <2>2, ConcatAt
    <3>2. b[i - Len(d)] = Len(d) + (i - Len(d)) - 1
      BY <3>1
    <3> QED BY <3>1, <3>2
  <2> QED BY <2>1, <2>2
<1> QED BY <1>1, <1>2

\* A whole packet more.
LEMMA OnePacketOn ==
  ASSUME NEW n \in Nat, NEW l \in Nat
  PROVE  (n + 1) * l = n * l + l /\ n * l \in Nat
  OBVIOUS

\* The packet in turn is read from where the last Read left it.
LEMMA ReadCopiesKeeps ==
  ASSUME Xhttp!PostsAssumption, NoPartOfCopies, XhttpInv, Xhttp!Read,
         NEW e \in Xhttp!Lowest(q[get.s].heap), Xhttp!ReadCopies(e)
  PROVE  XhttpInv'
<1>1. /\ XhttpTypes /\ Sent /\ OncePosted /\ HeapBound /\ InTurnOnly
      /\ get.s \in Xhttp!Ids /\ get.s # 0
      /\ UNCHANGED <<sessions, made, connected, reaper, post, get, worker,
                     closedPosts>>
  BY ReadFacts DEF XhttpInv
<1>2. PICK u \in Queues : u = q[get.s]
  BY <1>1, QueueTyped
<1>3. /\ rd' = [pc |-> "off", packet |-> None]
      /\ e \in u.heap /\ e.seq = u.nextSeq
  BY <1>2 DEF Xhttp!ReadCopies, Xhttp!InTurn, Xhttp!Lowest, Xhttp!RGoto
<1>4. /\ u.heap \in SUBSET Packets /\ u.nextSeq \in Nat /\ e \in Packets
      /\ uploaded \in Seq(Nat) /\ maxPackets \in Nat
      /\ PayloadLen \in Nat /\ PayloadLen > 0
  BY <1>1, <1>2, <1>3, QueueTyped, XhttpTyped
<1>5. PICK f \in 0 .. PayloadLen - 1 : Reached(u.nextSeq, f, u.heap)
  BY <1>1, <1>2 DEF InTurnOnly
<1>6. /\ e.from = f /\ e.from \in Nat
      /\ Len(uploaded) = u.nextSeq * PayloadLen + f
      /\ u.nextSeq * PayloadLen \in Nat /\ Len(uploaded) \in Nat
      /\ \A o \in u.heap : o.from = IF o.seq = u.nextSeq THEN f ELSE 0
  <2>1. /\ Len(uploaded) = u.nextSeq * PayloadLen + f
        /\ \A o \in u.heap : o.from = IF o.seq = u.nextSeq THEN f ELSE 0
    BY <1>5 DEF Reached
  <2>2. u.nextSeq * PayloadLen \in Nat
    BY <1>4, OnePacketOn
  <2>3. e.from = f
    BY <1>3, <2>1
  <2>4. Len(uploaded) \in Nat
    BY <1>4
  <2> QED BY <1>5, <2>1, <2>2, <2>3, <2>4
<1>7. PICK m \in 1 .. PayloadLen - f :
        /\ uploaded' = uploaded \o
              [i \in 1 .. m |-> e.seq * PayloadLen + e.from + i - 1]
        /\ q' = IF m < PayloadLen - f
                THEN [q EXCEPT ![get.s].heap =
                          (@ \ {e}) \cup {[e EXCEPT !.from = @ + m]}]
                ELSE [q EXCEPT ![get.s].heap = @ \ {e},
                               ![get.s].nextSeq = @ + 1]
  BY <1>6 DEF Xhttp!ReadCopies, Xhttp!Rest
<1>8. /\ uploaded' \in Seq(Nat) /\ Len(uploaded') = Len(uploaded) + m
      /\ Xhttp!ReadInOrder'
  <2>1. uploaded' = uploaded \o [i \in 1 .. m |-> Len(uploaded) + i - 1]
    BY <1>3, <1>6, <1>7
  <2>2. \A i \in 1 .. Len(uploaded) : uploaded[i] = i - 1
    BY <1>1 DEF InTurnOnly, Xhttp!ReadInOrder
  <2>3. m \in Nat
    BY <1>7
  <2>4. /\ uploaded' \in Seq(Nat) /\ Len(uploaded') = Len(uploaded) + m
        /\ \A i \in 1 .. Len(uploaded') : uploaded'[i] = i - 1
    <3>1. PICK d \in Seq(Nat) : d = uploaded
      BY <1>4
    <3>2. PICK l \in Nat : l = Len(d)
      BY <1>6, <3>1
    <3>3. PICK b : b = [i \in 1 .. m |-> l + i - 1]
      OBVIOUS
    <3>4. b \in Seq(Nat) /\ Len(b) = m
      <4>1. \A i \in 1 .. m : l + i - 1 \in Nat
        OBVIOUS
      <4>2. b \in [1 .. m -> Nat]
        BY <3>3, <4>1
      <4> QED BY <2>3, <4>2
    <3>5. \A i \in 1 .. Len(b) : b[i] = Len(d) + i - 1
      BY <3>2, <3>3, <3>4
    <3>6. \A i \in 1 .. Len(d) : d[i] = i - 1
      BY <2>2, <3>1
    <3>7. /\ d \o b \in Seq(Nat) /\ Len(d \o b) = Len(d) + Len(b)
          /\ \A i \in 1 .. Len(d) + Len(b) : (d \o b)[i] = i - 1
      BY <3>4, <3>5, <3>6, InOrderOn
    <3>8. uploaded' = d \o b
      BY <2>1, <3>1, <3>2, <3>3
    <3> QED BY <3>1, <3>4, <3>7, <3>8
  <2> QED BY <2>4 DEF Xhttp!ReadInOrder
<1>9. ASSUME NEW o \in u.heap, o # e, PayloadLen # 1
      PROVE  o.seq # e.seq
  <2>1. SUFFICES ASSUME o.seq = e.seq PROVE FALSE
    OBVIOUS
  <2>2. OfPost(o, get.s) /\ OfPost(e, get.s) /\ o \in Packets
    BY <1>1, <1>2, <1>3, <1>4 DEF Sent
  <2>3. o.post = e.post
    BY <1>4, <1>9, <2>1, <2>2, PacketTyped DEF OfPost, NoPartOfCopies
  <2> QED BY <1>1, <1>2, <1>3, <1>9, <2>3 DEF OncePosted
<1>10. /\ IsFiniteSet(u.heap) /\ Cardinality(u.heap) <= maxPackets + 2
       /\ IsFiniteSet(u.heap \ {e}) /\ Cardinality(u.heap) \in Nat
       /\ Cardinality(u.heap \ {e}) = Cardinality(u.heap) - 1
       /\ Cardinality(u.heap \ {e}) \in Nat
  BY <1>1, <1>2, <1>3, <1>4, HeapDrop DEF HeapBound
<1>11. \A o, v \in u.heap : o.post = v.post => o = v
  BY <1>1, <1>2 DEF OncePosted
<1>12. "off" \in ReadPcs \ {"stream", "first"}
  BY DEF ReadPcs
<1>13. CASE m < PayloadLen - f
  <2>1. PICK far \in 1 .. PayloadLen - 1 : far = f + m
    BY <1>4, <1>7, <1>13
  <2>2. PICK e2 : e2 = [e EXCEPT !.from = far]
    OBVIOUS
  <2>3. e2 \in Packets /\ e2.post = e.post /\ e2.seq = e.seq /\ e2.from = far
    <3>1. far \in 0 .. PayloadLen - 1
      BY <2>1
    <3> QED BY <1>4, <2>2, <3>1 DEF Packets
  <2>4. PICK h \in SUBSET Packets : h = (u.heap \ {e}) \cup {e2}
    BY <1>4, <2>3
  <2>5. q' = [q EXCEPT ![get.s].heap = h, ![get.s].nextSeq = u.nextSeq]
    <3>1. [e EXCEPT !.from = @ + m] = e2
      BY <1>6, <2>1, <2>2
    <3>2. [u EXCEPT !.heap = h] = [u EXCEPT !.heap = h, !.nextSeq = u.nextSeq]
      BY DEF Queues
    <3>3. q' = [q EXCEPT ![get.s] = [u EXCEPT !.heap = h]]
      BY <1>1, <1>2, <1>7, <1>13, <2>4, <3>1 DEF XhttpTypes
    <3>4. [q EXCEPT ![get.s].heap = h, ![get.s].nextSeq = u.nextSeq]
             = [q EXCEPT ![get.s] = [u EXCEPT !.heap = h, !.nextSeq = u.nextSeq]]
      BY <1>1, <1>2 DEF XhttpTypes
    <3> QED BY <3>2, <3>3, <3>4
  <2>6. IsFiniteSet(h) /\ Cardinality(h) <= maxPackets + 2
    <3>1. IsFiniteSet(h) /\ (\/ Cardinality(h) = Cardinality(u.heap \ {e})
                             \/ Cardinality(h) = Cardinality(u.heap \ {e}) + 1)
      BY <1>10, <2>4, FS_AddElement
    <3> QED BY <1>4, <1>10, <3>1
  <2>7. PayloadLen # 1
    BY <1>7, <1>13
  <2>8. /\ Len(uploaded') = u.nextSeq * PayloadLen + far
        /\ \A o \in h : o.from = IF o.seq = u.nextSeq THEN far ELSE 0
        /\ far > 0 => \E o \in h : o.seq = u.nextSeq
        /\ far \in 0 .. PayloadLen - 1
    <3>1. Len(uploaded') = u.nextSeq * PayloadLen + far /\ far \in 0 .. PayloadLen - 1
      <4>1. PICK a \in Nat : a = u.nextSeq * PayloadLen
        BY <1>6
      <4>2. Len(uploaded') = (a + f) + m /\ far = f + m
        BY <1>6, <1>8, <2>1, <4>1
      <4>3. (a + f) + m = a + (f + m)
        BY <1>5, <1>7
      <4> QED BY <2>1, <4>1, <4>2, <4>3
    <3>2. ASSUME NEW o \in h
          PROVE  o.from = IF o.seq = u.nextSeq THEN far ELSE 0
      <4>1. CASE o = e2
        BY <1>3, <2>3, <4>1
      <4>2. CASE o # e2
        BY <1>3, <1>6, <1>9, <2>4, <2>7, <4>2
      <4> QED BY <4>1, <4>2
    <3>3. \E o \in h : o.seq = u.nextSeq
      BY <1>3, <2>3, <2>4
    <3> QED BY <3>1, <3>2, <3>3
  <2>9. \A o, v \in h : o.post = v.post => o = v
    BY <1>3, <1>11, <2>3, <2>4
  <2>10. \A o \in h : \E v \in q[get.s].heap : o.post = v.post /\ o.seq = v.seq
    BY <1>2, <1>3, <2>3, <2>4
  <2> QED BY <1>1, <1>3, <1>4, <1>8, <1>12, <2>5, <2>6, <2>8, <2>9, <2>10,
             HeapMoves
<1>14. CASE ~(m < PayloadLen - f)
  <2>1. m = PayloadLen - f
    BY <1>4, <1>7, <1>14
  <2>2. PICK h \in SUBSET Packets : h = u.heap \ {e}
    BY <1>4
  <2>3. PICK n \in Nat : n = u.nextSeq + 1
    BY <1>4
  <2>4. q' = [q EXCEPT ![get.s].heap = h, ![get.s].nextSeq = n]
    BY <1>2, <1>7, <1>14, <2>2, <2>3
  <2>5. IsFiniteSet(h) /\ Cardinality(h) <= maxPackets + 2
    BY <1>4, <1>10, <2>2
  <2>6. ASSUME NEW o \in h
        PROVE  o.from = 0
    <3>1. o \in u.heap /\ o # e
      BY <2>2
    <3>2. CASE f = 0
      BY <1>6, <3>1, <3>2
    <3>3. CASE f > 0
      <4>1. PayloadLen # 1
        BY <3>3
      <4> QED BY <1>3, <1>6, <1>9, <3>1, <4>1
    <3> QED BY <1>4, <3>2, <3>3
  <2>7. Len(uploaded') = n * PayloadLen + 0
    <3>1. (u.nextSeq + 1) * PayloadLen = u.nextSeq * PayloadLen + PayloadLen
      BY <1>4, OnePacketOn
    <3>2. PICK a \in Nat : a = u.nextSeq * PayloadLen
      BY <1>6
    <3>3. n * PayloadLen = a + PayloadLen
      BY <2>3, <3>1, <3>2
    <3>4. Len(uploaded') = (a + f) + (PayloadLen - f)
      BY <1>6, <1>8, <2>1, <3>2
    <3>5. (a + f) + (PayloadLen - f) = a + PayloadLen + 0
      BY <1>4
    <3> QED BY <3>3, <3>4, <3>5
  <2>8. \E k \in 0 .. PayloadLen - 1 :
            /\ Len(uploaded') = n * PayloadLen + k
            /\ \A o \in h : o.from = IF o.seq = n THEN k ELSE 0
            /\ k > 0 => \E o \in h : o.seq = n
    <3>1. 0 \in 0 .. PayloadLen - 1
      BY <1>4
    <3> QED BY <2>6, <2>7, <3>1
  <2>9. \A o, v \in h : o.post = v.post => o = v
    BY <1>11, <2>2
  <2>10. \A o \in h : \E v \in q[get.s].heap : o.post = v.post /\ o.seq = v.seq
    BY <1>2, <2>2
  <2> QED BY <1>1, <1>3, <1>4, <1>8, <1>12, <2>4, <2>5, <2>8, <2>9, <2>10,
             HeapMoves
<1> QED BY <1>13, <1>14

-----------------------------------------------------------------------------
(* The session as a whole *)

\* Nothing was posted or read at first.
LEMMA XhttpInit ==
  ASSUME Xhttp!PostsAssumption, Xhttp!Init
  PROVE  XhttpInv
<1>1. /\ Xhttp!NewUploadQueue \in Queues
      /\ Xhttp!NewUploadQueue.chan = <<>> /\ Xhttp!NewUploadQueue.heap = {}
      /\ Xhttp!NewUploadQueue.open = TRUE /\ Xhttp!NewUploadQueue.nextSeq = 0
      /\ Xhttp!NewUploadQueue.lock = None /\ ~Xhttp!NewUploadQueue.closed
  BY DEF Xhttp!NewUploadQueue, Queues
<1>2. /\ MaxSessions \in Nat /\ maxPackets \in Nat
      /\ None \notin Closers
      /\ PayloadLen \in Nat \ {0}
  BY DEF Xhttp!PostsAssumption, Closers
<1>3. XhttpTypes
  <2>1. q \in [Xhttp!Ids -> Queues]
    BY <1>1 DEF Xhttp!Init
  <2>2. post \in [Posts -> [pc : PostPcs, s : 0 .. MaxSessions]]
    BY <1>2 DEF Xhttp!Init, PostPcs
  <2> QED BY <1>2, <2>1, <2>2
          DEF Xhttp!Init, XhttpTypes, GetPcs, WorkerPcs, ReadPcs
<1>4. Locked
  BY <1>1, <1>2 DEF Xhttp!Init, Locked
<1>5. Sent /\ OncePosted
  BY <1>1 DEF Xhttp!Init, Sent, OncePosted
<1>6. HeapBound
  <2>1. IsFiniteSet({}) /\ Cardinality({}) = 0
    BY FS_EmptySet
  <2>2. ASSUME NEW s \in Xhttp!Ids
        PROVE  /\ q[s].heap = {} /\ q[s].nextSeq = 0
               /\ IsFiniteSet(q[s].heap)
               /\ Cardinality(q[s].heap) <= maxPackets + 2
    <3>1. q[s].heap = {} /\ q[s].nextSeq = 0
      BY <1>1 DEF Xhttp!Init
    <3>2. 0 <= maxPackets + 2
      BY <1>2
    <3> QED BY <2>1, <3>1, <3>2
  <2>3. rd.pc = "off"
    BY DEF Xhttp!Init
  <2> QED BY <2>2, <2>3 DEF HeapBound
<1>7. InTurnOnly
  BY DEF Xhttp!Init, InTurnOnly, Xhttp!ReadInOrder
<1> QED BY <1>3, <1>4, <1>5, <1>6, <1>7 DEF XhttpInv

\* Every step of the session keeps the invariant.
LEMMA XhttpStep ==
  ASSUME Xhttp!PostsAssumption, NoPartOfCopies, XhttpInv,
         [Xhttp!Next]_(Xhttp!vars)
  PROVE  XhttpInv'
<1>1. ASSUME NEW p \in Posts,
             Xhttp!PostArrives(p) \/ Xhttp!PostStep(p) \/ Xhttp!StreamLeaves(p)
      PROVE  XhttpInv'
  BY <1>1, PostArrivesKeeps, PushKeeps, PushSendKeeps, StreamStepsKeep
  DEF Xhttp!PostStep
<1>2. ASSUME NEW s \in Xhttp!Ids, Xhttp!ReaperStep(s)
      PROVE  XhttpInv'
  BY <1>2, ReaperKeeps
<1>3. ASSUME Xhttp!GetArrives \/ Xhttp!GetEnds \/ Xhttp!GetStep
      PROVE  XhttpInv'
  BY <1>3, GetArrivesKeeps, GetMovesKeep, ClosingKeeps DEF Xhttp!GetStep
<1>4. ASSUME Xhttp!WorkerStep
      PROVE  XhttpInv'
  BY <1>4, GetMovesKeep, ClosingKeeps DEF Xhttp!WorkerStep
<1>5. ASSUME Xhttp!Read
      PROVE  XhttpInv'
  BY <1>5, ReadBeginsKeeps, ReadReceivesKeeps, ReadTakesBodyKeeps,
     ReadCopiesKeeps, ReadReordersKeeps DEF Xhttp!Read
<1>6. ASSUME UNCHANGED Xhttp!vars
      PROVE  XhttpInv'
  <2>1. UNCHANGED <<sessions, made, q, connected, reaper, post, get, worker, rd,
                    uploaded, closedPosts>>
    BY <1>6 DEF Xhttp!vars
  <2>2. XhttpTypes' /\ Locked'
    BY <2>1 DEF XhttpInv, XhttpTypes, Locked, Xhttp!Ids
  <2>3. Sent'
    BY <2>1, SentSame DEF XhttpInv
  <2>4. OncePosted' /\ HeapBound' /\ InTurnOnly'
    BY <2>1, QueuesSame
  <2> QED BY <2>2, <2>3, <2>4 DEF XhttpInv
<1> QED BY <1>1, <1>2, <1>3, <1>4, <1>5, <1>6 DEF Xhttp!Next

\* The upload is read in order: whatever the order of the POSTs, the pieces
\* Read takes and the sessions of the id, the worker has the client's bytes
\* from the first on, each once (upload_queue.go, Push, Read and Close), and
\* the channel and the heap keep to their bounds.
THEOREM UploadReadInOrder ==
  ASSUME Xhttp!PostsAssumption, NoPartOfCopies
  PROVE  Xhttp!Spec => [](Xhttp!TypeOK /\ Xhttp!ReadInOrder /\ ReadInOrder)
<1>1. Xhttp!Init => XhttpInv
  BY XhttpInit
<1>2. XhttpInv /\ [Xhttp!Next]_(Xhttp!vars) => XhttpInv'
  BY XhttpStep
<1>3. XhttpInv => Xhttp!TypeOK /\ Xhttp!ReadInOrder /\ ReadInOrder
  <2>1. SUFFICES ASSUME XhttpInv PROVE Xhttp!TypeOK /\ Xhttp!ReadInOrder
    BY DEF ReadInOrder
  <2>2. XhttpTypes /\ Locked /\ HeapBound /\ InTurnOnly
    BY <2>1 DEF XhttpInv
  <2>3. ASSUME NEW s \in Xhttp!Ids
        PROVE  /\ Len(q[s].chan) <= maxPackets
               /\ Xhttp!Cardinality(q[s].heap) <= maxPackets + 2
               /\ ~q[s].open => q[s].closed /\ q[s].chan = <<>>
               /\ q[s].lock \in {None, "post", "reaper", "get", "worker"}
    BY <2>2, QueueTyped, CountedSame DEF Locked, HeapBound
  <2>4. Xhttp!TypeOK
    BY <2>2, <2>3
    DEF Xhttp!TypeOK, XhttpTypes, GetPcs, WorkerPcs, ReadPcs
  <2> QED BY <2>2, <2>4 DEF InTurnOnly
<1> QED BY <1>1, <1>2, <1>3, PTL DEF Xhttp!Spec

-----------------------------------------------------------------------------
(* Request bodies *)

\* Where the requests are as they were, it is enough that readers are accepted
\* bodies and that the open ones are found.
LEMMA BodiesKept ==
  ASSUME BodyInv, post' = post,
         \A s \in Xhttp!Ids : q'[s].nomore = q[s].nomore,
         \A s \in Xhttp!Ids : q'[s].reader = q[s].reader
                                \/ Accepted(q'[s].reader, s),
         BodiesFound', WorkerClosed'
  PROVE  Bodies'
<1>1. \A s \in Xhttp!Ids :
          /\ \A p, o \in Posts : Accepted(p, s) /\ Accepted(o, s) => p = o
          /\ \A p \in Posts : Accepted(p, s) => q'[s].nomore
          /\ q'[s].reader # None => Accepted(q'[s].reader, s)
  BY DEF BodyInv, Bodies, OneBody
<1>2. OneBody'
  BY <1>1 DEF OneBody, Accepted, Xhttp!Ids
<1> QED BY <1>2 DEF Bodies

\* A body that was found is still where it was.
LEMMA FoundSame ==
  ASSUME NEW p \in Posts, BodyFound(p), post'[p].s = post[p].s,
         q'[post[p].s].chan = q[post[p].s].chan,
         q'[post[p].s].reader = q[post[p].s].reader,
         rd.pc = "stream" => rd' = rd /\ get'.s = get.s
  PROVE  BodyFound(p)'
  BY DEF BodyFound

\* Nothing of the queues' channels and readers changes, nor the worker.
LEMMA BodiesSame ==
  ASSUME Xhttp!PostsAssumption, BodyInv, post' = post, worker' = worker,
         \A s \in Xhttp!Ids : /\ q'[s].nomore = q[s].nomore
                              /\ q'[s].chan = q[s].chan
                              /\ q'[s].reader = q[s].reader
                              /\ ~q[s].open => ~q'[s].open,
         closedPosts \subseteq closedPosts',
         rd.pc = "stream" => rd' = rd,
         rd'.pc = "stream" => rd' = rd,
         rd.pc = "ended" => rd'.pc = "ended",
         get.s # 0 => get'.s = get.s
  PROVE  Bodies'
<1>1. XhttpTypes /\ BodiesFound /\ WorkerClosed
  BY DEF BodyInv, XhttpInv, Bodies
<1>2. BodiesFound'
  <2>1. ASSUME NEW p \in Posts, post[p].pc = "stream", p \notin closedPosts'
        PROVE  BodyFound(p)'
    <3>1. BodyFound(p) /\ post[p].s \in Xhttp!Ids
      BY <1>1, <2>1, XhttpTyped DEF BodiesFound
    <3>2. rd.pc = "stream" => get.s # 0
      BY <1>1 DEF XhttpTypes
    <3> QED BY <3>1, <3>2, FoundSame
  <2> QED BY <1>1, <2>1 DEF BodiesFound
<1>3. WorkerClosed'
  <2>1. worker # "none" => get.s # 0 /\ get.s \in Xhttp!Ids
    BY <1>1, XhttpTyped DEF XhttpTypes
  <2>2. worker = "closed" => get'.s = get.s /\ get.s \in Xhttp!Ids
    BY <2>1
  <2> QED BY <1>1, <2>2 DEF WorkerClosed
<1> QED BY <1>2, <1>3, BodiesKept

\* A new request is no accepted body yet.
LEMMA PostArrivesBodies ==
  ASSUME Xhttp!PostsAssumption, BodyInv, NEW p \in Posts,
         Xhttp!PostArrives(p) \/ (Xhttp!Push(p) /\ Xhttp!PushRefuses(q[post[p].s]))
  PROVE  Bodies'
<1>1. /\ post'[p].pc \in {"push", "refused"}
      /\ \A o \in Posts \ {p} : post'[o] = post[o]
      /\ post[p].pc \in {"new", "push"}
      /\ UNCHANGED <<q, get, worker, rd>> /\ closedPosts \subseteq closedPosts'
  <2>1. post \in [Posts -> [pc : PostPcs, s : 0 .. MaxSessions]]
    BY DEF BodyInv, XhttpInv, XhttpTypes
  <2>2. CASE Xhttp!PostArrives(p)
    <3>1. PICK s \in Xhttp!Ids : post' = [post EXCEPT ![p] =
                                            [pc |-> "push", s |-> s]]
      BY <2>2 DEF Xhttp!PostArrives
    <3>2. post'[p] = [pc |-> "push", s |-> s]
      BY <2>1, <3>1
    <3>3. /\ post[p].pc = "new"
          /\ UNCHANGED <<q, get, worker, rd>> /\ closedPosts' = closedPosts
      BY <2>2 DEF Xhttp!PostArrives
    <3> QED BY <2>1, <3>1, <3>2, <3>3
  <2>3. CASE Xhttp!Push(p) /\ Xhttp!PushRefuses(q[post[p].s])
    <3>1. /\ post' = [post EXCEPT ![p].pc = "refused"] /\ post[p].pc = "push"
          /\ UNCHANGED <<q, get, worker, rd>> /\ closedPosts \subseteq closedPosts'
      BY <2>3 DEF Xhttp!Push, Xhttp!PGoto
    <3> QED BY <2>1, <3>1
  <2> QED BY <2>2, <2>3
<1>2. XhttpTypes /\ OneBody /\ BodiesFound /\ WorkerClosed
  BY DEF BodyInv, XhttpInv, Bodies
<1>3. \A o \in Posts \ {p} : post'[o] = post[o]
  BY <1>1
<1>4. ASSUME NEW o \in Posts, NEW s1
      PROVE  Accepted(o, s1)' <=> Accepted(o, s1)
  <2>1. CASE o = p
    BY <1>1, <1>3, <2>1 DEF Accepted
  <2>2. CASE o # p
    BY <1>3, <2>2 DEF Accepted
  <2> QED BY <2>1, <2>2
<1>5. OneBody'
  <2>1. ASSUME NEW t \in Xhttp!Ids, q[t].reader # None
        PROVE  Accepted(q[t].reader, t)'
    <3>1. q[t].reader \in Posts /\ Accepted(q[t].reader, t)
      BY <1>2, <2>1, QueueTyped DEF OneBody
    <3>2. PICK o \in Posts : o = q[t].reader
      BY <3>1
    <3>3. Accepted(o, t)'
      BY <1>4, <3>1, <3>2
    <3> QED BY <1>1, <3>2, <3>3 DEF Accepted
  <2> QED BY <1>1, <1>2, <1>4, <2>1 DEF OneBody, Xhttp!Ids
<1>6. BodiesFound'
  <2>1. ASSUME NEW o \in Posts, post'[o].pc = "stream"
        PROVE  /\ o.kind = "stream"
               /\ o \notin closedPosts' => BodyFound(o)'
    <3>1. o # p /\ post'[o] = post[o]
      BY <1>1, <1>3, <2>1
    <3> QED BY <1>1, <1>2, <2>1, <3>1, FoundSame DEF BodiesFound
  <2> QED BY <1>1, <1>2, <2>1 DEF BodiesFound
<1>7. WorkerClosed'
  BY <1>1, <1>2 DEF WorkerClosed
<1> QED BY <1>5, <1>6, <1>7 DEF Bodies

\* A body that is accepted is the first of its session, and the last.
LEMMA PushBodies ==
  ASSUME Xhttp!PostsAssumption, BodyInv, NEW p \in Posts, Xhttp!Push(p),
         ~Xhttp!PushRefuses(q[post[p].s])
  PROVE  Bodies'
<1>1. XhttpTypes /\ OneBody /\ BodiesFound /\ WorkerClosed
  BY DEF BodyInv, XhttpInv, Bodies
<1>2. PICK s \in Xhttp!Ids : s = post[p].s
  BY <1>1, XhttpTyped DEF Xhttp!Push
<1>3. /\ q' = [q EXCEPT ![s].lock = "post", ![s].nomore = p.kind = "stream"]
      /\ post' = [post EXCEPT ![p].pc = "send"]
      /\ post[p].pc = "push" /\ ~q[s].nomore
      /\ UNCHANGED <<get, worker, rd, closedPosts>>
  BY <1>2 DEF Xhttp!Push, Xhttp!PGoto, Xhttp!PushRefuses
<1>4. /\ q[s] \in Queues /\ q \in [Xhttp!Ids -> Queues]
      /\ post \in [Posts -> [pc : PostPcs, s : 0 .. MaxSessions]]
  BY <1>1, QueueTyped DEF XhttpTypes
<1>5. /\ q'[s].nomore = (p.kind = "stream")
      /\ \A t \in Xhttp!Ids \ {s} : q'[t] = q[t]
      /\ \A t \in Xhttp!Ids : /\ q'[t].chan = q[t].chan
                              /\ q'[t].reader = q[t].reader
                              /\ q'[t].open = q[t].open
  <2>1. /\ q'[s] = [q[s] EXCEPT !.lock = "post", !.nomore = p.kind = "stream"]
        /\ \A t \in Xhttp!Ids \ {s} : q'[t] = q[t]
    BY <1>3, <1>4
  <2>2. /\ q'[s].nomore = (p.kind = "stream") /\ q'[s].chan = q[s].chan
        /\ q'[s].reader = q[s].reader /\ q'[s].open = q[s].open
    BY <1>4, <2>1 DEF Queues
  <2> QED BY <2>1, <2>2
<1>6. /\ post'[p].pc = "send" /\ post'[p].s = s
      /\ \A o \in Posts \ {p} : post'[o] = post[o]
  BY <1>2, <1>3, <1>4
<1>7. \A o \in Posts : ~Accepted(o, s)
  BY <1>1, <1>3 DEF OneBody
<1>8. ASSUME NEW o \in Posts, NEW t \in Xhttp!Ids
      PROVE  Accepted(o, t)' <=> Accepted(o, t)
                                   \/ (o = p /\ t = s /\ p.kind = "stream")
  <2>1. CASE o = p
    BY <1>2, <1>3, <1>6, <2>1 DEF Accepted
  <2>2. CASE o # p
    BY <1>6, <2>2 DEF Accepted
  <2> QED BY <2>1, <2>2
<1>9. OneBody'
  <2>1. ASSUME NEW t \in Xhttp!Ids
        PROVE  /\ \A o, u \in Posts : Accepted(o, t)' /\ Accepted(u, t)' => o = u
               /\ \A o \in Posts : Accepted(o, t)' => q'[t].nomore
    <3>1. CASE t = s
      BY <1>5, <1>7, <1>8, <3>1
    <3>2. CASE t # s
      BY <1>1, <1>5, <1>8, <3>2 DEF OneBody
    <3> QED BY <3>1, <3>2
  <2>2. ASSUME NEW t \in Xhttp!Ids, q[t].reader # None
        PROVE  Accepted(q[t].reader, t)'
    <3>1. PICK o \in Posts : o = q[t].reader /\ Accepted(o, t)
      BY <1>1, <2>2, QueueTyped DEF OneBody
    <3>2. Accepted(o, t)'
      BY <1>8, <3>1
    <3> QED BY <1>5, <3>1, <3>2 DEF Accepted
  <2> QED BY <1>5, <2>1, <2>2 DEF OneBody, Accepted, Xhttp!Ids
<1>10. BodiesFound'
  <2>1. ASSUME NEW o \in Posts, post'[o].pc = "stream"
        PROVE  o.kind = "stream" /\ (o \notin closedPosts' => BodyFound(o)')
    <3>1. o # p /\ post'[o] = post[o] /\ post[o].s \in Xhttp!Ids
      BY <1>1, <1>6, <2>1, XhttpTyped
    <3> QED BY <1>1, <1>3, <1>5, <2>1, <3>1, FoundSame DEF BodiesFound
  <2> QED BY <1>1, <1>3, <2>1 DEF BodiesFound
<1>11. WorkerClosed'
  <2>1. worker = "closed" => get.s \in Xhttp!Ids
    BY <1>1, XhttpTyped DEF XhttpTypes
  <2> QED BY <1>1, <1>3, <1>5, <2>1 DEF WorkerClosed
<1> QED BY <1>9, <1>10, <1>11 DEF Bodies

\* The body goes into the channel, or ends.
LEMMA SendBodies ==
  ASSUME Xhttp!PostsAssumption, BodyInv, NEW p \in Posts,
         Xhttp!PushSend(p) \/ Xhttp!StreamEnds(p)
  PROVE  Bodies'
<1>1. XhttpTypes /\ OneBody /\ BodiesFound /\ WorkerClosed
  BY DEF BodyInv, XhttpInv, Bodies
<1>2. PICK s \in Xhttp!Ids : s = post[p].s
  BY <1>1, XhttpTyped DEF Xhttp!PushSend, Xhttp!StreamEnds
<1>3. /\ q[s] \in Queues /\ q \in [Xhttp!Ids -> Queues]
      /\ q[s].chan \in Seq(Packets)
      /\ post \in [Posts -> [pc : PostPcs, s : 0 .. MaxSessions]]
  BY <1>1, QueueTyped DEF XhttpTypes
<1>4. /\ post[p].pc \in {"send", "stream"}
      /\ UNCHANGED <<get, worker, rd, closedPosts>>
      /\ post'[p].pc \in {"stream", "ok"} /\ post'[p].s = s
      /\ \A o \in Posts \ {p} : post'[o] = post[o]
      /\ post'[p].pc = "stream" => p.kind = "stream" /\ Xhttp!PushSend(p)
  <2>1. PICK pc \in {"stream", "ok"} :
          /\ post' = [post EXCEPT ![p].pc = pc]
          /\ pc = "stream" => p.kind = "stream" /\ Xhttp!PushSend(p)
    BY DEF Xhttp!PushSend, Xhttp!StreamEnds, Xhttp!PGoto
  <2>2. /\ post'[p].pc = pc /\ post'[p].s = s
        /\ \A o \in Posts \ {p} : post'[o] = post[o]
    BY <1>2, <1>3, <2>1
  <2>3. /\ post[p].pc \in {"send", "stream"}
        /\ UNCHANGED <<get, worker, rd, closedPosts>>
    BY DEF Xhttp!PushSend, Xhttp!StreamEnds
  <2> QED BY <2>1, <2>2, <2>3
<1>5. /\ \A t \in Xhttp!Ids \ {s} : q'[t] = q[t]
      /\ q'[s].nomore = q[s].nomore /\ q'[s].reader = q[s].reader
      /\ q'[s].open = q[s].open
      /\ \A i \in 1 .. Len(q[s].chan) : i \in 1 .. Len(q'[s].chan)
                                          /\ q'[s].chan[i] = q[s].chan[i]
      /\ Xhttp!PushSend(p) => \E i \in 1 .. Len(q'[s].chan) :
                                 q'[s].chan[i].post = p
  <2>1. CASE Xhttp!PushSend(p)
    <3>1. PICK e : e = Xhttp!Packet(p)
      OBVIOUS
    <3>2. e \in Packets /\ e.post = p
      <4>1. 0 \in 0 .. PayloadLen - 1 /\ p.seq \in Nat
        BY <1>1, XhttpTyped
      <4> QED BY <3>1, <4>1 DEF Xhttp!Packet, Packets
    <3>3. q' = [q EXCEPT ![s].chan = Append(@, e), ![s].lock = None]
      BY <1>2, <2>1, <3>1 DEF Xhttp!PushSend
    <3>4. /\ q'[s] = [q[s] EXCEPT !.chan = Append(q[s].chan, e), !.lock = None]
          /\ \A t \in Xhttp!Ids \ {s} : q'[t] = q[t]
      BY <1>3, <3>3
    <3>5. /\ q'[s].chan = Append(q[s].chan, e) /\ q'[s].nomore = q[s].nomore
          /\ q'[s].reader = q[s].reader /\ q'[s].open = q[s].open
      BY <1>3, <3>4 DEF Queues
    <3>6. PICK ch \in Seq(Packets) : ch = q[s].chan
      BY <1>3
    <3>7. /\ Len(Append(ch, e)) = Len(ch) + 1 /\ Len(ch) \in Nat
          /\ Append(ch, e)[Len(ch) + 1] = e
          /\ \A i \in 1 .. Len(ch) : Append(ch, e)[i] = ch[i]
      BY <3>2
    <3>8. /\ \A i \in 1 .. Len(ch) : i \in 1 .. Len(ch) + 1
          /\ Len(ch) + 1 \in 1 .. Len(ch) + 1
      BY <3>7
    <3> QED BY <3>2, <3>4, <3>5, <3>6, <3>7, <3>8
  <2>2. CASE Xhttp!StreamEnds(p)
    <3>1. q' = q /\ post[p].pc = "stream"
      BY <2>2 DEF Xhttp!StreamEnds
    <3>2. ~Xhttp!PushSend(p)
      BY <3>1 DEF Xhttp!PushSend
    <3> QED BY <3>1, <3>2
  <2> QED BY <2>1, <2>2
<1>6. ASSUME NEW o \in Posts, NEW t \in Xhttp!Ids
      PROVE  Accepted(o, t)' <=> Accepted(o, t)
  <2>1. CASE o = p
    BY <1>2, <1>4, <2>1 DEF Accepted
  <2>2. CASE o # p
    BY <1>4, <2>2 DEF Accepted
  <2> QED BY <2>1, <2>2
<1>7. OneBody'
  <2>1. ASSUME NEW t \in Xhttp!Ids
        PROVE  q'[t].nomore = q[t].nomore /\ q'[t].reader = q[t].reader
    BY <1>5
  <2>2. ASSUME NEW t \in Xhttp!Ids, q[t].reader # None
        PROVE  Accepted(q[t].reader, t)'
    <3>1. PICK o \in Posts : o = q[t].reader /\ Accepted(o, t)
      BY <1>1, <2>2, QueueTyped DEF OneBody
    <3>2. Accepted(o, t)'
      BY <1>6, <3>1
    <3> QED BY <2>1, <3>1, <3>2 DEF Accepted
  <2> QED BY <1>1, <1>6, <2>1, <2>2 DEF OneBody, Accepted, Xhttp!Ids
<1>8. BodiesFound'
  <2>1. ASSUME NEW o \in Posts, post'[o].pc = "stream"
        PROVE  o.kind = "stream" /\ (o \notin closedPosts' => BodyFound(o)')
    <3>1. CASE o = p
      BY <1>4, <1>5, <2>1, <3>1 DEF BodyFound
    <3>2. CASE o # p
      <4>1. /\ post'[o] = post[o] /\ post[o].s \in Xhttp!Ids
            /\ post[o].pc = "stream" /\ o.kind = "stream"
        BY <1>1, <1>4, <2>1, <3>2, XhttpTyped DEF BodiesFound
      <4>2. ASSUME o \notin closedPosts'
            PROVE  BodyFound(o)'
        <5>1. BodyFound(o)
          BY <1>1, <1>4, <4>1, <4>2 DEF BodiesFound
        <5>2. CASE post[o].s = s
          BY <1>4, <1>5, <4>1, <5>1, <5>2 DEF BodyFound
        <5>3. CASE post[o].s # s
          BY <1>4, <1>5, <4>1, <5>1, <5>3, FoundSame
        <5> QED BY <5>2, <5>3
      <4> QED BY <4>1, <4>2
    <3> QED BY <3>1, <3>2
  <2> QED BY <1>1, <1>4, <2>1 DEF BodiesFound
<1>9. WorkerClosed'
  <2>1. worker = "closed" => get.s \in Xhttp!Ids
    BY <1>1, XhttpTyped DEF XhttpTypes
  <2> QED BY <1>1, <1>4, <1>5, <2>1 DEF WorkerClosed
<1> QED BY <1>7, <1>8, <1>9 DEF Bodies

\* Close drains bodies into the reader, and shuts it: an open body is still in
\* the channel or is the reader.
LEMMA CloseBodies ==
  ASSUME Xhttp!PostsAssumption, BodyInv, NEW s \in Xhttp!Ids,
         NEW closer \in Closers, CloseSteps(s, closer),
         Xhttp!CloseReader(s, closer) \/ closedPosts' = closedPosts,
         rd' = rd, post' = post, get'.s = get.s
  PROVE  /\ BodiesFound'
         /\ closedPosts \subseteq closedPosts'
         /\ \A t \in Xhttp!Ids :
               /\ q'[t].nomore = q[t].nomore
               /\ q'[t].reader = q[t].reader \/ Accepted(q'[t].reader, t)
               /\ ~q[t].open => ~q'[t].open /\ q'[t].reader = q[t].reader
<1>1. XhttpTypes /\ Locked /\ Sent /\ OneBody /\ BodiesFound
  BY DEF BodyInv, XhttpInv, Bodies
<1>2. /\ \A t \in Xhttp!Ids \ {s} : q'[t] = q[t]
      /\ q'[s].nomore = q[s].nomore
      /\ ~q[s].open => ~q'[s].open
      /\ \/ q'[s].chan = q[s].chan /\ q'[s].reader = q[s].reader
         \/ /\ q[s].chan # <<>> /\ q'[s].chan = Tail(q[s].chan)
            /\ q[s].open
            /\ q'[s].reader = Xhttp!Drained(q[s].reader, Head(q[s].chan).post)
  BY CloseFacts DEF BodyInv
<1>3. q[s].chan \in Seq(Packets) /\ q[s].reader \in Posts \cup {None}
  BY <1>1, QueueTyped
<1>4. closedPosts \subseteq closedPosts'
  BY DEF Xhttp!CloseReader
<1>5. CASE q'[s].chan = q[s].chan /\ q'[s].reader = q[s].reader
  <2>1. ASSUME NEW p \in Posts, post[p].pc = "stream", p \notin closedPosts'
        PROVE  BodyFound(p)'
    <3>1. BodyFound(p) /\ post[p].s \in Xhttp!Ids
      BY <1>1, <1>4, <2>1, XhttpTyped DEF BodiesFound
    <3> QED BY <1>2, <1>5, <3>1, FoundSame
  <2>2. BodiesFound'
    BY <1>1, <2>1 DEF BodiesFound
  <2> QED BY <1>2, <1>4, <1>5, <2>2
<1>6. CASE /\ q[s].chan # <<>> /\ q'[s].chan = Tail(q[s].chan)
           /\ q[s].open
           /\ q'[s].reader = Xhttp!Drained(q[s].reader, Head(q[s].chan).post)
  <2>1. PICK e \in Packets : e = Head(q[s].chan)
    BY <1>3, <1>6, ChanTail
  <2>2. /\ e = q[s].chan[1] /\ OfPost(e, s) /\ e.post \in Posts
        /\ \A i \in 2 .. Len(q[s].chan) : i - 1 \in 1 .. Len(q'[s].chan)
                                            /\ q'[s].chan[i - 1] = q[s].chan[i]
    <3>1. PICK ch \in Seq(Packets) : ch = q[s].chan
      BY <1>3
    <3>2. /\ Head(ch) = ch[1] /\ 1 \in 1 .. Len(ch)
          /\ Len(Tail(ch)) = Len(ch) - 1
          /\ \A i \in 2 .. Len(ch) : i - 1 \in 1 .. Len(ch) - 1
                                       /\ Tail(ch)[i - 1] = ch[i]
      BY <1>6, <3>1
    <3> QED BY <1>1, <1>6, <2>1, <3>1, <3>2, PacketTyped DEF Sent
  <2>3. q'[s].reader = IF e.post.kind = "stream" THEN e.post ELSE q[s].reader
    BY <1>6, <2>1 DEF Xhttp!Drained
  <2>4. e.post.kind = "stream" => Accepted(e.post, s)
    BY <2>2 DEF OfPost, Accepted
  <2>5. ASSUME NEW p \in Posts, post[p].pc = "stream", p \notin closedPosts'
        PROVE  BodyFound(p)'
    <3>1. BodyFound(p) /\ post[p].s \in Xhttp!Ids /\ p.kind = "stream"
      BY <1>1, <1>4, <2>5, XhttpTyped DEF BodiesFound
    <3>2. CASE post[p].s # s
      BY <1>2, <3>1, <3>2, FoundSame
    <3>3. CASE post[p].s = s
      <4>1. Accepted(p, s)
        BY <2>5, <3>1, <3>3 DEF Accepted
      <4>2. CASE rd.pc = "stream" /\ get.s = s /\ rd.packet.post = p
        BY <3>3, <4>2 DEF BodyFound
      <4>3. CASE q[s].reader = p
        <5>1. q'[s].reader = p
          BY <1>1, <2>2, <2>3, <2>4, <4>1, <4>3 DEF OneBody
        <5> QED BY <3>3, <5>1 DEF BodyFound
      <4>4. ASSUME NEW i \in 1 .. Len(q[s].chan), q[s].chan[i].post = p
            PROVE  BodyFound(p)'
        <5>1. CASE i = 1
          <6>1. q'[s].reader = p
            BY <2>2, <2>3, <3>1, <4>4, <5>1
          <6> QED BY <3>3, <6>1 DEF BodyFound
        <5>2. CASE i # 1
          <6>1. i \in 2 .. Len(q[s].chan)
            BY <5>2
          <6>2. \E j \in 1 .. Len(q'[s].chan) : q'[s].chan[j].post = p
            BY <2>2, <4>4, <6>1
          <6> QED BY <3>3, <6>2 DEF BodyFound
        <5> QED BY <5>1, <5>2
      <4> QED BY <3>1, <3>3, <4>2, <4>3, <4>4 DEF BodyFound
    <3> QED BY <3>2, <3>3
  <2>6. BodiesFound'
    BY <1>1, <2>5 DEF BodiesFound
  <2>7. q'[s].reader = q[s].reader \/ Accepted(q'[s].reader, s)
    BY <2>3, <2>4
  <2> QED BY <1>2, <1>4, <1>6, <2>6, <2>7
<1> QED BY <1>2, <1>5, <1>6

\* The reaper has nothing to do with the worker.
LEMMA ReaperBodies ==
  ASSUME Xhttp!PostsAssumption, BodyInv, NEW s \in Xhttp!Ids,
         Xhttp!ReaperStep(s)
  PROVE  Bodies'
<1>1. UNCHANGED <<post, get, worker, rd>>
  BY DEF Xhttp!ReaperStep
<1>2. CASE UNCHANGED <<q, closedPosts>>
  BY <1>1, <1>2, BodiesSame
<1>3. CASE /\ CloseSteps(s, "reaper")
           /\ Xhttp!CloseReader(s, "reaper") \/ closedPosts' = closedPosts
  <2>1. "reaper" \in Closers
    BY DEF Closers
  <2>2. /\ BodiesFound'
        /\ closedPosts \subseteq closedPosts'
        /\ \A t \in Xhttp!Ids :
               /\ q'[t].nomore = q[t].nomore
               /\ q'[t].reader = q[t].reader \/ Accepted(q'[t].reader, t)
               /\ ~q[t].open => ~q'[t].open /\ q'[t].reader = q[t].reader
    BY <1>1, <1>3, <2>1, CloseBodies
  <2>3. WorkerClosed'
    <3>1. worker = "closed" => get.s \in Xhttp!Ids
      BY XhttpTyped DEF BodyInv, XhttpInv, XhttpTypes
    <3> QED BY <1>1, <2>2, <3>1 DEF BodyInv, Bodies, WorkerClosed
  <2> QED BY <1>1, <2>2, <2>3, BodiesKept
<1> QED BY <1>2, <1>3 DEF Xhttp!ReaperStep, Xhttp!Reaper, CloseSteps

\* Whoever of the GET and the worker closes, the worker's own Close is done
\* when the queue's reader is shut.
LEMMA ClosingBodies ==
  ASSUME Xhttp!PostsAssumption, BodyInv,
         Xhttp!GetCloses \/ Xhttp!WorkerCloses
  PROVE  Bodies'
<1>1. UNCHANGED <<post, rd>>
  BY DEF Xhttp!GetCloses, Xhttp!WorkerCloses
<1>2. PICK closer \in Closers, pc \in {"close", "drain"},
           goto \in {"drain", "closed"} :
        /\ Xhttp!Closing(get.s, closer, pc, goto)
        /\ \/ get.pc = pc /\ get' = [get EXCEPT !.pc = goto] /\ worker' = worker
           \/ worker = pc /\ worker' = goto /\ get' = get
  <2>1. CASE Xhttp!GetCloses
    <3>1. PICK goto \in {"drain", "closed"} :
            /\ Xhttp!Closing(get.s, "get", get.pc, goto)
            /\ get' = [get EXCEPT !.pc = goto] /\ worker' = worker
      BY <2>1 DEF Xhttp!GetCloses
    <3>2. get.pc \in {"close", "drain"} /\ "get" \in Closers
      BY <3>1 DEF Xhttp!Closing, Closers
    <3> QED BY <3>1, <3>2
  <2>2. CASE Xhttp!WorkerCloses
    <3>1. PICK goto \in {"drain", "closed"} :
            /\ Xhttp!Closing(get.s, "worker", worker, goto)
            /\ worker' = goto /\ get' = get
      BY <2>2 DEF Xhttp!WorkerCloses
    <3>2. worker \in {"close", "drain"} /\ "worker" \in Closers
      BY <3>1 DEF Xhttp!Closing, Closers
    <3> QED BY <3>1, <3>2
  <2> QED BY <2>1, <2>2
<1>3. XhttpTypes /\ WorkerClosed /\ OneBody
  BY DEF BodyInv, XhttpInv, Bodies
<1>4. get.s \in Xhttp!Ids /\ get'.s = get.s
  <2>1. get.pc = "new" => get.s = 0 /\ worker = "none"
    BY <1>3 DEF XhttpTypes
  <2>2. get.pc # "new"
    BY <1>2, <2>1
  <2>3. get.s \in Xhttp!Ids
    BY <1>3, <2>2, XhttpTyped DEF XhttpTypes
  <2> QED BY <1>2, <1>3, <2>3 DEF XhttpTypes
<1>5. /\ CloseSteps(get.s, closer)
      /\ Xhttp!CloseReader(get.s, closer) \/ closedPosts' = closedPosts
      /\ goto = "closed" => Xhttp!CloseReader(get.s, closer)
  BY <1>2 DEF Xhttp!Closing, CloseSteps
<1>6. /\ BodiesFound'
      /\ closedPosts \subseteq closedPosts'
      /\ \A t \in Xhttp!Ids :
             /\ q'[t].nomore = q[t].nomore
             /\ q'[t].reader = q[t].reader \/ Accepted(q'[t].reader, t)
             /\ ~q[t].open => ~q'[t].open /\ q'[t].reader = q[t].reader
  BY <1>1, <1>4, <1>5, CloseBodies
<1>7. WorkerClosed'
  <2>1. CASE worker' = worker
    BY <1>1, <1>3, <1>4, <1>6, <2>1 DEF WorkerClosed
  <2>2. CASE worker = pc /\ worker' = goto
    <3>1. rd'.pc = "ended"
      BY <1>1, <1>2, <1>3, <2>2 DEF WorkerClosed
    <3>2. ASSUME goto = "closed"
          PROVE  /\ ~q'[get.s].open
                 /\ q'[get.s].reader \in closedPosts' \cup {None}
      <4>1. /\ ~q[get.s].open
            /\ q[get.s].reader = None \/ q[get.s].reader \in closedPosts'
        BY <1>5, <3>2 DEF Xhttp!CloseReader
      <4>2. ~q'[get.s].open /\ q'[get.s].reader = q[get.s].reader
        BY <1>4, <1>6, <4>1
      <4> QED BY <4>1, <4>2
    <3> QED BY <1>4, <2>2, <3>1, <3>2 DEF WorkerClosed
  <2> QED BY <1>2, <2>1, <2>2
<1> QED BY <1>1, <1>6, <1>7, BodiesKept

\* The other steps leave channels and readers alone; the worker that reads to
\* the end has nothing left to read when it ends.
LEMMA OtherBodies ==
  ASSUME Xhttp!PostsAssumption, ~WorkerQuits, BodyInv,
         \/ \E p \in Posts : Xhttp!StreamLeaves(p)
         \/ Xhttp!GetArrives \/ Xhttp!GetConnects \/ Xhttp!GetEnds
         \/ Xhttp!GetReturns \/ Xhttp!WorkerEnds
         \/ UNCHANGED Xhttp!vars
  PROVE  Bodies'
<1>1. XhttpTypes /\ BodiesFound /\ WorkerClosed
  BY DEF BodyInv, XhttpInv, Bodies
<1>2. UNCHANGED <<q, post, rd>> /\ closedPosts \subseteq closedPosts'
  BY DEF Xhttp!StreamLeaves, Xhttp!GetArrives, Xhttp!GetConnects,
         Xhttp!GetEnds, Xhttp!GetReturns, Xhttp!WorkerEnds, Xhttp!vars
<1>3. get.s # 0 => get'.s = get.s
  <2>1. CASE Xhttp!GetArrives
    BY <1>1, <2>1 DEF Xhttp!GetArrives, XhttpTypes
  <2>2. CASE get' = get \/ \E pc \in GetPcs : get' = [get EXCEPT !.pc = pc]
    BY <1>1, <2>2 DEF XhttpTypes
  <2>3. {"serve", "close", "done"} \subseteq GetPcs
    BY DEF GetPcs
  <2> QED BY <2>1, <2>2, <2>3
          DEF Xhttp!StreamLeaves, Xhttp!GetConnects, Xhttp!GetEnds,
              Xhttp!GetReturns, Xhttp!WorkerEnds, Xhttp!vars
<1>4. \/ worker' = worker
      \/ worker' = "serve"
      \/ worker' = "close" /\ rd.pc = "ended"
  BY DEF Xhttp!StreamLeaves, Xhttp!GetArrives, Xhttp!GetConnects,
         Xhttp!GetEnds, Xhttp!GetReturns, Xhttp!WorkerEnds, Xhttp!vars
<1>5. CASE worker' = worker
  BY <1>2, <1>3, <1>5, BodiesSame
<1>6. CASE worker' = "serve" \/ (worker' = "close" /\ rd.pc = "ended")
  <2>1. WorkerClosed'
    BY <1>2, <1>6 DEF WorkerClosed
  <2>2. BodiesFound'
    <3>1. ASSUME NEW p \in Posts, post[p].pc = "stream", p \notin closedPosts'
          PROVE  BodyFound(p)'
      <4>1. BodyFound(p)
        BY <1>1, <1>2, <3>1 DEF BodiesFound
      <4>2. rd.pc = "stream" => get.s # 0
        BY <1>1 DEF XhttpTypes
      <4> QED BY <1>2, <1>3, <4>1, <4>2, FoundSame
    <3> QED BY <1>1, <1>2, <3>1 DEF BodiesFound
  <2> QED BY <1>2, <2>1, <2>2, BodiesKept
<1> QED BY <1>4, <1>5, <1>6

\* Read takes a body from the channel, and makes it the reader.
LEMMA ReadBodies ==
  ASSUME Xhttp!PostsAssumption, BodyInv, Xhttp!Read
  PROVE  Bodies'
<1>1. /\ XhttpTypes /\ Sent /\ OneBody /\ BodiesFound /\ WorkerClosed
      /\ get.s \in Xhttp!Ids /\ get.s # 0
      /\ UNCHANGED <<post, get, worker, closedPosts>>
  BY ReadFacts DEF BodyInv, XhttpInv, Bodies
<1>2. q[get.s] \in Queues /\ q[get.s].chan \in Seq(Packets)
      /\ q \in [Xhttp!Ids -> Queues]
  BY <1>1, QueueTyped DEF XhttpTypes
<1>3. CASE Xhttp!ReadBegins
  BY <1>1, <1>3, BodiesSame DEF Xhttp!ReadBegins, Xhttp!RGoto
<1>4. CASE \E e \in Xhttp!Lowest(q[get.s].heap) :
              Xhttp!ReadCopies(e) \/ Xhttp!ReadReorders(e)
  <2>1. \A t \in Xhttp!Ids : /\ q'[t].chan = q[t].chan
                             /\ q'[t].reader = q[t].reader
                             /\ q'[t].nomore = q[t].nomore
                             /\ q'[t].open = q[t].open
    <3>1. PICK h, n : \/ q' = [q EXCEPT ![get.s].heap = h]
                      \/ q' = [q EXCEPT ![get.s].heap = h, ![get.s].nextSeq = n]
                      \/ q' = q
      BY <1>4 DEF Xhttp!ReadCopies, Xhttp!ReadReorders
    <3>2. PICK u \in Queues : u = q[get.s]
      BY <1>2
    <3>3. /\ \A t \in Xhttp!Ids \ {get.s} : q'[t] = q[t]
          /\ q'[get.s] \in {u, [u EXCEPT !.heap = h],
                            [u EXCEPT !.heap = h, !.nextSeq = n]}
      BY <1>1, <1>2, <3>1, <3>2
    <3>4. /\ q'[get.s].chan = u.chan /\ q'[get.s].reader = u.reader
          /\ q'[get.s].nomore = u.nomore /\ q'[get.s].open = u.open
      BY <3>3 DEF Queues
    <3> QED BY <3>2, <3>3, <3>4
  <2>2. rd.pc = "loop" /\ rd'.pc \in {"off", "ended", "next", "loop"}
    BY <1>4 DEF Xhttp!ReadCopies, Xhttp!ReadReorders, Xhttp!RGoto
  <2> QED BY <1>1, <2>1, <2>2, BodiesSame
<1>5. CASE Xhttp!ReadReceives /\ q[get.s].chan = <<>>
  BY <1>1, <1>5, BodiesSame DEF Xhttp!ReadReceives, Xhttp!RGoto
<1>6. CASE Xhttp!ReadReceives /\ q[get.s].chan # <<>>
  <2>1. PICK e \in Packets : e = Head(q[get.s].chan)
    BY <1>2, <1>6, ChanTail
  <2>2. /\ e = q[get.s].chan[1] /\ OfPost(e, get.s) /\ e.post \in Posts
        /\ \A i \in 2 .. Len(q[get.s].chan) :
              /\ i - 1 \in 1 .. Len(Tail(q[get.s].chan))
              /\ Tail(q[get.s].chan)[i - 1] = q[get.s].chan[i]
    <3>1. PICK ch \in Seq(Packets) : ch = q[get.s].chan
      BY <1>2
    <3>2. /\ Head(ch) = ch[1] /\ 1 \in 1 .. Len(ch)
          /\ Len(Tail(ch)) = Len(ch) - 1
          /\ \A i \in 2 .. Len(ch) : i - 1 \in 1 .. Len(ch) - 1
                                       /\ Tail(ch)[i - 1] = ch[i]
      BY <1>6, <3>1
    <3> QED BY <1>1, <2>1, <3>1, <3>2, PacketTyped DEF Sent
  <2>3. /\ rd.pc \in {"first", "next"}
        /\ \/ /\ e.post.kind = "stream"
              /\ rd' = [pc |-> "stream", packet |-> e]
              /\ q' = [q EXCEPT ![get.s].chan = Tail(@)]
           \/ /\ e.post.kind # "stream"
              /\ rd' = [pc |-> "loop", packet |-> None]
              /\ q' = [q EXCEPT ![get.s].chan = Tail(@),
                                ![get.s].heap = @ \cup {e}]
    BY <1>6, <2>1 DEF Xhttp!ReadReceives, Xhttp!RGoto
  <2>4. /\ q'[get.s].chan = Tail(q[get.s].chan)
        /\ \A t \in Xhttp!Ids \ {get.s} : q'[t].chan = q[t].chan
        /\ \A t \in Xhttp!Ids : /\ q'[t].reader = q[t].reader
                                /\ q'[t].nomore = q[t].nomore
                                /\ q'[t].open = q[t].open
    <3>1. PICK u, ch : u \in Queues /\ u = q[get.s] /\ ch = Tail(q[get.s].chan)
      BY <1>2
    <3>2. PICK h : h = u.heap \cup {e}
      OBVIOUS
    <3>3. /\ \A t \in Xhttp!Ids \ {get.s} : q'[t] = q[t]
          /\ q'[get.s] \in {[u EXCEPT !.chan = ch],
                            [u EXCEPT !.chan = ch, !.heap = h]}
      BY <1>1, <1>2, <2>3, <3>1, <3>2
    <3>4. /\ q'[get.s].chan = ch /\ q'[get.s].reader = u.reader
          /\ q'[get.s].nomore = u.nomore /\ q'[get.s].open = u.open
      BY <3>1, <3>3 DEF Queues
    <3> QED BY <3>1, <3>3, <3>4
  <2>5. ASSUME NEW p \in Posts, post[p].pc = "stream", p \notin closedPosts'
        PROVE  BodyFound(p)'
    <3>1. BodyFound(p) /\ p.kind = "stream" /\ post[p].s \in Xhttp!Ids
      BY <1>1, <2>5, XhttpTyped DEF BodiesFound
    <3>2. CASE post[p].s # get.s
      BY <1>1, <2>3, <2>4, <3>1, <3>2, FoundSame
    <3>3. CASE post[p].s = get.s
      <4>1. CASE q[get.s].reader = p
        BY <1>1, <2>4, <3>3, <4>1 DEF BodyFound
      <4>2. ASSUME NEW i \in 1 .. Len(q[get.s].chan), q[get.s].chan[i].post = p
            PROVE  BodyFound(p)'
        <5>1. CASE i = 1
          <6>1. rd'.pc = "stream" /\ rd'.packet.post = p
            BY <2>2, <2>3, <3>1, <4>2, <5>1
          <6> QED BY <1>1, <3>3, <6>1 DEF BodyFound
        <5>2. CASE i # 1
          <6>1. i \in 2 .. Len(q[get.s].chan)
            BY <5>2
          <6>2. \E j \in 1 .. Len(q'[get.s].chan) : q'[get.s].chan[j].post = p
            BY <2>2, <2>4, <4>2, <6>1
          <6> QED BY <1>1, <3>3, <6>2 DEF BodyFound
        <5> QED BY <5>1, <5>2
      <4>3. ~(rd.pc = "stream")
        BY <2>3
      <4> QED BY <3>1, <3>3, <4>1, <4>2, <4>3 DEF BodyFound
    <3> QED BY <3>2, <3>3
  <2>6. BodiesFound'
    <3>1. rd'.pc = "stream" => rd'.packet.post.kind = "stream"
      BY <2>3
    <3> QED BY <1>1, <2>5, <3>1 DEF BodiesFound
  <2>7. WorkerClosed'
    BY <1>1, <2>3 DEF WorkerClosed
  <2> QED BY <1>1, <2>4, <2>6, <2>7, BodiesKept
<1>7. CASE Xhttp!ReadTakesBody
  <2>1. PICK p \in Posts : p = rd.packet.post
    BY <1>1, <1>7, PacketTyped DEF Sent, Xhttp!ReadTakesBody
  <2>2. /\ rd.pc = "stream" /\ rd'.pc = "off"
        /\ q' = [q EXCEPT ![get.s].reader = p]
    BY <1>7, <2>1 DEF Xhttp!ReadTakesBody, Xhttp!RGoto
  <2>3. /\ q'[get.s].reader = p
        /\ \A t \in Xhttp!Ids \ {get.s} : q'[t].reader = q[t].reader
        /\ \A t \in Xhttp!Ids : /\ q'[t].chan = q[t].chan
                                /\ q'[t].nomore = q[t].nomore
    BY <1>1, <1>2, <2>2 DEF Queues
  <2>4. Accepted(p, get.s)
    BY <1>1, <2>1, <2>2 DEF Sent, OfPost, BodiesFound, Accepted
  <2>5. ASSUME NEW o \in Posts, post[o].pc = "stream", o \notin closedPosts'
        PROVE  BodyFound(o)'
    <3>1. BodyFound(o) /\ o.kind = "stream" /\ post[o].s \in Xhttp!Ids
      BY <1>1, <2>5, XhttpTyped DEF BodiesFound
    <3>2. CASE post[o].s # get.s
      BY <1>1, <2>3, <3>1, <3>2 DEF BodyFound
    <3>3. CASE post[o].s = get.s
      <4>1. o = p
        BY <1>1, <2>4, <2>5, <3>1, <3>3 DEF OneBody, Accepted
      <4> QED BY <1>1, <2>3, <3>3, <4>1 DEF BodyFound
    <3> QED BY <3>2, <3>3
  <2>6. BodiesFound'
    BY <1>1, <2>2, <2>5 DEF BodiesFound
  <2>7. WorkerClosed'
    BY <1>1, <2>2 DEF WorkerClosed
  <2>8. \A t \in Xhttp!Ids : q'[t].reader = q[t].reader
                               \/ Accepted(q'[t].reader, t)
    BY <2>3, <2>4
  <2> QED BY <1>1, <2>3, <2>6, <2>7, <2>8, BodiesKept
<1> QED BY <1>3, <1>4, <1>5, <1>6, <1>7 DEF Xhttp!Read

\* No request body is left open: when GET and worker are done with the session
\* and no Read holds a packet, the POST of the accepted body has been told to
\* end (upload_queue.go, Push, Read and Close).  The worker reads to the end;
\* packets have nothing to do with bodies, and may as well be read in one piece.
THEOREM UploadBodyClosed ==
  ASSUME Xhttp!PostsAssumption, NoPartOfCopies, ~WorkerQuits
  PROVE  Xhttp!Spec => [](Xhttp!BodyClosed /\ BodyClosed)
<1>1. Xhttp!Init => BodyInv
  <2>1. SUFFICES ASSUME Xhttp!Init PROVE BodyInv
    OBVIOUS
  <2>2. XhttpInv
    BY <2>1, XhttpInit
  <2>3. \A s \in Xhttp!Ids : q[s].reader = None
    BY <2>1 DEF Xhttp!Init, Xhttp!NewUploadQueue
  <2>4. \A p \in Posts : post[p].pc = "new"
    BY <2>1 DEF Xhttp!Init
  <2>5. rd.pc = "off" /\ worker = "none"
    BY <2>1 DEF Xhttp!Init
  <2> QED BY <2>2, <2>3, <2>4, <2>5
          DEF BodyInv, Bodies, OneBody, BodiesFound, WorkerClosed, Accepted
<1>2. BodyInv /\ [Xhttp!Next]_(Xhttp!vars) => BodyInv'
  <2>1. SUFFICES ASSUME BodyInv, [Xhttp!Next]_(Xhttp!vars) PROVE BodyInv'
    OBVIOUS
  <2>2. XhttpInv'
    BY <2>1, XhttpStep DEF BodyInv
  <2>3. ASSUME NEW p \in Posts, Xhttp!PostArrives(p) \/ Xhttp!PostStep(p)
        PROVE  Bodies'
    BY <2>1, <2>3, PostArrivesBodies, PushBodies, SendBodies DEF Xhttp!PostStep
  <2>4. ASSUME NEW s \in Xhttp!Ids, Xhttp!ReaperStep(s)
        PROVE  Bodies'
    BY <2>1, <2>4, ReaperBodies
  <2>5. ASSUME Xhttp!GetCloses \/ Xhttp!WorkerCloses
        PROVE  Bodies'
    BY <2>1, <2>5, ClosingBodies
  <2>6. ASSUME Xhttp!Read
        PROVE  Bodies'
    BY <2>1, <2>6, ReadBodies
  <2>7. Bodies'
    BY <2>1, <2>3, <2>4, <2>5, <2>6, OtherBodies
    DEF Xhttp!Next, Xhttp!GetStep, Xhttp!WorkerStep
  <2> QED BY <2>2, <2>7 DEF BodyInv
<1>3. BodyInv => Xhttp!BodyClosed /\ BodyClosed
  <2>1. SUFFICES ASSUME BodyInv, worker = "closed", rd.pc # "stream",
                        NEW p \in Posts,
                        post[p] = [pc |-> "stream", s |-> get.s],
                        p \notin closedPosts
                 PROVE  FALSE
    <3>1. BodyInv => DOMAIN post = Posts
      BY DEF BodyInv, XhttpInv, XhttpTypes
    <3> QED BY <3>1 DEF Xhttp!BodyClosed, BodyClosed
  <2>2. XhttpTypes /\ Locked /\ BodiesFound /\ WorkerClosed
    BY <2>1 DEF BodyInv, XhttpInv, Bodies
  <2>3. post[p].pc = "stream" /\ post[p].s = get.s /\ get.s \in Xhttp!Ids
    BY <2>1, <2>2, XhttpTyped
  <2>4. q[get.s].chan = <<>> /\ q[get.s].reader \in closedPosts \cup {None}
    BY <2>1, <2>2, <2>3 DEF Locked, WorkerClosed
  <2>5. q[get.s].reader # p
    BY <2>1, <2>2, <2>4, XhttpTyped
  <2> QED BY <2>1, <2>2, <2>3, <2>4, <2>5 DEF BodiesFound, BodyFound
<1> QED BY <1>1, <1>2, <1>3, PTL DEF Xhttp!Spec

-----------------------------------------------------------------------------
(* StatsChannel, instantiated as Stats *)

ChannelPcs == {"off", "select", "cast", "drain", "gone"}

StatsTypes ==
    /\ Stats!TypeOK
    /\ channel \in Seq(Msgs) /\ taken \in Seq(Msgs) /\ subscribers \in Seq(Subs)
    /\ got \in [Subs -> Seq(Msgs)] /\ queue \in [Subs -> Seq(Msgs)]
    /\ missed \in [Subs -> SUBSET Msgs] /\ left \subseteq Subs
    /\ g \in [pc : ChannelPcs, msg : Msgs \cup {None}, todo : Seq(Subs)]
    /\ Stats!IsInjective(g.todo)

\* A message is in one place on its way to the goroutine, and there once.
EachOnce ==
    /\ Stats!IsInjective(channel) /\ Stats!IsInjective(taken)
    /\ Stats!ToSet(channel) \cap Stats!ToSet(taken) = {}
    /\ (unpublished \cup sending) \cap (Stats!ToSet(channel) \cup Stats!ToSet(taken)) = {}
    /\ unpublished \cap sending = {}

\* What the goroutine broadcasts is what it has taken last.
CastsLast ==
    /\ g.pc = "cast" => taken # <<>> /\ g.msg = taken[Len(taken)]
    /\ g.pc \in {"off", "select"} => g.todo = <<>>
    /\ life = "nil" => g.pc = "off"

\* Until the channel is drained, who is not to come is on the list or has left.
Accounted ==
    /\ \A s \in news : s \notin Stats!ToSet(subscribers)
    /\ g.pc \in {"off", "select", "cast"} =>
          \A s \in Subs : s \in news \cup Stats!ToSet(subscribers) \cup left

\* Who waits for a broadcast, of the goroutine or of one it spawned.
Awaited(m, s) == \/ g.pc = "cast" /\ m = g.msg /\ s \in Stats!ToSet(g.todo)
                 \/ <<m, s>> \in spawned

\* What is still to come to a subscriber was taken and has not come; it comes
\* from one goroutine only.
ComesOnce ==
    /\ \A s \in Subs : /\ Stats!IsInjective(Stats!Seen(s))
                       /\ Stats!ToSet(Stats!Seen(s)) \subseteq Stats!ToSet(taken)
    /\ \A m \in Msgs, s \in Subs :
          Awaited(m, s) => m \in Stats!ToSet(taken) \ Stats!ToSet(Stats!Seen(s))
    /\ g.pc = "cast" => \A s \in Stats!ToSet(g.todo) : <<g.msg, s>> \notin spawned

\* What was taken has come, is still to come, or was not for the subscriber.
Covered ==
    \A s \in Subs, m \in Stats!ToSet(taken) :
        \/ m \in Stats!ToSet(Stats!Seen(s)) \cup missed[s] \cup cancelled
        \/ s \in news \/ panicked \/ Awaited(m, s)

\* s has seen some of the first n that were taken, in their order.
SeenOf(s, n) ==
    \E index \in [1 .. Len(Stats!Seen(s)) -> 1 .. n] :
        \A i \in 1 .. Len(Stats!Seen(s)) :
            /\ Stats!Seen(s)[i] = taken[index[i]]
            /\ i > 1 => index[i] > index[i - 1]

\* In blocking mode nobody overtakes: the goroutine hands out its message
\* itself, and who is still to get it has seen only earlier ones.
InTurn ==
    blocking =>
        /\ spawned = {}
        /\ \A s \in Subs : SeenOf(s, Len(taken))
        /\ g.pc = "cast" => \A s \in Stats!ToSet(g.todo) : SeenOf(s, Len(taken) - 1)

StatsInv == /\ StatsTypes /\ EachOnce /\ CastsLast /\ Accounted /\ ComesOnce
            /\ Covered /\ InTurn

-----------------------------------------------------------------------------
\* What Append adds.
LEMMA AppendOne ==
    ASSUME NEW S, NEW s \in Seq(S), NEW e \in S
    PROVE  /\ Append(s, e) \in Seq(S) /\ Len(Append(s, e)) = Len(s) + 1
           /\ Stats!ToSet(Append(s, e)) = Stats!ToSet(s) \cup {e}
           /\ (Stats!IsInjective(s) /\ e \notin Stats!ToSet(s))
                 => Stats!IsInjective(Append(s, e))
<1>1. /\ Append(s, e) \in Seq(S) /\ Len(Append(s, e)) = Len(s) + 1
      /\ Append(s, e)[Len(s) + 1] = e
      /\ \A i \in 1 .. Len(s) : Append(s, e)[i] = s[i]
  OBVIOUS
<1>2. DOMAIN Append(s, e) = 1 .. Len(s) + 1 /\ DOMAIN s = 1 .. Len(s)
  OBVIOUS
<1>3. Stats!ToSet(Append(s, e)) = Stats!ToSet(s) \cup {e}
  BY <1>1, <1>2 DEF Stats!ToSet
<1>4. ASSUME Stats!IsInjective(s), e \notin Stats!ToSet(s)
      PROVE  Stats!IsInjective(Append(s, e))
  BY <1>1, <1>2, <1>4 DEF Stats!ToSet, Stats!IsInjective
<1> QED
  BY <1>1, <1>3, <1>4

\* What Tail leaves.
LEMMA TailOne ==
    ASSUME NEW S, NEW s \in Seq(S), s # <<>>
    PROVE  /\ Tail(s) \in Seq(S) /\ Head(s) \in S /\ Len(Tail(s)) = Len(s) - 1
           /\ Stats!ToSet(s) = {Head(s)} \cup Stats!ToSet(Tail(s))
           /\ Stats!IsInjective(s) => /\ Stats!IsInjective(Tail(s))
                                      /\ Head(s) \notin Stats!ToSet(Tail(s))
<1>1. /\ Tail(s) \in Seq(S) /\ Len(Tail(s)) = Len(s) - 1 /\ Len(s) \in Nat \ {0}
      /\ Head(s) = s[1] /\ Head(s) \in S
      /\ \A i \in 1 .. Len(s) - 1 : Tail(s)[i] = s[i + 1]
  OBVIOUS
<1>2. DOMAIN Tail(s) = 1 .. Len(s) - 1 /\ DOMAIN s = 1 .. Len(s)
  BY <1>1
<1>3. Stats!ToSet(s) = {Head(s)} \cup Stats!ToSet(Tail(s))
  <2>1. ASSUME NEW i \in 1 .. Len(s), i # 1
        PROVE  i - 1 \in 1 .. Len(s) - 1 /\ Tail(s)[i - 1] = s[i]
    BY <1>1, <2>1
  <2>2. ASSUME NEW x \in Stats!ToSet(s), x # Head(s)
        PROVE  x \in Stats!ToSet(Tail(s))
    <3>1. PICK i \in 1 .. Len(s) : s[i] = x
      BY <1>2 DEF Stats!ToSet
    <3>2. i # 1
      BY <1>1, <2>2, <3>1
    <3> QED
      BY <1>2, <2>1, <3>1, <3>2 DEF Stats!ToSet
  <2>3. ASSUME NEW x \in Stats!ToSet(Tail(s))
        PROVE  x \in Stats!ToSet(s)
    <3>1. PICK i \in 1 .. Len(s) - 1 : Tail(s)[i] = x
      BY <1>2 DEF Stats!ToSet
    <3>2. i + 1 \in 1 .. Len(s) /\ s[i + 1] = x
      BY <1>1, <3>1
    <3> QED
      BY <1>2, <3>2 DEF Stats!ToSet
  <2>4. Head(s) \in Stats!ToSet(s)
    BY <1>1, <1>2 DEF Stats!ToSet
  <2> QED
    BY <2>2, <2>3, <2>4
<1>4. ASSUME Stats!IsInjective(s)
      PROVE  Stats!IsInjective(Tail(s)) /\ Head(s) \notin Stats!ToSet(Tail(s))
  BY <1>1, <1>2, <1>4 DEF Stats!ToSet, Stats!IsInjective
<1> QED
  BY <1>1, <1>3, <1>4

\* What Unsubscribe and the end of the goroutine leave of the list.
LEMMA RemovedOne ==
    ASSUME NEW S, NEW s \in Seq(S), NEW e, Stats!IsInjective(s)
    PROVE  /\ Stats!Removed(s, e) \in Seq(S)
           /\ Len(Stats!Removed(s, e)) <= Len(s)
           /\ Stats!IsInjective(Stats!Removed(s, e))
           /\ Stats!ToSet(Stats!Removed(s, e)) = Stats!ToSet(s) \ {e}
<1>1. CASE ~ \E i \in 1 .. Len(s) : s[i] = e
  BY <1>1 DEF Stats!Removed, Stats!RemoveFirst, Stats!ToSet
<1>2. CASE \E i \in 1 .. Len(s) : s[i] = e
  <2>1. PICK k \in 1 .. Len(s) : s[k] = e
    BY <1>2
  <2>2. \A i \in 1 .. Len(s) : s[i] = e => i = k
    BY <2>1 DEF Stats!IsInjective
  <2>3. Stats!SelectInSeq(s, LAMBDA v : v = e) = k
    <3>1. {i \in 1 .. Len(s) : s[i] = e} = {k}
      BY <2>1, <2>2
    <3> QED
      BY <3>1, <2>1 DEF Stats!SelectInSeq, Stats!Min
  <2>4. PICK t : t = Stats!Removed(s, e)
    OBVIOUS
  <2>5. t = SubSeq(s, 1, k - 1) \o SubSeq(s, k + 1, Len(s))
    BY <1>2, <2>3, <2>4 DEF Stats!Removed, Stats!RemoveFirst, Stats!RemoveAt
  <2>6. PICK u : u = SubSeq(s, 1, k - 1)
    OBVIOUS
  <2>7. PICK v : v = SubSeq(s, k + 1, Len(s))
    OBVIOUS
  <2>8. u \in Seq(S) /\ Len(u) = k - 1 /\ \A i \in 1 .. k - 1 : u[i] = s[i]
    BY <2>6
  <2>9. /\ v \in Seq(S) /\ Len(v) = Len(s) - k
        /\ \A i \in 1 .. Len(s) - k : v[i] = s[k + i]
    BY <2>7
  <2>10. t = u \o v
    BY <2>5, <2>6, <2>7
  <2>11. /\ t \in Seq(S) /\ Len(t) = Len(s) - 1
         /\ \A i \in 1 .. Len(s) - 1 : t[i] = IF i < k THEN s[i] ELSE s[i + 1]
    <3>1. t \in Seq(S) /\ Len(t) = Len(s) - 1
      <4>1. t \in Seq(S) /\ Len(t) = Len(u) + Len(v)
        BY <2>8, <2>9, <2>10, ConcatProperties
      <4> QED
        BY <2>8, <2>9, <4>1
    <3>2. ASSUME NEW i \in 1 .. Len(s) - 1
          PROVE  t[i] = IF i < k THEN s[i] ELSE s[i + 1]
      <4>1. CASE i < k
        BY <2>8, <2>9, <2>10, <4>1
      <4>2. CASE ~(i < k)
        <5>1. i - (k - 1) \in 1 .. Len(s) - k /\ k + (i - (k - 1)) = i + 1
          BY <4>2
        <5>2. t[i] = v[i - (k - 1)]
          BY <2>8, <2>9, <2>10, <4>2
        <5> QED
          BY <2>9, <4>2, <5>1, <5>2
      <4> QED
        BY <4>1, <4>2
    <3> QED
      BY <3>1, <3>2
  <2>12. DOMAIN t = 1 .. Len(s) - 1 /\ DOMAIN s = 1 .. Len(s)
    BY <2>11
  <2>13. Stats!IsInjective(t)
    BY <2>11, <2>12 DEF Stats!IsInjective
  <2>14. ASSUME NEW x \in Stats!ToSet(s), x # e
         PROVE  x \in Stats!ToSet(t)
    <3>1. PICK j \in 1 .. Len(s) : s[j] = x
      BY <2>12 DEF Stats!ToSet
    <3>2. CASE j < k
      <4>1. j \in 1 .. Len(s) - 1
        BY <3>2
      <4> QED
        BY <2>11, <2>12, <3>1, <3>2, <4>1 DEF Stats!ToSet
    <3>3. CASE j > k
      <4>1. j - 1 \in 1 .. Len(s) - 1 /\ (j - 1) + 1 = j /\ ~(j - 1 < k)
        BY <3>3
      <4> QED
        BY <2>11, <2>12, <3>1, <4>1 DEF Stats!ToSet
    <3> QED
      BY <2>1, <2>14, <3>1, <3>2, <3>3
  <2>15. ASSUME NEW x \in Stats!ToSet(t)
         PROVE  x \in Stats!ToSet(s) \ {e}
    <3>1. PICK j \in 1 .. Len(s) - 1 : t[j] = x
      BY <2>12 DEF Stats!ToSet
    <3>2. CASE j < k
      <4>1. j \in 1 .. Len(s) /\ j # k /\ s[j] = x
        BY <2>11, <3>1, <3>2
      <4> QED
        BY <2>2, <2>12, <4>1 DEF Stats!ToSet
    <3>3. CASE ~(j < k)
      <4>1. j + 1 \in 1 .. Len(s) /\ j + 1 # k /\ s[j + 1] = x
        BY <2>11, <3>1, <3>3
      <4> QED
        BY <2>2, <2>12, <4>1 DEF Stats!ToSet
    <3> QED
      BY <3>2, <3>3
  <2> QED
    BY <2>4, <2>11, <2>13, <2>14, <2>15
<1> QED
  BY <1>1, <1>2

\* A sequence after another, when an element moves or is added.
LEMMA ConcatMoves ==
    ASSUME NEW S, NEW s \in Seq(S), NEW q1 \in Seq(S)
    PROVE  /\ s \o q1 \in Seq(S)
           /\ q1 # <<>> => Append(s, Head(q1)) \o Tail(q1) = s \o q1
           /\ \A e \in S : s \o Append(q1, e) = Append(s \o q1, e)
<1>1. PICK c : c = s \o q1
  OBVIOUS
<1>2. /\ c \in Seq(S) /\ Len(c) = Len(s) + Len(q1)
      /\ \A i \in 1 .. Len(c) : c[i] = IF i <= Len(s) THEN s[i] ELSE q1[i - Len(s)]
  BY <1>1, ConcatProperties
<1>3. ASSUME q1 # <<>>
      PROVE  Append(s, Head(q1)) \o Tail(q1) = c
  <2>1. PICK u : u = Append(s, Head(q1))
    OBVIOUS
  <2>2. PICK v : v = Tail(q1)
    OBVIOUS
  <2>3. /\ u \in Seq(S) /\ Len(u) = Len(s) + 1 /\ u[Len(s) + 1] = q1[1]
        /\ \A i \in 1 .. Len(s) : u[i] = s[i]
    BY <1>3, <2>1
  <2>4. /\ v \in Seq(S) /\ Len(v) = Len(q1) - 1 /\ Len(q1) \in Nat \ {0}
        /\ \A i \in 1 .. Len(q1) - 1 : v[i] = q1[i + 1]
    BY <1>3, <2>2
  <2>5. PICK d : d = u \o v
    OBVIOUS
  <2>6. /\ d \in Seq(S) /\ Len(d) = Len(s) + Len(q1)
        /\ \A i \in 1 .. Len(d) : d[i] = IF i <= Len(u) THEN u[i] ELSE v[i - Len(u)]
    <3>1. /\ d \in Seq(S) /\ Len(d) = Len(u) + Len(v)
          /\ \A i \in 1 .. Len(u) + Len(v) :
                d[i] = IF i <= Len(u) THEN u[i] ELSE v[i - Len(u)]
      BY <2>3, <2>4, <2>5, ConcatProperties
    <3> QED
      BY <2>3, <2>4, <3>1
  <2>7. ASSUME NEW i \in 1 .. Len(d)
        PROVE  d[i] = c[i]
    <3>1. CASE i <= Len(s)
      BY <1>2, <2>3, <2>4, <2>6, <3>1
    <3>2. CASE i = Len(s) + 1
      BY <1>2, <2>3, <2>4, <2>6, <3>2
    <3>3. CASE i > Len(s) + 1
      <4>1. /\ i - (Len(s) + 1) \in 1 .. Len(q1) - 1
            /\ (i - (Len(s) + 1)) + 1 = i - Len(s)
        BY <2>4, <2>6, <3>3
      <4>2. d[i] = v[i - (Len(s) + 1)]
        BY <2>3, <2>6, <3>3
      <4>3. c[i] = q1[i - Len(s)]
        BY <1>2, <2>6, <3>3
      <4> QED
        BY <2>4, <4>1, <4>2, <4>3
    <3> QED
      BY <2>6, <2>4, <3>1, <3>2, <3>3
  <2>8. d = c
    BY <1>2, <2>6, <2>7, SeqEqual
  <2> QED
    BY <2>1, <2>2, <2>5, <2>8
<1>4. ASSUME NEW e \in S
      PROVE  s \o Append(q1, e) = Append(c, e)
  <2>1. PICK v : v = Append(q1, e)
    OBVIOUS
  <2>2. /\ v \in Seq(S) /\ Len(v) = Len(q1) + 1 /\ v[Len(q1) + 1] = e
        /\ \A i \in 1 .. Len(q1) : v[i] = q1[i]
    BY <2>1
  <2>3. PICK d : d = s \o v
    OBVIOUS
  <2>4. /\ d \in Seq(S) /\ Len(d) = Len(s) + Len(v)
        /\ \A i \in 1 .. Len(s) + Len(v) :
              d[i] = IF i <= Len(s) THEN s[i] ELSE v[i - Len(s)]
    <3>1. v \in Seq(S)
      BY <2>2
    <3> QED
      BY <2>3, <3>1, ConcatProperties
  <2>5. PICK f : f = Append(c, e)
    OBVIOUS
  <2>6. /\ f \in Seq(S) /\ Len(f) = Len(c) + 1 /\ f[Len(c) + 1] = e
        /\ \A i \in 1 .. Len(c) : f[i] = c[i]
    <3>1. c \in Seq(S) /\ e \in S
      BY <1>2
    <3> QED
      BY <2>5, <3>1
  <2>7. Len(d) = Len(f) /\ Len(f) = (Len(s) + Len(q1)) + 1
    BY <1>2, <2>2, <2>4, <2>6
  <2>8. ASSUME NEW i \in 1 .. Len(f)
        PROVE  d[i] = f[i]
    <3>1. CASE i = Len(f)
      <4>1. i - Len(s) = Len(q1) + 1 /\ ~(i <= Len(s))
        BY <2>7, <3>1
      <4> QED
        BY <1>2, <2>2, <2>4, <2>6, <2>7, <3>1, <4>1
    <3>2. CASE i # Len(f)
      <4>1. i \in 1 .. Len(c)
        BY <1>2, <2>6, <2>7, <3>2
      <4>2. f[i] = c[i]
        BY <2>6, <4>1
      <4>3. i \in 1 .. Len(s) + Len(v)
        BY <2>2, <2>7, <2>4
      <4>4. CASE i <= Len(s)
        BY <1>2, <2>4, <4>1, <4>2, <4>3, <4>4
      <4>5. CASE ~(i <= Len(s))
        <5>1. i - Len(s) \in 1 .. Len(q1)
          BY <1>2, <4>1, <4>5
        <5>2. v[i - Len(s)] = q1[i - Len(s)]
          BY <2>2, <5>1
        <5> QED
          BY <1>2, <2>4, <4>1, <4>2, <4>3, <4>5, <5>2
      <4> QED
        BY <4>4, <4>5
    <3> QED
      BY <3>1, <3>2
  <2> QED
    BY <2>1, <2>3, <2>4, <2>5, <2>6, <2>7, <2>8, SeqEqual
<1> QED
  BY <1>1, <1>2, <1>3, <1>4

\* What a subscriber has seen is a sequence of messages.
LEMMA SeenType ==
    ASSUME StatsTypes, NEW s \in Subs
    PROVE  Stats!Seen(s) \in Seq(Msgs) /\ Len(Stats!Seen(s)) \in Nat
<1>1. got[s] \in Seq(Msgs) /\ queue[s] \in Seq(Msgs)
  BY DEF StatsTypes
<1>2. PICK c : c = got[s] \o queue[s]
  OBVIOUS
<1>3. c \in Seq(Msgs)
  BY <1>1, <1>2, ConcatProperties
<1>4. Len(c) \in Nat
  BY <1>3
<1>5. Stats!Seen(s) = c
  BY <1>2, Zenon DEF Stats!Seen
<1> QED
  BY <1>3, <1>4, <1>5, Zenon

\* A send adds the message to what its subscriber sees.
LEMMA SeenAppended ==
    ASSUME StatsTypes, NEW s \in Subs, NEW m \in Msgs, UNCHANGED got,
           queue' = [queue EXCEPT ![s] = Append(@, m)]
    PROVE  /\ queue' \in [Subs -> Seq(Msgs)]
           /\ Stats!Seen(s)' = Append(Stats!Seen(s), m)
           /\ \A u \in Subs : u # s => Stats!Seen(u)' = Stats!Seen(u)
<1>1. got[s] \in Seq(Msgs) /\ queue[s] \in Seq(Msgs)
  BY DEF StatsTypes
<1>2. PICK new : new = Append(queue[s], m)
  OBVIOUS
<1>3. new \in Seq(Msgs)
  BY <1>1, <1>2
<1>4. /\ queue' \in [Subs -> Seq(Msgs)] /\ queue'[s] = new
      /\ \A u \in Subs : u # s => queue'[u] = queue[u]
  BY <1>2, <1>3 DEF StatsTypes
<1>5. got[s] \o new = Append(got[s] \o queue[s], m)
  <2>1. PICK a \in Seq(Msgs) : a = got[s]
    BY <1>1
  <2>2. PICK b \in Seq(Msgs) : b = queue[s]
    BY <1>1
  <2>3. a \o Append(b, m) = Append(a \o b, m)
    BY ConcatMoves
  <2> QED
    BY <1>2, <2>1, <2>2, <2>3, Zenon
<1> QED
  BY <1>4, <1>5 DEF Stats!Seen

\* When what is seen, taken and spawned stays, and the goroutine goes on with
\* its broadcast or does not broadcast, no more is still to come than before.
LEMMA NothingComes ==
    ASSUME StatsInv, UNCHANGED <<taken, spawned>>,
           g'.pc = "cast" => /\ g.pc = "cast" /\ g'.msg = g.msg
                             /\ Stats!ToSet(g'.todo) \subseteq Stats!ToSet(g.todo),
           \A s \in Subs : Stats!Seen(s)' = Stats!Seen(s)
    PROVE  ComesOnce' /\ InTurn'
<1>1. \A m \in Msgs, s \in Subs : Awaited(m, s)' => Awaited(m, s)
  BY DEF Awaited
<1>2. ComesOnce'
  BY <1>1 DEF StatsInv, ComesOnce
<1>3. ASSUME blocking
      PROVE  /\ spawned' = {}
             /\ \A s \in Subs : SeenOf(s, Len(taken))'
             /\ g'.pc = "cast" =>
                   \A s \in Stats!ToSet(g'.todo) : SeenOf(s, Len(taken) - 1)'
  <2>1. \A s \in Subs : SeenOf(s, Len(taken))' <=> SeenOf(s, Len(taken))
    BY DEF SeenOf
  <2>2. \A s \in Subs : SeenOf(s, Len(taken) - 1)' <=> SeenOf(s, Len(taken) - 1)
    BY DEF SeenOf
  <2>3. Stats!ToSet(g.todo) \subseteq Subs
    BY DEF StatsInv, StatsTypes, Stats!ToSet
  <2> QED
    BY <1>3, <2>1, <2>2, <2>3 DEF StatsInv, InTurn
<1> QED
  BY <1>2, <1>3 DEF InTurn

\* Subscribe: a subscriber misses what was taken before.
LEMMA SubscribeKeeps ==
    ASSUME StatsInv, Stats!ChannelAssumption, NEW s \in Subs, Stats!Subscribe(s)
    PROVE  StatsInv'
<1> USE DEF StatsInv
<1>1. /\ s \in news /\ Stats!HasLimitRoom /\ news' = news \ {s}
      /\ subscribers' = Append(subscribers, s)
      /\ missed' = [missed EXCEPT ![s] = Stats!ToSet(taken)]
      /\ UNCHANGED <<life, channel, sending, unpublished, cancelled, queue, got,
                     shut, g, spawned, panicked, taken, left>>
  BY DEF Stats!Subscribe
<1>2. subscribers \in Seq(Subs) /\ s \notin Stats!ToSet(subscribers)
  BY <1>1 DEF StatsTypes, Accounted
<1>3. /\ subscribers' \in Seq(Subs) /\ Len(subscribers') = Len(subscribers) + 1
      /\ Stats!ToSet(subscribers') = Stats!ToSet(subscribers) \cup {s}
      /\ Stats!IsInjective(subscribers')
  <2>1. Stats!IsInjective(subscribers)
    BY DEF StatsTypes, Stats!TypeOK
  <2> QED
    BY <1>1, <1>2, <2>1, AppendOne
<1>4. Stats!ToSet(taken) \subseteq Msgs
  BY DEF StatsTypes, Stats!ToSet
<1>5. StatsTypes'
  <2>1. subsLimit # 0 => Len(subscribers') <= subsLimit
    BY <1>1, <1>2, <1>3 DEF Stats!HasLimitRoom, Stats!ChannelAssumption
  <2>2. Stats!TypeOK'
    BY <1>1, <1>3, <2>1 DEF StatsTypes, Stats!TypeOK
  <2>3. missed' \in [Subs -> SUBSET Msgs]
    BY <1>1, <1>4 DEF StatsTypes
  <2> QED
    BY <1>1, <1>3, <2>2, <2>3 DEF StatsTypes
<1>6. EachOnce' /\ CastsLast'
  BY <1>1 DEF EachOnce, CastsLast
<1>7. Accounted'
  BY <1>1, <1>2, <1>3 DEF Accounted
<1>8. Covered'
  <2>1. \A u \in Subs \ {s} : missed'[u] = missed[u]
    BY <1>1 DEF StatsTypes
  <2>2. missed'[s] = Stats!ToSet(taken)
    BY <1>1 DEF StatsTypes
  <2>3. \A u \in Subs \ {s} : u \in news => u \in news'
    BY <1>1
  <2> QED
    BY <1>1, <2>1, <2>2, <2>3 DEF Covered, Awaited, Stats!Seen
<1>9. ComesOnce' /\ InTurn'
  BY <1>1, NothingComes DEF Stats!Seen
<1> QED
  BY <1>5, <1>6, <1>7, <1>8, <1>9

\* Types, when the list gets no longer.
LEMMA ShorterList ==
    ASSUME StatsTypes, Stats!ChannelAssumption,
           subscribers' \in Seq(Subs), Stats!IsInjective(subscribers'),
           Len(subscribers') <= Len(subscribers),
           UNCHANGED <<channel, sending, unpublished, cancelled, news, queue,
                       spawned, panicked>>,
           life' \in {"nil", "open", "closed"}, shut' \subseteq Subs,
           g'.pc \in ChannelPcs
    PROVE  Stats!TypeOK'
<1>1. subsLimit # 0 => Len(subscribers') <= subsLimit
  <2>1. Len(subscribers) \in Nat /\ Len(subscribers') \in Nat
    BY DEF StatsTypes
  <2> QED
    BY <2>1 DEF StatsTypes, Stats!TypeOK, Stats!ChannelAssumption
<1> QED
  BY <1>1 DEF StatsTypes, Stats!TypeOK, ChannelPcs

\* Unsubscribe: the subscriber has left, what is on its way still comes.
LEMMA UnsubscribeKeeps ==
    ASSUME StatsInv, Stats!ChannelAssumption, NEW s \in Subs,
           Stats!Unsubscribe(s)
    PROVE  StatsInv'
<1> USE DEF StatsInv
<1>1. /\ subscribers' = Stats!Removed(subscribers, s) /\ left' = left \cup {s}
      /\ UNCHANGED <<life, channel, sending, unpublished, cancelled, news, queue,
                     got, shut, g, spawned, panicked, taken, missed>>
  BY DEF Stats!Unsubscribe
<1>2. /\ subscribers' \in Seq(Subs) /\ Len(subscribers') <= Len(subscribers)
      /\ Stats!IsInjective(subscribers')
      /\ Stats!ToSet(subscribers') = Stats!ToSet(subscribers) \ {s}
  <2>1. subscribers \in Seq(Subs) /\ Stats!IsInjective(subscribers)
    BY DEF StatsTypes, Stats!TypeOK
  <2> QED
    BY <1>1, <2>1, RemovedOne
<1>3. StatsTypes'
  <2>1. /\ life' \in {"nil", "open", "closed"} /\ shut' \subseteq Subs
        /\ g'.pc \in ChannelPcs
    BY <1>1 DEF StatsTypes, Stats!TypeOK, ChannelPcs
  <2>2. Stats!TypeOK'
    BY <1>1, <1>2, <2>1, ShorterList
  <2> QED
    BY <1>1, <1>2, <2>2 DEF StatsTypes
<1>4. EachOnce' /\ CastsLast' /\ Accounted'
  BY <1>1, <1>2 DEF EachOnce, CastsLast, Accounted
<1>5. Covered'
  BY <1>1 DEF Covered, Awaited, Stats!Seen
<1>6. ComesOnce' /\ InTurn'
  BY <1>1, NothingComes DEF Stats!Seen
<1> QED
  BY <1>3, <1>4, <1>5, <1>6

\* Receive: what is received has been seen before.
LEMMA ReceiveKeeps ==
    ASSUME StatsInv, Stats!ChannelAssumption, NEW s \in Subs, Stats!Receive(s)
    PROVE  StatsInv'
<1> USE DEF StatsInv
<1>1. /\ queue[s] # <<>> /\ got' = [got EXCEPT ![s] = Append(@, Head(queue[s]))]
      /\ queue' = [queue EXCEPT ![s] = Tail(@)]
      /\ UNCHANGED <<life, channel, sending, unpublished, cancelled, subscribers,
                     news, shut, g, spawned, panicked, taken, left, missed>>
  BY DEF Stats!Receive
<1>2. PICK a \in Seq(Msgs) : a = got[s]
  BY DEF StatsTypes
<1>3. PICK b \in Seq(Msgs) : b = queue[s]
  BY DEF StatsTypes
<1>4. b # <<>> /\ Head(b) \in Msgs /\ Tail(b) \in Seq(Msgs) /\ Len(Tail(b)) = Len(b) - 1
  BY <1>1, <1>3
<1>5. Append(a, Head(b)) \in Seq(Msgs)
  BY <1>4
<1>6. /\ got' \in [Subs -> Seq(Msgs)] /\ got'[s] = Append(a, Head(b))
      /\ \A u \in Subs : u # s => got'[u] = got[u]
  BY <1>1, <1>2, <1>3, <1>5 DEF StatsTypes
<1>7. /\ queue' \in [Subs -> Seq(Msgs)] /\ queue'[s] = Tail(b)
      /\ \A u \in Subs : u # s => queue'[u] = queue[u]
  BY <1>1, <1>3, <1>4 DEF StatsTypes
<1>8. Append(a, Head(b)) \o Tail(b) = a \o b
  BY <1>4, ConcatMoves
<1>9. \A u \in Subs : Stats!Seen(u)' = Stats!Seen(u)
  <2>1. ASSUME NEW u \in Subs, u # s PROVE Stats!Seen(u)' = Stats!Seen(u)
    BY <1>6, <1>7, <2>1, Zenon DEF Stats!Seen
  <2>2. Stats!Seen(s)' = Stats!Seen(s)
    BY <1>2, <1>3, <1>6, <1>7, <1>8, Zenon DEF Stats!Seen
  <2> QED
    BY <2>1, <2>2
<1>10. StatsTypes'
  <2>1. \A u \in Subs : queue'[u] \in Seq(Msgs) /\ Len(queue'[u]) <= bufferSize
    <3>1. Len(b) <= bufferSize /\ Len(Tail(b)) <= Len(b)
      BY <1>3, <1>4 DEF StatsTypes, Stats!TypeOK
    <3>2. Len(Tail(b)) <= bufferSize
      BY <1>4, <3>1 DEF Stats!ChannelAssumption
    <3> QED
      BY <1>1, <1>7, <1>4, <3>2 DEF StatsTypes, Stats!TypeOK
  <2>2. Stats!TypeOK'
    BY <1>1, <2>1 DEF StatsTypes, Stats!TypeOK
  <2> QED
    BY <1>1, <1>6, <1>7, <2>2 DEF StatsTypes
<1>11. EachOnce' /\ CastsLast' /\ Accounted'
  BY <1>1 DEF EachOnce, CastsLast, Accounted
<1>12. Covered'
  BY <1>1, <1>9 DEF Covered, Awaited
<1>13. ComesOnce' /\ InTurn'
  BY <1>1, <1>9, NothingComes
<1> QED
  BY <1>10, <1>11, <1>12, <1>13

\* Publishers and contexts move messages that were not taken, each to one place.
LEMMA PublishersKeep ==
    ASSUME StatsInv, Stats!ChannelAssumption, NEW m \in Msgs,
           Stats!Publish(m) \/ Stats!PublishWaiting(m) \/ Stats!Cancel(m)
    PROVE  StatsInv'
<1> USE DEF StatsInv
<1>1. UNCHANGED <<life, subscribers, news, queue, got, shut, g, spawned,
                  panicked, taken, left, missed>>
  BY DEF Stats!Publish, Stats!PublishWaiting, Stats!Cancel
<1>2. cancelled \subseteq cancelled' /\ cancelled' \subseteq cancelled \cup {m}
  BY DEF Stats!Publish, Stats!PublishWaiting, Stats!Cancel
<1>3. channel \in Seq(Msgs) /\ Stats!IsInjective(channel)
  BY DEF StatsTypes, EachOnce
<1>4. \/ UNCHANGED channel
      \/ /\ channel' = Append(channel, m) /\ Len(channel) < bufferSize
         /\ m \in unpublished \cup sending /\ m \notin unpublished' \cup sending'
  BY DEF Stats!Publish, Stats!PublishWaiting, Stats!Cancel, Stats!Room, EachOnce
<1>5. /\ unpublished' \cup sending' \subseteq unpublished \cup sending
      /\ unpublished' \cap sending' = {}
  BY DEF Stats!Publish, Stats!PublishWaiting, Stats!Cancel, EachOnce
<1>6. /\ channel' \in Seq(Msgs) /\ Stats!IsInjective(channel')
      /\ Stats!ToSet(channel') \subseteq Stats!ToSet(channel) \cup {m}
      /\ Len(channel') <= Len(channel) \/ Len(channel) < bufferSize
      /\ Len(channel') <= Len(channel) + 1
  <2>1. CASE UNCHANGED channel
    BY <1>3, <2>1
  <2>2. CASE ~ UNCHANGED channel
    <3>1. /\ channel' = Append(channel, m) /\ Len(channel) < bufferSize
          /\ m \notin Stats!ToSet(channel)
      BY <1>4, <2>2 DEF EachOnce
    <3> QED
      BY <1>3, <3>1, AppendOne
  <2> QED
    BY <2>1, <2>2
<1>7. EachOnce'
  <2>1. CASE UNCHANGED channel
    BY <1>1, <1>5, <2>1 DEF EachOnce
  <2>2. CASE ~ UNCHANGED channel
    <3>1. m \in unpublished \cup sending /\ m \notin unpublished' \cup sending'
      BY <1>4, <2>2
    <3> QED
      BY <1>1, <1>5, <1>6, <3>1 DEF EachOnce
  <2> QED
    BY <2>1, <2>2
<1>8. StatsTypes'
  <2>1. Len(channel') <= bufferSize
    <3>1. Len(channel) \in Nat /\ Len(channel') \in Nat /\ bufferSize \in Nat
      BY <1>3, <1>6 DEF Stats!ChannelAssumption
    <3>2. Len(channel) <= bufferSize
      BY DEF StatsTypes, Stats!TypeOK
    <3> QED
      BY <1>6, <3>1, <3>2
  <2>2. sending' \cup unpublished' \cup cancelled' \subseteq Msgs
    BY <1>2, <1>5 DEF StatsTypes, Stats!TypeOK
  <2>3. Stats!TypeOK'
    BY <1>1, <1>6, <2>1, <2>2 DEF StatsTypes, Stats!TypeOK
  <2> QED
    BY <1>1, <1>6, <2>3 DEF StatsTypes
<1>9. CastsLast' /\ Accounted'
  BY <1>1 DEF CastsLast, Accounted
<1>10. Covered'
  BY <1>1, <1>2 DEF Covered, Awaited, Stats!Seen
<1>11. ComesOnce' /\ InTurn'
  BY <1>1, NothingComes DEF Stats!Seen
<1> QED
  BY <1>7, <1>8, <1>9, <1>10, <1>11

\* Start and Close begin and end the channel.
LEMMA StartCloseKeep ==
    ASSUME StatsInv, Stats!Start \/ Stats!Close
    PROVE  StatsInv'
<1> USE DEF StatsInv
<1>1. /\ UNCHANGED <<channel, sending, unpublished, cancelled, subscribers, news,
                     queue, got, shut, spawned, panicked, taken, left, missed>>
      /\ life' \in {"open", "closed"}
      /\ \/ g' = g
         \/ g.pc = "off" /\ g' = [g EXCEPT !.pc = "select"]
  BY DEF Stats!Start, Stats!Close, CastsLast
<1>2. /\ g' \in [pc : ChannelPcs, msg : Msgs \cup {None}, todo : Seq(Subs)]
      /\ g'.todo = g.todo /\ g'.msg = g.msg
      /\ g'.pc = g.pc \/ (g.pc = "off" /\ g'.pc = "select")
  BY <1>1 DEF StatsTypes, ChannelPcs
<1>3. StatsTypes'
  <2>1. Stats!TypeOK'
    BY <1>1, <1>2 DEF StatsTypes, Stats!TypeOK, ChannelPcs
  <2> QED
    BY <1>1, <1>2, <2>1 DEF StatsTypes
<1>4. EachOnce' /\ Accounted'
  BY <1>1, <1>2 DEF EachOnce, Accounted
<1>5. CastsLast'
  BY <1>1, <1>2 DEF CastsLast
<1>6. Covered'
  BY <1>1, <1>2 DEF Covered, Awaited, Stats!Seen
<1>7. ComesOnce' /\ InTurn'
  <2>1. g'.pc = "cast" => /\ g.pc = "cast" /\ g'.msg = g.msg
                          /\ Stats!ToSet(g'.todo) \subseteq Stats!ToSet(g.todo)
    BY <1>2
  <2> QED
    BY <1>1, <2>1, NothingComes DEF Stats!Seen
<1> QED
  BY <1>3, <1>4, <1>5, <1>6, <1>7

\* The end of a broadcast and what follows the close: nobody waits.
LEMMA GoroutineRests ==
    ASSUME StatsInv, Stats!ChannelAssumption,
           Stats!CastDone \/ Stats!SeeClosed \/ Stats!Drain
    PROVE  StatsInv'
<1> USE DEF StatsInv
<1>1. UNCHANGED <<life, channel, sending, unpublished, cancelled, news, queue,
                  got, spawned, panicked, taken, left, missed>>
  BY DEF Stats!CastDone, Stats!SeeClosed, Stats!Drain
<1>2. subscribers \in Seq(Subs) /\ Stats!IsInjective(subscribers)
  BY DEF StatsTypes, Stats!TypeOK
<1>3. /\ g \in [pc : ChannelPcs, msg : Msgs \cup {None}, todo : Seq(Subs)]
      /\ Stats!IsInjective(g.todo) /\ shut \subseteq Subs
  BY DEF StatsTypes, Stats!TypeOK
<1>4. /\ g.pc \in {"cast", "select", "drain"} /\ life # "nil"
      /\ g.pc = "cast" => g.todo = <<>>
  BY DEF Stats!CastDone, Stats!SeeClosed, Stats!Drain, CastsLast
<1>5. /\ g' \in [pc : ChannelPcs, msg : Msgs \cup {None}, todo : Seq(Subs)]
      /\ Stats!IsInjective(g'.todo) /\ shut' \subseteq Subs
      /\ subscribers' \in Seq(Subs) /\ Len(subscribers') <= Len(subscribers)
      /\ Stats!IsInjective(subscribers')
      /\ Stats!ToSet(subscribers') \subseteq Stats!ToSet(subscribers)
      /\ \/ /\ g.pc = "cast" /\ g'.pc = "select" /\ g'.todo = <<>>
            /\ UNCHANGED subscribers
         \/ g'.pc \in {"drain", "gone"} /\ g.pc # "cast"
  <2>1. CASE Stats!CastDone
    <3>1. /\ g.pc = "cast" /\ g.todo = <<>> /\ UNCHANGED <<subscribers, shut>>
          /\ g' = [g EXCEPT !.pc = "select", !.msg = None]
      BY <2>1 DEF Stats!CastDone
    <3>2. /\ g' \in [pc : ChannelPcs, msg : Msgs \cup {None}, todo : Seq(Subs)]
          /\ g'.pc = "select" /\ g'.todo = g.todo
      BY <1>3, <3>1 DEF ChannelPcs
    <3> QED
      BY <1>2, <1>3, <3>1, <3>2
  <2>2. CASE Stats!SeeClosed
    <3>1. /\ g.pc = "select" /\ UNCHANGED <<subscribers, shut>>
          /\ g' = [g EXCEPT !.pc = "drain", !.todo = subscribers]
      BY <2>2 DEF Stats!SeeClosed
    <3>2. /\ g' \in [pc : ChannelPcs, msg : Msgs \cup {None}, todo : Seq(Subs)]
          /\ g'.pc = "drain" /\ g'.todo = subscribers
      BY <1>2, <1>3, <3>1 DEF ChannelPcs
    <3> QED
      BY <1>2, <1>3, <3>1, <3>2
  <2>3. CASE Stats!Drain /\ g.todo = <<>>
    <3>1. /\ g.pc = "drain" /\ UNCHANGED <<subscribers, shut>>
          /\ g' = [g EXCEPT !.pc = "gone"]
      BY <2>3 DEF Stats!Drain
    <3>2. /\ g' \in [pc : ChannelPcs, msg : Msgs \cup {None}, todo : Seq(Subs)]
          /\ g'.pc = "gone" /\ g'.todo = g.todo
      BY <1>3, <3>1 DEF ChannelPcs
    <3> QED
      BY <1>2, <1>3, <3>1, <3>2
  <2>4. CASE Stats!Drain /\ g.todo # <<>>
    <3>1. /\ g.pc = "drain" /\ g' = [g EXCEPT !.todo = Tail(@)]
          /\ subscribers' = Stats!Removed(subscribers, Head(g.todo))
          /\ shut' = shut \cup {Head(g.todo)}
      BY <2>4 DEF Stats!Drain
    <3>2. PICK todo \in Seq(Subs) : todo = g.todo
      BY <1>3
    <3>3. Head(todo) \in Subs /\ Tail(todo) \in Seq(Subs) /\ Stats!IsInjective(Tail(todo))
      BY <1>3, <2>4, <3>2, TailOne
    <3>4. /\ subscribers' \in Seq(Subs) /\ Len(subscribers') <= Len(subscribers)
          /\ Stats!IsInjective(subscribers')
          /\ Stats!ToSet(subscribers') \subseteq Stats!ToSet(subscribers)
      BY <1>2, <3>1, RemovedOne
    <3>5. /\ g' \in [pc : ChannelPcs, msg : Msgs \cup {None}, todo : Seq(Subs)]
          /\ g'.pc = "drain" /\ g'.todo = Tail(todo)
      BY <1>3, <3>1, <3>2, <3>3
    <3> QED
      BY <1>3, <3>1, <3>2, <3>3, <3>4, <3>5
  <2> QED
    BY <2>1, <2>2, <2>3, <2>4
<1>6. StatsTypes'
  <2>1. life' \in {"nil", "open", "closed"} /\ g'.pc \in ChannelPcs
    BY <1>1, <1>5 DEF StatsTypes, Stats!TypeOK
  <2>2. Stats!TypeOK'
    BY <1>1, <1>5, <2>1, ShorterList
  <2> QED
    BY <1>1, <1>5, <2>2 DEF StatsTypes
<1>7. EachOnce' /\ CastsLast'
  BY <1>1, <1>4, <1>5 DEF EachOnce, CastsLast
<1>8. Accounted'
  BY <1>1, <1>5 DEF Accounted
<1>9. Covered'
  <2>1. \A m \in Msgs, s \in Subs : Awaited(m, s) => <<m, s>> \in spawned
    <3>1. g.pc = "cast" => Stats!ToSet(g.todo) = {}
      BY <1>4 DEF Stats!ToSet
    <3> QED
      BY <3>1 DEF Awaited
  <2>2. Stats!ToSet(taken) \subseteq Msgs
    BY DEF StatsTypes, Stats!ToSet
  <2> QED
    BY <1>1, <2>1, <2>2 DEF Covered, Awaited, Stats!Seen
<1>10. ComesOnce' /\ InTurn'
  BY <1>1, <1>5, NothingComes DEF Stats!Seen
<1> QED
  BY <1>6, <1>7, <1>8, <1>9, <1>10

\* Take: nobody has seen the message, and it is to come to whoever is on the
\* list.
LEMMA TakeKeeps ==
    ASSUME StatsInv, Stats!ChannelAssumption, Stats!Take
    PROVE  StatsInv'
<1> USE DEF StatsInv
<1>1. /\ g.pc = "select" /\ channel # <<>> /\ channel' = Tail(channel)
      /\ g' = [pc |-> "cast", msg |-> Head(channel), todo |-> subscribers]
      /\ taken' = Append(taken, Head(channel))
      /\ missed' = [s \in Subs |-> IF s \in left THEN missed[s] \cup {Head(channel)}
                                                ELSE missed[s]]
      /\ UNCHANGED <<life, sending, unpublished, cancelled, subscribers, news,
                     queue, got, shut, spawned, panicked, left>>
  BY DEF Stats!Take
<1>2. PICK m : m = Head(channel)
  OBVIOUS
<1>3. channel \in Seq(Msgs) /\ taken \in Seq(Msgs) /\ subscribers \in Seq(Subs)
  BY DEF StatsTypes
<1>4. Stats!IsInjective(channel) /\ Stats!IsInjective(taken)
  BY DEF EachOnce
<1>5. /\ channel' \in Seq(Msgs) /\ m \in Msgs /\ Len(channel') = Len(channel) - 1
      /\ Stats!ToSet(channel) = {m} \cup Stats!ToSet(channel')
      /\ Stats!IsInjective(channel') /\ m \notin Stats!ToSet(channel')
  BY <1>1, <1>2, <1>3, <1>4, TailOne
<1>6. m \notin Stats!ToSet(taken)
  BY <1>5 DEF EachOnce
<1>7. /\ taken' \in Seq(Msgs) /\ Len(taken') = Len(taken) + 1
      /\ Stats!ToSet(taken') = Stats!ToSet(taken) \cup {m}
      /\ Stats!IsInjective(taken')
  BY <1>1, <1>2, <1>3, <1>4, <1>5, <1>6, AppendOne
<1>8. /\ taken' # <<>> /\ taken'[Len(taken')] = m /\ Len(taken) \in Nat
      /\ \A i \in 1 .. Len(taken) : taken'[i] = taken[i]
  BY <1>1, <1>2, <1>3, <1>5
<1>9. /\ g'.pc = "cast" /\ g'.msg = m /\ g'.todo = subscribers /\ g.todo = <<>>
      /\ g' \in [pc : ChannelPcs, msg : Msgs \cup {None}, todo : Seq(Subs)]
  BY <1>1, <1>2, <1>3, <1>5 DEF ChannelPcs, CastsLast
<1>10. \A s \in Subs : /\ missed'[s] \in SUBSET Msgs /\ missed[s] \subseteq missed'[s]
                       /\ s \in left => m \in missed'[s]
  BY <1>1, <1>2, <1>5 DEF StatsTypes
<1>11. StatsTypes'
  <2>1. Len(channel') <= bufferSize
    <3>1. Len(channel) \in Nat /\ bufferSize \in Nat /\ Len(channel) <= bufferSize
      BY <1>3 DEF StatsTypes, Stats!TypeOK, Stats!ChannelAssumption
    <3> QED
      BY <1>5, <3>1
  <2>2. Stats!TypeOK'
    BY <1>1, <1>5, <1>9, <2>1 DEF StatsTypes, Stats!TypeOK
  <2>3. missed' \in [Subs -> SUBSET Msgs]
    BY <1>1, <1>10
  <2>4. Stats!IsInjective(subscribers)
    BY DEF StatsTypes, Stats!TypeOK
  <2> QED
    BY <1>1, <1>5, <1>7, <1>9, <2>2, <2>3, <2>4 DEF StatsTypes
<1>12. EachOnce'
  BY <1>1, <1>5, <1>7 DEF EachOnce
<1>13. CastsLast' /\ Accounted'
  BY <1>1, <1>8, <1>9 DEF CastsLast, Accounted
<1>14. \A s \in Subs : Stats!Seen(s)' = Stats!Seen(s)
  BY <1>1 DEF Stats!Seen
<1>15. \A s \in Subs : m \notin Stats!ToSet(Stats!Seen(s)) /\ <<m, s>> \notin spawned
  BY <1>5, <1>6 DEF ComesOnce, Awaited
<1>16. ASSUME NEW n \in Msgs, NEW s \in Subs
       PROVE  Awaited(n, s)' <=> \/ n = m /\ s \in Stats!ToSet(subscribers)
                                 \/ Awaited(n, s)
  BY <1>1, <1>9 DEF Awaited
<1>17. ComesOnce'
  <2>1. \A s \in Subs : /\ Stats!IsInjective(Stats!Seen(s))'
                        /\ (Stats!ToSet(Stats!Seen(s)) \subseteq Stats!ToSet(taken))'
    BY <1>7, <1>14 DEF ComesOnce
  <2>2. ASSUME NEW n \in Msgs, NEW s \in Subs, Awaited(n, s)'
        PROVE  n \in Stats!ToSet(taken') \ Stats!ToSet(Stats!Seen(s)')
    BY <1>7, <1>14, <1>15, <1>16, <2>2 DEF ComesOnce
  <2>3. \A s \in Stats!ToSet(g'.todo) : <<g'.msg, s>> \notin spawned'
    <3>1. Stats!ToSet(subscribers) \subseteq Subs
      BY <1>3 DEF Stats!ToSet
    <3> QED
      BY <1>1, <1>9, <1>15, <3>1
  <2> QED
    BY <2>1, <2>2, <2>3 DEF ComesOnce
<1>18. Covered'
  <2>1. ASSUME NEW s \in Subs
        PROVE  \/ m \in missed'[s] \/ s \in news' \/ Awaited(m, s)'
    BY <1>1, <1>5, <1>10, <1>16 DEF Accounted
  <2>2. ASSUME NEW s \in Subs, NEW n \in Stats!ToSet(taken)
        PROVE  \/ n \in Stats!ToSet(Stats!Seen(s)) \cup missed'[s] \cup cancelled'
               \/ s \in news' \/ panicked' \/ Awaited(n, s)'
    <3>1. n \in Msgs
      BY <1>3 DEF Stats!ToSet
    <3> QED
      BY <1>1, <1>10, <1>16, <3>1 DEF Covered
  <2> QED
    BY <1>7, <1>14, <2>1, <2>2 DEF Covered
<1>19. InTurn'
  <2>1. ASSUME NEW s \in Subs, SeenOf(s, Len(taken))
        PROVE  SeenOf(s, Len(taken))' /\ SeenOf(s, Len(taken) - 1)'
    <3>1. PICK seen : seen = Stats!Seen(s)
      OBVIOUS
    <3>2. PICK index \in [1 .. Len(seen) -> 1 .. Len(taken)] :
             \A i \in 1 .. Len(seen) : /\ seen[i] = taken[index[i]]
                                       /\ i > 1 => index[i] > index[i - 1]
      BY <2>1, <3>1 DEF SeenOf
    <3>3. \A i \in 1 .. Len(seen) : seen[i] = taken'[index[i]]
      BY <1>8, <3>2
    <3>4. Len(taken') - 1 = Len(taken) /\ 1 .. Len(taken) \subseteq 1 .. Len(taken')
      BY <1>7, <1>8
    <3>5. /\ index \in [1 .. Len(seen) -> 1 .. Len(taken')]
          /\ index \in [1 .. Len(seen) -> 1 .. Len(taken') - 1]
      BY <3>2, <3>4
    <3>6. Stats!Seen(s)' = seen
      BY <1>14, <3>1
    <3>7. SeenOf(s, Len(taken))'
      BY <3>2, <3>3, <3>6, <3>5 DEF SeenOf
    <3>8. SeenOf(s, Len(taken) - 1)'
      BY <3>2, <3>3, <3>6, <3>5 DEF SeenOf
    <3> QED
      BY <3>7, <3>8
  <2>2. Stats!ToSet(g'.todo) \subseteq Subs
    BY <1>3, <1>9 DEF Stats!ToSet
  <2> QED
    BY <1>1, <2>1, <2>2 DEF InTurn
<1> QED
  BY <1>11, <1>12, <1>13, <1>17, <1>18, <1>19

\* A message that is awaited comes, and is not awaited any more.
LEMMA MessageComes ==
    ASSUME StatsInv, NEW s \in Subs, NEW m \in Msgs, Awaited(m, s),
           queue' = [queue EXCEPT ![s] = Append(@, m)],
           UNCHANGED <<got, taken, cancelled, missed, news, panicked>>,
           \A n \in Msgs, u \in Subs :
              Awaited(n, u)' <=> Awaited(n, u) /\ <<n, u>> # <<m, s>>,
           spawned' \subseteq spawned, g'.pc = g.pc, g'.msg = g.msg,
           Stats!ToSet(g'.todo) \subseteq Stats!ToSet(g.todo),
           blocking => s \notin Stats!ToSet(g'.todo)
    PROVE  ComesOnce' /\ Covered' /\ InTurn'
<1> USE DEF StatsInv
<1>1. PICK seen \in Seq(Msgs) : seen = Stats!Seen(s)
  BY SeenType
<1>2. /\ Stats!Seen(s)' = Append(seen, m)
      /\ \A u \in Subs : u # s => Stats!Seen(u)' = Stats!Seen(u)
  BY <1>1, SeenAppended
<1>3. m \in Stats!ToSet(taken) /\ m \notin Stats!ToSet(seen)
  BY <1>1 DEF ComesOnce
<1>4. /\ Stats!ToSet(Append(seen, m)) = Stats!ToSet(seen) \cup {m}
      /\ Stats!IsInjective(Append(seen, m))
  BY <1>1, <1>3, AppendOne DEF ComesOnce
<1>5. Stats!ToSet(g.todo) \subseteq Subs
  BY DEF StatsTypes, Stats!ToSet
<1>6. ComesOnce'
  <2>1. ASSUME NEW u \in Subs
        PROVE  /\ Stats!IsInjective(Stats!Seen(u))'
               /\ (Stats!ToSet(Stats!Seen(u)) \subseteq Stats!ToSet(taken))'
    <3>1. CASE u = s
      BY <1>1, <1>2, <1>3, <1>4, <3>1 DEF ComesOnce
    <3>2. CASE u # s
      BY <1>2, <3>2 DEF ComesOnce
    <3> QED
      BY <3>1, <3>2
  <2>2. ASSUME NEW n \in Msgs, NEW u \in Subs, Awaited(n, u)'
        PROVE  (n \in Stats!ToSet(taken) \ Stats!ToSet(Stats!Seen(u)))'
    <3>1. Awaited(n, u) /\ <<n, u>> # <<m, s>>
      BY <2>2
    <3>2. n \in Stats!ToSet(taken) \ Stats!ToSet(Stats!Seen(u))
      BY <3>1 DEF ComesOnce
    <3>3. CASE u = s
      BY <1>1, <1>2, <1>4, <3>1, <3>2, <3>3
    <3>4. CASE u # s
      BY <1>2, <3>2, <3>4
    <3> QED
      BY <3>3, <3>4
  <2>3. g'.pc = "cast" => \A u \in Stats!ToSet(g'.todo) : <<g'.msg, u>> \notin spawned'
    BY DEF ComesOnce
  <2> QED
    BY <2>1, <2>2, <2>3 DEF ComesOnce
<1>7. Covered'
  <2>1. ASSUME NEW u \in Subs, NEW n \in Stats!ToSet(taken)
        PROVE  \/ n \in Stats!ToSet(Stats!Seen(u)') \cup missed'[u] \cup cancelled'
               \/ u \in news' \/ panicked' \/ Awaited(n, u)'
    <3>1. n \in Msgs
      BY DEF StatsTypes, Stats!ToSet
    <3>2. CASE n = m /\ u = s
      BY <1>2, <1>4, <3>2
    <3>3. CASE u = s /\ n # m
      <4>1. Stats!ToSet(Stats!Seen(u)) \subseteq Stats!ToSet(Stats!Seen(u)')
        BY <1>1, <1>2, <1>4, <3>3
      <4> QED
        BY <3>1, <3>3, <4>1 DEF Covered
    <3>4. CASE u # s
      BY <1>2, <3>1, <3>4 DEF Covered
    <3> QED
      BY <3>2, <3>3, <3>4
  <2> QED
    BY <2>1 DEF Covered
<1>8. InTurn'
  <2> SUFFICES ASSUME blocking
               PROVE  /\ spawned' = {}
                      /\ \A u \in Subs : SeenOf(u, Len(taken))'
                      /\ g'.pc = "cast" =>
                            \A u \in Stats!ToSet(g'.todo) : SeenOf(u, Len(taken) - 1)'
    BY DEF InTurn
  <2>1. /\ spawned = {} /\ \A u \in Subs : SeenOf(u, Len(taken))
        /\ g.pc = "cast" => \A u \in Stats!ToSet(g.todo) : SeenOf(u, Len(taken) - 1)
    BY DEF InTurn
  <2>2. g.pc = "cast" /\ m = g.msg /\ s \in Stats!ToSet(g.todo)
    BY <2>1 DEF Awaited
  <2>3. m = taken[Len(taken)] /\ taken \in Seq(Msgs) /\ Len(taken) \in Nat \ {0}
    BY <2>2 DEF CastsLast, StatsTypes
  <2>4. SeenOf(s, Len(taken))'
    <3>1. SeenOf(s, Len(taken) - 1)
      BY <2>1, <2>2
    <3>2. PICK index \in [1 .. Len(seen) -> 1 .. Len(taken) - 1] :
             \A i \in 1 .. Len(seen) : /\ seen[i] = taken[index[i]]
                                       /\ i > 1 => index[i] > index[i - 1]
      BY <1>1, <3>1 DEF SeenOf
    <3>3. PICK new : new = Append(seen, m)
      OBVIOUS
    <3>4. /\ Len(new) = Len(seen) + 1 /\ new[Len(new)] = m /\ Len(seen) \in Nat
          /\ \A i \in 1 .. Len(seen) : new[i] = seen[i]
      BY <1>1, <3>3
    <3>5. PICK to : to = [i \in 1 .. Len(new) |-> IF i = Len(new) THEN Len(taken)
                                                  ELSE index[i]]
      OBVIOUS
    <3>6. ASSUME NEW i \in 1 .. Len(new)
          PROVE  to[i] \in 1 .. Len(taken) /\ new[i] = taken[to[i]]
      <4>1. CASE i = Len(new)
        BY <2>3, <3>4, <3>5, <4>1
      <4>2. CASE i # Len(new)
        <5>1. i \in 1 .. Len(seen)
          BY <3>4, <4>2
        <5> QED
          BY <2>3, <3>2, <3>4, <3>5, <4>2, <5>1
      <4> QED
        BY <4>1, <4>2
    <3>7. ASSUME NEW i \in 1 .. Len(new), i > 1
          PROVE  to[i] > to[i - 1]
      <4>1. i - 1 \in 1 .. Len(seen) /\ to[i - 1] = index[i - 1]
        BY <3>4, <3>5, <3>7
      <4>2. CASE i = Len(new)
        <5>1. to[i] = Len(taken)
          BY <3>5, <4>2
        <5>2. index[i - 1] \in 1 .. Len(taken) - 1
          BY <3>2, <4>1
        <5> QED
          BY <2>3, <4>1, <5>1, <5>2
      <4>3. CASE i # Len(new)
        <5>1. i \in 1 .. Len(seen) /\ to[i] = index[i]
          BY <3>4, <3>5, <4>3
        <5> QED
          BY <3>2, <3>7, <4>1, <5>1
      <4> QED
        BY <4>2, <4>3
    <3>8. to \in [1 .. Len(new) -> 1 .. Len(taken)]
      BY <3>5, <3>6
    <3>9. Stats!Seen(s)' = new
      BY <1>2, <3>3
    <3> QED
      BY <3>6, <3>7, <3>8, <3>9 DEF SeenOf
  <2>5. \A u \in Subs : u # s => /\ SeenOf(u, Len(taken)) => SeenOf(u, Len(taken))'
                                 /\ SeenOf(u, Len(taken) - 1) =>
                                       SeenOf(u, Len(taken) - 1)'
    BY <1>2 DEF SeenOf
  <2>6. s \notin Stats!ToSet(g'.todo)
    OBVIOUS
  <2> QED
    BY <1>5, <2>1, <2>4, <2>5, <2>6
<1> QED
  BY <1>6, <1>7, <1>8

\* Types of a send.
LEMMA SendType ==
    ASSUME StatsTypes, Stats!ChannelAssumption, NEW s \in Subs, NEW m \in Msgs,
           Stats!Send(m, s)
    PROVE  /\ queue' \in [Subs -> Seq(Msgs)] /\ panicked' \in BOOLEAN
           /\ \A u \in Subs : queue'[u] \in Seq(Msgs) /\ Len(queue'[u]) <= bufferSize
<1>1. queue \in [Subs -> Seq(Msgs)] /\ panicked \in BOOLEAN /\ bufferSize \in Nat
      /\ \A u \in Subs : Len(queue[u]) <= bufferSize
  BY DEF StatsTypes, Stats!TypeOK, Stats!ChannelAssumption
<1>2. CASE s \in shut
  BY <1>1, <1>2 DEF Stats!Send
<1>3. CASE s \notin shut
  <2>1. /\ Len(queue[s]) < bufferSize /\ UNCHANGED panicked
        /\ queue' = [queue EXCEPT ![s] = Append(@, m)]
    BY <1>3 DEF Stats!Send, Stats!Fits
  <2>2. PICK b \in Seq(Msgs) : b = queue[s]
    BY <1>1
  <2>3. PICK new : new = Append(b, m)
    OBVIOUS
  <2>4. new \in Seq(Msgs) /\ Len(new) = Len(b) + 1 /\ Len(b) \in Nat
    BY <2>3
  <2>5. /\ queue' \in [Subs -> Seq(Msgs)] /\ queue'[s] = new
        /\ \A u \in Subs : u # s => queue'[u] = queue[u]
    BY <1>1, <2>1, <2>2, <2>3, <2>4
  <2>6. Len(new) <= bufferSize
    BY <1>1, <2>1, <2>2, <2>4
  <2> QED
    BY <1>1, <2>1, <2>5, <2>6
<1> QED
  BY <1>2, <1>3

\* A goroutine that a broadcast has left behind sends its message.
LEMMA CastLaterKeeps ==
    ASSUME StatsInv, Stats!ChannelAssumption, NEW m \in Msgs, NEW s \in Subs,
           Stats!CastLater(m, s)
    PROVE  StatsInv'
<1> USE DEF StatsInv
<1>1. /\ <<m, s>> \in spawned /\ spawned' = spawned \ {<<m, s>>}
      /\ Stats!Send(m, s) \/ (m \in cancelled /\ UNCHANGED <<queue, panicked>>)
      /\ UNCHANGED <<life, channel, sending, unpublished, cancelled, subscribers,
                     news, got, shut, g, taken, left, missed>>
  BY DEF Stats!CastLater
<1>2. StatsTypes'
  <2>1. /\ queue' \in [Subs -> Seq(Msgs)] /\ panicked' \in BOOLEAN
        /\ \A u \in Subs : queue'[u] \in Seq(Msgs) /\ Len(queue'[u]) <= bufferSize
    BY <1>1, SendType DEF StatsTypes, Stats!TypeOK
  <2>2. Stats!TypeOK'
    BY <1>1, <2>1 DEF StatsTypes, Stats!TypeOK
  <2> QED
    BY <1>1, <2>1, <2>2 DEF StatsTypes
<1>3. EachOnce' /\ CastsLast' /\ Accounted'
  BY <1>1 DEF EachOnce, CastsLast, Accounted
<1>4. Awaited(m, s) /\ ~(g.pc = "cast" /\ m = g.msg /\ s \in Stats!ToSet(g.todo))
  BY <1>1 DEF Awaited, ComesOnce
<1>5. \A n \in Msgs, u \in Subs :
         Awaited(n, u)' <=> Awaited(n, u) /\ <<n, u>> # <<m, s>>
  BY <1>1, <1>4 DEF Awaited
<1>6. ~blocking
  BY <1>1 DEF InTurn
<1>7. CASE UNCHANGED queue /\ (m \in cancelled \/ panicked')
  <2>1. \A u \in Subs : Stats!Seen(u)' = Stats!Seen(u)
    BY <1>1, <1>7 DEF Stats!Seen
  <2>2. ComesOnce' /\ InTurn'
    BY <1>1, <1>5, <1>6, <2>1 DEF ComesOnce, InTurn
  <2>3. Covered'
    <3>1. Stats!ToSet(taken) \subseteq Msgs
      BY DEF StatsTypes, Stats!ToSet
    <3>2. panicked => panicked'
      BY <1>1 DEF Stats!Send
    <3> QED
      BY <1>1, <1>5, <1>7, <2>1, <3>1, <3>2 DEF Covered
  <2> QED
    BY <1>2, <1>3, <2>2, <2>3
<1>8. CASE queue' = [queue EXCEPT ![s] = Append(@, m)] /\ UNCHANGED panicked
  <2>1. ComesOnce' /\ Covered' /\ InTurn'
    BY <1>1, <1>4, <1>5, <1>6, <1>8, MessageComes
  <2> QED
    BY <1>2, <1>3, <2>1
<1> QED
  BY <1>1, <1>7, <1>8 DEF Stats!Send

\* The broadcast reaches the next subscriber, skips it because the context is
\* done, or leaves it to a goroutine.
LEMMA CastKeeps ==
    ASSUME StatsInv, Stats!ChannelAssumption, Stats!Cast
    PROVE  StatsInv'
<1> USE DEF StatsInv
<1>1. /\ g.pc = "cast" /\ g.todo # <<>> /\ g' = [g EXCEPT !.todo = Tail(@)]
      /\ UNCHANGED <<life, channel, sending, unpublished, cancelled, subscribers,
                     news, got, shut, taken, left, missed>>
  BY DEF Stats!Cast
<1>2. PICK s : s = Head(g.todo)
  OBVIOUS
<1>3. PICK m : m = g.msg
  OBVIOUS
<1>4. /\ s \in Subs /\ Tail(g.todo) \in Seq(Subs)
      /\ Stats!ToSet(g.todo) = {s} \cup Stats!ToSet(Tail(g.todo))
      /\ Stats!IsInjective(Tail(g.todo)) /\ s \notin Stats!ToSet(Tail(g.todo))
  BY <1>1, <1>2, TailOne DEF StatsTypes
<1>5. /\ g' \in [pc : ChannelPcs, msg : Msgs \cup {None}, todo : Seq(Subs)]
      /\ g'.pc = "cast" /\ g'.msg = m /\ g'.todo = Tail(g.todo)
  BY <1>1, <1>3, <1>4 DEF StatsTypes
<1>6. m \in Msgs /\ Awaited(m, s) /\ <<m, s>> \notin spawned
  <2>1. taken # <<>> /\ m = taken[Len(taken)] /\ taken \in Seq(Msgs)
    BY <1>1, <1>3 DEF CastsLast, StatsTypes
  <2>2. m \in Msgs
    BY <2>1
  <2>3. Awaited(m, s)
    BY <1>1, <1>3, <1>4 DEF Awaited
  <2>4. <<m, s>> \notin spawned
    BY <1>1, <1>3, <1>4 DEF ComesOnce
  <2> QED
    BY <2>2, <2>3, <2>4
<1>7. \/ /\ Stats!Send(m, s) /\ UNCHANGED spawned
      \/ /\ m \in cancelled /\ UNCHANGED <<queue, panicked, spawned>>
      \/ /\ ~blocking /\ spawned' = spawned \cup {<<m, s>>}
         /\ UNCHANGED <<queue, panicked>>
  BY <1>2, <1>3 DEF Stats!Cast, Stats!Waits, Stats!Spawned
<1>8. StatsTypes'
  <2>1. /\ queue' \in [Subs -> Seq(Msgs)] /\ panicked' \in BOOLEAN
        /\ \A u \in Subs : queue'[u] \in Seq(Msgs) /\ Len(queue'[u]) <= bufferSize
    <3>1. CASE Stats!Send(m, s)
      BY <1>4, <1>6, <3>1, SendType
    <3>2. CASE UNCHANGED <<queue, panicked>>
      BY <3>2 DEF StatsTypes, Stats!TypeOK
    <3> QED
      BY <1>7, <3>1, <3>2
  <2>2. spawned' \subseteq Msgs \X Subs
    BY <1>4, <1>6, <1>7 DEF StatsTypes, Stats!TypeOK
  <2>3. Stats!TypeOK'
    BY <1>1, <1>5, <2>1, <2>2 DEF StatsTypes, Stats!TypeOK
  <2> QED
    BY <1>1, <1>4, <1>5, <2>1, <2>3 DEF StatsTypes
<1>9. EachOnce' /\ CastsLast' /\ Accounted'
  BY <1>1, <1>3, <1>5 DEF EachOnce, CastsLast, Accounted
<1>10. CASE UNCHANGED spawned /\ UNCHANGED panicked
            /\ queue' = [queue EXCEPT ![s] = Append(@, m)]
  <2>1. \A n \in Msgs, u \in Subs :
           Awaited(n, u)' <=> Awaited(n, u) /\ <<n, u>> # <<m, s>>
    BY <1>1, <1>3, <1>4, <1>5, <1>6, <1>10 DEF Awaited
  <2>2. Stats!ToSet(g'.todo) \subseteq Stats!ToSet(g.todo) /\ s \notin Stats!ToSet(g'.todo)
    BY <1>4, <1>5
  <2>3. ComesOnce' /\ Covered' /\ InTurn'
    BY <1>1, <1>3, <1>4, <1>5, <1>6, <1>10, <2>1, <2>2, MessageComes
  <2> QED
    BY <1>8, <1>9, <2>3
<1>11. CASE UNCHANGED <<queue, spawned>> /\ (m \in cancelled \/ panicked')
  <2>1. \A u \in Subs : Stats!Seen(u)' = Stats!Seen(u)
    BY <1>1, <1>11 DEF Stats!Seen
  <2>2. ComesOnce' /\ InTurn'
    BY <1>1, <1>3, <1>4, <1>5, <1>11, <2>1, NothingComes
  <2>3. \A n \in Msgs, u \in Subs :
           Awaited(n, u) => Awaited(n, u)' \/ (n = m /\ u = s)
    BY <1>1, <1>3, <1>4, <1>5, <1>11 DEF Awaited
  <2>4. panicked => panicked'
    BY <1>7 DEF Stats!Send
  <2>5. Stats!ToSet(taken) \subseteq Msgs
    BY DEF StatsTypes, Stats!ToSet
  <2>6. Covered'
    BY <1>1, <1>11, <2>1, <2>3, <2>4, <2>5 DEF Covered
  <2> QED
    BY <1>8, <1>9, <2>2, <2>6
<1>12. CASE ~blocking /\ spawned' = spawned \cup {<<m, s>>}
            /\ UNCHANGED <<queue, panicked>>
  <2>1. \A u \in Subs : Stats!Seen(u)' = Stats!Seen(u)
    BY <1>1, <1>12 DEF Stats!Seen
  <2>2. \A n \in Msgs, u \in Subs : Awaited(n, u)' <=> Awaited(n, u)
    BY <1>1, <1>3, <1>4, <1>5, <1>12 DEF Awaited
  <2>3. ComesOnce'
    <3>1. ASSUME NEW u \in Stats!ToSet(g'.todo)
          PROVE  <<g'.msg, u>> \notin spawned'
      <4>1. u \in Stats!ToSet(g.todo) /\ u # s
        BY <1>4, <1>5
      <4> QED
        BY <1>1, <1>3, <1>5, <1>12, <4>1 DEF ComesOnce
    <3> QED
      BY <1>1, <2>1, <2>2, <3>1 DEF ComesOnce
  <2>4. InTurn'
    BY <1>12 DEF InTurn
  <2>5. Stats!ToSet(taken) \subseteq Msgs
    BY DEF StatsTypes, Stats!ToSet
  <2>6. Covered'
    BY <1>1, <1>12, <2>1, <2>2, <2>5 DEF Covered
  <2> QED
    BY <1>8, <1>9, <2>3, <2>4, <2>6
<1> QED
  BY <1>7, <1>10, <1>11, <1>12 DEF Stats!Send

LEMMA StatsInit == ASSUME Stats!ChannelAssumption, Stats!Init PROVE StatsInv
<1> USE DEF Stats!Init
<1>1. Stats!ToSet(<<>>) = {} /\ Stats!IsInjective(<<>>)
  BY DEF Stats!ToSet, Stats!IsInjective
<1>2. \A s \in Subs : Stats!Seen(s) = <<>>
  BY DEF Stats!Seen
<1>3. StatsTypes
  <2>1. \A S : <<>> \in Seq(S)
    OBVIOUS
  <2>2. Len(<<>>) = 0
    OBVIOUS
  <2>3. /\ bufferSize \in Nat /\ subsLimit \in Nat
        /\ 0 <= bufferSize /\ (subsLimit # 0 => 0 <= subsLimit)
    BY DEF Stats!ChannelAssumption
  <2>4. /\ channel \in Seq(Msgs) /\ taken \in Seq(Msgs) /\ subscribers \in Seq(Subs)
        /\ Len(channel) = 0 /\ Len(subscribers) = 0
    BY <2>1, <2>2
  <2>5. got \in [Subs -> Seq(Msgs)] /\ queue \in [Subs -> Seq(Msgs)]
    BY <2>1
  <2>6. \A s \in Subs : Len(queue[s]) = 0
    BY <2>2
  <2>7. /\ g.pc = "off" /\ g.todo = <<>>
        /\ g \in [pc : ChannelPcs, msg : Msgs \cup {None}, todo : Seq(Subs)]
    BY <2>1 DEF ChannelPcs
  <2>8. Stats!TypeOK
    <3>1. /\ life \in {"nil", "open", "closed"} /\ panicked \in BOOLEAN
          /\ sending \cup unpublished \cup cancelled \subseteq Msgs
          /\ news \cup shut \subseteq Subs /\ spawned \subseteq Msgs \X Subs
          /\ Stats!IsInjective(subscribers)
      BY <1>1
    <3>2. /\ Len(channel) <= bufferSize
          /\ subsLimit # 0 => Len(subscribers) <= subsLimit
          /\ \A s \in Subs : queue[s] \in Seq(Msgs) /\ Len(queue[s]) <= bufferSize
      BY <2>3, <2>4, <2>5, <2>6
    <3> QED
      BY <2>4, <2>7, <3>1, <3>2 DEF Stats!TypeOK
  <2>9. missed \in [Subs -> SUBSET Msgs] /\ left \subseteq Subs
    OBVIOUS
  <2> QED
    BY <1>1, <2>4, <2>5, <2>7, <2>8, <2>9 DEF StatsTypes
<1>4. EachOnce /\ CastsLast /\ Accounted
  BY <1>1 DEF EachOnce, CastsLast, Accounted
<1>5. ComesOnce /\ Covered
  BY <1>1, <1>2 DEF ComesOnce, Covered, Awaited
<1>6. \A s \in Subs : SeenOf(s, Len(taken))
  <2>1. Len(<<>>) = 0 /\ 1 .. 0 = {}
    OBVIOUS
  <2>2. PICK none : none = [i \in 1 .. 0 |-> i]
    OBVIOUS
  <2>3. none \in [1 .. 0 -> 1 .. 0]
    BY <2>2
  <2>4. ASSUME NEW s \in Subs
        PROVE  SeenOf(s, Len(taken))
    <3>1. Len(Stats!Seen(s)) = 0 /\ Len(taken) = 0
      BY <1>2, <2>1
    <3>2. none \in [1 .. Len(Stats!Seen(s)) -> 1 .. Len(taken)]
      BY <2>3, <3>1
    <3>3. \A i \in 1 .. Len(Stats!Seen(s)) :
             /\ Stats!Seen(s)[i] = taken[none[i]]
             /\ i > 1 => none[i] > none[i - 1]
      BY <2>1, <3>1
    <3> QED
      BY <3>2, <3>3, Zenon DEF SeenOf
  <2> QED
    BY <2>4
<1>7. InTurn
  BY <1>6 DEF InTurn
<1> QED
  BY <1>3, <1>4, <1>5, <1>7 DEF StatsInv

LEMMA StatsStep ==
    ASSUME Stats!ChannelAssumption, StatsInv, [Stats!Next]_(Stats!vars)
    PROVE  StatsInv'
<1>1. CASE UNCHANGED Stats!vars
  <2>1. /\ UNCHANGED <<life, channel, sending, unpublished, cancelled, subscribers,
                       news, queue, got, shut>>
        /\ UNCHANGED <<g, spawned, panicked, taken, left, missed>>
    BY <1>1 DEF Stats!vars
  <2>2. StatsTypes' /\ EachOnce' /\ CastsLast' /\ Accounted'
    BY <2>1 DEF StatsInv, StatsTypes, Stats!TypeOK, EachOnce, CastsLast, Accounted
  <2>3. Covered'
    BY <2>1 DEF StatsInv, Covered, Awaited, Stats!Seen
  <2>4. ComesOnce' /\ InTurn'
    BY <2>1, NothingComes DEF Stats!Seen
  <2> QED
    BY <2>2, <2>3, <2>4 DEF StatsInv
<1>2. ASSUME NEW s \in Subs,
             Stats!Subscribe(s) \/ Stats!Unsubscribe(s) \/ Stats!Receive(s)
      PROVE  StatsInv'
  BY <1>2, SubscribeKeeps, UnsubscribeKeeps, ReceiveKeeps
<1>3. ASSUME NEW m \in Msgs,
             Stats!Publish(m) \/ Stats!PublishWaiting(m) \/ Stats!Cancel(m)
      PROVE  StatsInv'
  BY <1>3, PublishersKeep
<1>4. ASSUME NEW m \in Msgs, NEW s \in Subs, Stats!CastLater(m, s)
      PROVE  StatsInv'
  BY <1>4, CastLaterKeeps
<1>5. CASE Stats!Start \/ Stats!Close
  BY <1>5, StartCloseKeep
<1>6. CASE Stats!Goroutine
  BY <1>6, TakeKeeps, CastKeeps, GoroutineRests DEF Stats!Goroutine
<1> QED
  BY <1>1, <1>2, <1>3, <1>4, <1>5, <1>6 DEF Stats!Next

\* For every number of messages and subscribers, size of the buffers and limit,
\* in both modes: nobody on the list is passed by, nobody gets a message twice,
\* and a blocking channel has one order (Channel.Start, broadcast).
THEOREM SubscribersAreServed ==
  ASSUME Stats!ChannelAssumption
  PROVE  Stats!Spec =>
            [](Stats!TypeOK /\ Stats!NothingPassedBy /\ Stats!OneOrder
               /\ SubscribersServed)
<1>1. Stats!Init => StatsInv
  BY StatsInit
<1>2. StatsInv /\ [Stats!Next]_(Stats!vars) => StatsInv'
  BY StatsStep
<1>3. StatsInv => /\ Stats!TypeOK /\ Stats!NothingPassedBy /\ Stats!OneOrder
                  /\ SubscribersServed
  <2>1. SUFFICES ASSUME StatsInv
                 PROVE  Stats!TypeOK /\ Stats!NothingPassedBy /\ Stats!OneOrder
    BY DEF SubscribersServed
  <2>2. Stats!TypeOK
    BY <2>1 DEF StatsInv, StatsTypes
  <2>3. Stats!NothingPassedBy
    <3>1. ASSUME NEW s \in Subs, NEW m \in Stats!ToSet(taken)
          PROVE  m \in Stats!ToSet(Stats!Seen(s)) \cup missed[s] \cup cancelled \cup
                       (IF s \in news THEN Msgs ELSE {}) \cup
                       (IF s \in Stats!ToSet(g.todo) THEN {g.msg} ELSE {}) \cup
                       {n \in Msgs : <<n, s>> \in spawned \/ panicked}
      <4>1. m \in Msgs
        BY <2>1 DEF StatsInv, StatsTypes, Stats!ToSet
      <4> QED
        BY <2>1, <4>1 DEF StatsInv, Covered, Awaited
    <3>2. \A s \in Subs : Stats!IsInjective(Stats!Seen(s))
      BY <2>1 DEF StatsInv, ComesOnce
    <3> QED
      BY <3>1, <3>2 DEF Stats!NothingPassedBy
  <2>4. Stats!OneOrder
    BY <2>1 DEF StatsInv, InTurn, SeenOf, Stats!OneOrder
  <2> QED
    BY <2>2, <2>3, <2>4
<1> QED
  BY <1>1, <1>2, <1>3, PTL DEF Stats!Spec

=============================================================================
