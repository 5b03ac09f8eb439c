----------------------------- MODULE MultiBuffer -----------------------------
(***************************************************************************)
(* Lists of fixed-size buffers (common/buf/multi_buffer.go, buffer.go): the *)
(* operations that every transport uses to cut, join and read a stream of   *)
(* bytes.                                                                   *)
(*                                                                          *)
(* A buffer is an offset into its array and the bytes from there on; the    *)
(* room at its end is what the offset and the bytes leave of Size.  Bytes   *)
(* are numbered as they are written, so the stream is right when what has   *)
(* been read and what is left count without a gap.                          *)
(***************************************************************************)
EXTENDS Integers, Sequences, SequencesExt

CONSTANTS
    Size,      \* capacity of a buffer
    MaxBytes   \* bound: bytes written

SizeAssumption == Size \in Nat \ {0} /\ MaxBytes \in Nat

VARIABLES
    mb,    \* the MultiBuffer
    out,   \* bytes taken out, in order
    next,  \* the next byte
    met    \* history: Compact has met a buffer that was partly read

vars == <<mb, out, next, met>>

Init == mb = <<>> /\ out = <<>> /\ next = 1 /\ met = FALSE

-----------------------------------------------------------------------------
(* Buffers *)
New(bytes) == [start |-> 0, bytes |-> bytes]
BLen(b) == Len(b.bytes)
Room(b) == Size - b.start - BLen(b)
IsFull(b) == Room(b) = 0

\* Write, and ReadFrom of another buffer: what fits is copied.
Fitting(b, src) == SubSeq(src, 1, IF Len(src) < Room(b) THEN Len(src) ELSE Room(b))
Write(b, src) == [b EXCEPT !.bytes = @ \o Fitting(b, src)]

Drop(s, n) == SubSeq(s, n + 1, Len(s))
Advance(b, n) == [start |-> b.start + n, bytes |-> Drop(b.bytes, n)]

-----------------------------------------------------------------------------
(* Lists of buffers *)
Content(m) == FlattenSeq([i \in 1 .. Len(m) |-> m[i].bytes])
\* Bytes before the i-th buffer.
Before(m, i) == Len(Content(SubSeq(m, 1, i - 1)))

MergeMulti(dest, src) == dest \o src

\* New buffers for src, all full but the last.
Filled(src) ==
    [i \in 1 .. (Len(src) + Size - 1) \div Size |->
        New(SubSeq(src, (i - 1) * Size + 1,
                   IF i * Size < Len(src) THEN i * Size ELSE Len(src)))]

MergeBytesAnew(dest, src) ==
    IF dest # <<>> /\ ~IsFull(Last(dest))
    THEN Append(Front(dest), Write(Last(dest), src)) \o Filled(src)
    ELSE dest \o Filled(src)
MergeBytes(dest, src) ==
    IF dest # <<>> /\ ~IsFull(Last(dest))
    THEN Append(Front(dest), Write(Last(dest), src))
           \o Filled(Drop(src, Len(Fitting(Last(dest), src))))
    ELSE dest \o Filled(src)

\* The first buffer that n bytes do not empty stays, without what was read.
SplitBytes(m, n) ==
    LET more == {i \in 1 .. Len(m) : Before(m, i) + BLen(m[i]) > n}
    IN  IF more = {} THEN <<>>
        ELSE LET i == CHOOSE j \in more : \A k \in more : j <= k
             IN  <<Advance(m[i], n - Before(m, i))>> \o Drop(m, i)

\* <<left, taken>>: part of the first buffer, or the whole buffers that fit.
SplitSize(m, size) ==
    IF m = <<>> THEN <<m, <<>> >>
    ELSE IF BLen(m[1]) > size
    THEN << <<Advance(m[1], size)>> \o Tail(m),
            <<New(SubSeq(m[1].bytes, 1, size))>> >>
    ELSE LET more == {i \in 1 .. Len(m) : Before(m, i) + BLen(m[i]) > size}
             n == IF more = {} THEN Len(m)
                  ELSE (CHOOSE j \in more : \A k \in more : j <= k) - 1
         IN  <<Drop(m, n), SubSeq(m, 1, n)>>

\* <<the first i buffers, the rest>>
SplitMulti(m, i) ==
    IF i < Len(m) THEN <<SubSeq(m, 1, i), Drop(m, i)>> ELSE <<m, <<>> >>

\* A buffer joins the last one when their bytes are no more than Size.
Joins(last, curr) == BLen(last) + BLen(curr) <= Size
Compact(m) ==
    IF m = <<>> THEN m
    ELSE FoldLeft(LAMBDA done, curr :
                     IF Joins(Last(done), curr)
                     THEN Append(Front(done), Write(Last(done), curr.bytes))
                     ELSE Append(done, curr),
                  <<m[1]>>, Tail(m))

-----------------------------------------------------------------------------
(* A container that is written, read, cut and compacted *)
Fresh(n) == [i \in 1 .. n |-> next + i - 1]
CanWrite(n) == next + n - 1 <= MaxBytes

ContainerWrite(n) ==
    /\ CanWrite(n)
    /\ mb' = MergeBytes(mb, Fresh(n))
    /\ next' = next + n
    /\ UNCHANGED <<out, met>>

ContainerWriteMulti(n) ==
    /\ CanWrite(n)
    /\ mb' = MergeMulti(mb, Filled(Fresh(n)))
    /\ next' = next + n
    /\ UNCHANGED <<out, met>>

ContainerRead(n) ==
    /\ mb # <<>>
    /\ mb' = SplitBytes(mb, n)
    /\ out' = out \o SubSeq(Content(mb), 1, IF n < Len(Content(mb)) THEN n
                                                ELSE Len(Content(mb)))
    /\ UNCHANGED <<next, met>>

\* ReadMultiBuffer hands over the whole list.
ContainerReadMulti ==
    /\ mb # <<>>
    /\ mb' = <<>>
    /\ out' = out \o Content(mb)
    /\ UNCHANGED <<next, met>>

ReadSize(n) ==
    /\ mb # <<>>
    /\ mb' = SplitSize(mb, n)[1]
    /\ out' = out \o Content(SplitSize(mb, n)[2])
    /\ UNCHANGED <<next, met>>

\* SplitFirst: WriteMultiBuffer writes the buffers one by one.
WriteFirst ==
    /\ mb # <<>>
    /\ mb' = Tail(mb)
    /\ out' = out \o mb[1].bytes
    /\ UNCHANGED <<next, met>>

\* A list cut at i, the parts joined again.
Rejoin(i) ==
    /\ i <= Len(mb)
    /\ mb' = MergeMulti(SplitMulti(mb, i)[1], SplitMulti(mb, i)[2])
    /\ UNCHANGED <<out, next, met>>

CompactAll ==
    /\ mb' = Compact(mb)
    /\ met' = (met \/ \E i \in 1 .. Len(mb) : mb[i].start > 0)
    /\ UNCHANGED <<out, next>>

Next == \/ \E n \in 1 .. Size + 1 :
              ContainerWrite(n) \/ ContainerWriteMulti(n) \/ ContainerRead(n)
                \/ ReadSize(n)
        \/ \E i \in 0 .. MaxBytes : Rejoin(i)
        \/ ContainerReadMulti \/ WriteFirst \/ CompactAll

Spec == Init /\ [][Next]_vars

-----------------------------------------------------------------------------
\* Buffers keep within their array and none is empty (ReadFrom of an empty
\* one is an error, and Compact panics on an error).
TypeOK ==
    /\ next \in 1 .. MaxBytes + 1
    /\ \A i \in 1 .. Len(mb) :
          /\ mb[i].start \in 0 .. Size
          /\ BLen(mb[i]) > 0 /\ Room(mb[i]) >= 0

\* No operation repeats or reorders a byte ("The order of Buffer matters."),
\* and none loses one, except Compact on a buffer that was partly read: it
\* asks whether two contents fit a buffer, not whether there is room behind.
StreamIntact ==
    LET stream == out \o Content(mb)
    IN  /\ \A i \in 2 .. Len(stream) : stream[i - 1] < stream[i]
        /\ ~met => stream = [i \in 1 .. next - 1 |-> i]

\* Compact leaves no two neighbours that would fit into one buffer.
CompactTight ==
    (\A i \in 1 .. Len(mb) : mb[i].start = 0) =>
        LET c == Compact(mb)
        IN  /\ Content(c) = Content(mb)
            /\ \A i \in 1 .. Len(c) - 1 : BLen(c[i]) + BLen(c[i + 1]) > Size

=============================================================================
