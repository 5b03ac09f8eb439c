----------------------------- MODULE ByteStream -----------------------------
(***************************************************************************)
(* What one direction of a connection promises, whatever carries it: bytes  *)
(* are delivered in the order they were accepted, none twice, none made up; *)
(* nothing is accepted once the stream was closed; the end of the stream is *)
(* reported only when it was closed and everything accepted was delivered.  *)
(* A broken stream may drop what it still holds, and never delivers again.  *)
(*                                                                          *)
(* Pipe implements it.                                                      *)
(***************************************************************************)
EXTENDS Naturals, Sequences

VARIABLES
    queue,      \* bytes accepted and not delivered
    delivered,  \* bytes handed to the reader, in order
    status,     \* "open", "closed" (no more writes) or "errord" (broken)
    eof         \* the reader was told that the stream ended

streamVars == <<queue, delivered, status, eof>>

Init ==
    /\ queue = <<>>
    /\ delivered = <<>>
    /\ status = "open"
    /\ eof = FALSE

Starts(s, t) == Len(s) <= Len(t) /\ SubSeq(t, 1, Len(s)) = s

Put ==
    /\ status = "open"
    /\ Starts(queue, queue')
    /\ UNCHANGED <<delivered, status, eof>>

Take ==
    /\ status # "errord"
    /\ \E n \in 1 .. Len(queue) :
          /\ delivered' = delivered \o SubSeq(queue, 1, n)
          /\ queue' = SubSeq(queue, n + 1, Len(queue))
    /\ UNCHANGED <<status, eof>>

Close ==
    /\ status = "open"
    /\ status' = "closed"
    /\ UNCHANGED <<queue, delivered, eof>>

Break ==
    /\ status' = "errord"
    /\ queue' = <<>>
    /\ UNCHANGED <<delivered, eof>>

End ==
    /\ status = "closed"
    /\ queue = <<>>
    /\ eof' = TRUE
    /\ UNCHANGED <<queue, delivered, status>>

Next == Put \/ Take \/ Close \/ Break \/ End

Spec == Init /\ [][Next]_streamVars
=============================================================================
