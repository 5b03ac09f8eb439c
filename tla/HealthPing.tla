----------------------------- MODULE HealthPing -----------------------------
(***************************************************************************)
(* The burst observatory's health checks (app/observatory/burst): rounds of *)
(* pings to the outbounds of a balancer, spread over a period, whose round- *)
(* trip times go into a ring per outbound.                                  *)
(*                                                                          *)
(* A round takes the outbounds when it begins and lasts as long as the      *)
(* period and a timeout, so it overlaps with the next.  Outbounds come and  *)
(* go meanwhile.  `recent' is history: the last SamplingCount values put    *)
(* for an outbound since its results were made.                             *)
(***************************************************************************)
EXTENDS Integers, Sequences, FiniteSets, SequencesExt

CONSTANTS
    Tags,
    Rounds,         \* rounds that may overlap
    SamplingCount,
    Values,         \* round-trip times that are told apart
    rttFailed,
    None

Outcomes == Values \cup {rttFailed}
Ring == [idx : 1 .. SamplingCount, rtts : [1 .. SamplingCount -> Outcomes \cup {None}]]

PingAssumption == /\ SamplingCount \in Nat \ {0} /\ rttFailed \notin Values
                  /\ None \notin Outcomes \cup Ring

VARIABLES
    valid,      \* outbounds the selector returns
    round,      \* round[r]: None, or its outbounds and the pings still out
    checked,    \* the one-time check has begun
    results,    \* h.Results: the ring of an outbound
    recent

vars == <<valid, round, checked, results, recent>>

Init ==
    /\ valid \in SUBSET Tags
    /\ round = [r \in Rounds |-> None]
    /\ checked = FALSE
    /\ results = [t \in Tags |-> None]
    /\ recent = [t \in Tags |-> <<>>]

-----------------------------------------------------------------------------
(* HealthPingRTTS *)
\* Slots are 1 .. cap; the code's start at 0 and the first is at idx -1 + 1.
calcIndexStuck(idx) == IF idx + 1 > SamplingCount THEN SamplingCount ELSE idx + 1
calcIndex(idx) == (idx % SamplingCount) + 1

NewRing(v) == [idx |-> 1, rtts |-> [i \in 1 .. SamplingCount |->
                                        IF i = 1 THEN v ELSE None]]
Put(ring, v) ==
    LET idx == calcIndex(ring.idx)
    IN  [idx |-> idx, rtts |-> [ring.rtts EXCEPT ![idx] = v]]

\* Slots that were never filled do not count.
getStatistics(ring) ==
    [All  |-> Cardinality({i \in 1 .. SamplingCount : ring.rtts[i] # None}),
     Fail |-> Cardinality({i \in 1 .. SamplingCount : ring.rtts[i] = rttFailed})]

-----------------------------------------------------------------------------
(* HealthPing *)
LastOnes(s) == IF Len(s) > SamplingCount THEN Tail(s) ELSE s

PutResult(t, v) ==
    /\ results' = [results EXCEPT ![t] = IF @ = None THEN NewRing(v) ELSE Put(@, v)]
    /\ recent' = [recent EXCEPT ![t] = LastOnes(Append(@, v))]

Outstanding(tags, n) == [t \in Tags |-> IF t \in tags THEN n ELSE 0]

\* doCheck of a scheduled round: SamplingCount pings to each outbound.
BeginRound(r) ==
    /\ round[r] = None
    /\ round' = [round EXCEPT ![r] = [tags |-> valid, scheduled |-> TRUE,
                                      out |-> Outstanding(valid, SamplingCount)]]
    /\ UNCHANGED <<valid, checked, results, recent>>

\* Check: one ping each, and no cleanup.
Check(r) ==
    /\ ~checked /\ valid # {} /\ round[r] = None
    /\ checked' = TRUE
    /\ round' = [round EXCEPT ![r] = [tags |-> valid, scheduled |-> FALSE,
                                      out |-> Outstanding(valid, 1)]]
    /\ UNCHANGED <<valid, results, recent>>

\* A ping is answered, fails, or fails while the network is down: then its
\* result is not put.
Answer(r, t) ==
    /\ round[r] # None /\ round[r].out[t] > 0
    /\ round' = [round EXCEPT ![r].out[t] = @ - 1]
    /\ \/ \E v \in Outcomes : PutResult(t, v)
       \/ UNCHANGED <<results, recent>>
    /\ UNCHANGED <<valid, checked>>

Cleaned(r) == IF round[r].scheduled THEN Tags \ round[r].tags ELSE {}

\* The round is over; Cleanup(tags) forgets every outbound not in its list.
EndRound(r) ==
    /\ round[r] # None /\ \A t \in Tags : round[r].out[t] = 0
    /\ round' = [round EXCEPT ![r] = None]
    /\ results' = [t \in Tags |-> IF t \in Cleaned(r) THEN None ELSE results[t]]
    /\ recent' = [t \in Tags |-> IF t \in Cleaned(r) THEN <<>> ELSE recent[t]]
    /\ UNCHANGED <<valid, checked>>

AddOrRemove(t) ==
    /\ valid' = IF t \in valid THEN valid \ {t} ELSE valid \cup {t}
    /\ UNCHANGED <<round, checked, results, recent>>

-----------------------------------------------------------------------------
Step(r) == BeginRound(r) \/ EndRound(r) \/ \E t \in Tags : Answer(r, t)

Next == \/ \E r \in Rounds : Step(r) \/ Check(r)
        \/ \E t \in Tags : AddOrRemove(t)

Spec == Init /\ [][Next]_vars

-----------------------------------------------------------------------------
\* Types.
TypeOK ==
    /\ valid \subseteq Tags /\ checked \in BOOLEAN
    /\ \A t \in Tags : results[t] # None => results[t] \in Ring
    /\ \A r \in Rounds : round[r] # None =>
          /\ round[r].tags \subseteq Tags
          /\ round[r].out \in [Tags -> 0 .. SamplingCount]

\* The statistics are those of the last SamplingCount results, however the
\* rounds overlap and however often the ring went around.
StatisticsOfTheLast ==
    \A t \in Tags :
        IF results[t] = None THEN recent[t] = <<>>
        ELSE /\ getStatistics(results[t]).All = Len(recent[t])
             /\ getStatistics(results[t]).Fail =
                   Cardinality({i \in DOMAIN recent[t] : recent[t][i] = rttFailed})
             /\ results[t].rtts[results[t].idx] = Last(recent[t])

=============================================================================
