------------------------------ MODULE LeastLoad ------------------------------
(***************************************************************************)
(* The least-load strategy of the router's balancer                         *)
(* (app/router/strategy_leastload.go): which of the observed outbounds may  *)
(* carry a connection.                                                      *)
(*                                                                          *)
(* An observation gives each outbound whether it is alive, its delay and    *)
(* its cost (the deviation of its round-trip times, weighted).  The initial *)
(* states are the inputs of pickOutbounds; the loop over the baselines      *)
(* takes a step for each.  The reference is the comment above               *)
(* selectLeastLoad.                                                         *)
(***************************************************************************)
EXTENDS Integers, Sequences, FiniteSets, SequencesExt

CONSTANTS
    Tags,        \* outbounds, numbered: the last key of the sort
    Costs,       \* RTTDeviationCost of an observation
    Delays,      \* Delay of an observation
    Lines,       \* baselines that are configured
    MaxLines,    \* bound: number of baselines
    Counts,      \* Expected Count
    MaxRTTs      \* MaxRTT, 0: no limit

LoadAssumption ==
    /\ Tags \subseteq Nat /\ Costs \subseteq Nat /\ Delays \subseteq Nat
    /\ Lines \subseteq Nat /\ Counts \subseteq Int /\ MaxRTTs \subseteq Nat
    /\ MaxLines \in Nat /\ IsFiniteSet(Tags)

VARIABLES
    status,      \* status[t]: the observation of outbound t
    candidates,  \* outbounds of the balancer
    settings,
    stage,       \* of pickOutbounds: called, in the loop, done
    nodes,       \* the qualified outbounds, sorted
    count,       \* nodes that are selected so far
    line,        \* baselines gone through
    selects      \* the result

vars == <<status, candidates, settings, stage, nodes, count, line, selects>>

Observation == [alive : BOOLEAN, delay : Delays, cost : Costs]
Settings == [Expected : Counts, MaxRTT : MaxRTTs,
             Baselines : UNION {[1 .. n -> Lines] : n \in 0 .. MaxLines}]

Init ==
    /\ status \in [Tags -> Observation]
    /\ candidates \in SUBSET Tags
    /\ settings \in Settings
    /\ stage = "called" /\ nodes = <<>> /\ count = 0 /\ line = 0 /\ selects = <<>>

-----------------------------------------------------------------------------
Qualifies(t) ==
    /\ status[t].alive
    /\ settings.MaxRTT = 0 \/ status[t].delay < settings.MaxRTT
    /\ t \in candidates
Qualified == {t \in Tags : Qualifies(t)}

\* leastloadSort: by cost, then by delay, then by tag (the counts of pings that
\* are compared before the tag are equal here).
Less(a, b) ==
    \/ status[a].cost < status[b].cost
    \/ status[a].cost = status[b].cost
         /\ \/ status[a].delay < status[b].delay
            \/ status[a].delay = status[b].delay /\ a < b

\* A node's place in the sorted list is the number of those before it.
Before(t) == Cardinality({u \in Qualified : Less(u, t)})
getNodes == [i \in 1 .. Cardinality(Qualified) |->
                CHOOSE t \in Qualified : Before(t) = i - 1]

AtLeastOne(n) == IF n <= 0 THEN 1 ELSE n
Wanted == AtLeastOne(settings.Expected)

Return(result) == stage' = "done" /\ selects' = result

\* What selectLeastLoad does before the loop.
pickOutbounds ==
    /\ stage = "called"
    /\ nodes' = getNodes
    /\ IF settings.Expected > Len(nodes') \/ nodes' = <<>> THEN Return(nodes')
       ELSE IF settings.Baselines = <<>> THEN Return(SubSeq(nodes', 1, Wanted))
       ELSE stage' = "loop" /\ UNCHANGED selects
    /\ UNCHANGED <<status, candidates, settings, count, line>>

EnoughMore(n) == n > Wanted
Enough(n) == n >= Wanted

\* The count goes on from where the last baseline left it, while the next node
\* is below this one.
Extended(baseline) ==
    CHOOSE n \in count .. Len(nodes) :
        /\ \A i \in count + 1 .. n : status[nodes[i]].cost < baseline
        /\ n < Len(nodes) => status[nodes[n + 1]].cost >= baseline

Baseline ==
    /\ stage = "loop" /\ line < Len(settings.Baselines) /\ ~Enough(count)
    /\ line' = line + 1
    /\ count' = Extended(settings.Baselines[line'])
    /\ UNCHANGED <<status, candidates, settings, stage, nodes, selects>>

\* nodes[:count]
Cut ==
    /\ stage = "loop" /\ (line = Len(settings.Baselines) \/ Enough(count))
    /\ Return(SubSeq(nodes, 1, IF settings.Expected > 0 /\ count < Wanted
                               THEN Wanted ELSE count))
    /\ UNCHANGED <<status, candidates, settings, nodes, count, line>>

Next == pickOutbounds \/ Baseline \/ Cut

Spec == Init /\ [][Next]_vars

-----------------------------------------------------------------------------
Picked == stage = "done"
Below(baseline) == {t \in Qualified : status[t].cost < baseline}

\* The order of the list decides who is used: nobody outside the result is
\* cheaper than one inside (the sort, and the prefixes that are cut from it).
CheapestPicked ==
    Picked => /\ ToSet(selects) \subseteq Qualified
              /\ IsInjective(selects)
              /\ \A t \in ToSet(selects), u \in Qualified \ ToSet(selects) :
                    status[t].cost <= status[u].cost

\* The three modes of the comment.  "selects `Expected Count` of nodes. (one
\* if Expected Count <= 0)"; "until one of them matches the Expected Count, if
\* no Baseline matches, Expected Count applied"; "go through all baselines
\* until find selects, if not, select none".
CountAsDocumented ==
    LET matching == {i \in 1 .. Len(settings.Baselines) :
                        Cardinality(Below(settings.Baselines[i])) >= Wanted}
        all == Cardinality(Qualified)
        least == IF Wanted < all THEN Wanted ELSE all
    IN  Picked =>
          Len(selects) =
            IF settings.Baselines = <<>> THEN least
            ELSE IF matching = {}
            THEN IF settings.Expected > 0 THEN least ELSE 0
            ELSE LET i == CHOOSE j \in matching : \A k \in matching : j <= k
                 IN  Cardinality(Below(settings.Baselines[i]))

\* As many outbounds are selected as documented, and the cheapest ones.
SelectsAsDocumented == CountAsDocumented /\ CheapestPicked

=============================================================================
