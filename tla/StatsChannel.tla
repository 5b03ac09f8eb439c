---------------------------- MODULE StatsChannel ----------------------------
(***************************************************************************)
(* A statistics channel (app/stats/channel.go): publishers put messages     *)
(* into a buffered Go channel, one goroutine takes them out and hands each  *)
(* to every subscriber, and Close ends that goroutine, which closes the     *)
(* subscribers' channels.                                                   *)
(*                                                                          *)
(* Blocking mode waits for room in a subscriber's buffer; the other mode    *)
(* leaves the wait to a goroutine per message and subscriber.  A message    *)
(* carries a context that may be cancelled.  `taken', `left' and `missed'   *)
(* are history.                                                             *)
(***************************************************************************)
EXTENDS Integers, Sequences, FiniteSets, SequencesExt

CONSTANTS
    Msgs, Subs,
    blocking, bufferSize, subsLimit,
    None

ChannelAssumption ==
    /\ blocking \in BOOLEAN /\ bufferSize \in Nat \ {0} /\ subsLimit \in Nat

VARIABLES
    life,         \* c.closed: nil, open or closed
    channel,      \* messages published and not taken
    sending,      \* messages whose publish waits for room
    unpublished,
    cancelled,    \* messages whose context is done
    subscribers,  \* c.subscribers
    news,         \* subscribers to come
    queue,        \* queue[s]: the buffer of a subscriber's channel
    got,          \* got[s]: what the subscriber has received
    shut,         \* subscribers' channels that are closed
    g,            \* the goroutine: state, its message, subscribers to go
    spawned,      \* <<message, subscriber>> of the goroutines that broadcast
    panicked,     \* a send on a closed channel
    taken,        \* the messages in the order they were taken
    left,         \* subscribers that have left
    missed        \* missed[s]: taken before s subscribed or after it left

vars == <<life, channel, sending, unpublished, cancelled, subscribers, news,
          queue, got, shut, g, spawned, panicked, taken, left, missed>>

Init ==
    /\ life = "nil"
    /\ channel = <<>> /\ sending = {} /\ unpublished = Msgs /\ cancelled = {}
    /\ subscribers = <<>> /\ news = Subs
    /\ queue = [s \in Subs |-> <<>>] /\ got = [s \in Subs |-> <<>>]
    /\ shut = {} /\ spawned = {} /\ panicked = FALSE
    /\ g = [pc |-> "off", msg |-> None, todo |-> <<>>]
    /\ taken = <<>> /\ left = {} /\ missed = [s \in Subs |-> {}]

-----------------------------------------------------------------------------
(* Subscribers *)
HasLimitRoom == subsLimit = 0 \/ Len(subscribers) < subsLimit

Subscribe(s) ==
    /\ s \in news /\ HasLimitRoom
    /\ news' = news \ {s}
    /\ subscribers' = Append(subscribers, s)
    /\ missed' = [missed EXCEPT ![s] = ToSet(taken)]
    /\ UNCHANGED <<life, channel, sending, unpublished, cancelled, queue, got,
                   shut, g, spawned, panicked, taken, left>>

Removed(seq, s) == RemoveFirst(seq, s)

\* The list is copied, so a broadcast that reads the old one is not disturbed.
Unsubscribe(s) ==
    /\ s \in ToSet(subscribers)
    /\ subscribers' = Removed(subscribers, s)
    /\ left' = left \cup {s}
    /\ UNCHANGED <<life, channel, sending, unpublished, cancelled, news, queue,
                   got, shut, g, spawned, panicked, taken, missed>>

Receive(s) ==
    /\ queue[s] # <<>>
    /\ got' = [got EXCEPT ![s] = Append(@, Head(queue[s]))]
    /\ queue' = [queue EXCEPT ![s] = Tail(@)]
    /\ UNCHANGED <<life, channel, sending, unpublished, cancelled, subscribers,
                   news, shut, g, spawned, panicked, taken, left, missed>>

-----------------------------------------------------------------------------
(* Publishers *)
Room == Len(channel) < bufferSize

\* A message that finds no room waits, in its publisher or, when the channel
\* does not block, in a goroutine.
Publish(m) ==
    /\ m \in unpublished
    /\ unpublished' = unpublished \ {m}
    /\ \/ life = "closed" /\ UNCHANGED <<channel, sending>>
       \/ life # "closed" /\ Room
             /\ channel' = Append(channel, m) /\ UNCHANGED sending
       \/ life # "closed" /\ ~Room
             /\ sending' = sending \cup {m} /\ UNCHANGED channel
    /\ UNCHANGED <<life, cancelled, subscribers, news, queue, got, shut, g,
                   spawned, panicked, taken, left, missed>>

PublishWaiting(m) ==
    /\ m \in sending
    /\ sending' = sending \ {m}
    /\ \/ Room /\ channel' = Append(channel, m)
       \/ m \in cancelled /\ UNCHANGED channel
    /\ UNCHANGED <<life, unpublished, cancelled, subscribers, news, queue, got,
                   shut, g, spawned, panicked, taken, left, missed>>

Cancel(m) ==
    /\ m \notin unpublished \cup cancelled
    /\ cancelled' = cancelled \cup {m}
    /\ UNCHANGED <<life, channel, sending, unpublished, subscribers, news,
                   queue, got, shut, g, spawned, panicked, taken, left, missed>>

-----------------------------------------------------------------------------
(* The goroutine *)
Start ==
    /\ life = "nil"
    /\ life' = "open"
    /\ g' = [g EXCEPT !.pc = "select"]
    /\ UNCHANGED <<channel, sending, unpublished, cancelled, subscribers, news,
                   queue, got, shut, spawned, panicked, taken, left, missed>>

Close ==
    /\ life = "open"
    /\ life' = "closed"
    /\ UNCHANGED <<channel, sending, unpublished, cancelled, subscribers, news,
                   queue, got, shut, g, spawned, panicked, taken, left, missed>>

\* case pub := <-c.channel
Take ==
    /\ g.pc = "select" /\ channel # <<>>
    /\ channel' = Tail(channel)
    /\ g' = [pc |-> "cast", msg |-> Head(channel), todo |-> subscribers]
    /\ taken' = Append(taken, Head(channel))
    /\ missed' = [s \in Subs |-> IF s \in left THEN missed[s] \cup {Head(channel)}
                                              ELSE missed[s]]
    /\ UNCHANGED <<life, sending, unpublished, cancelled, subscribers, news,
                   queue, got, shut, spawned, panicked, left>>

FitsOneLess(s) == Len(queue[s]) < bufferSize - 1
Fits(s) == Len(queue[s]) < bufferSize

\* A send to a subscriber: a closed channel panics, a full one waits.
Send(m, s) ==
    IF s \in shut
    THEN panicked' = TRUE /\ UNCHANGED queue
    ELSE /\ Fits(s)
         /\ queue' = [queue EXCEPT ![s] = Append(@, m)]
         /\ UNCHANGED panicked

\* A goroutine for every message, room or not.
WaitsNever(s) == FALSE
Waits(s) == blocking \/ Fits(s)

Spawned(m, s) == spawned \cup {<<m, s>>}

Cast ==
    /\ g.pc = "cast" /\ g.todo # <<>>
    /\ g' = [g EXCEPT !.todo = Tail(@)]
    /\ LET s == Head(g.todo)
       IN  \/ Waits(s) /\ Send(g.msg, s) /\ UNCHANGED spawned
           \/ /\ blocking /\ g.msg \in cancelled
              /\ UNCHANGED <<queue, panicked, spawned>>
           \/ /\ ~Waits(s)
              /\ spawned' = Spawned(g.msg, s)
              /\ UNCHANGED <<queue, panicked>>
    /\ UNCHANGED <<life, channel, sending, unpublished, cancelled, subscribers,
                   news, got, shut, taken, left, missed>>

\* The goroutine a broadcast without room has left behind.
CastLater(m, s) ==
    /\ <<m, s>> \in spawned
    /\ spawned' = spawned \ {<<m, s>>}
    /\ Send(m, s) \/ (m \in cancelled /\ UNCHANGED <<queue, panicked>>)
    /\ UNCHANGED <<life, channel, sending, unpublished, cancelled, subscribers,
                   news, got, shut, g, taken, left, missed>>

CastDone ==
    /\ g.pc = "cast" /\ g.todo = <<>>
    /\ g' = [g EXCEPT !.pc = "select", !.msg = None]
    /\ UNCHANGED <<life, channel, sending, unpublished, cancelled, subscribers,
                   news, queue, got, shut, spawned, panicked, taken, left, missed>>

\* case <-c.closed
SeeClosed ==
    /\ g.pc = "select" /\ life = "closed"
    /\ g' = [g EXCEPT !.pc = "drain", !.todo = subscribers]
    /\ UNCHANGED <<life, channel, sending, unpublished, cancelled, subscribers,
                   news, queue, got, shut, spawned, panicked, taken, left, missed>>

Drain ==
    /\ g.pc = "drain"
    /\ IF g.todo = <<>>
       THEN g' = [g EXCEPT !.pc = "gone"] /\ UNCHANGED <<subscribers, shut>>
       ELSE /\ subscribers' = Removed(subscribers, Head(g.todo))
            /\ shut' = shut \cup {Head(g.todo)}
            /\ g' = [g EXCEPT !.todo = Tail(@)]
    /\ UNCHANGED <<life, channel, sending, unpublished, cancelled, news, queue,
                   got, spawned, panicked, taken, left, missed>>

-----------------------------------------------------------------------------
Goroutine == Take \/ Cast \/ CastDone \/ SeeClosed \/ Drain
Live == ~panicked

Next ==
    /\ Live
    /\ \/ \E s \in Subs : Subscribe(s) \/ Unsubscribe(s) \/ Receive(s)
       \/ \E m \in Msgs : Publish(m) \/ PublishWaiting(m) \/ Cancel(m)
       \/ \E m \in Msgs, s \in Subs : CastLater(m, s)
       \/ Start \/ Close \/ Goroutine

Spec == Init /\ [][Next]_vars

\* Goroutines are scheduled, and a subscriber keeps reading its channel.
FairSpec ==
    /\ Spec
    /\ WF_vars(Live /\ Goroutine)
    /\ \A m \in Msgs : WF_vars(Live /\ PublishWaiting(m))
    /\ \A s \in Subs : WF_vars(Live /\ Receive(s))

-----------------------------------------------------------------------------
Seen(s) == got[s] \o queue[s]

\* Types and the sizes of the buffers and of the list of subscribers.
TypeOK ==
    /\ life \in {"nil", "open", "closed"}
    /\ channel \in Seq(Msgs) /\ Len(channel) <= bufferSize
    /\ subscribers \in Seq(Subs) /\ IsInjective(subscribers)
    /\ subsLimit # 0 => Len(subscribers) <= subsLimit
    /\ \A s \in Subs : queue[s] \in Seq(Msgs) /\ Len(queue[s]) <= bufferSize
    /\ sending \cup unpublished \cup cancelled \subseteq Msgs
    /\ news \cup shut \subseteq Subs
    /\ g.pc \in {"off", "select", "cast", "drain", "gone"}
    /\ spawned \subseteq Msgs \X Subs /\ panicked \in BOOLEAN

\* Nothing that was taken while a subscriber was on the list passes it by, in
\* either mode, unless its context was cancelled or it is still on its way;
\* and nothing reaches it twice (Start's loop, broadcast and Unsubscribe).
NothingPassedBy ==
    \A s \in Subs :
        /\ IsInjective(Seen(s))
        /\ ToSet(taken) \subseteq
              ToSet(Seen(s)) \cup missed[s] \cup cancelled \cup
              (IF s \in news THEN Msgs ELSE {}) \cup
              (IF s \in ToSet(g.todo) THEN {g.msg} ELSE {}) \cup
              {m \in Msgs : <<m, s>> \in spawned \/ panicked}

\* In blocking mode every subscriber sees the messages in the one order in
\* which they were taken, whoever comes, goes or cancels (broadcast).
OneOrder ==
    blocking => \A s \in Subs :
        \E index \in [1 .. Len(Seen(s)) -> 1 .. Len(taken)] :
            \A i \in 1 .. Len(Seen(s)) :
                /\ Seen(s)[i] = taken[index[i]]
                /\ i > 1 => index[i] > index[i - 1]

\* Nobody waits on a closed channel: once Close was called, the goroutine
\* ends and whoever was subscribed has its channel closed or has left.
CloseEnds == (life = "closed") ~> (g.pc = "gone" \/ panicked)

=============================================================================
