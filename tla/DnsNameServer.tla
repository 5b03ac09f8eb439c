---------------------------- MODULE DnsNameServer ----------------------------
(***************************************************************************)
(* The UDP name server of Xray's DNS (app/dns/nameserver_udp.go) with its   *)
(* notifications (common/signal/pubsub).  A query that misses the cache     *)
(* subscribes to its domain, sends one request per address family and waits *)
(* until both families were published or its context ends.  Responses may   *)
(* be lost, repeated, late or truncated; they are matched by request id.    *)
(*                                                                          *)
(* A record says what question it answers, so that the cache can be judged. *)
(***************************************************************************)
EXTENDS Integers, FiniteSets

CONSTANTS
    Queries,   \* calls of QueryIP
    None,
    Domain,    \* Domain[q]: what q asks for
    Families,  \* Families[q]: subset of {4, 6} that the options enable
    Kinds,     \* what a response may say: "ips", "empty", "nxdomain"
    IdSpace,   \* request ids are 16 bits in the code
    MaxReqs    \* bound: requests sent

DnsAssumption ==
    /\ IdSpace \in Nat \ {0} /\ MaxReqs \in Nat
    /\ Families \in [Queries -> SUBSET {4, 6}]

VARIABLES
    ips,      \* ips[d][f]: cached record
    pending,  \* requests[id]
    reqID,    \* requests sent
    sent,     \* requests the resolver may still answer, as often as it likes
    qry,      \* qry[q]: where QueryIP is, families to send, and its result
    waiter,   \* waiter[q]: the goroutine that waits for the publications
    buffer,   \* buffer[q][f]: a message is in the subscriber's channel
    answered  \* <<q, f>> whose own request was answered

vars == <<ips, pending, reqID, sent, qry, waiter, buffer, answered>>

Domains == {Domain[q] : q \in Queries}
Fams == {4, 6}
Ids == 0 .. IdSpace - 1

Init ==
    /\ ips = [d \in Domains |-> [f \in Fams |-> None]]
    /\ pending = [i \in Ids |-> None]
    /\ reqID = 0
    /\ sent = {}
    /\ qry = [q \in Queries |-> [pc |-> "new", todo |-> {}, result |-> None]]
    /\ waiter = [q \in Queries |-> "off"]
    /\ buffer = [q \in Queries |-> [f \in Fams |-> FALSE]]
    /\ answered = {}

-----------------------------------------------------------------------------
(* findIPsForDomain: addresses of either family, or the first family's      *)
(* error, IPv4 before IPv6.                                                 *)
getIPs(r) == CASE r = None -> "notFound"
               [] r # None /\ r.expired -> "notFound"
               [] OTHER -> r.kind
Find(q) ==
    LET got == [f \in Families[q] |-> getIPs(ips[Domain[q]][f])]
        err(f) == f \in Families[q] /\ got[f] \in {"notFound", "nxdomain"}
    IN  IF \E f \in Families[q] : got[f] = "ips" THEN "ips"
        ELSE IF err(4) THEN got[4]
        ELSE IF err(6) THEN got[6]
        ELSE "empty"

Subscribed(q) == waiter[q] # "off"
FirstWait(q) == IF 4 \in Families[q] THEN "four" ELSE "six"

\* QueryIP: the cache, or the subscriptions; disableCache skips the cache.
QueryIP(q) ==
    /\ qry[q].pc = "new"
    /\ \/ /\ Find(q) # "notFound"
          /\ qry' = [qry EXCEPT ![q].pc = "over", ![q].result = Find(q)]
          /\ UNCHANGED waiter
       \/ /\ qry' = [qry EXCEPT ![q].pc = "send", ![q].todo = Families[q]]
          /\ waiter' = [waiter EXCEPT ![q] = FirstWait(q)]
    /\ UNCHANGED <<ips, pending, reqID, sent, buffer, answered>>

\* sendQuery: a fresh id, the pending entry, the packet.
newReqIDSame == 0
newReqID == reqID % IdSpace
Request(q, f, edns) == [id |-> newReqID, q |-> q, f |-> f, edns |-> edns]
PendingUnder(r) == r.id
addPendingRequest(r) ==
    /\ reqID < MaxReqs
    /\ reqID' = reqID + 1
    /\ pending' = [pending EXCEPT ![PendingUnder(r)] = r]
    /\ sent' = sent \cup {r}

sendQuery(q) ==
    /\ qry[q].pc = "send"
    /\ \E f \in qry[q].todo :
          /\ addPendingRequest(Request(q, f, FALSE))
          /\ qry' = [qry EXCEPT ![q].todo = @ \ {f},
                       ![q].pc = IF @ = "send" /\ qry[q].todo = {f}
                                 THEN "find" ELSE "send"]
    /\ UNCHANGED <<ips, waiter, buffer, answered>>

FindAgain(q) ==
    /\ qry[q].pc = "find"
    /\ qry' = IF Find(q) # "notFound"
              THEN [qry EXCEPT ![q].pc = "over", ![q].result = Find(q)]
              ELSE [qry EXCEPT ![q].pc = "wait"]
    /\ UNCHANGED <<ips, pending, reqID, sent, waiter, buffer, answered>>

\* The two channels were read, or the context ended.
Woken(q) ==
    /\ qry[q].pc = "wait"
    /\ \/ waiter[q] = "done" /\ qry' = [qry EXCEPT ![q].pc = "find"]
       \/ qry' = [qry EXCEPT ![q].pc = "over", ![q].result = "timeout"]
    /\ UNCHANGED <<ips, pending, reqID, sent, waiter, buffer, answered>>

\* The goroutine waits for IPv4, then for IPv6; it gives up with the context.
AfterFour(q) == IF 6 \in Families[q] THEN "six" ELSE "done"
Waiter(q) ==
    /\ \/ /\ waiter[q] = "four"
          /\ buffer[q][4] \/ qry[q].result = "timeout"
          /\ waiter' = [waiter EXCEPT ![q] = AfterFour(q)]
          /\ buffer' = [buffer EXCEPT ![q][4] = FALSE]
       \/ /\ waiter[q] = "six"
          /\ buffer[q][6] \/ qry[q].result = "timeout"
          /\ waiter' = [waiter EXCEPT ![q] = "done"]
          /\ buffer' = [buffer EXCEPT ![q][6] = FALSE]
    /\ UNCHANGED <<ips, pending, reqID, sent, qry, answered>>

-----------------------------------------------------------------------------
(* HandleResponse *)
\* updateIP: the record replaces none, an expired or an older one; everyone
\* subscribed to the domain and family is told, in any case.
isNewer(old) == IF old = None THEN {TRUE}
                ELSE IF old.expired THEN {TRUE} ELSE BOOLEAN
PublishedNever(d, f) == {}
Published(d, f) == {q \in Queries : /\ Domain[q] = d /\ f \in Families[q]
                                    /\ Subscribed(q) /\ qry[q].pc # "over"}
updateIP(r, rec) ==
    LET d == Domain[r.q]
    IN  /\ \E newer \in isNewer(ips[d][r.f]) :
              ips' = IF newer THEN [ips EXCEPT ![d][r.f] = rec] ELSE ips
        /\ buffer' = [q \in Queries |-> IF q \in Published(d, r.f)
                        THEN [buffer[q] EXCEPT ![r.f] = TRUE] ELSE buffer[q]]

\* A response to packet m: it is taken for the answer of the request that is
\* pending under its id.  A truncated one is asked for again, once.
HandleResponse(m) ==
    LET r == pending[m.id]
    IN  /\ r # None
        /\ \/ /\ ~r.edns
              /\ reqID < MaxReqs
              /\ reqID' = reqID + 1
              /\ LET again == [r EXCEPT !.id = newReqID, !.edns = TRUE]
                 IN  /\ pending' = [[pending EXCEPT ![m.id] = None]
                                       EXCEPT ![PendingUnder(again)] = again]
                     /\ sent' = sent \cup {again}
              /\ UNCHANGED <<ips, buffer, answered>>
           \/ /\ pending' = [pending EXCEPT ![m.id] = None]
              /\ \E kind \in Kinds :
                    updateIP(r, [kind |-> kind, expired |-> FALSE,
                                 about |-> <<Domain[m.q], m.f>>])
              /\ answered' = answered \cup {<<r.q, r.f>>}
              /\ UNCHANGED <<reqID, sent>>
        /\ UNCHANGED <<qry, waiter>>

\* Cleanup removes expired records, and requests older than 8 s.
Cleanup ==
    /\ \E old \in SUBSET {i \in Ids : pending[i] # None} :
          pending' = [i \in Ids |-> IF i \in old THEN None ELSE pending[i]]
    /\ ips' = [d \in Domains |-> [f \in Fams |->
                 IF ips[d][f] # None /\ getIPs(ips[d][f]) = "notFound"
                 THEN None ELSE ips[d][f]]]
    /\ UNCHANGED <<reqID, sent, qry, waiter, buffer, answered>>

Expire(d, f) ==
    /\ ips[d][f] # None
    /\ ips' = [ips EXCEPT ![d][f].expired = TRUE]
    /\ UNCHANGED <<pending, reqID, sent, qry, waiter, buffer, answered>>

-----------------------------------------------------------------------------
Next == \/ \E q \in Queries : \/ QueryIP(q) \/ sendQuery(q) \/ FindAgain(q)
                              \/ Woken(q) \/ Waiter(q)
        \/ \E m \in sent : HandleResponse(m)
        \/ Cleanup
        \/ \E d \in Domains, f \in Fams : Expire(d, f)

Spec == Init /\ [][Next]_vars

-----------------------------------------------------------------------------
\* Types, and the requests: one that is pending is pending under its own id.
TypeOK ==
    /\ reqID \in 0 .. MaxReqs
    /\ \A i \in Ids : pending[i] # None => pending[i] \in sent /\ pending[i].id = i
    /\ \A q \in Queries :
          /\ qry[q].pc \in {"new", "send", "find", "wait", "over"}
          /\ qry[q].todo \subseteq Families[q]
          /\ waiter[q] \in {"off", "four", "six", "done"}
    /\ answered \subseteq Queries \X Fams

\* The cache tells the truth: a record is an answer to the question it is
\* stored under, although responses are repeated and late and only their id
\* says which request they belong to.
CacheTruth ==
    \A d \in DOMAIN ips, f \in Fams :
        ips[d][f] # None => ips[d][f].about = <<d, f>>

\* No lost wake-up: when a query's own request for a family was answered,
\* its goroutine does not wait for that family with an empty channel.
AnswerWakes ==
    \A q \in Queries : qry[q].pc # "over" =>
        /\ waiter[q] = "four" /\ <<q, 4>> \in answered => buffer[q][4]
        /\ waiter[q] = "six" /\ <<q, 6>> \in answered => buffer[q][6]

=============================================================================
