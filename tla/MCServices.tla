----------------------------- MODULE MCServices ----------------------------
(***************************************************************************)
(* Services for TLC: a behaviour picks one component at the start and runs *)
(* it alone, the others stay in an initial state.  The constants are in    *)
(* the .cfg; of DnsNameServer, they are those of the two cases together.   *)
(* Of OutboundManager two handlers share the tag a, so that one of them is *)
(* refused.                                                                *)
(***************************************************************************)
EXTENDS Services, TLC

outboundVars == vars
coreVars == <<phase, config, todo, adding, features, resolutions, called, erred, live>>
loadVars == <<status, candidates, settings, stage, nodes, count, line, selects>>
pingVars == <<valid, round, checked, results, lastRTTs>>
dnsVars == <<ips, pending, reqID, sent, qry, waiter, buffer, answered>>
fakeVars == <<lruSize, list, keyToElement, valueToElement, recent>>
userVars == <<email, users, call, calls, crossed>>

TagTable == [h \in Handlers |-> CASE h \in {"h1", "h2"} -> "a"
                                  [] h = "h3" -> "b"
                                  [] OTHER -> Untagged]
Prefixes == [s \in Selectors |-> {"a", "b"}]

\* Callers of Select differ only in name.
CallerSymmetry == Permutations(Callers)

\* Two lookups of one name, for one and for both families; and of two names.
OneDomain == [k \in Queries |-> "d"]
TwoDomains == [k \in Queries |-> k]
FourAndBoth == [k \in Queries |-> IF k = "q1" THEN {4, 6} ELSE {4}]
OnlyFour == [k \in Queries |-> {4}]
AnyRecord == {"ips", "empty", "nxdomain"}
Shared == INSTANCE DnsNameServer WITH Kinds <- Answers, MaxReqs <- 3
Apart == INSTANCE DnsNameServer WITH Domain <- TwoDomains, Families <- OnlyFour,
    Kinds <- AnyRecord

\* One key, and one whose identifier changes.
Accounts == {[email |-> "k1", id |-> "i1"], [email |-> "k2", id |-> "i2"],
             [email |-> "k2", id |-> "i3"]}

ASSUME ServicesAssumption ==
    /\ Core!TypesAssumption /\ Load!LoadAssumption /\ Ping!PingAssumption
    /\ Shared!DnsAssumption /\ Apart!DnsAssumption
    /\ Fake!PoolAssumption /\ Table!CallsAssumption

ServicesInit ==
    /\ case \in {"select", "core", "load", "ping", "shared", "apart", "pool",
                 "users"}
    /\ Init /\ Table!Init
    /\ IF case = "apart" THEN Apart!Init ELSE Shared!Init
    /\ IF case = "core" THEN Core!Init
       ELSE /\ phase = "idle" /\ todo = {} /\ config = <<>> /\ adding = NoOne
            /\ features = <<>> /\ called = <<>> /\ resolutions = <<>>
            /\ erred = {} /\ live = {}
    /\ IF case = "load" THEN Load!Init
       ELSE /\ status = <<>> /\ candidates = {} /\ settings = <<>> /\ nodes = <<>>
            /\ stage = "called" /\ count = 0 /\ line = 0 /\ selects = <<>>
    /\ Ping!Init /\ (case # "ping" => valid = {})
    /\ Fake!Init /\ (case # "pool" => lruSize = 1)

ServicesNext ==
    /\ UNCHANGED case
    /\ \/ /\ case = "select" /\ Next
          /\ UNCHANGED <<coreVars, loadVars, pingVars, dnsVars, fakeVars, userVars>>
       \/ /\ case = "core" /\ Core!Next
          /\ UNCHANGED <<outboundVars, loadVars, pingVars, dnsVars, fakeVars, userVars>>
       \/ /\ case = "load" /\ Load!Next
          /\ UNCHANGED <<outboundVars, coreVars, pingVars, dnsVars, fakeVars, userVars>>
       \/ /\ case = "ping" /\ Ping!Next
          /\ UNCHANGED <<outboundVars, coreVars, loadVars, dnsVars, fakeVars, userVars>>
       \/ /\ \/ case = "shared" /\ Shared!Next
             \/ case = "apart" /\ Apart!Next
          /\ UNCHANGED <<outboundVars, coreVars, loadVars, pingVars, fakeVars, userVars>>
       \/ /\ case = "pool" /\ Fake!Next
          /\ UNCHANGED <<outboundVars, coreVars, loadVars, pingVars, dnsVars, userVars>>
       \/ /\ case = "users" /\ Table!Next
          /\ UNCHANGED <<outboundVars, coreVars, loadVars, pingVars, dnsVars, fakeVars>>

ServicesSpec ==
    /\ ServicesInit
    /\ [][ServicesNext]_<<case, outboundVars, coreVars, loadVars, pingVars, dnsVars,
                          fakeVars, userVars>>
=============================================================================
