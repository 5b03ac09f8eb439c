------------------------------ MODULE Services ------------------------------
(***************************************************************************)
(* The registries, tables and caches of an Xray instance side by side:      *)
(* OutboundManager, CoreInstance, LeastLoad, HealthPing, DnsNameServer,     *)
(* FakeDns and VlessValidator, which share no state, and what each of them  *)
(* guarantees.                                                              *)
(***************************************************************************)
EXTENDS OutboundManager

CONSTANTS Types, Essential, MaxDeps, MaxErrors, NoOne
VARIABLES phase, config, todo, adding, features, resolutions, called, erred, live
Core == INSTANCE CoreInstance WITH pending <- resolutions

CONSTANTS Outbounds, Costs, Delays, Lines, MaxLines, Counts, MaxRTTs
VARIABLES status, candidates, settings, stage, nodes, count, line, selects
Load == INSTANCE LeastLoad WITH Tags <- Outbounds

CONSTANTS Pinged, Rounds, SamplingCount, Values, rttFailed
VARIABLES valid, round, checked, results, lastRTTs
Ping == INSTANCE HealthPing WITH Tags <- Pinged, recent <- lastRTTs

CONSTANTS Queries, Domain, Families, Answers, IdSpace, MaxReqs
VARIABLES ips, pending, reqID, sent, qry, waiter, buffer, answered
Dns == INSTANCE DnsNameServer WITH Kinds <- Answers

CONSTANTS LookedUp, rooms, LruSizes
VARIABLES lruSize, list, keyToElement, valueToElement, recent
Fake == INSTANCE FakeDns WITH Domains <- LookedUp

CONSTANTS Service, Users, MaxCalls
VARIABLES email, users, call, calls, crossed
Table == INSTANCE VlessValidator WITH Callers <- Service

VARIABLE case   \* the component that runs, of DnsNameServer also how

-----------------------------------------------------------------------------
(* OutboundsServe is OutboundManager's own; the others are those of their   *)
(* component, with its types, about the component that runs.                *)

\* In whatever order features arrive, a callback runs once, when what it needs
\* is there, none is forgotten, and the order does not decide whether the
\* instance comes up (AddFeature, callbackResolution, initInstanceWithConfig).
CallbacksRun ==
    case = "core" => Core!CalledWhenReady /\ Core!NoneForgotten /\ Core!OrderIrrelevant

\* As many outbounds are selected as documented, and nobody outside the
\* selection is cheaper than one inside (selectLeastLoad).
SelectsAsDocumented == case = "load" => Load!SelectsAsDocumented

\* Statistics are those of the latest results (HealthPingRTTS.Put).
StatisticsOfTheLast == case = "ping" => Ping!TypeOK /\ Ping!StatisticsOfTheLast

\* An answer that is cached wakes whoever waits for it (updateIP).
AnswerWakes == case = "shared" => Dns!TypeOK /\ Dns!AnswerWakes

\* The cache holds for a name only what was answered for it (HandleResponse).
CacheTruth == case = "apart" => Dns!CacheTruth

\* A fake address means one domain, the domains used last keep theirs, and
\* the search for a free address ends (Holder.GetFakeIPForDomain, lru.Put).
PoolConsistent == case = "pool" => Fake!TypeOK /\ Fake!PoolConsistent

\* The maps of users by e-mail and by UUID agree (MemoryValidator.Add, Del).
MapsAgree == case = "users" => Table!TypeOK /\ Table!MapsAgree
=============================================================================
