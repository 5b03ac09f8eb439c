------------------------------ MODULE VpnKeys ------------------------------
(***************************************************************************)
(* VPN keys of the CrimsonShroud platform: the rows of the Gateway's        *)
(* database, the request handlers that change them, and the users that the  *)
(* Xray process of each DAW node really lets in.                            *)
(*                                                                          *)
(* A handler of the Gateway (KeyController, VpnKeyService) reads the        *)
(* database, calls the DAW of the key's server over gRPC, and then saves    *)
(* the row.  Nothing makes the three steps atomic: handlers interleave, a   *)
(* call may fail, be executed after the caller gave up on it, or succeed    *)
(* with its reply lost, and either side may crash in between.  A DAW that   *)
(* restarts fetches the keys of its server once and pushes them into Xray.  *)
(*                                                                          *)
(* `taint' is a history variable: no action reads it.  It records, per key, *)
(* which of those events have happened, so that the invariants can say      *)
(* exactly when the database and a node may disagree.                       *)
(***************************************************************************)
EXTENDS Integers, FiniteSets

CONSTANTS
    Keys,       \* key identifiers (Guid.NewGuid draws an unused one)
    Users,      \* user accounts
    Servers,    \* VPN nodes: one DAW and one Xray process each
    Reqs,       \* request slots: handlers that may be active at once
    Rates,      \* tariffs
    Owner,      \* Owner[k]: the user a key drawn as k belongs to
    Home,       \* Home[k]: the server chosen for a key drawn as k
    MaxKeys,    \* MaxKeys[t]: Rate.MaxKeys
    Rights,     \* Rights[u]: the rights of the user's role
    MaxFaults   \* bound on failures and restarts in a behaviour

RightNames == {"ManageKeys", "DeleteKeys", "DeleteUsers"}

ASSUME SetsAssumption == /\ IsFiniteSet(Keys)
                         /\ IsFiniteSet(Reqs) /\ Reqs # {}
                         /\ Rates # {}
ASSUME OwnerAssumption == Owner \in [Keys -> Users]
ASSUME HomeAssumption == Home \in [Keys -> Servers]
ASSUME MaxKeysAssumption == MaxKeys \in [Rates -> Nat]
ASSUME RightsAssumption == Rights \in [Users -> SUBSET RightNames]
ASSUME MaxFaultsAssumption == MaxFaults \in Nat

VARIABLES
    users,      \* accounts that exist
    rate,       \* rate[u]: the user's tariff
    status,     \* status[k]: the row's KeyStatus, "None" when there is no row
    fresh,      \* identifiers not drawn yet
    h,          \* h[r]: the handler occupying slot r
    late,       \* calls a DAW still executes although their caller gave up
    xray,       \* xray[s]: the Xray process of node s
    served,     \* served[s]: the users Xray accepts (validator of the inbound)
    sync,       \* sync[s]: the DAW's start-up task; "off" = DAW not running
    todo,       \* todo[s]: fetched keys the start-up task has yet to push
    faults,     \* failures and restarts so far
    taint       \* taint[k]: history, see above

dbVars   == <<users, rate, status, fresh>>
nodeVars == <<xray, served, sync, todo>>
vars     == <<users, rate, status, fresh, h, late, xray, served, sync, todo,
              faults, taint>>

Statuses == {"None", "Disabled", "Enabled", "Revoked"}
Adding   == {"Add", "Enable"}       \* the handlers that call KeyService.AddKey
Removing == {"Disable", "Del"}      \* the handlers that call KeyService.DelKey
Ops      == Adding \cup Removing

(***************************************************************************)
(* A handler: "user" = the caller has been loaded; "count" = key loaded (or *)
(* drawn) and the count of the caller's keys is next; "sent" = awaiting the *)
(* DAW; "ok"/"err" = the call returned; "save" = SaveChanges is next.       *)
(***************************************************************************)
PCs  == {"user", "count", "sent", "ok", "err", "save"}
Idle == [pc |-> "idle"]
Handlers == [pc : PCs, op : Ops, user : Users, key : Keys, cap : Nat]
Calls    == [req : Reqs, op : Ops, key : Keys]

\* race: two activities on the key overlapped.  half: one half of an operation
\* (call, save) happened without the other, or a removal failed unnoticed.
\* wiped: Xray lost its users during an operation.  unsynced: the start-up
\* push did not reach Xray.  resync: the start-up push added a key that is not
\* enabled.  orphan: the owner was deleted.
Taints == {"race", "half", "wiped", "unsynced", "resync", "orphan"}

\* One type invariant for the rows, handlers, calls, nodes and the history.
TypeOK ==
    /\ users \subseteq Users
    /\ rate \in [Users -> Rates]
    /\ status \in [Keys -> Statuses]
    /\ fresh \subseteq Keys
    /\ h \in [Reqs -> Handlers \cup {Idle}]
    /\ late \subseteq Calls
    /\ xray \in [Servers -> {"down", "starting", "up"}]
    /\ served \in [Servers -> SUBSET Keys]
    /\ sync \in [Servers -> {"off", "wait", "push", "done"}]
    /\ todo \in [Servers -> SUBSET Keys]
    /\ \A s \in Servers : \A k \in todo[s] \cup served[s] : Home[k] = s
    /\ faults \in 0..MaxFaults
    /\ taint \in [Keys -> SUBSET Taints]

-----------------------------------------------------------------------------
(* Reads *)

HasAccess(u, right) == right \in Rights[u]

\* A slot works on a key from the moment its row is loaded.
Holding == PCs \ {"user"}
Holds(r, k) == h[r].pc \in Holding /\ h[r].key = k
Held(k) == \E r \in Reqs : Holds(r, k)

RowsOf(u) == {k \in Keys : status[k] # "None" /\ Owner[k] = u}
EnabledOf(u) == {k \in RowsOf(u) : status[k] = "Enabled"}

\* AddKeyAsync counts every row of the user, EnableKeyAsync the enabled ones.
CountKeys(op, u) == Cardinality(IF op = "Add" THEN RowsOf(u) ELSE EnabledOf(u))

AtLimitOffByOne(n, cap) == n > cap
AtLimit(n, cap) == n >= cap

\* A call reaches Xray when the DAW runs and its Xray process answers.
Reachable(s) == sync[s] # "off" /\ xray[s] = "up"

\* Tainting every key of a set, leaving the others as they are.
Mark(K, t) == [k \in Keys |-> IF k \in K THEN taint[k] \cup {t} ELSE taint[k]]

Fault == faults < MaxFaults /\ faults' = faults + 1

-----------------------------------------------------------------------------
(* The node: what KeyService.AddKey/DelKey of the DAW do to Xray's users *)

\* Xray refuses a user that it already has.
Accepts(op, k) == op \in Removing \/ k \notin served[Home[k]]

UsersAfterNoRemove(op, k, S) == S \cup {k}
UsersAfter(op, k, S) == IF op \in Adding THEN S \cup {k} ELSE S \ {k}

Execute(op, k) ==
    served' = [served EXCEPT ![Home[k]] = UsersAfter(op, k, @)]

-----------------------------------------------------------------------------
(* Request handlers of the Gateway *)

\* AddKey: the caller and the tariff are loaded, a server is chosen and the
\* identifier drawn.
StartAdd(r, k) ==
    /\ h[r] = Idle
    /\ \A c \in late : c.req # r
    /\ k \in fresh
    /\ Owner[k] \in users
    /\ fresh' = fresh \ {k}
    /\ h' = [h EXCEPT ![r] = [pc |-> "count", op |-> "Add", user |-> Owner[k],
                              key |-> k, cap |-> MaxKeys[rate[Owner[k]]]]]
    /\ UNCHANGED <<users, rate, status, late, nodeVars, faults, taint>>

\* EnableKey, DisableKey, DelKey: the caller (and the tariff) are loaded.
StartSwitch(r, u, op, k) ==
    /\ h[r] = Idle
    /\ \A c \in late : c.req # r
    /\ u \in users
    /\ op # "Add"
    /\ h' = [h EXCEPT ![r] = [pc |-> "user", op |-> op, user |-> u, key |-> k,
                        cap |-> IF op = "Enable" THEN MaxKeys[rate[u]] ELSE 0]]
    /\ UNCHANGED <<dbVars, late, nodeVars, faults, taint>>

RightFor(op) == IF op = "Del" THEN "DeleteKeys" ELSE "ManageKeys"
AnyoneMay(u, op, k) == TRUE
MayTouch(u, op, k) == Owner[k] = u \/ HasAccess(u, RightFor(op))

\* The statuses in which the handler goes on after loading the row: EnableKey
\* returns at once unless the key is disabled, DisableKey unless it is enabled.
GoesOn(op, st) == CASE op = "Enable"  -> st = "Disabled"
                    [] op = "Disable" -> st = "Enabled"
                    [] OTHER          -> st # "None"

\* The row is loaded and checked; the removing handlers then call the DAW.
LoadKey(r) ==
    /\ h[r].pc = "user"
    /\ LET k == h[r].key
       IN  IF MayTouch(h[r].user, h[r].op, k) /\ GoesOn(h[r].op, status[k])
           THEN /\ h' = [h EXCEPT ![r].pc = IF h[r].op = "Enable" THEN "count"
                                            ELSE "sent"]
                /\ taint' = IF \/ Held(k)
                               \/ \E c \in late : c.key = k
                               \/ k \in todo[Home[k]]
                            THEN Mark({k}, "race") ELSE taint
           ELSE h' = [h EXCEPT ![r] = Idle] /\ UNCHANGED taint
    /\ UNCHANGED <<dbVars, late, nodeVars, faults>>

\* The keys of the caller are counted; below the limit the DAW is called.
CheckCount(r) ==
    /\ h[r].pc = "count"
    /\ h' = IF AtLimit(CountKeys(h[r].op, h[r].user), h[r].cap)
            THEN [h EXCEPT ![r] = Idle]
            ELSE [h EXCEPT ![r].pc = "sent"]
    /\ UNCHANGED <<dbVars, late, nodeVars, faults, taint>>

\* The DAW executes the call and the reply arrives.
DawExec(r) ==
    /\ h[r].pc = "sent"
    /\ Reachable(Home[h[r].key])
    /\ IF Accepts(h[r].op, h[r].key)
       THEN Execute(h[r].op, h[r].key) /\ h' = [h EXCEPT ![r].pc = "ok"]
       ELSE UNCHANGED served /\ h' = [h EXCEPT ![r].pc = "err"]
    /\ UNCHANGED <<dbVars, late, xray, sync, todo, faults, taint>>

\* The call ends in an RpcException without having reached Xray.
FailCall(r) ==
    /\ h[r].pc = "sent"
    /\ h' = [h EXCEPT ![r].pc = "err"]
    /\ taint' = IF h[r].op \in Removing /\ h[r].key \in served[Home[h[r].key]]
                THEN Mark({h[r].key}, "half") ELSE taint
    /\ UNCHANGED <<dbVars, late, nodeVars>>

NodeDown(r) ==
    /\ FailCall(r)
    /\ ~Reachable(Home[h[r].key])
    /\ UNCHANGED faults

NetworkFails(r) == Fault /\ FailCall(r)

\* The connection breaks after the DAW has executed the call.
ReplyLost(r) ==
    /\ Fault
    /\ h[r].pc = "sent"
    /\ Reachable(Home[h[r].key])
    /\ Accepts(h[r].op, h[r].key)
    /\ Execute(h[r].op, h[r].key)
    /\ h' = [h EXCEPT ![r].pc = "err"]
    /\ taint' = IF h[r].op \in Adding THEN Mark({h[r].key}, "half") ELSE taint
    /\ UNCHANGED <<dbVars, late, xray, sync, todo>>

CallOf(r) == [req |-> r, op |-> h[r].op, key |-> h[r].key]

\* The connection breaks while the DAW's handler, which ignores cancellation,
\* has yet to reach Xray.
CallOutlived(r) ==
    /\ Fault
    /\ h[r].pc = "sent"
    /\ late' = late \cup {CallOf(r)}
    /\ h' = [h EXCEPT ![r].pc = "err"]
    /\ taint' = Mark({h[r].key}, "half")
    /\ UNCHANGED <<dbVars, nodeVars>>

LateExec(c) ==
    /\ c \in late
    /\ late' = late \ {c}
    /\ IF Reachable(Home[c.key]) /\ Accepts(c.op, c.key)
       THEN Execute(c.op, c.key)
       ELSE UNCHANGED served
    /\ UNCHANGED <<dbVars, h, xray, sync, todo, faults, taint>>

LateLost(c) ==
    /\ c \in late
    /\ late' = late \ {c}
    /\ UNCHANGED <<dbVars, h, nodeVars, faults, taint>>

\* ForceAddKey and ForceEnableKey give up on an error; DelKey and DisableKey
\* never look at the result.
GivesUp(op, pc) == op \in Adding /\ pc = "err"

Return(r) ==
    /\ h[r].pc \in {"ok", "err"}
    /\ h' = [h EXCEPT ![r] = IF GivesUp(h[r].op, h[r].pc) THEN Idle
                             ELSE [h[r] EXCEPT !.pc = "save"]]
    /\ UNCHANGED <<dbVars, late, nodeVars, faults, taint>>

\* INSERT needs the owner's row (foreign key); UPDATE and DELETE the key's.
Saveable(r) == IF h[r].op = "Add" THEN h[r].user \in users
               ELSE status[h[r].key] # "None"

StatusAfter(op) == CASE op \in Adding   -> "Enabled"
                     [] op = "Disable"  -> "Disabled"
                     [] OTHER           -> "None"

SaveRetried(r) ==
    /\ h[r].pc = "save" /\ Saveable(r)
    /\ status' = [status EXCEPT ![h[r].key] = StatusAfter(h[r].op)]
    /\ h' = [h EXCEPT ![r] = Idle]
    /\ UNCHANGED <<users, rate, fresh, late, nodeVars, faults, taint>>
Save(r) ==
    /\ h[r].pc = "save"
    /\ status' = IF Saveable(r)
                 THEN [status EXCEPT ![h[r].key] = StatusAfter(h[r].op)]
                 ELSE status        \* DbUpdateException: HTTP 500
    /\ h' = [h EXCEPT ![r] = Idle]
    /\ UNCHANGED <<users, rate, fresh, late, nodeVars, faults, taint>>

\* The database is unavailable: the exception ends the handler.
SaveThrows(r) ==
    /\ Fault
    /\ h[r].pc = "save"
    /\ h' = [h EXCEPT ![r] = Idle]
    /\ taint' = Mark({h[r].key}, "half")
    /\ UNCHANGED <<dbVars, late, nodeVars>>

\* The Gateway process dies; calls already sent may still be executed.
GatewayCrash ==
    /\ Fault
    /\ \E r \in Reqs : h[r] # Idle
    /\ late' = late \cup {CallOf(r) : r \in {q \in Reqs : h[q].pc = "sent"}}
    /\ taint' = Mark({k \in Keys : \E r \in Reqs :
                        Holds(r, k) /\ h[r].pc # "count"}, "half")
    /\ h' = [r \in Reqs |-> Idle]
    /\ UNCHANGED <<dbVars, nodeVars>>

-----------------------------------------------------------------------------
(* User management *)

\* PatchById stores a new tariff; the user's keys are left as they are.
PatchRate(u, t) ==
    /\ u \in users
    /\ rate[u] # t
    /\ rate' = [rate EXCEPT ![u] = t]
    /\ UNCHANGED <<users, status, fresh, h, late, nodeVars, faults, taint>>

\* DelUser deletes the row and the database cascades to the user's keys.
DelUser(m, u) ==
    /\ m \in users /\ HasAccess(m, "DeleteUsers")
    /\ u \in users \ {m}
    /\ users' = users \ {u}
    /\ status' = [k \in Keys |-> IF Owner[k] = u THEN "None" ELSE status[k]]
    /\ taint' = Mark({k \in Keys \ fresh : Owner[k] = u}, "orphan")
    /\ UNCHANGED <<rate, fresh, h, late, nodeVars, faults>>

-----------------------------------------------------------------------------
(* The DAW node *)

\* The DAW process starts and starts Xray.  An Xray left over from a previous
\* DAW keeps the ports, and the new one exits.
DawStart(s) ==
    /\ sync[s] = "off"
    /\ sync' = [sync EXCEPT ![s] = "wait"]
    /\ xray' = [xray EXCEPT ![s] = IF @ = "down" THEN "starting" ELSE @]
    /\ taint' = [k \in Keys |-> IF Home[k] = s THEN taint[k] \ {"unsynced"}
                                ELSE taint[k]]
    /\ UNCHANGED <<dbVars, h, late, served, todo, faults>>

XrayReady(s) ==
    /\ xray[s] = "starting"
    /\ xray' = [xray EXCEPT ![s] = "up"]
    /\ UNCHANGED <<dbVars, h, late, served, sync, todo, faults, taint>>

\* The DAW process ends; nothing in it kills its Xray child.
DawStop(s) ==
    /\ Fault
    /\ sync[s] # "off"
    /\ sync' = [sync EXCEPT ![s] = "off"]
    /\ todo' = [todo EXCEPT ![s] = {}]
    /\ UNCHANGED <<dbVars, h, late, xray, served, taint>>

\* Xray dies, and with it its users.  OnProcessExited does not restart it.
XrayExit(s) ==
    /\ Fault
    /\ xray[s] # "down"
    /\ xray' = [xray EXCEPT ![s] = "down"]
    /\ served' = [served EXCEPT ![s] = {}]
    /\ taint' = Mark({k \in Keys : Home[k] = s /\ Held(k)}, "wiped")
    /\ UNCHANGED <<dbVars, h, late, sync, todo>>

\* The keys the Gateway answers SyncKeys with: every row of the server.
SnapshotOfAll(s) == {k \in Keys : status[k] # "None"}
SnapshotOfDisabled(s) == {k \in Keys : status[k] = "Disabled" /\ Home[k] = s}
Snapshot(s) == {k \in Keys : status[k] # "None" /\ Home[k] = s}

\* Seven seconds after its start, and once only, the DAW fetches its keys.
SyncFetch(s) ==
    /\ sync[s] = "wait"
    /\ todo' = [todo EXCEPT ![s] = Snapshot(s)]
    /\ sync' = [sync EXCEPT ![s] = IF Snapshot(s) = {} THEN "done" ELSE "push"]
    /\ taint' = Mark({k \in Snapshot(s) : Held(k)}, "race")
    /\ UNCHANGED <<dbVars, h, late, xray, served, faults>>

SyncFail(s) ==
    /\ Fault
    /\ sync[s] = "wait"
    /\ sync' = [sync EXCEPT ![s] = "done"]
    /\ taint' = Mark({k \in Keys : status[k] # "None" /\ Home[k] = s}, "unsynced")
    /\ UNCHANGED <<dbVars, h, late, xray, served, todo>>

\* One round of the loop over the fetched keys; its failures are only counted.
SyncPush(s, k) ==
    /\ sync[s] = "push"
    /\ k \in todo[s]
    /\ todo' = [todo EXCEPT ![s] = @ \ {k}]
    /\ sync' = [sync EXCEPT ![s] = IF todo[s] = {k} THEN "done" ELSE @]
    /\ IF xray[s] = "up"
       THEN /\ served' = [served EXCEPT ![s] = @ \cup {k}]
            /\ taint' = IF status[k] = "Enabled" THEN taint
                        ELSE Mark({k}, "resync")
       ELSE UNCHANGED served /\ taint' = Mark({k}, "unsynced")
    /\ UNCHANGED <<dbVars, h, late, xray, faults>>

-----------------------------------------------------------------------------
Init ==
    /\ users = Users
    /\ rate \in [Users -> Rates]
    /\ status = [k \in Keys |-> "None"]
    /\ fresh = Keys
    /\ h = [r \in Reqs |-> Idle]
    /\ late = {}
    /\ xray = [s \in Servers |-> "down"]
    /\ served = [s \in Servers |-> {}]
    /\ sync = [s \in Servers |-> "off"]
    /\ todo = [s \in Servers |-> {}]
    /\ faults = 0
    /\ taint = [k \in Keys |-> {}]

Request(r) ==
    \/ \E k \in Keys : StartAdd(r, k)
    \/ \E u \in Users, op \in Ops, k \in Keys : StartSwitch(r, u, op, k)

\* What the Gateway and the node do with a request by themselves.
Progress(r) ==
    \/ LoadKey(r)
    \/ CheckCount(r)
    \/ DawExec(r)
    \/ NodeDown(r)
    \/ Return(r)
    \/ Save(r)

CallTrouble(r) ==
    \/ NetworkFails(r)
    \/ ReplyLost(r)
    \/ CallOutlived(r)
    \/ SaveThrows(r)

Administration ==
    \/ \E u \in Users, t \in Rates : PatchRate(u, t)
    \/ \E m, u \in Users : DelUser(m, u)

\* The start-up of a node, once begun.
StartUp(s) ==
    \/ XrayReady(s)
    \/ SyncFetch(s)
    \/ \E k \in Keys : SyncPush(s, k)

NodeTrouble(s) ==
    \/ DawStop(s)
    \/ XrayExit(s)
    \/ SyncFail(s)

Next ==
    \/ \E r \in Reqs : Request(r) \/ Progress(r) \/ CallTrouble(r)
    \/ \E c \in late : LateExec(c) \/ LateLost(c)
    \/ GatewayCrash
    \/ Administration
    \/ \E s \in Servers : DawStart(s) \/ StartUp(s) \/ NodeTrouble(s)

Spec == Init /\ [][Next]_vars

\* A handler that can run does run, a call is answered or broken off, a process
\* that was started comes up or dies, and the start-up task goes on.  Nobody has
\* to send requests, start a DAW or delete users.
Fairness ==
    /\ \A r \in Reqs : WF_vars(Progress(r))
    /\ \A s \in Servers : WF_vars(StartUp(s))

FairSpec == Spec /\ Fairness

-----------------------------------------------------------------------------
(* Properties *)

AddInProgress(k) == \E r \in Reqs : /\ Holds(r, k)
                                    /\ h[r].op \in Adding
                                    /\ h[r].pc \in {"ok", "save"}
DelInProgress(k) == \E r \in Reqs : /\ Holds(r, k)
                                    /\ h[r].op \in Removing
                                    /\ h[r].pc \in {"ok", "err", "save"}

\* What may keep an enabled key out of Xray, and a key that is not enabled in.
Excuse(k)      == taint[k] \cap {"race", "half", "wiped", "unsynced"} # {}
Overstay(k)    == taint[k] \cap {"race", "half", "resync", "orphan"} # {}

\* A key whose row says Enabled is accepted by its node, or the node is down or
\* about to be synchronised, or a handler is between removing the user and
\* saving the row, or a recorded failure separated the two: however requests,
\* restarts and the start-up task interleave, nothing else loses a paying
\* user's access.
EnabledServed ==
    \A k \in Keys : status[k] = "Enabled" =>
        LET s == Home[k]
        IN  \/ k \in served[s]
            \/ xray[s] = "down"
            \/ sync[s] \in {"off", "wait"}
            \/ k \in todo[s]
            \/ DelInProgress(k)
            \/ Excuse(k)

\* A user that Xray accepts has an Enabled row, or a handler is between adding
\* the user and saving the row, or a recorded event explains it: overlapping
\* operations, a half-done operation, the status-blind start-up push, or the
\* deletion of the owner.
ServedEnabled ==
    \A k \in Keys : k \in served[Home[k]] =>
        \/ status[k] = "Enabled"
        \/ AddInProgress(k)
        \/ Overstay(k)

AddsOf(u) == {h[r].key : r \in {q \in Reqs : /\ h[q].pc \in {"sent", "ok", "save"}
                                             /\ h[q].op = "Add"
                                             /\ h[q].user = u}}

\* The limit on keys is checked before the awaits of AddKeyAsync and the row is
\* inserted after them, so concurrent requests overshoot it, but never by more
\* than the number of handlers active at once less one: a user's rows stay
\* below the highest limit of any tariff plus the number of request slots.
KeyCountBound ==
    \A u \in Users : \E t \in Rates :
        Cardinality(RowsOf(u)) < MaxKeys[t] + Cardinality(Reqs)

\* What the message of OftenErrors.MaxKeys promises: a user never has more keys
\* than the tariff allows (stated for instances whose tariffs do not change).
\* Two overlapping AddKey requests break it.
MaxKeysRespected ==
    \A u \in Users : Cardinality(RowsOf(u)) <= MaxKeys[rate[u]]

\* What the comment in DelUserAsync asks for: once a user has been deleted, no
\* key of theirs is let in, requests still under way aside.  The code deletes
\* the rows and tells no node.
DeletedUserLockedOut ==
    \A k \in Keys : Owner[k] \notin users /\ ~Held(k) => k \notin served[Home[k]]

\* A row only ever changes for a caller who owned the key or had the right when
\* the row was loaded several steps earlier, or because its owner was deleted.
OnlyAuthorised ==
    [][\A k \in Keys : status'[k] # status[k] =>
         \/ \E r \in Reqs : /\ h[r].pc = "save" /\ h[r].key = k
                            /\ \/ h[r].user = Owner[k]
                               \/ HasAccess(h[r].user, RightFor(h[r].op))
         \/ Owner[k] \notin users']_vars

\* A key that is enabled when its node starts is accepted again once the
\* start-up task is through, unless the row changes, the node dies again or
\* the push misses an Xray that is not ready yet.
RestartServes ==
    \A k \in Keys :
        (status[k] = "Enabled" /\ sync[Home[k]] = "wait")
            ~> \/ k \in served[Home[k]]
               \/ status[k] # "Enabled"
               \/ sync[Home[k]] = "off" \/ xray[Home[k]] = "down"
               \/ Excuse(k)

=============================================================================
