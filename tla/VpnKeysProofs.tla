--------------------------- MODULE VpnKeysProofs ---------------------------
(***************************************************************************)
(* Proofs about VpnKeys, for every set of keys, users, servers, tariffs and *)
(* request slots and every number of failures.                              *)
(***************************************************************************)
EXTENDS VpnKeys, FiniteSetTheorems, TLAPS

-----------------------------------------------------------------------------
(* Types *)

\* A slot that is not idle holds a complete handler record.
LEMMA Busy ==
    ASSUME TypeOK, NEW r \in Reqs, h[r].pc # "idle"
    PROVE  h[r] \in Handlers
BY DEF TypeOK, Idle

\* The part of the type invariant the proofs use, slot by slot.
SlotsTyped ==
    /\ fresh \subseteq Keys
    /\ \A r \in Reqs : h[r].pc # "idle" =>
          /\ h[r].pc \in PCs /\ h[r].op \in Ops
          /\ h[r].user \in Users /\ h[r].key \in Keys
    /\ \A c \in late : c.op \in Ops /\ c.key \in Keys

\* It follows from the type invariant.
LEMMA SlotTypes ==
    ASSUME TypeOK
    PROVE  SlotsTyped
BY Busy DEF Handlers, SlotsTyped, TypeOK, Calls

\* A handler that moves on keeps everything but its program counter.
LEMMA MoveFacts ==
    ASSUME TypeOK, NEW r \in Reqs, h[r].pc # "idle", NEW p \in PCs,
           h' = [h EXCEPT ![r].pc = p]
    PROVE  /\ \A q \in Reqs : q # r => h'[q] = h[q]
           /\ h'[r].pc = p
           /\ h'[r].op = h[r].op
           /\ h'[r].user = h[r].user
           /\ h'[r].key = h[r].key
           /\ h'[r].cap = h[r].cap
<1>1. h[r] \in Handlers
  BY Busy
<1> QED
  BY <1>1 DEF TypeOK, Handlers

\* A handler that ends leaves the other slots alone.
LEMMA EndFacts ==
    ASSUME TypeOK, NEW r \in Reqs, h' = [h EXCEPT ![r] = Idle]
    PROVE  /\ \A q \in Reqs : q # r => h'[q] = h[q]
           /\ h'[r].pc = "idle"
BY DEF TypeOK, Idle

\* Tainting keeps the type of the history.
LEMMA MarkType ==
    ASSUME TypeOK, NEW K, NEW t \in Taints
    PROVE  Mark(K, t) \in [Keys -> SUBSET Taints]
BY DEF TypeOK, Mark

\* A handler whose program counter moves is still a handler.
LEMMA MoveType ==
    ASSUME TypeOK, NEW r \in Reqs, h[r].pc # "idle", NEW p \in PCs
    PROVE  [h EXCEPT ![r].pc = p] \in [Reqs -> Handlers \cup {Idle}]
<1>1. h[r] \in Handlers
  BY Busy
<1>2. [h[r] EXCEPT !.pc = p] \in Handlers
  BY <1>1 DEF Handlers
<1> QED
  BY <1>2 DEF TypeOK

\* So is the table when a slot becomes idle.
LEMMA EndType ==
    ASSUME TypeOK, NEW r \in Reqs
    PROVE  [h EXCEPT ![r] = Idle] \in [Reqs -> Handlers \cup {Idle}]
BY DEF TypeOK

\* Every call on a key keeps the users of a node among the keys of the node.
LEMMA ExecuteType ==
    ASSUME TypeOK, NEW op, NEW k \in Keys, Execute(op, k)
    PROVE  /\ served' \in [Servers -> SUBSET Keys]
           /\ \A s \in Servers : \A x \in served'[s] : Home[x] = s
BY HomeAssumption DEF TypeOK, Execute, UsersAfter

\* Every action preserves the type invariant.
LEMMA TypeStep == TypeOK /\ [Next]_vars => TypeOK'
<1> SUFFICES ASSUME TypeOK, [Next]_vars PROVE TypeOK'
  OBVIOUS
<1> USE OwnerAssumption, HomeAssumption, MaxKeysAssumption, MaxFaultsAssumption
<1>0. CASE UNCHANGED vars
  BY <1>0 DEF TypeOK, vars
<1>1. ASSUME NEW r \in Reqs, NEW k \in Keys, StartAdd(r, k) PROVE TypeOK'
  <2>1. MaxKeys[rate[Owner[k]]] \in Nat
    BY DEF TypeOK
  <2>2. [pc |-> "count", op |-> "Add", user |-> Owner[k], key |-> k,
         cap |-> MaxKeys[rate[Owner[k]]]] \in Handlers
    BY <2>1 DEF Handlers, PCs, Ops, Adding
  <2> QED
    BY <1>1, <2>2 DEF TypeOK, StartAdd, nodeVars
<1>2. ASSUME NEW r \in Reqs, NEW u \in Users, NEW op \in Ops, NEW k \in Keys,
             StartSwitch(r, u, op, k)
      PROVE  TypeOK'
  <2>1. (IF op = "Enable" THEN MaxKeys[rate[u]] ELSE 0) \in Nat
    BY DEF TypeOK
  <2>2. [pc |-> "user", op |-> op, user |-> u, key |-> k,
         cap |-> IF op = "Enable" THEN MaxKeys[rate[u]] ELSE 0] \in Handlers
    BY <2>1 DEF Handlers, PCs
  <2> QED
    BY <1>2, <2>2 DEF TypeOK, StartSwitch, nodeVars, dbVars
<1>3. ASSUME NEW r \in Reqs, LoadKey(r) PROVE TypeOK'
  <2>1. h' \in [Reqs -> Handlers \cup {Idle}]
    <3> DEFINE p == IF h[r].op = "Enable" THEN "count" ELSE "sent"
    <3>1. p \in PCs
      BY DEF PCs
    <3>2. \/ h' = [h EXCEPT ![r].pc = p]
          \/ h' = [h EXCEPT ![r] = Idle]
      BY <1>3 DEF LoadKey
    <3> HIDE DEF p
    <3> QED
      BY <1>3, <3>1, <3>2, MoveType, EndType DEF LoadKey
  <2>2. taint' \in [Keys -> SUBSET Taints]
    BY <1>3, MarkType DEF LoadKey, Taints, TypeOK
  <2> QED
    BY <1>3, <2>1, <2>2 DEF TypeOK, LoadKey, nodeVars, dbVars
<1>4. ASSUME NEW r \in Reqs, CheckCount(r) PROVE TypeOK'
  <2>1. h' \in [Reqs -> Handlers \cup {Idle}]
    BY <1>4, MoveType, EndType DEF CheckCount, PCs
  <2> QED
    BY <1>4, <2>1 DEF TypeOK, CheckCount, nodeVars, dbVars
<1>5. ASSUME NEW r \in Reqs, DawExec(r) PROVE TypeOK'
  <2>1. h[r] \in Handlers
    BY <1>5, Busy DEF DawExec
  <2>2. h' \in [Reqs -> Handlers \cup {Idle}]
    BY <1>5, MoveType DEF DawExec, PCs
  <2>3. /\ served' \in [Servers -> SUBSET Keys]
        /\ \A s \in Servers : \A x \in served'[s] : Home[x] = s
    <3>1. CASE Accepts(h[r].op, h[r].key)
      BY <1>5, <2>1, <3>1, ExecuteType DEF DawExec, Handlers
    <3>2. CASE ~Accepts(h[r].op, h[r].key)
      BY <1>5, <3>2 DEF DawExec, TypeOK
    <3> QED
      BY <3>1, <3>2
  <2> QED
    BY <1>5, <2>2, <2>3 DEF TypeOK, DawExec, dbVars
<1>6. ASSUME NEW r \in Reqs, FailCall(r), faults' \in 0..MaxFaults PROVE TypeOK'
  <2>1. h' \in [Reqs -> Handlers \cup {Idle}]
    BY <1>6, MoveType DEF FailCall, PCs
  <2>2. taint' \in [Keys -> SUBSET Taints]
    BY <1>6, MarkType DEF FailCall, Taints, TypeOK
  <2> QED
    BY <1>6, <2>1, <2>2 DEF TypeOK, FailCall, nodeVars, dbVars
<1>f. ASSUME Fault PROVE faults' \in 0..MaxFaults
  BY <1>f DEF Fault, TypeOK
<1>7. ASSUME NEW r \in Reqs, ReplyLost(r) PROVE TypeOK'
  <2>1. h[r] \in Handlers
    BY <1>7, Busy DEF ReplyLost
  <2>2. h' \in [Reqs -> Handlers \cup {Idle}]
    BY <1>7, MoveType DEF ReplyLost, PCs
  <2>3. taint' \in [Keys -> SUBSET Taints]
    BY <1>7, MarkType DEF ReplyLost, Taints, TypeOK
  <2>4. /\ served' \in [Servers -> SUBSET Keys]
        /\ \A s \in Servers : \A x \in served'[s] : Home[x] = s
    BY <1>7, <2>1, ExecuteType DEF ReplyLost, Handlers
  <2> QED
    BY <1>7, <1>f, <2>2, <2>3, <2>4 DEF TypeOK, ReplyLost, dbVars
<1>8. ASSUME NEW r \in Reqs, CallOutlived(r) PROVE TypeOK'
  <2>1. h[r] \in Handlers
    BY <1>8, Busy DEF CallOutlived
  <2>2. h' \in [Reqs -> Handlers \cup {Idle}]
    BY <1>8, MoveType DEF CallOutlived, PCs
  <2>3. taint' \in [Keys -> SUBSET Taints]
    BY <1>8, MarkType DEF CallOutlived, Taints
  <2>4. CallOf(r) \in Calls
    BY <2>1 DEF CallOf, Calls, Handlers
  <2> QED
    BY <1>8, <1>f, <2>2, <2>3, <2>4 DEF TypeOK, CallOutlived, nodeVars, dbVars
<1>9. ASSUME NEW c \in late, LateExec(c) PROVE TypeOK'
  <2>1. c.key \in Keys
    BY DEF TypeOK, Calls
  <2>2. /\ served' \in [Servers -> SUBSET Keys]
        /\ \A s \in Servers : \A x \in served'[s] : Home[x] = s
    <3>1. CASE Execute(c.op, c.key)
      BY <2>1, <3>1, ExecuteType
    <3>2. CASE UNCHANGED served
      BY <3>2 DEF TypeOK
    <3> QED
      BY <1>9, <3>1, <3>2 DEF LateExec
  <2> QED
    BY <1>9, <2>2 DEF TypeOK, LateExec, dbVars
<1>10. ASSUME NEW c \in late, LateLost(c) PROVE TypeOK'
  BY <1>10 DEF TypeOK, LateLost, dbVars, nodeVars
<1>11. ASSUME NEW r \in Reqs, Return(r) PROVE TypeOK'
  <2>1. [h[r] EXCEPT !.pc = "save"] \in Handlers
    BY <1>11, Busy DEF Return, Handlers, PCs
  <2>2. h' \in [Reqs -> Handlers \cup {Idle}]
    BY <1>11, <2>1 DEF Return, TypeOK
  <2> QED
    BY <1>11, <2>2 DEF TypeOK, Return, nodeVars, dbVars
<1>12. ASSUME NEW r \in Reqs, Save(r) PROVE TypeOK'
  <2>1. h' \in [Reqs -> Handlers \cup {Idle}]
    BY <1>12, EndType DEF Save
  <2>2. status' \in [Keys -> Statuses]
    BY <1>12 DEF Save, TypeOK, StatusAfter, Statuses
  <2> QED
    BY <1>12, <2>1, <2>2 DEF TypeOK, Save, nodeVars
<1>13. ASSUME NEW r \in Reqs, SaveThrows(r) PROVE TypeOK'
  <2>1. h' \in [Reqs -> Handlers \cup {Idle}]
    BY <1>13, EndType DEF SaveThrows
  <2>2. taint' \in [Keys -> SUBSET Taints]
    BY <1>13, MarkType DEF SaveThrows, Taints
  <2> QED
    BY <1>13, <1>f, <2>1, <2>2 DEF TypeOK, SaveThrows, nodeVars, dbVars
<1>14. CASE GatewayCrash
  <2>1. taint' \in [Keys -> SUBSET Taints]
    BY <1>14, MarkType DEF GatewayCrash, Taints
  <2>2. \A r \in Reqs : h[r].pc = "sent" => CallOf(r) \in Calls
    BY Busy DEF CallOf, Calls, Handlers
  <2>3. late' \subseteq Calls
    BY <1>14, <2>2 DEF GatewayCrash, TypeOK
  <2> QED
    BY <1>14, <1>f, <2>1, <2>3 DEF TypeOK, GatewayCrash, nodeVars, dbVars
<1>15. ASSUME NEW u \in Users, NEW t \in Rates, PatchRate(u, t) PROVE TypeOK'
  BY <1>15 DEF TypeOK, PatchRate, nodeVars
<1>16. ASSUME NEW m \in Users, NEW u \in Users, DelUser(m, u) PROVE TypeOK'
  <2>1. taint' \in [Keys -> SUBSET Taints]
    BY <1>16, MarkType DEF DelUser, Taints
  <2> QED
    BY <1>16, <2>1 DEF TypeOK, DelUser, nodeVars, Statuses
<1>17. ASSUME NEW s \in Servers, DawStart(s) PROVE TypeOK'
  BY <1>17 DEF TypeOK, DawStart, dbVars
<1>18. ASSUME NEW s \in Servers, XrayReady(s) PROVE TypeOK'
  BY <1>18 DEF TypeOK, XrayReady, dbVars
<1>19. ASSUME NEW s \in Servers, DawStop(s) PROVE TypeOK'
  BY <1>19, <1>f DEF TypeOK, DawStop, dbVars
<1>20. ASSUME NEW s \in Servers, XrayExit(s) PROVE TypeOK'
  <2>1. taint' \in [Keys -> SUBSET Taints]
    BY <1>20, MarkType DEF XrayExit, Taints
  <2> QED
    BY <1>20, <1>f, <2>1 DEF TypeOK, XrayExit, dbVars
<1>21. ASSUME NEW s \in Servers, SyncFetch(s) PROVE TypeOK'
  <2>1. taint' \in [Keys -> SUBSET Taints]
    BY <1>21, MarkType DEF SyncFetch, Taints
  <2> QED
    BY <1>21, <2>1 DEF TypeOK, SyncFetch, Snapshot, dbVars
<1>22. ASSUME NEW s \in Servers, SyncFail(s) PROVE TypeOK'
  <2>1. taint' \in [Keys -> SUBSET Taints]
    BY <1>22, MarkType DEF SyncFail, Taints
  <2> QED
    BY <1>22, <1>f, <2>1 DEF TypeOK, SyncFail, dbVars
<1>23. ASSUME NEW s \in Servers, NEW k \in Keys, SyncPush(s, k) PROVE TypeOK'
  <2>1. taint' \in [Keys -> SUBSET Taints]
    BY <1>23, MarkType DEF SyncPush, Taints, TypeOK
  <2> QED
    BY <1>23, <2>1 DEF TypeOK, SyncPush, dbVars
<1> QED
  BY <1>0, <1>1, <1>2, <1>3, <1>4, <1>5, <1>6, <1>f, <1>7, <1>8, <1>9, <1>10,
     <1>11, <1>12, <1>13, <1>14, <1>15, <1>16, <1>17, <1>18, <1>19, <1>20,
     <1>21, <1>22, <1>23
     DEF Next, Request, Progress, CallTrouble, Administration, StartUp,
         NodeTrouble, NodeDown, NetworkFails, TypeOK

\* The specification keeps rows, handlers, calls and nodes well typed; in
\* particular a node only ever serves, or is about to be told of, its own keys.
THEOREM TypeCorrect == Spec => []TypeOK
<1>1. Init => TypeOK
  BY MaxFaultsAssumption DEF Init, TypeOK, Statuses
<1> QED
  BY <1>1, TypeStep, PTL DEF Spec

-----------------------------------------------------------------------------
(* Authorisation *)

\* A handler that works on a key was allowed to when it loaded the row.
AuthShape ==
    \A r \in Reqs : h[r].pc \in Holding =>
        \/ h[r].user = Owner[h[r].key]
        \/ HasAccess(h[r].user, RightFor(h[r].op))

\* Every step keeps it: only LoadKey and the drawing of a key start to hold one.
LEMMA AuthStep == TypeOK /\ AuthShape /\ [Next]_vars => AuthShape'
<1> SUFFICES ASSUME TypeOK, AuthShape, [Next]_vars PROVE AuthShape'
  OBVIOUS
<1>0. CASE UNCHANGED h
  BY <1>0 DEF AuthShape
<1>1. ASSUME NEW r \in Reqs, Request(r) PROVE AuthShape'
  BY <1>1 DEF Request, StartAdd, StartSwitch, AuthShape, TypeOK, Holding, PCs
<1>2. ASSUME NEW r \in Reqs, h[r].pc \in Holding, NEW p \in PCs,
             h' = [h EXCEPT ![r].pc = p]
      PROVE  AuthShape'
  BY <1>2, MoveFacts DEF AuthShape, Holding, PCs
<1>3. ASSUME NEW r \in Reqs, h' = [h EXCEPT ![r] = Idle] PROVE AuthShape'
  BY <1>3, EndFacts DEF AuthShape, Holding, PCs
<1>4. ASSUME NEW r \in Reqs, LoadKey(r) PROVE AuthShape'
  <2> DEFINE p == IF h[r].op = "Enable" THEN "count" ELSE "sent"
  <2>1. h[r].pc = "user" /\ p \in PCs
    BY <1>4 DEF LoadKey, PCs
  <2>2. CASE /\ MayTouch(h[r].user, h[r].op, h[r].key)
             /\ h' = [h EXCEPT ![r].pc = p]
    <3> HIDE DEF p
    <3>1. /\ \A q \in Reqs : q # r => h'[q] = h[q]
          /\ h'[r].op = h[r].op /\ h'[r].user = h[r].user /\ h'[r].key = h[r].key
      BY <2>1, <2>2, MoveFacts
    <3> QED
      BY <2>2, <3>1 DEF AuthShape, MayTouch
  <2> QED
    BY <1>3, <1>4, <2>2 DEF LoadKey
<1>5. ASSUME NEW r \in Reqs, Return(r) PROVE AuthShape'
  <2>1. h[r].pc \in Holding /\ "save" \in PCs
    BY <1>5 DEF Return, Holding, PCs
  <2>2. \/ h' = [h EXCEPT ![r] = Idle]
        \/ h' = [h EXCEPT ![r].pc = "save"]
    BY <1>5 DEF Return
  <2> QED
    BY <1>2, <1>3, <2>1, <2>2
<1>6. ASSUME NEW r \in Reqs, Progress(r) PROVE AuthShape'
  BY <1>2, <1>3, <1>4, <1>5, <1>6
     DEF Progress, CheckCount, DawExec, NodeDown, FailCall, Save, PCs, Holding
<1>7. ASSUME NEW r \in Reqs, CallTrouble(r) PROVE AuthShape'
  BY <1>2, <1>3, <1>7
     DEF CallTrouble, NetworkFails, FailCall, ReplyLost, CallOutlived,
         SaveThrows, PCs, Holding
<1>8. CASE GatewayCrash
  BY <1>8 DEF GatewayCrash, Idle, AuthShape, Holding, PCs
<1>9. ASSUME NEW c \in late, LateExec(c) \/ LateLost(c) PROVE AuthShape'
  BY <1>9, <1>0 DEF LateExec, LateLost
<1>10. CASE Administration
  BY <1>10, <1>0 DEF Administration, PatchRate, DelUser
<1>11. ASSUME NEW s \in Servers, DawStart(s) \/ StartUp(s) \/ NodeTrouble(s)
       PROVE  AuthShape'
  BY <1>11, <1>0 DEF DawStart, StartUp, NodeTrouble, XrayReady, SyncFetch,
     SyncPush, DawStop, XrayExit, SyncFail
<1> QED
  BY <1>0, <1>1, <1>6, <1>7, <1>8, <1>9, <1>10, <1>11 DEF Next, vars

\* Only Save and DelUser change a row.
LEMMA RowWriters ==
    ASSUME TypeOK, [Next]_vars, NEW k \in Keys, status'[k] # status[k]
    PROVE  \/ \E r \in Reqs : h[r].pc = "save" /\ h[r].key = k
           \/ Owner[k] \notin users'
<1>1. ASSUME NEW r \in Reqs, Save(r)
      PROVE  h[r].pc = "save" /\ h[r].key = k
  BY <1>1 DEF Save, TypeOK
<1>2. ASSUME NEW m \in Users, NEW u \in Users, DelUser(m, u)
      PROVE  Owner[k] \notin users'
  BY <1>2 DEF DelUser
<1>3. \/ \E r \in Reqs : Save(r)
      \/ \E m, u \in Users : DelUser(m, u)
  BY DEF Next, vars, dbVars, Request, Progress, CallTrouble, Administration,
     StartUp, NodeTrouble, StartAdd, StartSwitch, LoadKey, CheckCount, DawExec,
     NodeDown, NetworkFails, FailCall, ReplyLost, CallOutlived, SaveThrows,
     Return, LateExec, LateLost, GatewayCrash, PatchRate, DawStart, XrayReady,
     SyncFetch, SyncPush, DawStop, XrayExit, SyncFail
<1> QED
  BY <1>1, <1>2, <1>3

\* In every behaviour a row changes only for its owner, for somebody who had the
\* right when the handler loaded it, or with the deletion of its owner.
THEOREM Authorised == Spec => OnlyAuthorised
<1>1. Init => AuthShape
  BY DEF Init, AuthShape, Idle, Holding, PCs
<1>2. ASSUME TypeOK, AuthShape, [Next]_vars
      PROVE  [\A k \in Keys : status'[k] # status[k] =>
                \/ \E r \in Reqs : /\ h[r].pc = "save" /\ h[r].key = k
                                   /\ \/ h[r].user = Owner[k]
                                      \/ HasAccess(h[r].user, RightFor(h[r].op))
                \/ Owner[k] \notin users']_vars
  <2> SUFFICES ASSUME NEW k \in Keys, status'[k] # status[k], Owner[k] \in users'
               PROVE  \E r \in Reqs : /\ h[r].pc = "save" /\ h[r].key = k
                                      /\ \/ h[r].user = Owner[k]
                                         \/ HasAccess(h[r].user, RightFor(h[r].op))
    OBVIOUS
  <2>1. PICK r \in Reqs : h[r].pc = "save" /\ h[r].key = k
    BY <1>2, RowWriters
  <2> QED
    BY <1>2, <2>1 DEF AuthShape, Holding, PCs
<1> QED
  BY <1>1, <1>2, AuthStep, TypeCorrect, PTL DEF Spec, OnlyAuthorised

=============================================================================
