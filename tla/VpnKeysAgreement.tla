------------------------- MODULE VpnKeysAgreement -------------------------
(***************************************************************************)
(* The agreement of the Gateway's database with the nodes, proved: the      *)
(* inductive invariant behind EnabledServed and ServedEnabled, and one      *)
(* lemma per action saying that the action preserves it; and from it, how   *)
(* far concurrent AddKey requests can overshoot Rate.MaxKeys.               *)
(***************************************************************************)
EXTENDS VpnKeysProofs

-----------------------------------------------------------------------------
(* The inductive invariant *)

\* An identifier that has not been drawn is unknown to everybody.
FreshUnused ==
    \A k \in fresh : /\ status[k] = "None"
                     /\ ~Held(k)
                     /\ \A c \in late : c.key # k
                     /\ k \notin todo[Home[k]]
                     /\ k \notin served[Home[k]]

\* A handler that adds a key works for its owner, on a key that nobody else
\* holds and that has no row yet; only the deletion of the owner can take the
\* foreign key of the row it is about to insert.
AddShape ==
    \A r \in Reqs : h[r].pc # "idle" /\ h[r].op = "Add" =>
        /\ h[r].pc # "user"
        /\ h[r].user = Owner[h[r].key]
        /\ h[r].key \notin fresh
        /\ status[h[r].key] = "None"
        /\ \A q \in Reqs : Holds(q, h[r].key) => q = r
        /\ Owner[h[r].key] \in users \/ "orphan" \in taint[h[r].key]

\* The row that EnableKey loaded is still there, or another handler or the
\* deletion of the owner removed it meanwhile.
EnableShape ==
    \A r \in Reqs : h[r].pc \in Holding /\ h[r].op = "Enable" =>
        \/ status[h[r].key] # "None"
        \/ "race" \in taint[h[r].key]
        \/ "orphan" \in taint[h[r].key]

\* Two handlers only work on one key after a recorded overlap.
OneHolder ==
    \A k \in Keys : \A q, r \in Reqs :
        Holds(q, k) /\ Holds(r, k) /\ q # r => "race" \in taint[k]

\* So do a handler and the start-up task of the node.
SyncOverlap ==
    \A k \in Keys : k \in todo[Home[k]] /\ Held(k) => "race" \in taint[k]

\* A call that outlived its caller is recorded as half an operation.
LateHalf == \A c \in late : "half" \in taint[c.key]

\* Between the call and the save of an adding handler Xray has the user, unless
\* somebody else removed it or Xray died.
Added ==
    \A r \in Reqs : h[r].pc \in {"ok", "save"} /\ h[r].op \in Adding =>
        \/ h[r].key \in served[Home[h[r].key]]
        \/ "race" \in taint[h[r].key]
        \/ "half" \in taint[h[r].key]
        \/ "wiped" \in taint[h[r].key]

\* After the call of a removing handler Xray does not have the user, unless the
\* call failed or somebody else added it.
Removed ==
    \A r \in Reqs : h[r].pc \in {"ok", "err", "save"} /\ h[r].op \in Removing =>
        \/ h[r].key \notin served[Home[h[r].key]]
        \/ "race" \in taint[h[r].key]
        \/ "half" \in taint[h[r].key]

\* An Xray process that is not up lets nobody in.
DownServesNone == \A s \in Servers : xray[s] # "up" => served[s] = {}

\* The inductive invariant: the two properties and what they rest on.
IInv == /\ TypeOK
        /\ FreshUnused
        /\ AddShape
        /\ EnableShape
        /\ OneHolder
        /\ SyncOverlap
        /\ LateHalf
        /\ Added
        /\ Removed
        /\ DownServesNone
        /\ EnabledServed
        /\ ServedEnabled

-----------------------------------------------------------------------------
(* What the updates used by the actions do *)

\* The excuses as memberships, now and in the next state.
LEMMA ExcuseDef ==
    ASSUME NEW k \in Keys
    PROVE  /\ Excuse(k) <=> \/ "race" \in taint[k] \/ "half" \in taint[k]
                            \/ "wiped" \in taint[k] \/ "unsynced" \in taint[k]
           /\ Overstay(k) <=> \/ "race" \in taint[k] \/ "half" \in taint[k]
                              \/ "resync" \in taint[k] \/ "orphan" \in taint[k]
           /\ Excuse(k)' <=> \/ "race" \in taint'[k] \/ "half" \in taint'[k]
                            \/ "wiped" \in taint'[k] \/ "unsynced" \in taint'[k]
           /\ Overstay(k)' <=> \/ "race" \in taint'[k] \/ "half" \in taint'[k]
                              \/ "resync" \in taint'[k] \/ "orphan" \in taint'[k]
BY DEF Excuse, Overstay

\* Tainting adds to the history and removes nothing.
LEMMA MarkFacts ==
    ASSUME NEW K, NEW t, taint' = Mark(K, t), NEW k \in Keys
    PROVE  /\ taint[k] \subseteq taint'[k]
           /\ k \in K => t \in taint'[k]
BY DEF Mark

\* A call that is executed changes what Xray thinks of its own key only.
LEMMA ExecuteFacts ==
    ASSUME TypeOK, NEW op \in Ops, NEW k \in Keys, Execute(op, k)
    PROVE  /\ \A x \in Keys : x # k =>
                (x \in served'[Home[x]] <=> x \in served[Home[x]])
           /\ k \in served'[Home[k]] <=> op \in Adding
           /\ \A s \in Servers : s # Home[k] => served'[s] = served[s]
BY HomeAssumption DEF TypeOK, Execute, UsersAfter

-----------------------------------------------------------------------------
(* One lemma per action *)

\* AddKey begins: the identifier is drawn, so nobody else knows it.
LEMMA StartAddStep ==
    ASSUME IInv, TypeOK', NEW r \in Reqs, NEW k \in Keys, StartAdd(r, k)
    PROVE  IInv'
<1>t. TypeOK
  BY DEF IInv
<1>h. /\ \A q \in Reqs : q # r => h'[q] = h[q]
      /\ h[r].pc = "idle" /\ h'[r].pc = "count" /\ h'[r].op = "Add"
      /\ h'[r].user = Owner[k] /\ h'[r].key = k
      /\ k \in fresh /\ fresh' = fresh \ {k} /\ Owner[k] \in users
  BY <1>t DEF StartAdd, Idle, TypeOK
<1>u. UNCHANGED <<users, rate, status, late, xray, served, sync, todo, taint>>
  BY DEF StartAdd, nodeVars
<1>1. FreshUnused' /\ AddShape' /\ EnableShape' /\ LateHalf'
  BY <1>h, <1>u
     DEF FreshUnused, AddShape, EnableShape, LateHalf, IInv, Holds, Held
<1>2. OneHolder' /\ SyncOverlap'
  BY <1>h, <1>u DEF OneHolder, SyncOverlap, FreshUnused, IInv, Holds, Held
<1>3. Added' /\ Removed'
  BY <1>h, <1>u DEF Added, Removed, IInv
<1>4. DownServesNone'
  BY <1>u DEF DownServesNone, IInv
<1>5. EnabledServed'
  BY <1>h, <1>u, ExcuseDef DEF EnabledServed, DelInProgress, IInv, Holds
<1>6. ServedEnabled'
  BY <1>h, <1>u, ExcuseDef DEF ServedEnabled, AddInProgress, IInv, Holds
<1> QED
  BY <1>1, <1>2, <1>3, <1>4, <1>5, <1>6 DEF IInv

\* EnableKey, DisableKey or DelKey begins: nothing is held yet.
LEMMA StartSwitchStep ==
    ASSUME IInv, TypeOK', NEW r \in Reqs, NEW u \in Users, NEW op \in Ops, NEW k \in Keys,
           StartSwitch(r, u, op, k)
    PROVE  IInv'
<1>t. TypeOK
  BY DEF IInv
<1>h. /\ \A q \in Reqs : q # r => h'[q] = h[q]
      /\ h[r].pc = "idle" /\ h'[r].pc = "user" /\ h'[r].op # "Add"
  BY <1>t DEF StartSwitch, Idle, TypeOK
<1>u. UNCHANGED <<users, rate, status, fresh, late, xray, served, sync, todo, taint>>
  BY DEF StartSwitch, dbVars, nodeVars
<1>1. FreshUnused' /\ AddShape' /\ EnableShape' /\ LateHalf'
  BY <1>h, <1>u
     DEF FreshUnused, AddShape, EnableShape, LateHalf, IInv, Holds, Held,
         Holding
<1>2. OneHolder' /\ SyncOverlap'
  BY <1>h, <1>u DEF OneHolder, SyncOverlap, IInv, Holds, Held, Holding
<1>3. Added' /\ Removed'
  BY <1>h, <1>u DEF Added, Removed, IInv
<1>4. DownServesNone'
  BY <1>u DEF DownServesNone, IInv
<1>5. EnabledServed'
  BY <1>h, <1>u, ExcuseDef DEF EnabledServed, DelInProgress, IInv, Holds
<1>6. ServedEnabled'
  BY <1>h, <1>u, ExcuseDef DEF ServedEnabled, AddInProgress, IInv, Holds
<1> QED
  BY <1>1, <1>2, <1>3, <1>4, <1>5, <1>6 DEF IInv

\* The row is loaded: an overlap that begins here is recorded.
LEMMA LoadKeyStep ==
    ASSUME IInv, TypeOK', NEW r \in Reqs, LoadKey(r)
    PROVE  IInv'
<1>t. TypeOK
  BY DEF IInv
<1>k. SlotsTyped
  BY <1>t, SlotTypes
<1>h. /\ h[r].pc = "user"
      /\ \A q \in Reqs : q # r => h'[q] = h[q]
      /\ \/ h'[r].pc = "idle"
         \/ /\ h'[r].pc \in {"count", "sent"} /\ h'[r].op = h[r].op
            /\ h'[r].user = h[r].user /\ h'[r].key = h[r].key
            /\ status[h[r].key] # "None"
            /\ \/ Held(h[r].key)
               \/ \E c \in late : c.key = h[r].key
               \/ h[r].key \in todo[Home[h[r].key]]
               => "race" \in taint'[h[r].key]
      /\ \A x \in Keys : taint[x] \subseteq taint'[x]
  <2> DEFINE k == h[r].key
             p == IF h[r].op = "Enable" THEN "count" ELSE "sent"
  <2>1. h[r].pc = "user" /\ p \in PCs /\ p \in {"count", "sent"} /\ k \in Keys
    BY <1>k DEF LoadKey, PCs, SlotsTyped
  <2>2. CASE h' = [h EXCEPT ![r] = Idle] /\ taint' = taint
    BY <1>t, <2>1, <2>2, EndFacts
  <2>3. CASE /\ GoesOn(h[r].op, status[k])
             /\ h' = [h EXCEPT ![r].pc = p]
             /\ taint' = IF \/ Held(k)
                            \/ \E c \in late : c.key = k
                            \/ k \in todo[Home[k]]
                         THEN Mark({k}, "race") ELSE taint
    <3>1. status[k] # "None"
      BY <2>3 DEF GoesOn
    <3>2. /\ \A q \in Reqs : q # r => h'[q] = h[q]
          /\ h'[r].pc = p /\ h'[r].op = h[r].op
          /\ h'[r].user = h[r].user /\ h'[r].key = h[r].key
      BY <1>t, <2>1, <2>3, MoveFacts
    <3> DEFINE busy == \/ Held(k)
                       \/ \E c \in late : c.key = k
                       \/ k \in todo[Home[k]]
    <3>3. CASE busy
      BY <2>1, <2>3, <3>1, <3>2, <3>3 DEF Mark
    <3>4. CASE ~busy
      BY <2>1, <2>3, <3>1, <3>2, <3>4
    <3> QED
      BY <3>3, <3>4
  <2> QED
    BY <2>2, <2>3 DEF LoadKey
<1>u. UNCHANGED <<users, rate, status, fresh, late, xray, served, sync, todo>>
  BY DEF LoadKey, dbVars, nodeVars
<1>1. FreshUnused' /\ AddShape' /\ EnableShape' /\ LateHalf'
  BY <1>k, <1>h, <1>u, OwnerAssumption
     DEF FreshUnused, AddShape, EnableShape, LateHalf, IInv, Holds, Held,
         Holding, PCs, SlotsTyped
<1>2. OneHolder' /\ SyncOverlap'
  BY <1>h, <1>u DEF OneHolder, SyncOverlap, IInv, Holds, Held, Holding, PCs
<1>3. Added' /\ Removed'
  BY <1>k, <1>h, <1>u DEF Added, Removed, IInv, SlotsTyped
<1>4. DownServesNone'
  BY <1>u DEF DownServesNone, IInv
<1>5. EnabledServed'
  BY <1>h, <1>u, ExcuseDef DEF EnabledServed, DelInProgress, IInv, Holds
<1>6. ServedEnabled'
  BY <1>h, <1>u, ExcuseDef DEF ServedEnabled, AddInProgress, IInv, Holds
<1> QED
  BY <1>1, <1>2, <1>3, <1>4, <1>5, <1>6 DEF IInv

\* The limit is checked and the call sent: only the slot changes.
LEMMA CheckCountStep ==
    ASSUME IInv, TypeOK', NEW r \in Reqs, CheckCount(r)
    PROVE  IInv'
<1>t. TypeOK
  BY DEF IInv
<1>h. /\ h[r].pc = "count"
      /\ \A q \in Reqs : q # r => h'[q] = h[q]
      /\ \/ h'[r].pc = "idle"
         \/ /\ h'[r].pc = "sent" /\ h'[r].op = h[r].op
            /\ h'[r].user = h[r].user /\ h'[r].key = h[r].key
  <2>1. h[r].pc = "count" /\ "sent" \in PCs
    BY DEF CheckCount, PCs
  <2>2. CASE h' = [h EXCEPT ![r] = Idle]
    BY <1>t, <2>1, <2>2, EndFacts
  <2>3. CASE h' = [h EXCEPT ![r].pc = "sent"]
    BY <1>t, <2>1, <2>3, MoveFacts
  <2> QED
    BY <2>2, <2>3 DEF CheckCount
<1>u. UNCHANGED <<users, rate, status, fresh, late, xray, served, sync, todo, taint>>
  BY DEF CheckCount, dbVars, nodeVars
<1>1. FreshUnused' /\ AddShape' /\ EnableShape' /\ LateHalf'
  BY <1>h, <1>u, OwnerAssumption
     DEF FreshUnused, AddShape, EnableShape, LateHalf, IInv, Holds, Held,
         Holding, PCs
<1>2. OneHolder' /\ SyncOverlap'
  BY <1>h, <1>u DEF OneHolder, SyncOverlap, IInv, Holds, Held, Holding, PCs
<1>3. Added' /\ Removed'
  BY <1>h, <1>u DEF Added, Removed, IInv
<1>4. DownServesNone'
  BY <1>u DEF DownServesNone, IInv
<1>5. EnabledServed'
  BY <1>h, <1>u, ExcuseDef DEF EnabledServed, DelInProgress, IInv, Holds
<1>6. ServedEnabled'
  BY <1>h, <1>u, ExcuseDef DEF ServedEnabled, AddInProgress, IInv, Holds
<1> QED
  BY <1>1, <1>2, <1>3, <1>4, <1>5, <1>6 DEF IInv

\* The DAW executes the call: the handler that caused the change holds the key,
\* and any other holder means a recorded overlap.
LEMMA DawExecStep ==
    ASSUME IInv, TypeOK', NEW r \in Reqs, DawExec(r)
    PROVE  IInv'
<1>t. TypeOK
  BY DEF IInv
<1>k. SlotsTyped
  BY <1>t, SlotTypes
<1>h. /\ h[r].pc = "sent"
      /\ \A q \in Reqs : q # r => h'[q] = h[q]
      /\ h'[r].op = h[r].op /\ h'[r].user = h[r].user /\ h'[r].key = h[r].key
      /\ h'[r].pc = IF Accepts(h[r].op, h[r].key) THEN "ok" ELSE "err"
  <2>1. h[r].pc = "sent" /\ "ok" \in PCs /\ "err" \in PCs
    BY DEF DawExec, PCs
  <2>2. CASE Accepts(h[r].op, h[r].key)
    BY <1>t, <2>1, <2>2, MoveFacts DEF DawExec
  <2>3. CASE ~Accepts(h[r].op, h[r].key)
    BY <1>t, <2>1, <2>3, MoveFacts DEF DawExec
  <2> QED
    BY <2>2, <2>3
<1>s. /\ \A x \in Keys : x # h[r].key =>
            (x \in served'[Home[x]] <=> x \in served[Home[x]])
      /\ Accepts(h[r].op, h[r].key) =>
            (h[r].key \in served'[Home[h[r].key]] <=> h[r].op \in Adding)
      /\ ~Accepts(h[r].op, h[r].key) =>
            /\ h[r].op \notin Removing
            /\ h[r].key \in served[Home[h[r].key]]
            /\ h[r].key \in served'[Home[h[r].key]]
      /\ \A s \in Servers : xray[s] # "up" => served'[s] = served[s]
  <2>1. h[r].key \in Keys /\ h[r].op \in Ops
    BY <1>h, <1>k DEF SlotsTyped
  <2>2. CASE Accepts(h[r].op, h[r].key)
    BY <1>t, <2>1, <2>2, ExecuteFacts DEF DawExec, Reachable
  <2>3. CASE ~Accepts(h[r].op, h[r].key)
    BY <2>1, <2>3 DEF DawExec, Accepts
  <2> QED
    BY <2>2, <2>3
<1>u. UNCHANGED <<users, rate, status, fresh, late, xray, sync, todo, taint>>
  BY DEF DawExec, dbVars
<1>1. FreshUnused' /\ AddShape' /\ EnableShape' /\ LateHalf'
  BY <1>k, <1>h, <1>s, <1>u
     DEF FreshUnused, AddShape, EnableShape, LateHalf, IInv, Holds, Held,
         Holding, SlotsTyped
<1>2. OneHolder' /\ SyncOverlap'
  BY <1>h, <1>u DEF OneHolder, SyncOverlap, IInv, Holds, Held, Holding, PCs
<1>3. Added' /\ Removed'
  BY <1>k, <1>h, <1>s, <1>u
     DEF Added, Removed, OneHolder, IInv, Holds, Holding, Adding, Removing,
         SlotsTyped
<1>4. DownServesNone'
  BY <1>s, <1>u DEF DownServesNone, IInv
<1>5. EnabledServed'
  BY <1>k, <1>h, <1>s, <1>u, HomeAssumption, ExcuseDef
     DEF EnabledServed, DelInProgress, IInv, Holds, Holding, PCs, Ops,
         SlotsTyped
<1>6. ServedEnabled'
  BY <1>h, <1>s, <1>u, ExcuseDef
     DEF ServedEnabled, AddInProgress, IInv, Holds, Holding, PCs
<1> QED
  BY <1>1, <1>2, <1>3, <1>4, <1>5, <1>6 DEF IInv

\* The call fails: a removal that left the user in Xray is recorded.
LEMMA FailCallStep ==
    ASSUME IInv, TypeOK', NEW r \in Reqs, FailCall(r)
    PROVE  IInv'
<1>t. TypeOK
  BY DEF IInv
<1>k. SlotsTyped
  BY <1>t, SlotTypes
<1>h. /\ h[r].pc = "sent" /\ h'[r].pc = "err"
      /\ \A q \in Reqs : q # r => h'[q] = h[q]
      /\ h'[r].op = h[r].op /\ h'[r].user = h[r].user /\ h'[r].key = h[r].key
  <2>1. h[r].pc = "sent" /\ "err" \in PCs
    BY DEF FailCall, PCs
  <2> QED
    BY <1>t, <2>1, MoveFacts DEF FailCall
<1>m. /\ \A x \in Keys : taint[x] \subseteq taint'[x]
      /\ h[r].op \in Removing /\ h[r].key \in served[Home[h[r].key]]
            => "half" \in taint'[h[r].key]
  BY <1>h, <1>k DEF Mark, SlotsTyped, FailCall
<1>u. UNCHANGED <<users, rate, status, fresh, late, xray, served, sync, todo>>
  BY DEF FailCall, dbVars, nodeVars
<1>1. FreshUnused' /\ AddShape' /\ EnableShape' /\ LateHalf'
  BY <1>k, <1>h, <1>m, <1>u
     DEF FreshUnused, AddShape, EnableShape, LateHalf, IInv, Holds, Held,
         Holding, PCs, SlotsTyped
<1>2. OneHolder' /\ SyncOverlap'
  BY <1>h, <1>m, <1>u
     DEF OneHolder, SyncOverlap, IInv, Holds, Held, Holding, PCs
<1>3. Added' /\ Removed'
  BY <1>k, <1>h, <1>m, <1>u DEF Added, Removed, IInv, SlotsTyped
<1>4. DownServesNone'
  BY <1>u DEF DownServesNone, IInv
<1>5. EnabledServed'
  BY <1>h, <1>m, <1>u, ExcuseDef DEF EnabledServed, DelInProgress, IInv, Holds
<1>6. ServedEnabled'
  BY <1>h, <1>m, <1>u, ExcuseDef DEF ServedEnabled, AddInProgress, IInv, Holds
<1> QED
  BY <1>1, <1>2, <1>3, <1>4, <1>5, <1>6 DEF IInv

\* The call is executed and its reply lost: an addition is recorded.
LEMMA ReplyLostStep ==
    ASSUME IInv, TypeOK', NEW r \in Reqs, ReplyLost(r)
    PROVE  IInv'
<1>t. TypeOK
  BY DEF IInv
<1>k. SlotsTyped
  BY <1>t, SlotTypes
<1>h. /\ h[r].pc = "sent" /\ h'[r].pc = "err"
      /\ \A q \in Reqs : q # r => h'[q] = h[q]
      /\ h'[r].op = h[r].op /\ h'[r].user = h[r].user /\ h'[r].key = h[r].key
  <2>1. h[r].pc = "sent" /\ "err" \in PCs
    BY DEF ReplyLost, PCs
  <2> QED
    BY <1>t, <2>1, MoveFacts DEF ReplyLost
<1>m. /\ \A x \in Keys : taint[x] \subseteq taint'[x]
      /\ h[r].op \in Adding => "half" \in taint'[h[r].key]
  BY <1>h, <1>k DEF Mark, SlotsTyped, ReplyLost
<1>s. /\ \A x \in Keys : x # h[r].key =>
            (x \in served'[Home[x]] <=> x \in served[Home[x]])
      /\ h[r].key \in served'[Home[h[r].key]] <=> h[r].op \in Adding
      /\ \A s \in Servers : xray[s] # "up" => served'[s] = served[s]
  BY <1>t, <1>h, <1>k, ExecuteFacts DEF ReplyLost, Reachable, SlotsTyped
<1>u. UNCHANGED <<users, rate, status, fresh, late, xray, sync, todo>>
  BY DEF ReplyLost, dbVars
<1>1. FreshUnused' /\ AddShape' /\ EnableShape' /\ LateHalf'
  BY <1>k, <1>h, <1>m, <1>s, <1>u
     DEF FreshUnused, AddShape, EnableShape, LateHalf, IInv, Holds, Held,
         Holding, PCs, SlotsTyped
<1>2. OneHolder' /\ SyncOverlap'
  BY <1>h, <1>m, <1>u
     DEF OneHolder, SyncOverlap, IInv, Holds, Held, Holding, PCs
<1>3. Added' /\ Removed'
  BY <1>k, <1>h, <1>m, <1>s
     DEF Added, Removed, OneHolder, IInv, Holds, Holding, SlotsTyped
<1>4. DownServesNone'
  BY <1>s, <1>u DEF DownServesNone, IInv
<1>5. EnabledServed'
  BY <1>k, <1>h, <1>m, <1>s, <1>u, ExcuseDef
     DEF EnabledServed, DelInProgress, IInv, Holds, Holding, PCs, Ops,
         SlotsTyped
<1>6. ServedEnabled'
  BY <1>h, <1>m, <1>s, <1>u, ExcuseDef
     DEF ServedEnabled, AddInProgress, IInv, Holds
<1> QED
  BY <1>1, <1>2, <1>3, <1>4, <1>5, <1>6 DEF IInv

\* The caller gives up on a call the DAW still executes.
LEMMA CallOutlivedStep ==
    ASSUME IInv, TypeOK', NEW r \in Reqs, CallOutlived(r)
    PROVE  IInv'
<1>t. TypeOK
  BY DEF IInv
<1>k. SlotsTyped
  BY <1>t, SlotTypes
<1>h. /\ h[r].pc = "sent" /\ h'[r].pc = "err"
      /\ \A q \in Reqs : q # r => h'[q] = h[q]
      /\ h'[r].op = h[r].op /\ h'[r].user = h[r].user /\ h'[r].key = h[r].key
  <2>1. h[r].pc = "sent" /\ "err" \in PCs
    BY DEF CallOutlived, PCs
  <2> QED
    BY <1>t, <2>1, MoveFacts DEF CallOutlived
<1>m. /\ \A x \in Keys : taint[x] \subseteq taint'[x]
      /\ "half" \in taint'[h[r].key]
  BY <1>h, <1>k DEF Mark, SlotsTyped, CallOutlived
<1>l. \A c \in late' : c \in late \/ c.key = h[r].key
  BY DEF CallOutlived, CallOf
<1>u. UNCHANGED <<users, rate, status, fresh, xray, served, sync, todo>>
  BY DEF CallOutlived, dbVars, nodeVars
<1>1. FreshUnused' /\ AddShape' /\ EnableShape' /\ LateHalf'
  BY <1>k, <1>h, <1>m, <1>l, <1>u
     DEF FreshUnused, AddShape, EnableShape, LateHalf, IInv, Holds, Held,
         Holding, PCs, SlotsTyped
<1>2. OneHolder' /\ SyncOverlap'
  BY <1>h, <1>m, <1>u
     DEF OneHolder, SyncOverlap, IInv, Holds, Held, Holding, PCs
<1>3. Added' /\ Removed'
  BY <1>k, <1>h, <1>m, <1>u DEF Added, Removed, IInv, SlotsTyped
<1>4. DownServesNone'
  BY <1>l, <1>u DEF DownServesNone, IInv
<1>5. EnabledServed'
  BY <1>h, <1>m, <1>u, ExcuseDef DEF EnabledServed, DelInProgress, IInv, Holds
<1>6. ServedEnabled'
  BY <1>h, <1>m, <1>u, ExcuseDef DEF ServedEnabled, AddInProgress, IInv, Holds
<1> QED
  BY <1>1, <1>2, <1>3, <1>4, <1>5, <1>6 DEF IInv

\* The DAW executes a call nobody waits for: its key is recorded already.
LEMMA LateExecStep ==
    ASSUME IInv, TypeOK', NEW c \in late, LateExec(c)
    PROVE  IInv'
<1>t. TypeOK
  BY DEF IInv
<1>k. SlotsTyped
  BY <1>t, SlotTypes
<1>s. /\ c.key \in Keys /\ "half" \in taint[c.key]
      /\ \A x \in Keys : x # c.key =>
            (x \in served'[Home[x]] <=> x \in served[Home[x]])
      /\ \A s \in Servers : xray[s] # "up" => served'[s] = served[s]
  <2>1. c.key \in Keys /\ c.op \in Ops /\ "half" \in taint[c.key]
    BY <1>t DEF TypeOK, Calls, IInv, LateHalf
  <2>2. CASE Reachable(Home[c.key]) /\ Execute(c.op, c.key)
    BY <1>t, <2>1, <2>2, ExecuteFacts DEF Reachable
  <2>3. CASE UNCHANGED served
    BY <2>1, <2>3
  <2> QED
    BY <2>2, <2>3 DEF LateExec
<1>l. late' \subseteq late
  BY DEF LateExec
<1>u. UNCHANGED <<users, rate, status, fresh, h, xray, sync, todo, taint>>
  BY DEF LateExec, dbVars
<1>1. FreshUnused' /\ AddShape' /\ EnableShape' /\ LateHalf'
  BY <1>k, <1>s, <1>l, <1>u
     DEF FreshUnused, AddShape, EnableShape, LateHalf, IInv, Holds, Held,
         SlotsTyped
<1>2. OneHolder' /\ SyncOverlap'
  BY <1>u DEF OneHolder, SyncOverlap, IInv, Holds, Held
<1>3. Added' /\ Removed'
  BY <1>k, <1>s, <1>u DEF Added, Removed, IInv, SlotsTyped
<1>4. DownServesNone'
  BY <1>s, <1>u DEF DownServesNone, IInv
<1>5. EnabledServed'
  BY <1>s, <1>u, ExcuseDef DEF EnabledServed, DelInProgress, IInv, Holds
<1>6. ServedEnabled'
  BY <1>s, <1>u, ExcuseDef DEF ServedEnabled, AddInProgress, IInv, Holds
<1> QED
  BY <1>1, <1>2, <1>3, <1>4, <1>5, <1>6 DEF IInv

\* A call nobody waits for is lost.
LEMMA LateLostStep ==
    ASSUME IInv, TypeOK', NEW c \in late, LateLost(c)
    PROVE  IInv'
<1>l. late' \subseteq late
  BY DEF LateLost
<1>u. UNCHANGED <<users, rate, status, fresh, h, xray, served, sync, todo, taint>>
  BY DEF LateLost, dbVars, nodeVars
<1>1. FreshUnused' /\ AddShape' /\ EnableShape' /\ LateHalf'
  BY <1>l, <1>u
     DEF FreshUnused, AddShape, EnableShape, LateHalf, IInv, Holds, Held
<1>2. OneHolder' /\ SyncOverlap'
  BY <1>u DEF OneHolder, SyncOverlap, IInv, Holds, Held
<1>3. Added' /\ Removed'
  BY <1>u DEF Added, Removed, IInv
<1>4. DownServesNone'
  BY <1>u DEF DownServesNone, IInv
<1>5. EnabledServed'
  BY <1>u, ExcuseDef DEF EnabledServed, DelInProgress, IInv, Holds
<1>6. ServedEnabled'
  BY <1>u, ExcuseDef DEF ServedEnabled, AddInProgress, IInv, Holds
<1> QED
  BY <1>1, <1>2, <1>3, <1>4, <1>5, <1>6 DEF IInv

\* The handler goes on to save, or gives up an addition that failed.
LEMMA ReturnStep ==
    ASSUME IInv, TypeOK', NEW r \in Reqs, Return(r)
    PROVE  IInv'
<1>t. TypeOK
  BY DEF IInv
<1>k. SlotsTyped
  BY <1>t, SlotTypes
<1>h. /\ h[r].pc \in {"ok", "err"}
      /\ \A q \in Reqs : q # r => h'[q] = h[q]
      /\ \/ h'[r].pc = "idle" /\ h[r].op \in Adding /\ h[r].pc = "err"
         \/ /\ h'[r].pc = "save" /\ h'[r].op = h[r].op
            /\ h'[r].user = h[r].user /\ h'[r].key = h[r].key
            /\ h[r].pc = "ok" \/ h[r].op \in Removing
  <2>1. h[r].pc \in {"ok", "err"} /\ "save" \in PCs /\ h[r].op \in Ops
    BY <1>k DEF Return, PCs, SlotsTyped
  <2>2. CASE GivesUp(h[r].op, h[r].pc)
    <3>1. h' = [h EXCEPT ![r] = Idle]
      BY <2>2 DEF Return
    <3> QED
      BY <1>t, <2>1, <2>2, <3>1, EndFacts DEF GivesUp
  <2>3. CASE ~GivesUp(h[r].op, h[r].pc)
    <3>1. h' = [h EXCEPT ![r].pc = "save"]
      BY <2>3 DEF Return
    <3> QED
      BY <1>t, <2>1, <2>3, <3>1, MoveFacts DEF GivesUp, Ops
  <2> QED
    BY <2>2, <2>3
<1>u. UNCHANGED <<users, rate, status, fresh, late, xray, served, sync, todo, taint>>
  BY DEF Return, dbVars, nodeVars
<1>1. FreshUnused' /\ AddShape' /\ EnableShape' /\ LateHalf'
  BY <1>h, <1>u
     DEF FreshUnused, AddShape, EnableShape, LateHalf, IInv, Holds, Held,
         Holding, PCs
<1>2. OneHolder' /\ SyncOverlap'
  BY <1>h, <1>u DEF OneHolder, SyncOverlap, IInv, Holds, Held, Holding, PCs
<1>3. Added' /\ Removed'
  BY <1>h, <1>u DEF Added, Removed, IInv, Adding, Removing
<1>4. DownServesNone'
  BY <1>u DEF DownServesNone, IInv
<1>5. EnabledServed'
  BY <1>h, <1>u, ExcuseDef
     DEF EnabledServed, DelInProgress, IInv, Holds, Holding, PCs, Adding,
         Removing
<1>6. ServedEnabled'
  BY <1>h, <1>u, ExcuseDef
     DEF ServedEnabled, AddInProgress, IInv, Holds, Holding, PCs
<1> QED
  BY <1>1, <1>2, <1>3, <1>4, <1>5, <1>6 DEF IInv

\* The row is saved: by Added and Removed Xray agrees with the new status.
LEMMA SaveStep ==
    ASSUME IInv, TypeOK', NEW r \in Reqs, Save(r)
    PROVE  IInv'
<1>t. TypeOK
  BY DEF IInv
<1>k. SlotsTyped
  BY <1>t, SlotTypes
<1>h. /\ h[r].pc = "save" /\ h'[r].pc = "idle"
      /\ \A q \in Reqs : q # r => h'[q] = h[q]
  BY <1>t, EndFacts DEF Save
<1>d. /\ \A x \in Keys : x # h[r].key => status'[x] = status[x]
      /\ status'[h[r].key] = IF Saveable(r) THEN StatusAfter(h[r].op)
                             ELSE status[h[r].key]
      /\ Saveable(r) <=> IF h[r].op = "Add" THEN h[r].user \in users
                         ELSE status[h[r].key] # "None"
      /\ h[r].op \in Adding => StatusAfter(h[r].op) = "Enabled"
      /\ h[r].op \in Removing => StatusAfter(h[r].op) \in {"Disabled", "None"}
  BY <1>t, <1>h, <1>k DEF SlotsTyped, Save, TypeOK, StatusAfter, Saveable, Adding, Removing
<1>u. UNCHANGED <<users, rate, fresh, late, xray, served, sync, todo, taint>>
  BY DEF Save, nodeVars
<1>1. FreshUnused' /\ AddShape' /\ EnableShape' /\ LateHalf'
  BY <1>k, <1>h, <1>d, <1>u
     DEF FreshUnused, AddShape, EnableShape, LateHalf, OneHolder, IInv, Holds,
         Held, Holding, PCs, SlotsTyped
<1>2. OneHolder' /\ SyncOverlap'
  BY <1>h, <1>u DEF OneHolder, SyncOverlap, IInv, Holds, Held, Holding, PCs
<1>3. Added' /\ Removed'
  BY <1>h, <1>u DEF Added, Removed, IInv
<1>4. DownServesNone'
  BY <1>u DEF DownServesNone, IInv
<1>5. EnabledServed'
  BY <1>k, <1>h, <1>d, <1>u, ExcuseDef
     DEF EnabledServed, DelInProgress, Added, IInv, Holds, Ops, Removing,
         SlotsTyped
<1>6. ServedEnabled'
  BY <1>k, <1>h, <1>d, <1>u, ExcuseDef
     DEF ServedEnabled, AddInProgress, AddShape, EnableShape, Removed, IInv,
         Holds, Ops, Adding, SlotsTyped
<1> QED
  BY <1>1, <1>2, <1>3, <1>4, <1>5, <1>6 DEF IInv

\* The save fails after the call: recorded as half an operation.
LEMMA SaveThrowsStep ==
    ASSUME IInv, TypeOK', NEW r \in Reqs, SaveThrows(r)
    PROVE  IInv'
<1>t. TypeOK
  BY DEF IInv
<1>k. SlotsTyped
  BY <1>t, SlotTypes
<1>h. /\ h[r].pc = "save" /\ h'[r].pc = "idle"
      /\ \A q \in Reqs : q # r => h'[q] = h[q]
  BY <1>t, EndFacts DEF SaveThrows
<1>m. /\ \A x \in Keys : taint[x] \subseteq taint'[x]
      /\ "half" \in taint'[h[r].key]
  BY <1>h, <1>k DEF Mark, SlotsTyped, SaveThrows
<1>u. UNCHANGED <<users, rate, status, fresh, late, xray, served, sync, todo>>
  BY DEF SaveThrows, dbVars, nodeVars
<1>1. FreshUnused' /\ AddShape' /\ EnableShape' /\ LateHalf'
  BY <1>k, <1>h, <1>m, <1>u
     DEF FreshUnused, AddShape, EnableShape, LateHalf, IInv, Holds, Held,
         Holding, PCs, SlotsTyped
<1>2. OneHolder' /\ SyncOverlap'
  BY <1>h, <1>m, <1>u
     DEF OneHolder, SyncOverlap, IInv, Holds, Held, Holding, PCs
<1>3. Added' /\ Removed'
  BY <1>k, <1>h, <1>m, <1>u DEF Added, Removed, IInv, SlotsTyped
<1>4. DownServesNone'
  BY <1>u DEF DownServesNone, IInv
<1>5. EnabledServed'
  BY <1>h, <1>m, <1>u, ExcuseDef DEF EnabledServed, DelInProgress, IInv, Holds
<1>6. ServedEnabled'
  BY <1>h, <1>m, <1>u, ExcuseDef DEF ServedEnabled, AddInProgress, IInv, Holds
<1> QED
  BY <1>1, <1>2, <1>3, <1>4, <1>5, <1>6 DEF IInv

\* The Gateway dies: every operation past its check is recorded.
LEMMA GatewayCrashStep ==
    ASSUME IInv, TypeOK', GatewayCrash
    PROVE  IInv'
<1>t. TypeOK
  BY DEF IInv
<1>k. SlotsTyped
  BY <1>t, SlotTypes
<1>h. \A q \in Reqs : h'[q].pc = "idle"
  BY DEF GatewayCrash, Idle
<1>m. /\ \A x \in Keys : taint[x] \subseteq taint'[x]
      /\ \A q \in Reqs : h[q].pc \in Holding \ {"count"} => "half" \in taint'[h[q].key]
  <2>1. \A q \in Reqs : h[q].pc \in Holding \ {"count"} =>
          h[q].key \in {k \in Keys : \E r \in Reqs : Holds(r, k) /\ h[r].pc # "count"}
    BY <1>k DEF Holds, Holding, PCs, SlotsTyped
  <2>2. \A q \in Reqs : h[q].pc \in Holding => h[q].key \in Keys
    BY <1>k DEF Holding, PCs, SlotsTyped
  <2> QED
    BY <2>1, <2>2, MarkFacts DEF GatewayCrash
<1>l. \A c \in late' : c \in late \/ \E q \in Reqs : h[q].pc = "sent" /\ c.key = h[q].key
  BY DEF GatewayCrash, CallOf
<1>u. UNCHANGED <<users, rate, status, fresh, xray, served, sync, todo>>
  BY DEF GatewayCrash, dbVars, nodeVars
<1>1. FreshUnused' /\ AddShape' /\ EnableShape' /\ LateHalf'
  BY <1>k, <1>h, <1>m, <1>l, <1>u
     DEF FreshUnused, AddShape, EnableShape, LateHalf, IInv, Holds, Held,
         Holding, PCs, SlotsTyped
<1>2. OneHolder' /\ SyncOverlap'
  BY <1>h DEF OneHolder, SyncOverlap, Holds, Held, Holding, PCs
<1>3. Added' /\ Removed'
  BY <1>h DEF Added, Removed
<1>4. DownServesNone'
  BY <1>l, <1>u DEF DownServesNone, IInv
<1>5. EnabledServed'
  BY <1>m, <1>u, ExcuseDef DEF EnabledServed, DelInProgress, IInv, Holds
<1>6. ServedEnabled'
  BY <1>m, <1>u, ExcuseDef DEF ServedEnabled, AddInProgress, IInv, Holds
<1> QED
  BY <1>1, <1>2, <1>3, <1>4, <1>5, <1>6 DEF IInv

\* A new tariff touches no key.
LEMMA PatchRateStep ==
    ASSUME IInv, TypeOK', NEW u \in Users, NEW t \in Rates, PatchRate(u, t)
    PROVE  IInv'
<1>u. UNCHANGED <<users, status, fresh, h, late, xray, served, sync, todo, taint>>
  BY DEF PatchRate, nodeVars
<1>1. FreshUnused' /\ AddShape' /\ EnableShape' /\ LateHalf'
  BY <1>u DEF FreshUnused, AddShape, EnableShape, LateHalf, IInv, Holds, Held
<1>2. OneHolder' /\ SyncOverlap'
  BY <1>u DEF OneHolder, SyncOverlap, IInv, Holds, Held
<1>3. Added' /\ Removed'
  BY <1>u DEF Added, Removed, IInv
<1>4. DownServesNone'
  BY <1>u DEF DownServesNone, IInv
<1>5. EnabledServed'
  BY <1>u, ExcuseDef DEF EnabledServed, DelInProgress, IInv, Holds
<1>6. ServedEnabled'
  BY <1>u, ExcuseDef DEF ServedEnabled, AddInProgress, IInv, Holds
<1> QED
  BY <1>1, <1>2, <1>3, <1>4, <1>5, <1>6 DEF IInv

\* The user's rows go: every key of theirs is recorded.
LEMMA DelUserStep ==
    ASSUME IInv, TypeOK', NEW m \in Users, NEW u \in Users, DelUser(m, u)
    PROVE  IInv'
<1>t. TypeOK
  BY DEF IInv
<1>k. SlotsTyped
  BY <1>t, SlotTypes
<1>d. /\ users' = users \ {u}
      /\ \A x \in Keys : status'[x] = IF Owner[x] = u THEN "None" ELSE status[x]
  BY DEF DelUser
<1>m. /\ \A x \in Keys : taint[x] \subseteq taint'[x]
      /\ \A x \in Keys : Owner[x] = u /\ x \notin fresh => "orphan" \in taint'[x]
  BY MarkFacts DEF DelUser
<1>u. UNCHANGED <<rate, fresh, h, late, xray, served, sync, todo>>
  BY DEF DelUser, nodeVars
<1>1. FreshUnused' /\ AddShape' /\ EnableShape' /\ LateHalf'
  BY <1>k, <1>d, <1>m, <1>u
     DEF FreshUnused, AddShape, EnableShape, LateHalf, IInv, Holds, Held,
         Holding, PCs, SlotsTyped
<1>2. OneHolder' /\ SyncOverlap'
  BY <1>m, <1>u DEF OneHolder, SyncOverlap, IInv, Holds, Held
<1>3. Added' /\ Removed'
  BY <1>k, <1>m, <1>u DEF Added, Removed, IInv, SlotsTyped
<1>4. DownServesNone'
  BY <1>u DEF DownServesNone, IInv
<1>5. EnabledServed'
  BY <1>d, <1>m, <1>u, ExcuseDef DEF EnabledServed, DelInProgress, IInv, Holds
<1>6. ServedEnabled'
  BY <1>d, <1>m, <1>u, ExcuseDef
     DEF ServedEnabled, AddInProgress, FreshUnused, IInv, Holds
<1> QED
  BY <1>1, <1>2, <1>3, <1>4, <1>5, <1>6 DEF IInv

\* The DAW starts: whatever the last start-up missed is due again.
LEMMA DawStartStep ==
    ASSUME IInv, TypeOK', NEW s \in Servers, DawStart(s)
    PROVE  IInv'
<1>t. TypeOK
  BY DEF IInv
<1>k. SlotsTyped
  BY <1>t, SlotTypes
<1>n. /\ sync'[s] = "wait" /\ \A x \in Servers : x # s => sync'[x] = sync[x]
      /\ \A x \in Servers : x # s => xray'[x] = xray[x]
      /\ \A x \in Servers : xray'[x] # "up" => xray[x] # "up"
      /\ xray'[s] = "down" => xray[s] = "down"
  BY <1>t DEF DawStart, TypeOK
<1>m. \A x \in Keys : \A t :
        (t # "unsynced" \/ Home[x] # s) => (t \in taint'[x] <=> t \in taint[x])
  BY <1>t DEF DawStart, TypeOK
<1>u. UNCHANGED <<users, rate, status, fresh, h, late, served, todo>>
  BY DEF DawStart, dbVars
<1>1. FreshUnused' /\ AddShape' /\ EnableShape' /\ LateHalf'
  BY <1>k, <1>m, <1>u
     DEF FreshUnused, AddShape, EnableShape, LateHalf, IInv, Holds, Held,
         Holding, PCs, SlotsTyped
<1>2. OneHolder' /\ SyncOverlap'
  BY <1>m, <1>u DEF OneHolder, SyncOverlap, IInv, Holds, Held
<1>3. Added' /\ Removed'
  BY <1>k, <1>m, <1>u DEF Added, Removed, IInv, SlotsTyped
<1>4. DownServesNone'
  BY <1>n, <1>u DEF DownServesNone, IInv
<1>5. EnabledServed'
  BY <1>n, <1>m, <1>u, HomeAssumption, ExcuseDef
     DEF EnabledServed, DelInProgress, IInv, Holds
<1>6. ServedEnabled'
  BY <1>m, <1>u, ExcuseDef DEF ServedEnabled, AddInProgress, IInv, Holds
<1> QED
  BY <1>1, <1>2, <1>3, <1>4, <1>5, <1>6 DEF IInv

\* Xray answers: the start-up task has yet to run, or has recorded what it
\* missed.
LEMMA XrayReadyStep ==
    ASSUME IInv, TypeOK', NEW s \in Servers, XrayReady(s)
    PROVE  IInv'
<1>t. TypeOK
  BY DEF IInv
<1>n. /\ xray[s] = "starting" /\ xray'[s] = "up"
      /\ \A x \in Servers : x # s => xray'[x] = xray[x]
  BY <1>t DEF XrayReady, TypeOK
<1>u. UNCHANGED <<users, rate, status, fresh, h, late, served, sync, todo, taint>>
  BY DEF XrayReady, dbVars
<1>1. FreshUnused' /\ AddShape' /\ EnableShape' /\ LateHalf'
  BY <1>u DEF FreshUnused, AddShape, EnableShape, LateHalf, IInv, Holds, Held
<1>2. OneHolder' /\ SyncOverlap'
  BY <1>u DEF OneHolder, SyncOverlap, IInv, Holds, Held
<1>3. Added' /\ Removed'
  BY <1>u DEF Added, Removed, IInv
<1>4. DownServesNone'
  BY <1>n, <1>u DEF DownServesNone, IInv
<1>5. EnabledServed'
  BY <1>n, <1>u, HomeAssumption, ExcuseDef
     DEF EnabledServed, DelInProgress, IInv, Holds
<1>6. ServedEnabled'
  BY <1>u, ExcuseDef DEF ServedEnabled, AddInProgress, IInv, Holds
<1> QED
  BY <1>1, <1>2, <1>3, <1>4, <1>5, <1>6 DEF IInv

\* The DAW stops and owes nothing until it starts again.
LEMMA DawStopStep ==
    ASSUME IInv, TypeOK', NEW s \in Servers, DawStop(s)
    PROVE  IInv'
<1>t. TypeOK
  BY DEF IInv
<1>k. SlotsTyped
  BY <1>t, SlotTypes
<1>n. /\ sync'[s] = "off" /\ todo'[s] = {}
      /\ \A x \in Servers : x # s => sync'[x] = sync[x] /\ todo'[x] = todo[x]
  BY <1>t DEF DawStop, TypeOK
<1>u. UNCHANGED <<users, rate, status, fresh, h, late, xray, served, taint>>
  BY DEF DawStop, dbVars
<1>1. FreshUnused' /\ AddShape' /\ EnableShape' /\ LateHalf'
  BY <1>k, <1>n, <1>u, HomeAssumption
     DEF FreshUnused, AddShape, EnableShape, LateHalf, IInv, Holds, Held,
         SlotsTyped
<1>2. OneHolder' /\ SyncOverlap'
  BY <1>n, <1>u, HomeAssumption
     DEF OneHolder, SyncOverlap, FreshUnused, IInv, Holds, Held
<1>3. Added' /\ Removed'
  BY <1>u DEF Added, Removed, IInv
<1>4. DownServesNone'
  BY <1>u DEF DownServesNone, IInv
<1>5. EnabledServed'
  BY <1>n, <1>u, HomeAssumption, ExcuseDef
     DEF EnabledServed, DelInProgress, IInv, Holds
<1>6. ServedEnabled'
  BY <1>u, ExcuseDef DEF ServedEnabled, AddInProgress, IInv, Holds
<1> QED
  BY <1>1, <1>2, <1>3, <1>4, <1>5, <1>6 DEF IInv

\* Xray dies: the keys being worked on are recorded.
LEMMA XrayExitStep ==
    ASSUME IInv, TypeOK', NEW s \in Servers, XrayExit(s)
    PROVE  IInv'
<1>t. TypeOK
  BY DEF IInv
<1>k. SlotsTyped
  BY <1>t, SlotTypes
<1>n. /\ xray'[s] = "down" /\ served'[s] = {}
      /\ \A x \in Servers : x # s => xray'[x] = xray[x] /\ served'[x] = served[x]
  BY <1>t DEF XrayExit, TypeOK
<1>m. /\ \A x \in Keys : taint[x] \subseteq taint'[x]
      /\ \A x \in Keys : Home[x] = s /\ Held(x) => "wiped" \in taint'[x]
  BY MarkFacts DEF XrayExit
<1>u. UNCHANGED <<users, rate, status, fresh, h, late, sync, todo>>
  BY DEF XrayExit, dbVars
<1>1. FreshUnused' /\ AddShape' /\ EnableShape' /\ LateHalf'
  BY <1>k, <1>n, <1>m, <1>u, HomeAssumption
     DEF FreshUnused, AddShape, EnableShape, LateHalf, IInv, Holds, Held,
         Holding, PCs, SlotsTyped
<1>2. OneHolder' /\ SyncOverlap'
  BY <1>m, <1>u DEF OneHolder, SyncOverlap, IInv, Holds, Held
<1>3. Added' /\ Removed'
  BY <1>k, <1>n, <1>m, <1>u, HomeAssumption
     DEF Added, Removed, IInv, Holds, Held, Holding, SlotsTyped
<1>4. DownServesNone'
  BY <1>n DEF DownServesNone, IInv
<1>5. EnabledServed'
  BY <1>n, <1>m, <1>u, HomeAssumption, ExcuseDef
     DEF EnabledServed, DelInProgress, IInv, Holds
<1>6. ServedEnabled'
  BY <1>n, <1>m, <1>u, HomeAssumption, ExcuseDef
     DEF ServedEnabled, AddInProgress, IInv, Holds
<1> QED
  BY <1>1, <1>2, <1>3, <1>4, <1>5, <1>6 DEF IInv

\* The start-up task fetches every row of its server.
LEMMA SyncFetchStep ==
    ASSUME IInv, TypeOK', NEW s \in Servers, SyncFetch(s)
    PROVE  IInv'
<1>t. TypeOK
  BY DEF IInv
<1>k. SlotsTyped
  BY <1>t, SlotTypes
<1>n. /\ \A x \in Servers : x # s => sync'[x] = sync[x] /\ todo'[x] = todo[x]
      /\ todo'[s] = Snapshot(s) /\ sync[s] = "wait"
      /\ \A x \in Keys : x \in Snapshot(s) <=> status[x] # "None" /\ Home[x] = s
  BY <1>t DEF SyncFetch, TypeOK, Snapshot
<1>m. /\ \A x \in Keys : taint[x] \subseteq taint'[x]
      /\ \A x \in Keys : x \in Snapshot(s) /\ Held(x) => "race" \in taint'[x]
  BY MarkFacts DEF SyncFetch
<1>u. UNCHANGED <<users, rate, status, fresh, h, late, xray, served>>
  BY DEF SyncFetch, dbVars
<1>1. FreshUnused' /\ AddShape' /\ EnableShape' /\ LateHalf'
  BY <1>k, <1>n, <1>m, <1>u, HomeAssumption
     DEF FreshUnused, AddShape, EnableShape, LateHalf, IInv, Holds, Held,
         Holding, PCs, SlotsTyped
<1>2. OneHolder' /\ SyncOverlap'
  BY <1>n, <1>m, <1>u, HomeAssumption
     DEF OneHolder, SyncOverlap, IInv, Holds, Held
<1>3. Added' /\ Removed'
  BY <1>k, <1>m, <1>u DEF Added, Removed, IInv, SlotsTyped
<1>4. DownServesNone'
  BY <1>u DEF DownServesNone, IInv
<1>5. EnabledServed'
  BY <1>n, <1>m, <1>u, HomeAssumption, ExcuseDef
     DEF EnabledServed, DelInProgress, IInv, Holds
<1>6. ServedEnabled'
  BY <1>m, <1>u, ExcuseDef DEF ServedEnabled, AddInProgress, IInv, Holds
<1> QED
  BY <1>1, <1>2, <1>3, <1>4, <1>5, <1>6 DEF IInv

\* The start-up task fails: every row of its server is recorded.
LEMMA SyncFailStep ==
    ASSUME IInv, TypeOK', NEW s \in Servers, SyncFail(s)
    PROVE  IInv'
<1>t. TypeOK
  BY DEF IInv
<1>k. SlotsTyped
  BY <1>t, SlotTypes
<1>n. \A x \in Servers : x # s => sync'[x] = sync[x]
  BY <1>t DEF SyncFail, TypeOK
<1>m. /\ \A x \in Keys : taint[x] \subseteq taint'[x]
      /\ \A x \in Keys : status[x] # "None" /\ Home[x] = s => "unsynced" \in taint'[x]
  BY MarkFacts DEF SyncFail
<1>u. UNCHANGED <<users, rate, status, fresh, h, late, xray, served, todo>>
  BY DEF SyncFail, dbVars
<1>1. FreshUnused' /\ AddShape' /\ EnableShape' /\ LateHalf'
  BY <1>k, <1>m, <1>u
     DEF FreshUnused, AddShape, EnableShape, LateHalf, IInv, Holds, Held,
         Holding, PCs, SlotsTyped
<1>2. OneHolder' /\ SyncOverlap'
  BY <1>m, <1>u DEF OneHolder, SyncOverlap, IInv, Holds, Held
<1>3. Added' /\ Removed'
  BY <1>k, <1>m, <1>u DEF Added, Removed, IInv, SlotsTyped
<1>4. DownServesNone'
  BY <1>u DEF DownServesNone, IInv
<1>5. EnabledServed'
  BY <1>n, <1>m, <1>u, HomeAssumption, ExcuseDef
     DEF EnabledServed, DelInProgress, IInv, Holds
<1>6. ServedEnabled'
  BY <1>m, <1>u, ExcuseDef DEF ServedEnabled, AddInProgress, IInv, Holds
<1> QED
  BY <1>1, <1>2, <1>3, <1>4, <1>5, <1>6 DEF IInv

\* One fetched key is pushed: Xray has it or the miss is recorded.
LEMMA SyncPushStep ==
    ASSUME IInv, TypeOK', NEW s \in Servers, NEW k \in Keys, SyncPush(s, k)
    PROVE  IInv'
<1>t. TypeOK
  BY DEF IInv
<1>k. SlotsTyped
  BY <1>t, SlotTypes
<1>n. /\ k \in todo[s] /\ Home[k] = s
      /\ \A x \in Keys : x \in todo'[Home[x]] <=> x \in todo[Home[x]] /\ x # k
      /\ \A x \in Servers : sync'[x] \in {"off", "wait"} <=> sync[x] \in {"off", "wait"}
  BY <1>t, HomeAssumption DEF SyncPush, TypeOK
<1>s. /\ \A x \in Keys : x # k =>
            (x \in served'[Home[x]] <=> x \in served[Home[x]])
      /\ k \in served[s] => k \in served'[s]
      /\ \A x \in Servers : xray[x] # "up" => served'[x] = served[x]
  BY <1>t, <1>n, HomeAssumption DEF SyncPush, TypeOK
<1>m. /\ \A x \in Keys : taint[x] \subseteq taint'[x]
      /\ k \in served'[s] \/ "unsynced" \in taint'[k]
      /\ k \in served'[s] => \/ k \in served[s]
                            \/ status[k] = "Enabled"
                            \/ "resync" \in taint'[k]
  BY <1>t, MarkFacts DEF SyncPush, TypeOK
<1>u. UNCHANGED <<users, rate, status, fresh, h, late, xray>>
  BY DEF SyncPush, dbVars
<1>1. FreshUnused' /\ AddShape' /\ EnableShape' /\ LateHalf'
  BY <1>k, <1>n, <1>s, <1>m, <1>u
     DEF FreshUnused, AddShape, EnableShape, LateHalf, IInv, Holds, Held,
         Holding, PCs, SlotsTyped
<1>2. OneHolder' /\ SyncOverlap'
  BY <1>n, <1>m, <1>u DEF OneHolder, SyncOverlap, IInv, Holds, Held
<1>3. Added' /\ Removed'
  BY <1>k, <1>n, <1>s, <1>m, <1>u
     DEF Added, Removed, SyncOverlap, IInv, Holds, Held, Holding, SlotsTyped
<1>4. DownServesNone'
  BY <1>s, <1>u DEF DownServesNone, IInv
<1>5. EnabledServed'
  BY <1>n, <1>s, <1>m, <1>u, HomeAssumption, ExcuseDef
     DEF EnabledServed, DelInProgress, IInv, Holds
<1>6. ServedEnabled'
  BY <1>n, <1>s, <1>m, <1>u, ExcuseDef
     DEF ServedEnabled, AddInProgress, IInv, Holds
<1> QED
  BY <1>1, <1>2, <1>3, <1>4, <1>5, <1>6 DEF IInv

-----------------------------------------------------------------------------
(* The theorems *)

\* Every step preserves the inductive invariant.
LEMMA AgreementStep == IInv /\ [Next]_vars => IInv'
<1> SUFFICES ASSUME IInv, [Next]_vars PROVE IInv'
  OBVIOUS
<1>t. TypeOK'
  BY TypeStep DEF IInv
<1>1. CASE UNCHANGED vars
  BY <1>1, <1>t DEF vars, IInv, FreshUnused, AddShape, EnableShape, OneHolder,
     SyncOverlap, LateHalf, Added, Removed, DownServesNone, EnabledServed,
     ServedEnabled, AddInProgress, DelInProgress, Excuse, Overstay, Held, Holds
<1>2. ASSUME NEW r \in Reqs, Request(r) PROVE IInv'
  BY <1>2, <1>t, StartAddStep, StartSwitchStep DEF Request
<1>3. ASSUME NEW r \in Reqs, Progress(r) PROVE IInv'
  BY <1>3, <1>t, LoadKeyStep, CheckCountStep, DawExecStep, FailCallStep,
     ReturnStep, SaveStep DEF Progress, NodeDown
<1>4. ASSUME NEW r \in Reqs, CallTrouble(r) PROVE IInv'
  BY <1>4, <1>t, FailCallStep, ReplyLostStep, CallOutlivedStep, SaveThrowsStep
     DEF CallTrouble, NetworkFails
<1>5. ASSUME NEW c \in late, LateExec(c) \/ LateLost(c) PROVE IInv'
  BY <1>5, <1>t, LateExecStep, LateLostStep
<1>6. CASE GatewayCrash
  BY <1>6, <1>t, GatewayCrashStep
<1>7. CASE Administration
  BY <1>7, <1>t, PatchRateStep, DelUserStep DEF Administration
<1>8. ASSUME NEW s \in Servers, DawStart(s) \/ StartUp(s) \/ NodeTrouble(s)
      PROVE  IInv'
  BY <1>8, <1>t, DawStartStep, XrayReadyStep, SyncFetchStep, SyncPushStep,
     DawStopStep, XrayExitStep, SyncFailStep DEF StartUp, NodeTrouble
<1> QED
  BY <1>1, <1>2, <1>3, <1>4, <1>5, <1>6, <1>7, <1>8 DEF Next

\* The inductive invariant holds in every reachable state.
THEOREM Agreement == Spec => []IInv
<1>1. Init => IInv
  <2> SUFFICES ASSUME Init PROVE IInv
    OBVIOUS
  <2>1. TypeOK
    BY MaxFaultsAssumption DEF Init, TypeOK, Statuses
  <2> QED
    BY <2>1, HomeAssumption
       DEF Init, IInv, FreshUnused, AddShape, EnableShape, OneHolder,
           SyncOverlap, LateHalf, Added, Removed, DownServesNone,
           EnabledServed, ServedEnabled, Held, Holds, Holding, PCs, Idle
<1> QED
  BY <1>1, AgreementStep, PTL DEF Spec

\* However many requests, nodes, failures and restarts there are, a key whose
\* row is Enabled is kept out of its node only for a recorded reason.
THEOREM EnabledKeysServed == Spec => []EnabledServed
<1>1. IInv => EnabledServed
  BY DEF IInv
<1> QED
  BY <1>1, Agreement, PTL

\* However many requests, nodes, failures and restarts there are, a node lets a
\* key in that is not Enabled only for a recorded reason.
THEOREM ServedKeysEnabled == Spec => []ServedEnabled
<1>1. IInv => ServedEnabled
  BY DEF IInv
<1> QED
  BY <1>1, Agreement, PTL

-----------------------------------------------------------------------------
(* The limit: how far concurrent AddKey requests can overshoot Rate.MaxKeys. *)
(* A row of the user exists or is owed by a handler that has passed the      *)
(* check; no step but the check itself adds to the two together.             *)

\* The rows of a user, and the rows that handlers past their check may insert.
Owed(u) == RowsOf(u) \cup AddsOf(u)

\* Every limit that an AddKey handler carries is that of some tariff.
CapShape ==
    \A r \in Reqs : h[r].pc = "count" /\ h[r].op = "Add" =>
        \E t \in Rates : h[r].cap = MaxKeys[t]

\* The strengthening of KeyCountBound that every step preserves.
OwedBound ==
    \A u \in Users : \E t \in Rates :
        Cardinality(Owed(u)) < MaxKeys[t] + Cardinality(Reqs)

-----------------------------------------------------------------------------
\* What a user is owed is a finite set of keys.
LEMMA OwedFinite ==
    ASSUME TypeOK, NEW u \in Users
    PROVE  /\ Owed(u) \subseteq Keys /\ IsFiniteSet(Owed(u))
           /\ IsFiniteSet(RowsOf(u)) /\ IsFiniteSet(AddsOf(u))
           /\ Cardinality(Owed(u)) \in Nat /\ Cardinality(RowsOf(u)) \in Nat
<1>1. AddsOf(u) \subseteq Keys /\ RowsOf(u) \subseteq Keys
  BY SlotTypes DEF AddsOf, RowsOf, SlotsTyped
<1> QED
  BY <1>1, SetsAssumption, FS_Subset, FS_CardinalityType DEF Owed

\* At most one key is owed per request slot, whatever the slots hold.
LEMMA ImageBound ==
    ASSUME NEW S \in SUBSET Reqs, NEW H
    PROVE  /\ IsFiniteSet({H[r].key : r \in S})
           /\ Cardinality({H[r].key : r \in S}) <= Cardinality(Reqs)
<1> DEFINE T == {H[r].key : r \in S}
           f == [r \in S |-> H[r].key]
<1>1. f \in Surjection(S, T)
  BY DEF Surjection
<1>2. IsFiniteSet(S) /\ Cardinality(S) <= Cardinality(Reqs)
  BY SetsAssumption, FS_Subset
<1>3. IsFiniteSet(T) /\ Cardinality(T) <= Cardinality(S)
  BY <1>1, <1>2, FS_Surjection
<1>4. /\ Cardinality(S) \in Nat /\ Cardinality(Reqs) \in Nat
      /\ Cardinality(T) \in Nat
  BY <1>2, <1>3, SetsAssumption, FS_CardinalityType
<1> QED
  BY <1>2, <1>3, <1>4

\* A user who is owed no more than before stays within the bound.
LEMMA Shrinks ==
    ASSUME TypeOK, OwedBound, NEW u \in Users, Owed(u)' \subseteq Owed(u)
    PROVE  \E t \in Rates : Cardinality(Owed(u)') < MaxKeys[t] + Cardinality(Reqs)
<1>1. PICK t \in Rates : Cardinality(Owed(u)) < MaxKeys[t] + Cardinality(Reqs)
  BY DEF OwedBound
<1>2. IsFiniteSet(Owed(u))
  BY OwedFinite
<1>3. /\ IsFiniteSet(Owed(u)')
      /\ Cardinality(Owed(u)') <= Cardinality(Owed(u))
  BY <1>2, FS_Subset
<1>4. /\ Cardinality(Owed(u)') \in Nat /\ Cardinality(Owed(u)) \in Nat
      /\ MaxKeys[t] + Cardinality(Reqs) \in Nat
  BY <1>2, <1>3, FS_CardinalityType, SetsAssumption, MaxKeysAssumption
<1> QED
  BY <1>1, <1>3, <1>4

\* Nobody is owed more by a step that sends no addition and inserts no row but
\* the one a handler owes.
LEMMA NothingNew ==
    ASSUME NEW u \in Users,
           \A r \in Reqs : /\ h'[r].pc \in {"sent", "ok", "save"}
                           /\ h'[r].op = "Add"
                           => /\ h[r].pc \in {"sent", "ok", "save"}
                              /\ h[r].op = "Add"
                              /\ h'[r].user = h[r].user /\ h'[r].key = h[r].key,
           \A k \in Keys : status'[k] # "None" =>
               \/ status[k] # "None"
               \/ \E r \in Reqs : /\ h[r].pc = "save" /\ h[r].op = "Add"
                                  /\ h[r].key = k /\ h[r].user = Owner[k]
    PROVE  Owed(u)' \subseteq Owed(u)
<1>1. \A x \in AddsOf(u)' : x \in AddsOf(u)
  BY DEF AddsOf
<1>2. \A x \in RowsOf(u)' : x \in RowsOf(u) \/ x \in AddsOf(u)
  BY DEF RowsOf, AddsOf
<1> QED
  BY <1>1, <1>2 DEF Owed

\* The check itself: below the limit of the tariff, one row per slot may follow.
LEMMA CheckOwed ==
    ASSUME IInv, CapShape, OwedBound, NEW r \in Reqs, CheckCount(r),
           NEW u \in Users
    PROVE  \E t \in Rates : Cardinality(Owed(u)') < MaxKeys[t] + Cardinality(Reqs)
<1>t. TypeOK /\ SlotsTyped
  BY SlotTypes DEF IInv
<1>s. UNCHANGED status /\ h[r].pc = "count" /\ "sent" \in PCs
  BY DEF CheckCount, dbVars, PCs
<1>1. CASE h' = [h EXCEPT ![r] = Idle]
  <2>1. Owed(u)' \subseteq Owed(u)
    BY <1>t, <1>s, <1>1, EndFacts, NothingNew
  <2> QED
    BY <1>t, <2>1, Shrinks
<1>2. CASE h' = [h EXCEPT ![r].pc = "sent"] /\ (h[r].op # "Add" \/ h[r].user # u)
  <2>h. /\ \A q \in Reqs : q # r => h'[q] = h[q]
        /\ h'[r].op = h[r].op /\ h'[r].user = h[r].user
    BY <1>t, <1>s, <1>2, MoveFacts
  <2>1. AddsOf(u)' \subseteq AddsOf(u) /\ RowsOf(u)' = RowsOf(u)
    BY <1>s, <1>2, <2>h DEF AddsOf, RowsOf
  <2>2. Owed(u)' \subseteq Owed(u)
    BY <2>1 DEF Owed
  <2> QED
    BY <1>t, <2>2, Shrinks
<1>3. CASE /\ ~AtLimit(CountKeys(h[r].op, h[r].user), h[r].cap)
           /\ h[r].op = "Add" /\ h[r].user = u
  <2>1. PICK t \in Rates : h[r].cap = MaxKeys[t]
    BY <1>s, <1>3 DEF CapShape
  <2>2. /\ IsFiniteSet(RowsOf(u)) /\ Cardinality(RowsOf(u)) \in Nat
        /\ MaxKeys[t] \in Nat
    BY <1>t, OwedFinite, MaxKeysAssumption
  <2>3. Cardinality(RowsOf(u)) < MaxKeys[t]
    BY <1>3, <2>1, <2>2 DEF AtLimit, CountKeys
  <2> DEFINE S == {q \in Reqs : /\ h'[q].pc \in {"sent", "ok", "save"}
                                /\ h'[q].op = "Add" /\ h'[q].user = u}
             A == {h'[q].key : q \in S}
  <2>4. Owed(u)' = RowsOf(u) \cup A
    BY <1>s DEF Owed, AddsOf, RowsOf
  <2>5. IsFiniteSet(A) /\ Cardinality(A) <= Cardinality(Reqs)
    BY ImageBound
  <2> HIDE DEF A
  <2>6. /\ Cardinality(Owed(u)') = Cardinality(RowsOf(u)) + Cardinality(A)
                                      - Cardinality(RowsOf(u) \cap A)
        /\ IsFiniteSet(Owed(u)')
    BY <2>2, <2>4, <2>5, FS_Union
  <2>7. IsFiniteSet(RowsOf(u) \cap A)
    BY <2>2, FS_Intersection
  <2>8. /\ Cardinality(RowsOf(u) \cap A) \in Nat /\ Cardinality(A) \in Nat
        /\ Cardinality(Reqs) \in Nat /\ Cardinality(Owed(u)') \in Nat
    BY <2>5, <2>6, <2>7, SetsAssumption, FS_CardinalityType
  <2> QED
    BY <2>2, <2>3, <2>5, <2>6, <2>8
<1> QED
  BY <1>1, <1>2, <1>3 DEF CheckCount

\* No other step owes anybody anything new.
LEMMA OtherOwed ==
    ASSUME IInv, [Next]_vars, NEW u \in Users,
           \A r \in Reqs : ~CheckCount(r)
    PROVE  Owed(u)' \subseteq Owed(u)
<1>t. TypeOK /\ SlotsTyped
  BY SlotTypes DEF IInv
<1> DEFINE Past(g, r) == g[r].pc \in {"sent", "ok", "save"} /\ g[r].op = "Add"
           Kept == \A r \in Reqs : Past(h', r) =>
                     /\ Past(h, r)
                     /\ h'[r].user = h[r].user /\ h'[r].key = h[r].key
           NoRow == \A k \in Keys : status'[k] # "None" => status[k] # "None"
<1>q. ASSUME Kept, NoRow PROVE Owed(u)' \subseteq Owed(u)
  BY <1>q, NothingNew
<1>0. CASE UNCHANGED <<h, status>>
  BY <1>0, <1>q
<1>1. ASSUME NEW r \in Reqs, Request(r) PROVE Owed(u)' \subseteq Owed(u)
  <2>1. Kept
    BY <1>1, <1>t DEF Request, StartAdd, StartSwitch, TypeOK
  <2>2. NoRow
    BY <1>1 DEF Request, StartAdd, StartSwitch, dbVars
  <2> QED
    BY <2>1, <2>2, <1>q
<1>2. ASSUME NEW r \in Reqs, LoadKey(r) PROVE Owed(u)' \subseteq Owed(u)
  <2>1. h[r].pc = "user" /\ h[r].op # "Add"
    BY <1>2 DEF LoadKey, IInv, AddShape
  <2> DEFINE p == IF h[r].op = "Enable" THEN "count" ELSE "sent"
  <2>2. p \in PCs
    BY DEF PCs
  <2>3. \/ h' = [h EXCEPT ![r] = Idle]
        \/ h' = [h EXCEPT ![r].pc = p]
    BY <1>2 DEF LoadKey
  <2> HIDE DEF p
  <2>4. Kept
    BY <1>t, <2>1, <2>2, <2>3, MoveFacts, EndFacts
  <2>5. NoRow
    BY <1>2 DEF LoadKey, dbVars
  <2> QED
    BY <2>4, <2>5, <1>q
<1>3. ASSUME NEW r \in Reqs, h[r].pc = "sent", NEW p \in {"ok", "err"},
             h' = [h EXCEPT ![r].pc = p], UNCHANGED status
      PROVE  Owed(u)' \subseteq Owed(u)
  <2>1. Kept
    BY <1>t, <1>3, MoveFacts DEF PCs
  <2> QED
    BY <1>3, <2>1, <1>q
<1>4. ASSUME NEW r \in Reqs, Return(r) PROVE Owed(u)' \subseteq Owed(u)
  <2>1. h[r].pc \in {"ok", "err"} /\ "save" \in PCs /\ UNCHANGED status
    BY <1>4 DEF Return, PCs, dbVars
  <2>2. CASE GivesUp(h[r].op, h[r].pc)
    <3>1. h' = [h EXCEPT ![r] = Idle]
      BY <1>4, <2>2 DEF Return
    <3> QED
      BY <1>t, <1>q, <2>1, <3>1, EndFacts
  <2>3. CASE ~GivesUp(h[r].op, h[r].pc)
    <3>1. h' = [h EXCEPT ![r].pc = "save"]
      BY <1>4, <2>3 DEF Return
    <3>2. h[r].op = "Add" => h[r].pc = "ok"
      BY <2>1, <2>3 DEF GivesUp, Adding
    <3> QED
      BY <1>t, <1>q, <2>1, <3>1, <3>2, MoveFacts
  <2> QED
    BY <2>2, <2>3
<1>5. ASSUME NEW r \in Reqs, Save(r) PROVE Owed(u)' \subseteq Owed(u)
  <2>1. h[r].pc = "save" /\ h[r].key \in Keys
    BY <1>5, <1>t DEF Save, SlotsTyped
  <2>2. /\ \A q \in Reqs : q # r => h'[q] = h[q]
        /\ h'[r].pc = "idle"
    BY <1>5, <1>t, EndFacts DEF Save
  <2>3. h[r].op = "Add" => h[r].user = Owner[h[r].key]
    BY <2>1 DEF IInv, AddShape
  <2>4. \A k \in Keys : status'[k] # "None" =>
          \/ status[k] # "None"
          \/ h[r].op = "Add" /\ h[r].key = k
    BY <1>5, <1>t, <2>1 DEF Save, Saveable, TypeOK
  <2> QED
    BY <2>1, <2>2, <2>3, <2>4, NothingNew
<1>6. ASSUME NEW r \in Reqs, h' = [h EXCEPT ![r] = Idle], UNCHANGED status
      PROVE  Owed(u)' \subseteq Owed(u)
  BY <1>6, <1>t, <1>q, EndFacts
<1>7. CASE GatewayCrash
  BY <1>7, <1>q DEF GatewayCrash, dbVars, Idle
<1>8. CASE Administration
  BY <1>8, <1>q DEF Administration, PatchRate, DelUser
<1>9. ASSUME NEW r \in Reqs, Progress(r) PROVE Owed(u)' \subseteq Owed(u)
  BY <1>9, <1>2, <1>3, <1>4, <1>5
     DEF Progress, DawExec, NodeDown, FailCall, dbVars
<1>10. ASSUME NEW r \in Reqs, CallTrouble(r) PROVE Owed(u)' \subseteq Owed(u)
  BY <1>10, <1>3, <1>6
     DEF CallTrouble, NetworkFails, FailCall, ReplyLost, CallOutlived,
         SaveThrows, dbVars
<1>11. ASSUME NEW c \in late, LateExec(c) \/ LateLost(c)
       PROVE  Owed(u)' \subseteq Owed(u)
  BY <1>11, <1>0 DEF LateExec, LateLost, dbVars
<1>12. ASSUME NEW s \in Servers, DawStart(s) \/ StartUp(s) \/ NodeTrouble(s)
       PROVE  Owed(u)' \subseteq Owed(u)
  BY <1>12, <1>0 DEF DawStart, StartUp, NodeTrouble, XrayReady, SyncFetch,
     SyncPush, DawStop, XrayExit, SyncFail, dbVars
<1> QED
  BY <1>0, <1>1, <1>7, <1>8, <1>9, <1>10, <1>11, <1>12 DEF Next, vars

\* Handlers only begin to count with the limit of their user's tariff.
LEMMA CapStep == IInv /\ CapShape /\ [Next]_vars => CapShape'
<1> SUFFICES ASSUME IInv, CapShape, [Next]_vars PROVE CapShape'
  OBVIOUS
<1>t. TypeOK
  BY DEF IInv
<1>q. ASSUME \A r \in Reqs : h'[r].pc = "count" => h'[r] = h[r] PROVE CapShape'
  BY <1>q DEF CapShape
<1>0. CASE UNCHANGED h
  BY <1>0, <1>q
<1>1. ASSUME NEW r \in Reqs, NEW k \in Keys, StartAdd(r, k) PROVE CapShape'
  <2>1. rate[Owner[k]] \in Rates
    BY <1>t, OwnerAssumption DEF TypeOK
  <2> QED
    BY <1>1, <1>t, <2>1 DEF StartAdd, CapShape, TypeOK
<1>2. ASSUME NEW r \in Reqs, NEW u \in Users, NEW op \in Ops, NEW k \in Keys,
             StartSwitch(r, u, op, k)
      PROVE  CapShape'
  BY <1>2, <1>t, <1>q DEF StartSwitch, TypeOK
<1>3. ASSUME NEW r \in Reqs, LoadKey(r) PROVE CapShape'
  <2>1. h[r].pc = "user" /\ h[r].op # "Add"
    BY <1>3 DEF LoadKey, IInv, AddShape
  <2> DEFINE p == IF h[r].op = "Enable" THEN "count" ELSE "sent"
  <2>2. p \in PCs
    BY DEF PCs
  <2>3. \/ h' = [h EXCEPT ![r] = Idle]
        \/ h' = [h EXCEPT ![r].pc = p]
    BY <1>3 DEF LoadKey
  <2> HIDE DEF p
  <2>4. /\ \A q \in Reqs : q # r => h'[q] = h[q]
        /\ h'[r].pc = "idle" \/ h'[r].op = h[r].op
    BY <1>t, <2>1, <2>2, <2>3, MoveFacts, EndFacts
  <2> QED
    BY <2>1, <2>4 DEF CapShape
<1>4. ASSUME NEW r \in Reqs, h[r].pc # "idle", NEW p \in PCs \ {"count"},
             h' = [h EXCEPT ![r].pc = p]
      PROVE  CapShape'
  BY <1>4, <1>t, <1>q, MoveFacts
<1>5. ASSUME NEW r \in Reqs, h' = [h EXCEPT ![r] = Idle] PROVE CapShape'
  BY <1>5, <1>t, <1>q, EndFacts
<1>6. ASSUME NEW r \in Reqs, Return(r) PROVE CapShape'
  <2>1. h[r].pc # "idle" /\ "save" \in PCs \ {"count"}
    BY <1>6 DEF Return, PCs
  <2>2. \/ h' = [h EXCEPT ![r] = Idle]
        \/ h' = [h EXCEPT ![r].pc = "save"]
    BY <1>6 DEF Return
  <2> QED
    BY <1>4, <1>5, <2>1, <2>2
<1>7. ASSUME NEW r \in Reqs, Progress(r) PROVE CapShape'
  BY <1>3, <1>4, <1>5, <1>6, <1>7
     DEF Progress, CheckCount, DawExec, NodeDown, FailCall, Save, PCs
<1>8. ASSUME NEW r \in Reqs, CallTrouble(r) PROVE CapShape'
  BY <1>4, <1>5, <1>8
     DEF CallTrouble, NetworkFails, FailCall, ReplyLost, CallOutlived,
         SaveThrows, PCs
<1>9. CASE GatewayCrash
  BY <1>9, <1>q DEF GatewayCrash, Idle
<1>10. ASSUME NEW c \in late, LateExec(c) \/ LateLost(c) PROVE CapShape'
  BY <1>10, <1>0 DEF LateExec, LateLost
<1>11. CASE Administration
  BY <1>11, <1>0 DEF Administration, PatchRate, DelUser
<1>12. ASSUME NEW s \in Servers, DawStart(s) \/ StartUp(s) \/ NodeTrouble(s)
       PROVE  CapShape'
  BY <1>12, <1>0 DEF DawStart, StartUp, NodeTrouble, XrayReady, SyncFetch,
     SyncPush, DawStop, XrayExit, SyncFail
<1> QED
  BY <1>0, <1>1, <1>2, <1>7, <1>8, <1>9, <1>10, <1>11, <1>12
     DEF Next, Request, vars

\* Whatever the number of users, keys and tariffs: a user never has as many rows
\* as the highest limit and the number of concurrent requests together; with
\* one request at a time the limit itself is never exceeded.
THEOREM KeyLimit == Spec => []KeyCountBound
<1>1. Init => CapShape /\ OwedBound
  <2> SUFFICES ASSUME Init PROVE CapShape /\ OwedBound
    OBVIOUS
  <2>1. CapShape
    BY DEF Init, CapShape, Idle
  <2>2. ASSUME NEW u \in Users PROVE Owed(u) = {}
    BY <2>2 DEF Init, Owed, RowsOf, AddsOf, Idle
  <2>3. Cardinality(Reqs) \in Nat /\ Cardinality(Reqs) # 0
    BY SetsAssumption, FS_CardinalityType, FS_EmptySet
  <2>4. PICK t \in Rates : MaxKeys[t] \in Nat
    BY SetsAssumption, MaxKeysAssumption
  <2>5. OwedBound
    BY <2>2, <2>3, <2>4, FS_EmptySet DEF OwedBound
  <2> QED
    BY <2>1, <2>5
<1>2. IInv /\ CapShape /\ OwedBound /\ [Next]_vars => OwedBound'
  <2> SUFFICES ASSUME IInv, CapShape, OwedBound, [Next]_vars, NEW u \in Users
               PROVE  \E t \in Rates :
                        Cardinality(Owed(u)') < MaxKeys[t] + Cardinality(Reqs)
    BY DEF OwedBound
  <2>1. CASE \E r \in Reqs : CheckCount(r)
    BY <2>1, CheckOwed
  <2>2. CASE \A r \in Reqs : ~CheckCount(r)
    <3>1. Owed(u)' \subseteq Owed(u)
      BY <2>2, OtherOwed
    <3> QED
      BY <3>1, Shrinks DEF IInv
  <2> QED
    BY <2>1, <2>2
<1>3. IInv /\ OwedBound => KeyCountBound
  <2> SUFFICES ASSUME IInv, OwedBound, NEW u \in Users
               PROVE  \E t \in Rates :
                        Cardinality(RowsOf(u)) < MaxKeys[t] + Cardinality(Reqs)
    BY DEF KeyCountBound
  <2>1. PICK t \in Rates : Cardinality(Owed(u)) < MaxKeys[t] + Cardinality(Reqs)
    BY DEF OwedBound
  <2>2. /\ IsFiniteSet(Owed(u)) /\ Cardinality(Owed(u)) \in Nat
        /\ Cardinality(RowsOf(u)) \in Nat
    BY OwedFinite DEF IInv
  <2>3. Cardinality(RowsOf(u)) <= Cardinality(Owed(u))
    BY <2>2, FS_Subset DEF Owed
  <2>4. MaxKeys[t] + Cardinality(Reqs) \in Nat
    BY SetsAssumption, MaxKeysAssumption, FS_CardinalityType
  <2> QED
    BY <2>1, <2>2, <2>3, <2>4
<1> QED
  BY <1>1, <1>2, <1>3, CapStep, Agreement, PTL DEF Spec

=============================================================================
