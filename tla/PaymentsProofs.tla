--------------------------- MODULE PaymentsProofs ---------------------------
(***************************************************************************)
(* What is proved about the daily check of payments: who paid in time keeps *)
(* the tariff to the end of the period, hears of the end in a mail, loses   *)
(* the tariff in time, and is left with no more keys than the base tariff   *)
(* allows, for any users, keys, tariffs and length of a day.                *)
(***************************************************************************)
EXTENDS Tariffs, FiniteSetTheorems, TLAPS

CheckPcs == {"idle", "system", "soon", "expired", "save", "mails", "notify"}
CheckRecord == [pc : CheckPcs, time : 0 .. MaxTime, sender : BOOLEAN,
                soon : SUBSET Payers, expired : SUBSET Payers,
                rate : [Payers -> {Base, Paid}], revoke : SUBSET PaidKeys]

\* The clock stands still during a check, a Gateway that is down runs none,
\* and without tariffs nobody has bought anything.
CheckPlaced ==
    /\ c \in CheckRecord
    /\ Daily!Checking => c.time = now
    /\ ~up => ~Daily!Checking
    /\ ~rateRows => owed = {}
    /\ c.pc = "save" => c.soon # {}

\* The check has read the expired users and has not written them yet.
Pending == c.pc = "save" \/ (c.pc = "mails" /\ c.soon = {})

\* A period that is owed ends after now and after the next check; once the
\* check has read it, also after the check that follows, or it is taken away
\* in this one.
PeriodsAhead ==
    \A u \in owed : payedUntil[u] # None =>
        /\ payedUntil[u] > now
        /\ planned # None => payedUntil[u] > planned
        /\ c.pc = "notify" => payedUntil[u] > now + Day
        /\ c.pc \in {"save", "mails"} /\ u \notin c.expired
              => payedUntil[u] > now + Day
        /\ c.pc \in {"save", "mails"} /\ u \in c.expired
              => Pending /\ u \in warned

\* A period without a mail goes on for a day after the next check: that check
\* writes the mail.
MailsInTime ==
    \A u \in owed \ warned : payedUntil[u] # None =>
        /\ payedUntil[u] > now + Day
        /\ planned # None => payedUntil[u] > planned + Day
        /\ c.pc \in {"expired", "save", "mails"}
              => u \in c.soon \/ payedUntil[u] > now + 3 * Day
        /\ c.pc = "notify" => payedUntil[u] > now + 3 * Day

\* What the check will revoke leaves the users it read, and nobody touched,
\* no more keys than the base tariff allows.
Trimmed ==
    Pending => \A u \in c.expired \ touched :
                  Cardinality(Daily!EnabledOf(u) \ c.revoke) <= Limits[Base]

PaymentsInv ==
    Daily!TypeOK /\ CheckPlaced /\ PeriodsAhead /\ MailsInTime /\ Trimmed

-----------------------------------------------------------------------------
\* The instance counts as FiniteSets does.
LEMMA CountedSame ==
  /\ \A S : Daily!Cardinality(S) = Cardinality(S)
  /\ \A S : Daily!IsFiniteSet(S) <=> IsFiniteSet(S)
<1>1. \A S : Daily!Cardinality(S) = Cardinality(S)
  BY DEF Daily!Cardinality, Cardinality
<1>2. \A S : Daily!IsFiniteSet(S) <=> IsFiniteSet(S)
  BY DEF Daily!IsFiniteSet, IsFiniteSet
<1> QED BY <1>1, <1>2

\* The constants, and the types in the form the steps use them.
LEMMA PayTyped ==
  ASSUME Daily!PaymentsAssumption, PaymentsInv
  PROVE  /\ Day \in Nat /\ Day > 0 /\ MaxTime \in Nat
         /\ Limits[Base] \in Nat /\ IsFiniteSet(PaidKeys) /\ None \notin Nat
         /\ now \in 0 .. MaxTime /\ rateRows \in BOOLEAN /\ system \in BOOLEAN
         /\ reserve \in BOOLEAN /\ up \in BOOLEAN
         /\ plan \in [Payers -> {Base, Paid}]
         /\ payedUntil \in [Payers -> (1 .. MaxTime + 5 * Day) \cup {None}]
         /\ keyStatus \in [PaidKeys -> {"Disabled", "Enabled", "Revoked"}]
         /\ planned \in (0 .. now + Day) \cup {None}
         /\ c \in CheckRecord
         /\ owed \subseteq Payers /\ warned \subseteq Payers
         /\ touched \subseteq Payers
  BY CountedSame
     DEF Daily!PaymentsAssumption, PaymentsInv, Daily!TypeOK, CheckPlaced

\* A check that does not run pends no write.
LEMMA IdleFacts ==
  ASSUME Daily!PaymentsAssumption
  PROVE  /\ now \in 0 .. MaxTime => Daily!Idle \in CheckRecord
         /\ Daily!Idle.pc = "idle" /\ Daily!Idle.soon = {}
         /\ Daily!Idle.expired = {}
  BY DEF Daily!PaymentsAssumption, Daily!Idle, CheckRecord, CheckPcs

\* The user who bought a period outside a check has more than two days.
LEMMA PatchUserKeeps ==
  ASSUME Daily!PaymentsAssumption, PaymentsInv, NEW u \in Payers, Daily!PatchUser(u)
  PROVE  PaymentsInv'
<1>0. /\ UNCHANGED <<now, rateRows, system, keyStatus, planned, reserve, up, c,
                     touched>>
      /\ rateRows /\ warned' = warned \ {u}
      /\ plan' = [plan EXCEPT ![u] = Paid]
  BY DEF Daily!PatchUser
<1>1. PICK end \in Daily!Ends :
        /\ payedUntil' = [payedUntil EXCEPT ![u] = end]
        /\ owed' = IF ~Daily!Checking /\ end > now + 2 * Day /\ planned # None
                   THEN owed \cup {u} ELSE owed \ {u}
  BY DEF Daily!PatchUser
<1>2. /\ end \in 1 .. MaxTime + 5 * Day /\ end # None
      /\ \A v \in Payers \ {u} : payedUntil'[v] = payedUntil[v]
      /\ payedUntil'[u] = end
  BY <1>1, PayTyped DEF Daily!Ends
<1>3. \A v \in owed' : v # u => v \in owed
  BY <1>1
<1>4. u \in owed' => /\ ~Daily!Checking /\ end > now + 2 * Day
                     /\ planned \in 0 .. now + Day
  BY <1>1, PayTyped
<1>5. Daily!TypeOK'
  BY <1>0, <1>1, <1>2, PayTyped
     DEF PaymentsInv, Daily!TypeOK, Daily!Checking
<1>6. CheckPlaced'
  BY <1>0 DEF PaymentsInv, CheckPlaced, Daily!Checking
<1>7. PeriodsAhead'
  <2>1. ASSUME NEW v \in owed', payedUntil'[v] # None
        PROVE  /\ payedUntil'[v] > now
               /\ planned # None => payedUntil'[v] > planned
               /\ c.pc = "notify" => payedUntil'[v] > now + Day
               /\ c.pc \in {"save", "mails"} /\ v \notin c.expired
                     => payedUntil'[v] > now + Day
               /\ c.pc \in {"save", "mails"} /\ v \in c.expired
                     => Pending /\ v \in warned'
    <3>1. CASE v = u
      BY <3>1, <1>2, <1>4, PayTyped DEF Daily!Checking
    <3>2. CASE v # u
      BY <3>2, <2>1, <1>0, <1>2, <1>3, PayTyped DEF PaymentsInv, PeriodsAhead
    <3> QED BY <3>1, <3>2
  <2> QED BY <2>1, <1>0 DEF PeriodsAhead, Pending
<1>8. MailsInTime'
  <2>1. ASSUME NEW v \in owed', v \notin warned', payedUntil'[v] # None
        PROVE  /\ payedUntil'[v] > now + Day
               /\ planned # None => payedUntil'[v] > planned + Day
               /\ c.pc \in {"expired", "save", "mails"}
                     => v \in c.soon \/ payedUntil'[v] > now + 3 * Day
               /\ c.pc = "notify" => payedUntil'[v] > now + 3 * Day
    <3>1. CASE v = u
      BY <3>1, <1>2, <1>4, PayTyped DEF Daily!Checking
    <3>2. CASE v # u
      BY <3>2, <2>1, <1>0, <1>2, <1>3, PayTyped DEF PaymentsInv, MailsInTime
    <3> QED BY <3>1, <3>2
  <2> QED BY <2>1, <1>0 DEF MailsInTime
<1>9. Trimmed'
  BY <1>0 DEF PaymentsInv, Trimmed, Pending, Daily!EnabledOf
<1> QED BY <1>5, <1>6, <1>7, <1>8, <1>9 DEF PaymentsInv

\* A key is switched: its owner is touched if a check has read it.
LEMMA SwitchKeyKeeps ==
  ASSUME Daily!PaymentsAssumption, PaymentsInv, NEW k \in PaidKeys,
              Daily!SwitchKey(k)
  PROVE  PaymentsInv'
<1>0. /\ UNCHANGED <<now, rateRows, system, plan, payedUntil, planned, reserve,
                     up, c, warned, owed>>
      /\ touched' = IF KeyOwner[k] \in c.expired THEN touched \cup {KeyOwner[k]}
                                              ELSE touched
      /\ \E x \in {"Disabled", "Enabled"} : keyStatus' = [keyStatus EXCEPT ![k] = x]
  BY DEF Daily!SwitchKey
<1>1. KeyOwner[k] \in Payers
  BY DEF Daily!PaymentsAssumption
<1>2. Daily!TypeOK'
  BY <1>0, <1>1, PayTyped DEF PaymentsInv, Daily!TypeOK, Daily!Checking
<1>3. CheckPlaced' /\ PeriodsAhead' /\ MailsInTime'
  BY <1>0
     DEF PaymentsInv, CheckPlaced, Daily!Checking, PeriodsAhead, Pending,
         MailsInTime
<1>4. Trimmed'
  <2>1. ASSUME NEW v \in c.expired, v \notin touched'
        PROVE  Daily!EnabledOf(v)' = Daily!EnabledOf(v) /\ v \notin touched
    <3>1. v # KeyOwner[k] /\ v \notin touched
      BY <1>0, <2>1
    <3>2. \A o \in PaidKeys : o # k => keyStatus'[o] = keyStatus[o]
      BY <1>0, PayTyped
    <3> QED BY <3>1, <3>2 DEF Daily!EnabledOf
  <2> QED BY <2>1, <1>0 DEF PaymentsInv, Trimmed, Pending
<1> QED BY <1>2, <1>3, <1>4 DEF PaymentsInv

\* Time passes only up to the next check.
LEMMA TickKeeps ==
  ASSUME Daily!PaymentsAssumption, PaymentsInv, Daily!Tick
  PROVE  PaymentsInv'
<1>0. /\ now < MaxTime /\ now' = now + 1 /\ ~Daily!Checking /\ ~Daily!Due
      /\ UNCHANGED <<Daily!dbVars, planned, reserve, up, c, warned, touched>>
      /\ owed' = IF Daily!Served THEN owed ELSE {}
  BY DEF Daily!Tick
<1>1. owed' # {} => /\ owed' = owed
                    /\ planned \in 0 .. now + Day /\ planned > now
                    /\ planned # None
  BY <1>0, PayTyped DEF Daily!Served, Daily!Due
<1>2. Daily!TypeOK'
  BY <1>0, PayTyped DEF PaymentsInv, Daily!TypeOK, Daily!Checking, Daily!dbVars
<1>3. CheckPlaced'
  BY <1>0 DEF PaymentsInv, CheckPlaced, Daily!Checking, Daily!dbVars
<1>4. PeriodsAhead'
  <2>1. ASSUME NEW v \in owed', payedUntil[v] # None
        PROVE  payedUntil[v] > now + 1 /\ payedUntil[v] > planned
    BY <2>1, <1>1, PayTyped DEF PaymentsInv, PeriodsAhead
  <2> QED BY <2>1, <1>0 DEF PeriodsAhead, Daily!Checking, Daily!dbVars
<1>5. MailsInTime'
  <2>1. ASSUME NEW v \in owed' \ warned, payedUntil[v] # None
        PROVE  /\ payedUntil[v] > now + 1 + Day
               /\ payedUntil[v] > planned + Day
    BY <2>1, <1>1, PayTyped DEF PaymentsInv, MailsInTime
  <2> QED BY <2>1, <1>0 DEF MailsInTime, Daily!Checking, Daily!dbVars
<1>6. Trimmed'
  BY <1>0 DEF Trimmed, Pending, Daily!Checking, Daily!dbVars
<1> QED BY <1>2, <1>3, <1>4, <1>5, <1>6 DEF PaymentsInv

\* A stop ends the check where it is; a start plans the next one at once.
LEMMA StopStartKeep ==
  ASSUME Daily!PaymentsAssumption, PaymentsInv, Daily!Stop \/ Daily!Start
  PROVE  PaymentsInv'
<1>0. /\ UNCHANGED <<now, Daily!dbVars, Daily!history>> /\ up' \in BOOLEAN
      /\ reserve' \in BOOLEAN
      /\ \/ up' = FALSE /\ planned' = None /\ c' = Daily!Idle
         \/ ~up /\ up' /\ planned' = 0 /\ c' = c
  BY DEF Daily!Stop, Daily!Start
<1>1. ~up => ~Daily!Checking
  BY DEF PaymentsInv, CheckPlaced
<1>2. c' \in CheckRecord /\ c'.pc = "idle"
  BY <1>0, <1>1, IdleFacts, PayTyped DEF Daily!Checking
<1>3. Daily!TypeOK'
  BY <1>0, <1>1, <1>2, IdleFacts, PayTyped
     DEF PaymentsInv, Daily!TypeOK, Daily!Checking, Daily!dbVars, Daily!history
<1>4. CheckPlaced'
  BY <1>0, <1>1, <1>2
     DEF PaymentsInv, CheckPlaced, Daily!Checking, Daily!dbVars, Daily!history
<1>5. \A v \in owed : payedUntil[v] \in Nat \/ payedUntil[v] = None
  BY PayTyped
<1>6. PeriodsAhead'
  BY <1>0, <1>2, <1>5, PayTyped
     DEF PaymentsInv, PeriodsAhead, Daily!dbVars, Daily!history
<1>7. MailsInTime'
  BY <1>0, <1>2, <1>5, PayTyped
     DEF PaymentsInv, MailsInTime, Daily!dbVars, Daily!history
<1>8. Trimmed'
  BY <1>2 DEF Trimmed, Pending
<1> QED BY <1>3, <1>4, <1>6, <1>7, <1>8 DEF PaymentsInv

\* Rows of the reserved user and of the tariffs.
LEMMA RowsKeep ==
  ASSUME Daily!PaymentsAssumption, PaymentsInv,
         Daily!CheckForReservedConstants \/ Daily!SeedRates
  PROVE  PaymentsInv'
<1>a. rateRows \in BOOLEAN /\ system \in BOOLEAN /\ reserve \in BOOLEAN
  BY PayTyped
<1>0. /\ UNCHANGED <<now, plan, payedUntil, keyStatus, planned, up, c,
            Daily!history>>
      /\ rateRows' \in BOOLEAN /\ system' \in BOOLEAN /\ reserve' \in BOOLEAN
      /\ rateRows => rateRows'
  <2>1. CASE Daily!CheckForReservedConstants
    <3>1. (system \/ rateRows) \in BOOLEAN
      OBVIOUS
    <3> QED BY <2>1, <3>1, <1>a DEF Daily!CheckForReservedConstants
  <2>2. CASE Daily!SeedRates
    BY <2>2, <1>a DEF Daily!SeedRates
  <2> QED BY <2>1, <2>2
<1>1. Daily!TypeOK'
  BY <1>0 DEF PaymentsInv, Daily!TypeOK, Daily!Checking, Daily!history
<1>2. CheckPlaced' /\ PeriodsAhead' /\ MailsInTime'
  BY <1>0
     DEF PaymentsInv, CheckPlaced, Daily!Checking, PeriodsAhead, Pending,
         MailsInTime, Daily!history
<1>3. Trimmed'
  BY <1>0 DEF PaymentsInv, Trimmed, Pending, Daily!EnabledOf, Daily!history
<1> QED BY <1>1, <1>2, <1>3 DEF PaymentsInv

-----------------------------------------------------------------------------
(* The check *)

\* An exception ends the check; nothing is owed without a next one.
LEMMA ThrowKeeps ==
  ASSUME Daily!PaymentsAssumption, PaymentsInv, Daily!Throw
  PROVE  PaymentsInv'
<1>0. /\ c' = Daily!Idle /\ owed' = {}
      /\ UNCHANGED <<now, Daily!dbVars, planned, reserve, up, warned, touched>>
  BY DEF Daily!Throw
<1>1. c' \in CheckRecord /\ c'.pc = "idle" /\ c'.soon = {} /\ c'.expired = {}
  BY <1>0, IdleFacts, PayTyped
<1>2. Daily!TypeOK'
  BY <1>0, <1>1, PayTyped
     DEF Daily!TypeOK, PaymentsInv, Daily!Checking, Daily!dbVars
<1>3. CheckPlaced' /\ PeriodsAhead' /\ MailsInTime' /\ Trimmed'
  BY <1>0, <1>1
     DEF CheckPlaced, Daily!Checking, PeriodsAhead, MailsInTime, Trimmed, Pending
<1> QED BY <1>2, <1>3 DEF PaymentsInv

\* The check ends and plans the next one a day after it began, when it has
\* written what it read.
LEMMA ReplanKeeps ==
  ASSUME Daily!PaymentsAssumption, PaymentsInv,
         Daily!Replan(now), c' \in CheckRecord, c'.pc = "idle", c'.soon = {},
         c'.expired = {}, up,
         UNCHANGED <<now, Daily!dbVars, reserve, up, Daily!history>>,
         \A u \in owed : payedUntil[u] # None => payedUntil[u] > now + Day,
         \A u \in owed \ warned : payedUntil[u] # None =>
                                     payedUntil[u] > now + 2 * Day
  PROVE  PaymentsInv'
<1>0. planned' = now + Day
  BY DEF Daily!Replan
<1>1. Daily!TypeOK'
  BY <1>0, PayTyped
     DEF PaymentsInv, Daily!TypeOK, Daily!Checking, Daily!dbVars, Daily!history
<1>2. CheckPlaced'
  BY DEF PaymentsInv, CheckPlaced, Daily!Checking, Daily!dbVars, Daily!history
<1>3. PeriodsAhead'
  <2>1. \A v \in owed : payedUntil[v] # None =>
           payedUntil[v] > now /\ payedUntil[v] > now + Day
    BY DEF PaymentsInv, PeriodsAhead
  <2> QED BY <2>1, <1>0 DEF PeriodsAhead, Daily!dbVars, Daily!history
<1>4. MailsInTime'
  <2>1. ASSUME NEW v \in owed \ warned, payedUntil[v] # None
        PROVE  payedUntil[v] > now + Day /\ payedUntil[v] > now + Day + Day
    BY <2>1, PayTyped DEF PaymentsInv, MailsInTime
  <2> QED BY <2>1, <1>0 DEF MailsInTime, Daily!dbVars, Daily!history
<1>5. Trimmed'
  BY DEF Trimmed, Pending
<1> QED BY <1>1, <1>2, <1>3, <1>4, <1>5 DEF PaymentsInv

\* The check goes on and reads: nothing of the invariant's is written.
LEMMA BeginKeeps ==
  ASSUME Daily!PaymentsAssumption, PaymentsInv, Daily!Begin
  PROVE  PaymentsInv'
<1>0. /\ up /\ ~Daily!Checking
      /\ UNCHANGED <<now, Daily!dbVars, reserve, up, Daily!history>>
      /\ planned \in 0 .. now /\ planned # None
  BY PayTyped DEF Daily!Begin, Daily!Due
<1>1. CASE ~rateRows
  <2>1. owed = {} /\ Daily!Replan(now) /\ c' = c
    BY <1>1 DEF Daily!Begin, PaymentsInv, CheckPlaced
  <2>2. planned' = now + Day
    BY <2>1 DEF Daily!Replan
  <2>3. Daily!TypeOK'
    BY <2>1, <2>2, <1>0, PayTyped
       DEF PaymentsInv, Daily!TypeOK, Daily!Checking, Daily!dbVars, Daily!history
  <2>4. CheckPlaced' /\ PeriodsAhead' /\ MailsInTime' /\ Trimmed'
    BY <2>1, <1>0
       DEF PaymentsInv, CheckPlaced, Daily!Checking, PeriodsAhead, MailsInTime,
           Trimmed, Pending, Daily!dbVars, Daily!history
  <2> QED BY <2>3, <2>4 DEF PaymentsInv
<1>2. CASE rateRows
  <2>1. planned' = None /\ c' = [Daily!Idle EXCEPT !.pc = "system", !.time = now]
    BY <1>2 DEF Daily!Begin
  <2>2. c' \in CheckRecord /\ c'.pc = "system" /\ c'.time = now
        /\ c'.soon = {} /\ c'.expired = {}
    BY <2>1, PayTyped DEF Daily!Idle, CheckRecord, CheckPcs
  <2>3. Daily!TypeOK'
    BY <2>1, <2>2, <1>0, PayTyped
       DEF PaymentsInv, Daily!TypeOK, Daily!Checking, Daily!dbVars, Daily!history
  <2>4. CheckPlaced'
    BY <2>2, <1>0
       DEF PaymentsInv, CheckPlaced, Daily!Checking, Daily!dbVars, Daily!history
  <2>5. PeriodsAhead' /\ MailsInTime'
    BY <2>1, <2>2, <1>0
       DEF PaymentsInv, PeriodsAhead, MailsInTime, Daily!dbVars, Daily!history
  <2>6. Trimmed'
    BY <2>2 DEF Trimmed, Pending
  <2> QED BY <2>3, <2>4, <2>5, <2>6 DEF PaymentsInv
<1> QED BY <1>1, <1>2

\* The first read: the system user, who will send the mails.
LEMMA LoadSystemKeeps ==
  ASSUME Daily!PaymentsAssumption, PaymentsInv, Daily!LoadSystem
  PROVE  PaymentsInv'
<1>0. /\ c.pc = "system" /\ c' = [c EXCEPT !.pc = "soon", !.sender = system]
      /\ UNCHANGED <<now, Daily!dbVars, planned, reserve, up, Daily!history>>
  BY DEF Daily!LoadSystem
<1>1. /\ c' \in CheckRecord /\ c'.pc = "soon" /\ c'.time = c.time
      /\ c'.soon = c.soon /\ c'.expired = c.expired
  BY <1>0, PayTyped DEF CheckRecord, CheckPcs
<1>2. Daily!TypeOK'
  BY <1>0, <1>1
     DEF PaymentsInv, Daily!TypeOK, Daily!Checking, Daily!dbVars, Daily!history
<1>3. CheckPlaced' /\ PeriodsAhead' /\ MailsInTime' /\ Trimmed'
  BY <1>0, <1>1
     DEF PaymentsInv, CheckPlaced, Daily!Checking, PeriodsAhead, MailsInTime,
         Trimmed, Pending, Daily!dbVars, Daily!history
<1> QED BY <1>2, <1>3 DEF PaymentsInv

\* Whoever is not among those whose period ends soon has more than three days.
LEMMA LoadSoonKeeps ==
  ASSUME Daily!PaymentsAssumption, PaymentsInv, Daily!LoadSoon
  PROVE  PaymentsInv'
<1>0. /\ c.pc = "soon"
      /\ c' = [c EXCEPT !.pc = "expired",
                        !.soon = {u \in Payers : Daily!EndsSoon(u)},
                        !.rate = plan]
      /\ UNCHANGED <<now, Daily!dbVars, planned, reserve, up, Daily!history>>
  BY DEF Daily!LoadSoon
<1>1. /\ c' \in CheckRecord /\ c'.pc = "expired" /\ c'.time = c.time
      /\ c'.soon = {u \in Payers : Daily!EndsSoon(u)} /\ c'.expired = c.expired
  BY <1>0, PayTyped DEF CheckRecord, CheckPcs
<1>2. c.time = now
  BY <1>0 DEF PaymentsInv, CheckPlaced, Daily!Checking
<1>3. Daily!TypeOK'
  BY <1>0, <1>1
     DEF PaymentsInv, Daily!TypeOK, Daily!Checking, Daily!dbVars, Daily!history
<1>4. CheckPlaced' /\ PeriodsAhead' /\ Trimmed'
  BY <1>0, <1>1
     DEF PaymentsInv, CheckPlaced, Daily!Checking, PeriodsAhead, Trimmed, Pending,
         Daily!dbVars, Daily!history
<1>5. MailsInTime'
  <2>1. ASSUME NEW v \in owed \ warned, payedUntil[v] # None
        PROVE  Daily!EndsSoon(v) \/ payedUntil[v] > now + 3 * Day
    <3>1. payedUntil[v] \in Nat /\ payedUntil[v] > now + Day
      BY <2>1, PayTyped DEF PaymentsInv, MailsInTime
    <3> QED BY <3>1, <2>1, <1>2, PayTyped DEF Daily!EndsSoon
  <2> QED BY <2>1, <1>0, <1>1, PayTyped
          DEF PaymentsInv, MailsInTime, Daily!dbVars, Daily!history
<1> QED BY <1>3, <1>4, <1>5 DEF PaymentsInv

\* Revoking the keys beyond the limit leaves as many as it allows.
LEMMA RevokedEnough ==
  ASSUME Daily!PaymentsAssumption, PaymentsInv, NEW u \in Payers,
         NEW K \in Daily!Revocable(u)
  PROVE  Cardinality(Daily!EnabledOf(u) \ K) <= Limits[Base]
<1>1. Daily!EnabledOf(u) \subseteq PaidKeys /\ IsFiniteSet(Daily!EnabledOf(u))
  BY PayTyped, FS_Subset DEF Daily!EnabledOf
<1>2. K \subseteq Daily!EnabledOf(u) /\ IsFiniteSet(K)
  BY <1>1, FS_Subset DEF Daily!Revocable
<1>3. /\ Cardinality(Daily!EnabledOf(u)) \in Nat /\ Cardinality(K) \in Nat
      /\ Cardinality(Daily!EnabledOf(u) \ K)
           
                           = Cardinality(Daily!EnabledOf(u)) - Cardinality(Daily!EnabledOf(u) \cap K)
  BY <1>1, <1>2, FS_CardinalityType, FS_Difference
<1>4. Daily!EnabledOf(u) \cap K = K
  BY <1>2
<1>5. Daily!OverLimit(u) > 0 => Cardinality(K) = Daily!OverLimit(u)
  BY CountedSame DEF Daily!Revocable
<1>6. ~(Daily!OverLimit(u) > 0) => K = {}
  BY DEF Daily!Revocable
<1>7. Daily!OverLimit(u) = Cardinality(Daily!EnabledOf(u)) - Limits[Base]
  BY CountedSame DEF Daily!OverLimit
<1>8. Cardinality(Daily!EnabledOf(u) \ K)
         = Cardinality(Daily!EnabledOf(u)) - Cardinality(K)
  BY <1>3, <1>4
<1>9. K = {} => Cardinality(K) = 0
  BY FS_EmptySet
<1> QED BY <1>3, <1>5, <1>6, <1>7, <1>8, <1>9, PayTyped

\* Revoked keys of other users do not matter to this one.
LEMMA RevokedTogether ==
  ASSUME Daily!PaymentsAssumption, PaymentsInv, NEW gone \in SUBSET Payers,
         NEW R \in [gone -> SUBSET PaidKeys],
         \A u \in gone : R[u] \in Daily!Revocable(u), NEW u \in gone
  PROVE  Daily!EnabledOf(u) \ (UNION {R[v] : v \in gone})
                 = Daily!EnabledOf(u) \ R[u]
<1>1. ASSUME NEW k \in Daily!EnabledOf(u), NEW v \in gone, k \in R[v]
      PROVE  v = u
  <2>1. R[v] \subseteq Daily!EnabledOf(v)
    BY DEF Daily!Revocable
  <2> QED BY <1>1, <2>1 DEF Daily!EnabledOf
<1> QED BY <1>1

\* The expired users are read, and which of their keys will go: whoever is
\* among them has had the mail, the others have more than a day.
LEMMA LoadExpiredKeeps ==
  ASSUME Daily!PaymentsAssumption, PaymentsInv, Daily!LoadExpired
  PROVE  PaymentsInv'
<1> DEFINE gone == {u \in Payers : Daily!Expired(u)}
<1>1. c.pc = "expired" /\ c.time = now /\ up
  BY DEF Daily!LoadExpired, PaymentsInv, CheckPlaced, Daily!Checking
<1>2. \A v \in owed : payedUntil[v] # None =>
          v \in gone \/ payedUntil[v] > now + Day
  BY <1>1, PayTyped DEF Daily!Expired
<1>3. \A v \in owed \ warned : payedUntil[v] # None =>
          /\ payedUntil[v] > now + Day /\ v \notin gone
          /\ v \in c.soon \/ payedUntil[v] > now + 3 * Day
  BY <1>1, PayTyped DEF Daily!Expired, PaymentsInv, MailsInTime
<1>4. CASE Daily!Throw
  BY <1>4, ThrowKeeps
<1>5. CASE /\ gone = {} /\ c.soon = {} /\ Daily!Replan(c.time) /\ c' = Daily!Idle
           /\ UNCHANGED <<now, Daily!dbVars, reserve, up, patches, stops,
                          Daily!history>>
  <2>1. \A v \in owed \ warned : payedUntil[v] # None =>
            payedUntil[v] > now + 3 * Day
    BY <1>3, <1>5
  <2>2. \A v \in owed \ warned : payedUntil[v] # None =>
            payedUntil[v] > now + 2 * Day
    BY <2>1, PayTyped
  <2>3. c' \in CheckRecord /\ c'.pc = "idle" /\ c'.soon = {}
        /\ c'.expired = {}
    BY <1>5, IdleFacts, PayTyped
  <2>4. Daily!Replan(now)
    BY <1>5, <1>1
  <2> QED BY <1>1, <1>2, <1>5, <2>2, <2>3, <2>4, ReplanKeeps
<1>6. ASSUME gone # {} \/ c.soon # {},
             NEW R \in [gone -> SUBSET PaidKeys],
             \A u \in gone : R[u] \in Daily!Revocable(u),
             c' = [c EXCEPT !.pc = IF c.soon # {} THEN "save" ELSE "mails",
                            !.expired = gone,
                            !.revoke = UNION {R[u] : u \in gone},
                            !.rate = [u \in Payers |->
                                IF u \in c.soon THEN @[u] ELSE plan[u]]],
             touched' = touched \ gone,
             UNCHANGED <<now, Daily!dbVars, planned, reserve, up, warned, owed>>
      PROVE  PaymentsInv'
  <2>1. [u \in Payers |-> IF u \in c.soon THEN c.rate[u] ELSE plan[u]]
          \in [Payers -> {Base, Paid}]
    BY PayTyped DEF CheckRecord
  <2>2. UNION {R[u] : u \in gone} \subseteq PaidKeys
    OBVIOUS
  <2>3. /\ c'.pc = IF c.soon # {} THEN "save" ELSE "mails"
        /\ c'.time = c.time /\ c'.soon = c.soon /\ c'.expired = gone
        /\ c'.revoke = UNION {R[u] : u \in gone}
    BY <1>6, PayTyped DEF CheckRecord
  <2>4. c' \in CheckRecord
    BY <1>6, <2>1, <2>2, PayTyped DEF CheckRecord, CheckPcs
  <2>5. Daily!TypeOK'
    BY <1>1, <1>6, <2>3, <2>4, PayTyped
       DEF PaymentsInv, Daily!TypeOK, Daily!Checking, Daily!dbVars
  <2>6. CheckPlaced'
    BY <1>1, <1>6, <2>3, <2>4
       DEF PaymentsInv, CheckPlaced, Daily!Checking, Daily!dbVars
  <2>7. Pending'
    BY <2>3 DEF Pending
  <2>8. PeriodsAhead'
    <3>1. \A v \in owed : payedUntil[v] # None /\ v \in gone => v \in warned
      BY <1>3
    <3> HIDE DEF gone
    <3> QED BY <1>2, <1>6, <2>3, <2>7, <3>1
            DEF PaymentsInv, PeriodsAhead, Daily!dbVars
  <2>9. MailsInTime'
    <3> HIDE DEF gone
    <3> QED BY <1>3, <1>6, <2>3 DEF PaymentsInv, MailsInTime, Daily!dbVars
  <2>10. Trimmed'
    <3>1. ASSUME NEW u \in gone
          PROVE  Cardinality(Daily!EnabledOf(u) \ UNION {R[v] : v \in gone})
                    <= Limits[Base]
      <4>1. Daily!EnabledOf(u) \ UNION {R[v] : v \in gone}
                     = Daily!EnabledOf(u) \ R[u]
        BY <1>6, RevokedTogether
      <4>2. Cardinality(Daily!EnabledOf(u) \ R[u]) <= Limits[Base]
        BY <1>6, RevokedEnough
      <4> QED BY <4>1, <4>2
    <3>2. \A u \in Payers : Daily!EnabledOf(u)' = Daily!EnabledOf(u)
      BY <1>6 DEF Daily!EnabledOf, Daily!dbVars
    <3> QED BY <2>3, <3>1, <3>2 DEF Trimmed
  <2> QED BY <2>5, <2>6, <2>8, <2>9, <2>10 DEF PaymentsInv
<1> QED BY <1>4, <1>5, <1>6 DEF Daily!LoadExpired

\* What the save writes of the users the check has read.
LEMMA DowngradeWrites ==
  ASSUME Daily!PaymentsAssumption, PaymentsInv, Daily!Downgrade
  PROVE  /\ \A u \in Payers : payedUntil'[u] # None =>
                u \notin c.expired /\ payedUntil'[u] = payedUntil[u]
         /\ plan' \in [Payers -> {Base, Paid}]
         /\ payedUntil' \in [Payers -> (1 .. MaxTime + 5 * Day) \cup {None}]
         /\ keyStatus' \in [PaidKeys -> {"Disabled", "Enabled", "Revoked"}]
         /\ \A u \in Payers :
               Daily!EnabledOf(u)' = Daily!EnabledOf(u) \ c.revoke
<1>1. \A u \in Payers : payedUntil'[u] = IF u \in c.expired THEN None
                                        ELSE payedUntil[u]
  BY DEF Daily!Downgrade
<1>2. \A k \in PaidKeys : keyStatus'[k] = IF k \in c.revoke THEN "Revoked"
                                   ELSE keyStatus[k]
  BY DEF Daily!Downgrade
<1>3. ASSUME NEW u \in Payers
      PROVE  Daily!EnabledOf(u)' = Daily!EnabledOf(u) \ c.revoke
  BY <1>2 DEF Daily!EnabledOf
<1>4. plan' \in [Payers -> {Base, Paid}]
  BY PayTyped DEF Daily!Downgrade
<1>5. payedUntil' \in [Payers -> (1 .. MaxTime + 5 * Day) \cup {None}]
  BY PayTyped DEF Daily!Downgrade
<1>6. keyStatus' \in [PaidKeys -> {"Disabled", "Enabled", "Revoked"}]
  BY PayTyped DEF Daily!Downgrade
<1> QED BY <1>1, <1>3, <1>4, <1>5, <1>6

\* The save that is there when some period ends soon.
LEMMA SaveContextKeeps ==
  ASSUME Daily!PaymentsAssumption, PaymentsInv, Daily!SaveContext
  PROVE  PaymentsInv'
<1>1. CASE Daily!Throw
  BY <1>1, ThrowKeeps
<1>2. ASSUME Daily!Downgrade, c' = [c EXCEPT !.pc = "mails", !.revoke = {}],
             UNCHANGED <<now, rateRows, system, planned, reserve, up, warned,
                         owed, touched>>
      PROVE  PaymentsInv'
  <2>1. c.pc = "save" /\ c.soon # {}
    BY DEF Daily!SaveContext, PaymentsInv, CheckPlaced
  <2>2. /\ c' \in CheckRecord /\ c'.pc = "mails" /\ c'.time = c.time
        /\ c'.soon = c.soon /\ c'.expired = c.expired
    BY <1>2, PayTyped DEF CheckRecord, CheckPcs
  <2>3. Daily!TypeOK'
    BY <1>2, <2>1, <2>2, DowngradeWrites, PayTyped
       DEF PaymentsInv, Daily!TypeOK, Daily!Checking
  <2>4. CheckPlaced'
    BY <1>2, <2>1, <2>2 DEF PaymentsInv, CheckPlaced, Daily!Checking
  <2>5. Trimmed'
    BY <2>1, <2>2 DEF Trimmed, Pending
  <2>6. \A v \in owed : payedUntil'[v] # None =>
           v \notin c.expired /\ payedUntil'[v] = payedUntil[v]
    BY <1>2, DowngradeWrites, PayTyped
  <2>7. PeriodsAhead'
    BY <1>2, <2>1, <2>2, <2>6 DEF PaymentsInv, PeriodsAhead
  <2>8. MailsInTime'
    BY <1>2, <2>1, <2>2, <2>6 DEF PaymentsInv, MailsInTime
  <2> QED BY <2>3, <2>4, <2>5, <2>7, <2>8 DEF PaymentsInv
<1> QED BY <1>1, <1>2 DEF Daily!SaveContext

\* After the mails nothing is left to write, and nobody without one has less
\* than three days.
LEMMA AddMailsKeeps ==
  ASSUME Daily!PaymentsAssumption, PaymentsInv, Daily!AddMails
  PROVE  PaymentsInv'
<1>1. CASE Daily!Throw
  BY <1>1, ThrowKeeps
<1>2. ASSUME IF c.soon = {} THEN Daily!Downgrade
                            ELSE UNCHANGED <<plan, payedUntil, keyStatus>>,
             warned' = warned \cup (c.soon \ c.expired),
             c' = [c EXCEPT !.pc = "notify"],
             UNCHANGED <<now, rateRows, system, planned, reserve, up, owed,
                         touched>>
      PROVE  PaymentsInv'
  <2>1. c.pc = "mails"
    BY DEF Daily!AddMails
  <2>2. /\ c' \in CheckRecord /\ c'.pc = "notify" /\ c'.time = c.time
        /\ c'.soon = c.soon /\ c'.expired = c.expired
    BY <1>2, PayTyped DEF CheckRecord, CheckPcs
  <2>3. \A v \in owed : payedUntil'[v] # None =>
           v \notin c.expired /\ payedUntil'[v] = payedUntil[v]
    <3>1. CASE c.soon = {}
      BY <1>2, <3>1, DowngradeWrites, PayTyped
    <3>2. CASE c.soon # {}
      BY <1>2, <2>1, <3>2 DEF PaymentsInv, PeriodsAhead, Pending
    <3> QED BY <3>1, <3>2
  <2>4. /\ plan' \in [Payers -> {Base, Paid}]
        /\ payedUntil' \in [Payers -> (1 .. MaxTime + 5 * Day) \cup {None}]
        /\ keyStatus' \in [PaidKeys -> {"Disabled", "Enabled", "Revoked"}]
    BY <1>2, DowngradeWrites, PayTyped
  <2>5. Daily!TypeOK'
    BY <1>2, <2>1, <2>2, <2>4, PayTyped
       DEF PaymentsInv, Daily!TypeOK, Daily!Checking, CheckRecord
  <2>6. CheckPlaced'
    BY <1>2, <2>1, <2>2 DEF PaymentsInv, CheckPlaced, Daily!Checking
  <2>7. Trimmed'
    BY <2>2 DEF Trimmed, Pending
  <2>8. PeriodsAhead'
    BY <1>2, <2>1, <2>2, <2>3 DEF PaymentsInv, PeriodsAhead
  <2>9. MailsInTime'
    BY <1>2, <2>1, <2>2, <2>3 DEF PaymentsInv, MailsInTime
  <2> QED BY <2>5, <2>6, <2>7, <2>8, <2>9 DEF PaymentsInv
<1> QED BY <1>1, <1>2 DEF Daily!AddMails

\* The hook, after which the check plans the next one.
LEMMA NotifyKeeps ==
  ASSUME Daily!PaymentsAssumption, PaymentsInv, Daily!Notify
  PROVE  PaymentsInv'
<1>1. CASE Daily!Throw
  BY <1>1, ThrowKeeps
<1>2. ASSUME Daily!Replan(c.time), c' = Daily!Idle,
             UNCHANGED <<now, Daily!dbVars, reserve, up, patches, stops,
                         Daily!history>>
      PROVE  PaymentsInv'
  <2>1. c.pc = "notify" /\ c.time = now /\ up
    BY DEF Daily!Notify, PaymentsInv, CheckPlaced, Daily!Checking
  <2>2. c' \in CheckRecord /\ c'.pc = "idle" /\ c'.soon = {}
        /\ c'.expired = {}
    BY <1>2, IdleFacts, PayTyped
  <2>3. \A v \in owed : payedUntil[v] # None => payedUntil[v] > now + Day
    BY <2>1 DEF PaymentsInv, PeriodsAhead
  <2>4. ASSUME NEW v \in owed \ warned, payedUntil[v] # None
        PROVE  payedUntil[v] > now + 2 * Day
    BY <2>1, <2>4, PayTyped DEF PaymentsInv, MailsInTime
  <2>5. Daily!Replan(now)
    BY <1>2, <2>1
  <2> QED BY <1>2, <2>1, <2>2, <2>3, <2>4, <2>5, ReplanKeeps
<1> QED BY <1>1, <1>2 DEF Daily!Notify

-----------------------------------------------------------------------------
\* At the start nothing is owed.
LEMMA PaymentsInit == Daily!PaymentsAssumption /\ Daily!Init => PaymentsInv
<1> SUFFICES ASSUME Daily!PaymentsAssumption, Daily!Init PROVE PaymentsInv
  OBVIOUS
<1>1. /\ now = 0 /\ c = Daily!Idle /\ up = TRUE /\ planned = 0 /\ reserve = TRUE
      /\ owed = {} /\ warned = {} /\ touched = {}
      /\ rateRows \in BOOLEAN /\ system \in BOOLEAN
      /\ plan = [u \in Payers |-> Base] /\ payedUntil = [u \in Payers |-> None]
      /\ keyStatus \in [PaidKeys -> {"Disabled", "Enabled"}]
  BY DEF Daily!Init
<1>2. MaxTime \in Nat /\ Day \in Nat
  BY DEF Daily!PaymentsAssumption
<1>3. c \in CheckRecord /\ c.pc = "idle" /\ c.soon = {} /\ c.expired = {}
  BY <1>1, <1>2, IdleFacts
<1>4. Daily!TypeOK
  BY <1>1, <1>2, <1>3 DEF Daily!TypeOK, Daily!Checking
<1>5. CheckPlaced /\ PeriodsAhead /\ MailsInTime /\ Trimmed
  BY <1>1, <1>3
     DEF CheckPlaced, Daily!Checking, PeriodsAhead, MailsInTime, Trimmed, Pending
<1> QED BY <1>4, <1>5 DEF PaymentsInv

\* Every step preserves the invariant.
LEMMA PaymentsNext ==
  Daily!PaymentsAssumption /\ PaymentsInv
  /\ [Daily!Next]_(Daily!vars) => PaymentsInv'
<1> SUFFICES ASSUME Daily!PaymentsAssumption, PaymentsInv, [Daily!Next]_(Daily!vars)
             PROVE  PaymentsInv'
  OBVIOUS
<1>1. CASE UNCHANGED Daily!vars
  BY <1>1
     DEF Daily!vars, Daily!dbVars, Daily!history, PaymentsInv, Daily!TypeOK,
         CheckPlaced, Daily!Checking,
         PeriodsAhead, MailsInTime, Trimmed, Pending, Daily!EnabledOf
<1>2. CASE Daily!Check
  BY <1>2, BeginKeeps, LoadSystemKeeps, LoadSoonKeeps, LoadExpiredKeeps,
     SaveContextKeeps, AddMailsKeeps, NotifyKeeps DEF Daily!Check
<1> QED
  BY <1>1, <1>2, PatchUserKeeps, SwitchKeyKeeps, TickKeeps, StopStartKeep,
     RowsKeep DEF Daily!Next

\* A period is taken away only by the save of a check that has read its user.
LEMMA TakenByTheCheck ==
  ASSUME Daily!PaymentsAssumption, PaymentsInv, Daily!Next, NEW u \in Payers,
         payedUntil[u] # None, payedUntil'[u] = None
  PROVE  /\ Pending /\ Daily!Downgrade /\ u \in c.expired
         /\ c.pc \in {"save", "mails"}
<1>1. ASSUME NEW v \in Payers, Daily!PatchUser(v)
      PROVE  FALSE
  <2>1. PICK end \in Daily!Ends : payedUntil' = [payedUntil EXCEPT ![v] = end]
    BY <1>1 DEF Daily!PatchUser
  <2>2. end # None
    BY PayTyped DEF Daily!Ends
  <2>3. payedUntil'[u] = IF u = v THEN end ELSE payedUntil[u]
    BY <2>1, PayTyped
  <2> QED BY <2>2, <2>3
<1>2. payedUntil' # payedUntil
  OBVIOUS
<1>3. ASSUME Daily!Throw
      PROVE  FALSE
  BY <1>2, <1>3 DEF Daily!Throw, Daily!dbVars
<1>4. CASE Daily!SaveContext
  <2>1. Daily!Downgrade /\ c.pc = "save"
    BY <1>3, <1>4 DEF Daily!SaveContext
  <2>2. payedUntil'[u] = IF u \in c.expired THEN None ELSE payedUntil[u]
    BY <2>1 DEF Daily!Downgrade
  <2> QED BY <2>1, <2>2 DEF Pending
<1>5. CASE Daily!AddMails
  <2>1. /\ c.pc = "mails"
        /\ IF c.soon = {} THEN Daily!Downgrade
                          ELSE UNCHANGED <<plan, payedUntil, keyStatus>>
    BY <1>3, <1>5 DEF Daily!AddMails
  <2>2. c.soon = {} /\ Daily!Downgrade
    BY <1>2, <2>1
  <2>3. payedUntil'[u] = IF u \in c.expired THEN None ELSE payedUntil[u]
    BY <2>2 DEF Daily!Downgrade
  <2> QED BY <2>1, <2>2, <2>3 DEF Pending
<1>6. ~Daily!Begin /\ ~Daily!LoadSystem /\ ~Daily!LoadSoon /\ ~Daily!Notify
  BY <1>2, <1>3
     DEF Daily!Begin, Daily!LoadSystem, Daily!LoadSoon, Daily!Notify, Daily!dbVars
<1>7. ~Daily!LoadExpired
  BY <1>2, <1>3 DEF Daily!LoadExpired, Daily!dbVars
<1>8. ~Daily!Tick /\ ~Daily!Stop /\ ~Daily!Start
     /\ ~Daily!CheckForReservedConstants /\ ~Daily!SeedRates
  BY <1>2
     DEF Daily!Tick, Daily!Stop, Daily!Start, Daily!CheckForReservedConstants,
         Daily!SeedRates, Daily!dbVars
<1>9. \A k \in PaidKeys : ~Daily!SwitchKey(k)
  BY <1>2 DEF Daily!SwitchKey
<1> QED BY <1>1, <1>4, <1>5, <1>6, <1>7, <1>8, <1>9 DEF Daily!Next, Daily!Check

-----------------------------------------------------------------------------
\* Nobody keeps a paid tariff past its end: as long as the task is on the
\* Planner's list and no exception took it off, every period bought outside a
\* check is taken away by a check before it is over (PaymentsCheckTask reads a
\* day ahead and plans itself a day after it began).
THEOREM PaidToTheEnd ==
  ASSUME Daily!PaymentsAssumption
  PROVE  Daily!Spec => []PaidPeriodEnds
<1>1. PaymentsInv => PaidPeriodEnds
  BY DEF PaymentsInv, PeriodsAhead, PaidPeriodEnds, Daily!PaidPeriodEnds
<1> QED BY <1>1, PaymentsInit, PaymentsNext, PTL DEF Daily!Spec

\* Whoever bought a period outside a check hears that it ends before it is
\* taken away: three days for the mails and one for the downgrade leave a check
\* between the two, whatever stops and starts of the Gateway happen.
THEOREM AnnouncedBefore ==
  ASSUME Daily!PaymentsAssumption
  PROVE  Daily!Spec => DowngradeIsAnnounced
<1>1. ASSUME PaymentsInv, Daily!Next, NEW u \in owed, payedUntil[u] # None,
             payedUntil'[u] = None
      PROVE  u \in warned
  <2>1. u \in Payers
    BY <1>1, PayTyped
  <2>2. u \in c.expired /\ c.pc \in {"save", "mails"}
    BY <1>1, <2>1, TakenByTheCheck
  <2> QED BY <1>1, <2>2 DEF PaymentsInv, PeriodsAhead
<1>2. PaymentsInv /\ [Daily!Next]_(Daily!vars) =>
        [\A u \in owed : (payedUntil[u] # None /\ payedUntil'[u] = None)
                            => u \in warned]_(Daily!vars)
  BY <1>1
<1> QED BY <1>2, PaymentsInit, PaymentsNext, PTL
        DEF Daily!Spec, DowngradeIsAnnounced, Daily!DowngradeIsAnnounced

\* A downgrade leaves a user no more keys enabled than the base tariff allows,
\* unless one was switched since the check had read them (ChangeRateAsync).
THEOREM TrimmedToBase ==
  ASSUME Daily!PaymentsAssumption
  PROVE  Daily!Spec => DowngradeTrims
<1>1. ASSUME PaymentsInv, Daily!Next, NEW u \in Payers \ touched,
             payedUntil[u] # None, payedUntil'[u] = None
      PROVE  Daily!Cardinality({k \in PaidKeys : KeyOwner[k] = u
                                             /\ keyStatus'[k] = "Enabled"})
                <= Limits[Base]
  <2>1. Pending /\ Daily!Downgrade /\ u \in c.expired
    BY <1>1, TakenByTheCheck
  <2>2. {k \in PaidKeys : KeyOwner[k] = u /\ keyStatus'[k] = "Enabled"}
           = Daily!EnabledOf(u) \ c.revoke
    BY <1>1, <2>1 DEF Daily!Downgrade, Daily!EnabledOf
  <2> QED BY <1>1, <2>1, <2>2, CountedSame DEF PaymentsInv, Trimmed
<1>2. PaymentsInv /\ [Daily!Next]_(Daily!vars) =>
        [\A u \in Payers \ touched :
            (payedUntil[u] # None /\ payedUntil'[u] = None)
               => Daily!Cardinality({k \in PaidKeys : KeyOwner[k] = u
                                                     /\ keyStatus'[k] = "Enabled"})
                    <= Limits[Base]]_(Daily!vars)
  BY <1>1
<1> QED BY <1>2, PaymentsInit, PaymentsNext, PTL
        DEF Daily!Spec, DowngradeTrims, Daily!DowngradeTrims

=============================================================================
