------------------------------ MODULE Payments ------------------------------
(***************************************************************************)
(* The daily payments check of the Gateway (PaymentsCheckTask, RateManager, *)
(* NotificationManager) as the Planner runs it, beside the requests that    *)
(* change tariffs and keys meanwhile.                                       *)
(*                                                                          *)
(* The check reads the users whose paid period ends soon and those whose    *)
(* period has ended, moves the latter to the base tariff, revokes their     *)
(* keys beyond its limit, writes mails, calls the Telegram hook and plans   *)
(* itself again.  Each database access is a step.  An exception ends the    *)
(* check, and the Planner has taken the task off its list before.           *)
(*                                                                          *)
(* A check takes seconds and the clock counts parts of a day, so the clock  *)
(* stands still while a check is due or running.  `warned', `owed' and     *)
(* `touched' are history.                                                   *)
(***************************************************************************)
EXTENDS Integers, FiniteSets

CONSTANTS
    Users, Keys, Owner,
    Base, Paid,     \* tariffs: the first of the table, and another
    MaxKeys,        \* MaxKeys[t]: Rate.MaxKeys
    Day,            \* clock units in a day
    MaxTime,        \* bound on the clock
    MaxPatches,     \* bound on tariff changes by request
    MaxStops,       \* bound on stops of the Gateway
    None

PaymentsAssumption ==
    /\ Owner \in [Keys -> Users] /\ IsFiniteSet(Keys)
    /\ Base # Paid /\ MaxKeys \in [{Base, Paid} -> Nat]
    /\ Day \in Nat \ {0} /\ {MaxTime, MaxPatches, MaxStops} \subseteq Nat
    /\ None \notin Nat

VARIABLES
    now,
    rates,       \* the table of tariffs has rows (a user needs one)
    system,      \* the reserved sender of mails has a row
    rate, payedUntil, status,          \* rows of users and keys
    planned,     \* the task's PlannedTime, None when it is not on the list
    reserve,     \* CheckForReservedConstants is still running
    up,          \* the Gateway runs
    c,           \* the check in progress and its DbContext
    patches, stops,
    warned,      \* users with a RateExpiration mail for the current period
    owed,        \* users whose period was bought in time, see PatchUser
    touched      \* users with a key switched while a check held their keys

dbVars == <<rates, system, rate, payedUntil, status>>
history == <<warned, owed, touched>>
vars == <<now, dbVars, planned, reserve, up, c, patches, stops, history>>

Idle == [pc |-> "idle", time |-> 0, sender |-> FALSE, soon |-> {},
         expired |-> {}, rate |-> [u \in Users |-> Base], revoke |-> {}]
Ends == now + 1 .. now + 5 * Day

Init ==
    /\ now = 0
    /\ rates \in BOOLEAN /\ system \in {FALSE, rates}
    /\ rate = [u \in Users |-> Base]
    /\ payedUntil = [u \in Users |-> None]
    /\ status \in [Keys -> {"Disabled", "Enabled"}]
    /\ rates \/ \A k \in Keys : status[k] = "Disabled"
    /\ \A u \in Users :
          Cardinality({k \in Keys : Owner[k] = u /\ status[k] = "Enabled"})
             <= MaxKeys[Base]
    /\ planned = 0 /\ reserve = TRUE /\ up = TRUE
    /\ c = Idle
    /\ patches = 0 /\ stops = 0
    /\ warned = {} /\ owed = {} /\ touched = {}

-----------------------------------------------------------------------------
(* The requests beside the check *)
EnabledOf(u) == {k \in Keys : Owner[k] = u /\ status[k] = "Enabled"}
Checking == c.pc # "idle"

\* PATCH of a user's tariff and paid period; the keys stay as they are.  A
\* period bought outside a check, more than two days ahead, is in `owed'.
PatchUser(u) ==
    /\ up /\ rates /\ patches < MaxPatches
    /\ patches' = patches + 1
    /\ \E end \in Ends :
          /\ payedUntil' = [payedUntil EXCEPT ![u] = end]
          /\ owed' = IF ~Checking /\ end > now + 2 * Day /\ planned # None
                     THEN owed \cup {u} ELSE owed \ {u}
    /\ rate' = [rate EXCEPT ![u] = Paid]
    /\ warned' = warned \ {u}
    /\ UNCHANGED <<now, rates, system, status, planned, reserve, up, c, stops,
                   touched>>

\* Enable or disable of a key (VpnKeys has the steps).  A revoked key is
\* refused.
SwitchKey(k) ==
    LET u == Owner[k]
    IN  /\ up /\ rates
        /\ \/ /\ status[k] = "Disabled"
              /\ Cardinality(EnabledOf(u)) < MaxKeys[rate[u]]
              /\ status' = [status EXCEPT ![k] = "Enabled"]
           \/ /\ status[k] = "Enabled"
              /\ status' = [status EXCEPT ![k] = "Disabled"]
        /\ touched' = IF u \in c.expired THEN touched \cup {u} ELSE touched
        /\ UNCHANGED <<now, rates, system, rate, payedUntil, planned, reserve,
                       up, c, patches, stops, warned, owed>>

-----------------------------------------------------------------------------
(* Time, start and stop *)
Due == up /\ planned # None /\ planned <= now

\* Without the check, nothing is promised to those who paid.
Served == up /\ planned # None

Tick ==
    /\ now < MaxTime /\ ~Due /\ ~Checking
    /\ now' = now + 1
    /\ owed' = IF Served THEN owed ELSE {}
    /\ UNCHANGED <<dbVars, planned, reserve, up, c, patches, stops, warned,
                   touched>>

Stop ==
    /\ up /\ stops < MaxStops
    /\ up' = FALSE /\ stops' = stops + 1
    /\ planned' = None /\ reserve' = FALSE /\ c' = Idle
    /\ UNCHANGED <<now, dbVars, patches, history>>

\* RunTasks: the constructor sets PlannedDate, so PlannedTime is long past.
Start ==
    /\ ~up
    /\ up' = TRUE /\ planned' = 0 /\ reserve' = TRUE
    /\ UNCHANGED <<now, dbVars, c, patches, stops, history>>

\* Without a tariff the insert fails, unnoticed.
CheckForReservedConstants ==
    /\ up /\ reserve
    /\ reserve' = FALSE
    /\ system' = (system \/ rates)
    /\ UNCHANGED <<now, rates, rate, payedUntil, status, planned, up, c,
                   patches, stops, history>>

\* The operator fills the table of tariffs.
SeedRates ==
    /\ ~rates
    /\ rates' = TRUE
    /\ UNCHANGED <<now, system, rate, payedUntil, status, planned, reserve,
                   up, c, patches, stops, history>>

-----------------------------------------------------------------------------
(* The check *)

\* ActionAsync reached its end, or the place before the throw that plans.
Replan(t) == planned' = t + Day

\* An exception leaves ActionAsync; CheckLoop prints it and finds no task.
Throw == /\ c' = Idle
         /\ owed' = {}
         /\ UNCHANGED <<now, dbVars, planned, reserve, up, patches, stops,
                        warned, touched>>

\* CheckLoop takes the task off the list; the first read is the base tariff.
Begin ==
    /\ Due /\ ~Checking
    /\ IF rates
       THEN /\ planned' = None
            /\ c' = [Idle EXCEPT !.pc = "system", !.time = now]
       ELSE Replan(now) /\ UNCHANGED c
    /\ UNCHANGED <<now, dbVars, reserve, up, patches, stops, history>>

LoadSystem ==
    /\ c.pc = "system"
    /\ c' = [c EXCEPT !.pc = "soon", !.sender = system]
    /\ UNCHANGED <<now, dbVars, planned, reserve, up, patches, stops, history>>

EndsSoonShort(u) == payedUntil[u] # None /\ c.time < payedUntil[u]
                      /\ payedUntil[u] <= c.time + Day
EndsSoon(u) == payedUntil[u] # None /\ c.time < payedUntil[u]
                 /\ payedUntil[u] <= c.time + 3 * Day

LoadSoon ==
    /\ c.pc = "soon"
    /\ c' = [c EXCEPT !.pc = "expired", !.soon = {u \in Users : EndsSoon(u)},
                      !.rate = rate]
    /\ UNCHANGED <<now, dbVars, planned, reserve, up, patches, stops, history>>

ExpiredBefore(u) == payedUntil[u] # None /\ payedUntil[u] < c.time
Expired(u) == payedUntil[u] # None /\ payedUntil[u] <= c.time + Day

\* ChangeRateAsync to the base tariff.  The keys come without their servers:
\* disabling one makes no call, enabling one throws.
Throws(u) == /\ \E k \in Keys : Owner[k] = u /\ status[k] = "Revoked"
             /\ Cardinality(EnabledOf(u)) < MaxKeys[Base]
OverLimitByOne(u) == Cardinality(EnabledOf(u)) - MaxKeys[Base] - 1
OverLimit(u) == Cardinality(EnabledOf(u)) - MaxKeys[Base]
Revocable(u) == {K \in SUBSET EnabledOf(u) :
                    IF OverLimit(u) > 0 THEN Cardinality(K) = OverLimit(u)
                                        ELSE K = {}}

\* The rows come in no particular order: any of a user's keys may be spared.
LoadExpired ==
    LET gone == {u \in Users : Expired(u)}
    IN  /\ c.pc = "expired"
        /\ \/ (\E u \in gone : Throws(u)) /\ Throw
           \/ /\ gone = {} /\ c.soon = {}
              /\ Replan(c.time) /\ c' = Idle
              /\ UNCHANGED <<now, dbVars, reserve, up, patches, stops, history>>
           \/ /\ gone # {} \/ c.soon # {}
              /\ \A u \in gone : ~Throws(u)
              /\ \E R \in [gone -> SUBSET Keys] :
                    /\ \A u \in gone : R[u] \in Revocable(u)
                    /\ c' = [c EXCEPT !.pc = IF c.soon # {} THEN "save" ELSE "mails",
                                      !.expired = gone,
                                      !.revoke = UNION {R[u] : u \in gone},
                                      !.rate = [u \in Users |->
                                          IF u \in c.soon THEN @[u] ELSE rate[u]]]
              /\ touched' = touched \ gone
              /\ UNCHANGED <<now, dbVars, planned, reserve, up, patches, stops,
                             warned, owed>>

\* SaveChanges writes the columns that differ from what was loaded.
Downgrade ==
    /\ rate' = [u \in Users |-> IF u \in c.expired /\ c.rate[u] # Base
                                THEN Base ELSE rate[u]]
    /\ payedUntil' = [u \in Users |-> IF u \in c.expired THEN None
                                      ELSE payedUntil[u]]
    /\ status' = [k \in Keys |-> IF k \in c.revoke THEN "Revoked"
                                 ELSE status[k]]

\* The save that is there only when some period ends soon.
SaveContext ==
    /\ c.pc = "save"
    /\ \/ /\ Downgrade
          /\ c' = [c EXCEPT !.pc = "mails", !.revoke = {}]
          /\ UNCHANGED <<now, rates, system, planned, reserve, up, patches,
                         stops, warned, owed, touched>>
       \/ Throw

\* AddRangeAsync: the mails and whatever is not saved yet, in one save.  The
\* sender must have a row.
AddMails ==
    /\ c.pc = "mails"
    /\ \/ /\ system
          /\ IF c.soon = {} THEN Downgrade
                            ELSE UNCHANGED <<rate, payedUntil, status>>
          /\ warned' = warned \cup (c.soon \ c.expired)
          /\ c' = [c EXCEPT !.pc = "notify"]
          /\ UNCHANGED <<now, rates, system, planned, reserve, up, patches,
                         stops, owed, touched>>
       \/ Throw

\* CallAndForget waits for the hook's answer and needs the sender as loaded.
Notify ==
    /\ c.pc = "notify"
    /\ \/ /\ c.sender
          /\ Replan(c.time) /\ c' = Idle
          /\ UNCHANGED <<now, dbVars, reserve, up, patches, stops, history>>
       \/ Throw

Check == Begin \/ LoadSystem \/ LoadSoon \/ LoadExpired \/ SaveContext
           \/ AddMails \/ Notify

Next == \/ \E u \in Users : PatchUser(u)
        \/ \E k \in Keys : SwitchKey(k)
        \/ Tick \/ Stop \/ Start \/ CheckForReservedConstants \/ SeedRates
        \/ Check

Spec == Init /\ [][Next]_vars

-----------------------------------------------------------------------------
\* Types; the task is never on the list twice, nor planned further than a
\* day ahead.
TypeOK ==
    /\ now \in 0 .. MaxTime
    /\ {rates, system, reserve, up} \subseteq BOOLEAN
    /\ rate \in [Users -> {Base, Paid}]
    /\ payedUntil \in [Users -> (1 .. MaxTime + 5 * Day) \cup {None}]
    /\ status \in [Keys -> {"Disabled", "Enabled", "Revoked"}]
    /\ planned \in (0 .. now + Day) \cup {None}
    /\ c.pc \in {"idle", "system", "soon", "expired", "save", "mails", "notify"}
    /\ Checking => planned = None
    /\ c.soon \cup c.expired \cup warned \cup owed \cup touched
         \subseteq Users

\* Nobody keeps a paid tariff past its end, while the check goes on every
\* day (GetUsersPayedUntilAsync with currentTime.AddDays(1)).
PaidPeriodEnds ==
    \A u \in owed : payedUntil[u] # None => payedUntil[u] > now

\* A user who bought a period outside a check loses it only after a mail that
\* said so (the two windows of ActionAsync and the 24 hours between checks).
DowngradeIsAnnounced ==
    [][\A u \in owed : (payedUntil[u] # None /\ payedUntil'[u] = None)
                          => u \in warned]_vars

\* A downgrade leaves no more keys enabled than the base tariff allows,
\* unless a key was switched after the check had read them (ChangeRateAsync).
DowngradeTrims ==
    [][\A u \in Users \ touched :
          (payedUntil[u] # None /\ payedUntil'[u] = None)
             => Cardinality({k \in Keys : Owner[k] = u /\ status'[k] = "Enabled"})
                  <= MaxKeys[Base]]_vars

=============================================================================
