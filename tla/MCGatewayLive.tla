--------------------------- MODULE MCGatewayLive ---------------------------
(***************************************************************************)
(* What must eventually happen in VpnKeys and in QuickAuth, for TLC.  A    *)
(* behaviour picks one case at the start and runs it alone, under the      *)
(* fairness of its module, and the other module stays in its initial       *)
(* state.  The constants of the .cfg are the case "requests": two requests *)
(* at a time and one fault.                                                *)
(***************************************************************************)
EXTENDS MCVpnKeys

CONSTANTS c1, q1, q2, x1, NoUser, NoCode, WrongCode

VARIABLES
    case,
    accounts, st, uid, code, expired, group, joining, heard, quick, \* QuickAuth
    logins, stale

keyVars == vars
quickVars == <<accounts, st, uid, code, expired, group, joining, heard, quick,
               logins, stale>>

\* VpnKeys: one request at a time, and three faults.
OneReq == {r1}
Restarts == INSTANCE VpnKeys WITH Reqs <- OneReq, MaxFaults <- 3

\* QuickAuth: one session of one user, a device that listens, two requests.
QuickSessions == {x1}
QuickUsers == {alice}
Clients == {c1}
QuickReqs == {q1, q2}
Quick == INSTANCE QuickAuth WITH Sessions <- QuickSessions, Users <- QuickUsers,
    Reqs <- QuickReqs, users <- accounts, h <- quick

LiveInit ==
    /\ case \in {"requests", "restarts", "quick"}
    /\ IF case = "restarts" THEN Restarts!Init ELSE Init
    /\ Quick!Init

LiveNext ==
    /\ UNCHANGED case
    /\ \/ case = "requests" /\ Next /\ UNCHANGED quickVars
       \/ case = "restarts" /\ Restarts!Next /\ UNCHANGED quickVars
       \/ case = "quick" /\ Quick!Next /\ UNCHANGED keyVars

\* Fairness of VpnKeys and of QuickAuth, of the one that runs.
LiveFairness ==
    /\ \A r \in Reqs : WF_keyVars(case = "requests" /\ Progress(r))
    /\ WF_keyVars(case = "restarts" /\ Restarts!Progress(r1))
    /\ \A s \in Servers :
          WF_keyVars(\/ case = "requests" /\ StartUp(s)
                     \/ case = "restarts" /\ Restarts!StartUp(s))
    /\ \A r \in QuickReqs : WF_quickVars(case = "quick" /\ Quick!Progress(r))

LiveSpec == LiveInit /\ [][LiveNext]_<<case, keyVars, quickVars>> /\ LiveFairness

-----------------------------------------------------------------------------
(* The properties of VpnKeys and QuickAuth, see there *)

\* Every request comes to an end, in the case with two at a time.
RequestsGoOn == \A r \in Reqs :
    (case = "requests" /\ h[r] # Idle) ~> (case = "requests" /\ h[r] = Idle)

\* A member of the session's group hears a code when the user confirms.
GroupHearsCode == Quick!GroupHearsCode
=============================================================================
