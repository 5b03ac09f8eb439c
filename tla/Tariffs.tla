------------------------------ MODULE Tariffs ------------------------------
(***************************************************************************)
(* The two sides of a tariff's limit: the handlers that add and enable keys *)
(* (VpnKeys) and the daily check of payments (Payments, with rows of its    *)
(* own), and what each of them guarantees.                                  *)
(***************************************************************************)
EXTENDS VpnKeys

CONSTANTS Payers, PaidKeys, KeyOwner, Base, Paid, Limits, Day, MaxTime, MaxPatches,
          MaxStops, None
VARIABLES now, rateRows, system, plan, payedUntil, keyStatus, planned, reserve, up,
          c, patches, stops, warned, owed, touched
Daily == INSTANCE Payments WITH
    Users <- Payers, Keys <- PaidKeys, Owner <- KeyOwner, MaxKeys <- Limits,
    rates <- rateRows, rate <- plan, status <- keyStatus

-----------------------------------------------------------------------------
(* KeyCountBound is VpnKeys' own; the others are those of Payments, the     *)
(* first with the types of its variables.                                   *)

\* Nobody keeps a paid tariff past its end while the check runs every day.
PaidPeriodEnds == Daily!TypeOK /\ Daily!PaidPeriodEnds

\* A user who bought a period loses it only after a mail that said so.
DowngradeIsAnnounced == Daily!DowngradeIsAnnounced

\* A downgrade leaves no more keys enabled than the base tariff allows.
DowngradeTrims == Daily!DowngradeTrims
=============================================================================
