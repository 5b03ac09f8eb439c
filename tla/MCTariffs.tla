----------------------------- MODULE MCTariffs -----------------------------
(***************************************************************************)
(* Tariffs for TLC: the handlers of keys, with the small instance of        *)
(* MCVpnKeys, and the daily check of payments, with one user, two keys, six *)
(* days of two clock units, two tariff changes and one stop of the Gateway. *)
(* A behaviour picks one of them at the start and runs it alone, the other  *)
(* stays in an initial state.                                               *)
(***************************************************************************)
EXTENDS MCVpnKeys, Tariffs

VARIABLE case

keyVars == vars
paymentVars == <<now, rateRows, system, plan, payedUntil, keyStatus, planned,
                 reserve, up, c, patches, stops, warned, owed, touched>>

OnePayer == [k \in PaidKeys |-> "u1"]
OneAndTwo == [base |-> 1, paid |-> 2]

ASSUME TariffsAssumption == Daily!PaymentsAssumption

TariffsInit ==
    /\ case \in {"keys", "payments"}
    /\ Init
    /\ Daily!Init
    /\ case = "keys" => /\ rateRows /\ system
                        /\ \A k \in PaidKeys : keyStatus[k] = "Disabled"

TariffsNext ==
    /\ UNCHANGED case
    /\ \/ case = "keys" /\ Next /\ UNCHANGED paymentVars
       \/ case = "payments" /\ Daily!Next /\ UNCHANGED keyVars

TariffsSpec == TariffsInit /\ [][TariffsNext]_<<case, keyVars, paymentVars>>
=============================================================================
