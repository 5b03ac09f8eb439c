----------------------------- MODULE MCVpnKeys -----------------------------
(* Small instances of VpnKeys for TLC. *)
EXTENDS VpnKeys, TLC

CONSTANTS k1, k2, k3, alice, root, s1, s2, basic, pro, r1, r2

\* root is an administrator, alice is not.
MCRights == [u \in Users |-> IF u = root THEN RightNames ELSE {}]

\* One tariff for one key, a better one for two.
MCMaxKeys == [t \in Rates |-> IF t = pro THEN 2 ELSE 1]

\* Every key is alice's and on the one server.
OneOwner == [k \in Keys |-> alice]
OneHome  == [k \in Keys |-> s1]

\* k2 is root's own key, on a server of its own.
TwoOwners == [k \in Keys |-> IF k = k2 THEN root ELSE alice]
TwoHomes  == [k \in Keys |-> IF k = k2 THEN s2 ELSE s1]

\* Keys of one owner on one server are interchangeable, and so are slots.
KeyAndSlotSymmetry == Permutations(Keys) \cup Permutations(Reqs)
SlotSymmetry == Permutations(Reqs)

=============================================================================
