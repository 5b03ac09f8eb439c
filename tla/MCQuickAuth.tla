---------------------------- MODULE MCQuickAuth ----------------------------
(* Small instances of QuickAuth for TLC. *)
EXTENDS QuickAuth, Naturals, FiniteSets, TLC

CONSTANTS u1, u2, c1, q1, q2, q3, x1, x2

\* Requests, users and sessions are interchangeable.
Symmetric == Permutations(Reqs) \cup Permutations(Users) \cup Permutations(Sessions)

\* At most one session expires or one account is deleted in a behaviour.
MaxLosses == 1
Losses == Cardinality(expired) + Cardinality(Users \ users) <= MaxLosses

=============================================================================
