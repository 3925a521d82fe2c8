------------------------ MODULE MC_InactiveValidators ------------------------
(* Five accounts that may declare the intention to validate, scanned two  *)
(* keys a page, so the scan meets 0 to 5 keys, full pages and a short one. *)
(* Account 1 may be active, and so may 6, which does not validate (chilled *)
(* during the era).  Three nominators, one cap of one rewarded nominator.  *)
(* Validators 2 and 3 share super account 10, which has an identity; the  *)
(* super account 11 of validator 4 has none.                              *)
EXTENDS InactiveValidators

MCTargets == [n \in {7, 8, 9} |->
                CASE n = 7 -> {2, 3} [] n = 8 -> {3} [] n = 9 -> {3, 4}]

MCSuperOf == [v \in {2, 3, 4} |-> IF v = 4 THEN 11 ELSE 10]
=============================================================================
