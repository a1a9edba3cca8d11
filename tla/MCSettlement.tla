---------------------------- MODULE MCSettlement ----------------------------
(* A ticket and then a donation of the same worth; the cap covers one.  The  *)
(* payout profile is restricted (KYC keeps its tier), BASIC or FULL.         *)
EXTENDS Settlement, TLC

CONSTANTS r1, r2, b1, b2

EqualShares == [p \in Payments |-> 2]
SomeProfiles == {[active |-> FALSE, tier |-> "FULL"],
                 [active |-> TRUE, tier |-> "BASIC"], [active |-> TRUE, tier |-> "FULL"]}
Symmetry == Permutations(Requests) \cup Permutations(Batches)
=============================================================================
