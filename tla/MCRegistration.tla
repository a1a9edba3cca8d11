--------------------------- MODULE MCRegistration ---------------------------
(* Three checkouts: two of Ann's, which are alike, and one of Bob's. *)
EXTENDS Registration, TLC

CONSTANTS ann1, ann2, bob1

OrderBuyers == [o \in Orders |-> IF o = bob1 THEN "bob" ELSE "ann"]
Symmetry == Permutations({ann1, ann2})
=============================================================================
