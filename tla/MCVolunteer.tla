---------------------------- MODULE MCVolunteer ----------------------------
(* A small instance of Volunteer for TLC. *)
EXTENDS Volunteer, TLC

Symmetry == Permutations(Users) \cup Permutations(Roles)
=============================================================================
