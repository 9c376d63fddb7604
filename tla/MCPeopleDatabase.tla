------------------------- MODULE MCPeopleDatabase -------------------------
(***************************************************************************)
(* Accounts and slots are interchangeable: no operation tells one from     *)
(* another, and every property checked with the symmetry is a safety one.  *)
(***************************************************************************)
EXTENDS PeopleDatabase, TLC

Symmetry == Permutations(Accounts) \cup Permutations(Slots)
=============================================================================
