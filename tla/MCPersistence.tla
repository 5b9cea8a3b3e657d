---------------------------- MODULE MCPersistence ----------------------------
(***************************************************************************)
(* Persistence for TLC.  No property tells two submissions or two handlers *)
(* apart.                                                                  *)
(***************************************************************************)
EXTENDS Persistence, TLC

Symmetry == Permutations(Ticket) \cup Permutations(Handler)

=============================================================================
