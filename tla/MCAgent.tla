------------------------------- MODULE MCAgent -------------------------------
(***************************************************************************)
(* Instances of Agent for TLC.                                             *)
(***************************************************************************)
EXTENDS Agent, TLC

\* Clients and passwords are interchangeable.
Symmetry == Permutations(Clients) \cup Permutations(Passwords)

===============================================================================
