------------------------------ MODULE Requests ------------------------------
(* What the modules of the services share: one worker is one request being *)
(* served.  A request interleaves with the others at its awaits.           *)
EXTENDS Integers, Sequences, FiniteSets, FiniteSetsExt

CONSTANTS Workers, Users, Products, None

ASSUME NoneAssumption    == None \notin Workers \cup Users \cup Products
ASSUME WorkersAssumption == IsFiniteSet(Workers)
=============================================================================
