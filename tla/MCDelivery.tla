----------------------------- MODULE MCDelivery -----------------------------
(* Delivery for TLC: connections, User objects and messages are            *)
(* interchangeable.                                                        *)
EXTENDS Delivery, TLC

Symmetry == Permutations(Conns) \cup Permutations(Users) \cup Permutations(Msgs)
=============================================================================
