---------------------------- MODULE MCSessionInbox ----------------------------
(* SessionInbox for TLC: IDs and clients are interchangeable.              *)
EXTENDS SessionInbox

Symmetry == Permutations(Ids) \cup Permutations(Clients)
===============================================================================
