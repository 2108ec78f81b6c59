------------------------- MODULE MCCommandDelivery -------------------------
EXTENDS CommandDelivery, TLC

(* Connections are interchangeable, and so are REST requests.              *)
Symmetry == Permutations(Conn) \cup Permutations(Rest)
=============================================================================
