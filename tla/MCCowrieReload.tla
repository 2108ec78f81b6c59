--------------------------- MODULE MCCowrieReload ---------------------------
EXTENDS CowrieReload, TLC

(* Configurations are interchangeable.                                     *)
Symmetry == Permutations(Config)
=============================================================================
