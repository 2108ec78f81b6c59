--------------------------- MODULE MCSensorConfig ---------------------------
EXTENDS SensorConfig, TLC

(* Configurations, requests and heartbeats are interchangeable.            *)
Symmetry == Permutations(Config) \cup Permutations(Request) \cup Permutations(Beat)
=============================================================================
