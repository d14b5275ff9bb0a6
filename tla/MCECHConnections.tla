-------------------------- MODULE MCECHConnections --------------------------
(***************************************************************************)
(* Connection types: two the observer handles and one it ignores.          *)
(***************************************************************************)
EXTENDS ECHConnections, TLC

MCNetworkType == {"WIFI", "5G", "3G"}

Symmetry == Permutations(Conn) \cup Permutations(Host)
=============================================================================
