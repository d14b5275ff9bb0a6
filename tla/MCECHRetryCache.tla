-------------------------- MODULE MCECHRetryCache ---------------------------
(***************************************************************************)
(* Three hosts compete for two places, so that eviction, reordering by a   *)
(* hit and expiry all happen.                                              *)
(***************************************************************************)
EXTENDS ECHRetryCacheHistory, TLC

CONSTANTS h1, h2, h3, c1, c2

MCHost == {h1, h2, h3}
MCConfig == {c1, c2}

Symmetry == Permutations(MCHost) \cup Permutations(MCConfig)
=============================================================================
