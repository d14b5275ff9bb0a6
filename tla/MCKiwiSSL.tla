----------------------------- MODULE MCKiwiSSL ------------------------------
(***************************************************************************)
(* Two server keys; lists that mix supported and unsupported versions,     *)
(* contents that are rejected and bytes that cannot be read.               *)
(***************************************************************************)
EXTENDS KiwiSSL, TLC

CONSTANTS k1, k2, c1, c2

Good(v, k) == [version |-> v, contents |-> k]

Symmetry == Permutations(Conn)

MCLists ==
    { << Good(Draft13, k1) >>,
      << Good("other", k2), Good(Draft12, k1) >>,
      << Good(Draft13, k2), Broken, Good(Draft13, k1) >>,
      << Good(Draft13, Garbage), Broken >> }

MCRetryLists ==
    { << Good(Draft13, k1) >>,
      << Good("other", k2) >>,
      << Broken, Good(Draft13, k1) >> }

OneList == { << Good(Draft13, k1) >> }

HonestRetryLists == { << Good(Draft13, k1) >>, << Good(Draft13, Garbage), Good("other", k2) >> }

AllFeatures == { FeatureName }

SomeFeatures == { FeatureName, {"PQ", "Permute"} }
=============================================================================
