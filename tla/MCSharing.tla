----------------------------- MODULE MCSharing ------------------------------
(* A small instance of Sharing for TLC.                                    *)
EXTENDS Sharing, FiniteSets, TLC

CONSTANTS u1, u2, u3, p1, p2, p3, MaxSealings

(* Bound: how many sealings are ever made.                                 *)
SealingsBound == Cardinality(sealings) <= MaxSealings

PairUserSymmetry == Permutations({u1, u2, u3}) \cup Permutations({p1, p2, p3})
=============================================================================
