----------------------------- MODULE MCKeychain -----------------------------
(* Small instances of Keychain for TLC.                                    *)
EXTENDS Keychain, TLC

CONSTANTS k1, k2, a1, a2

KeySymmetry == Permutations({k1, k2}) \cup Permutations({a1, a2})
=============================================================================
