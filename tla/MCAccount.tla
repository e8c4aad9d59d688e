----------------------------- MODULE MCAccount ------------------------------
(* Small instances of Account for TLC.                                     *)
EXTENDS Account, TLC

CONSTANTS d1, d2, k1, k2, s1, s2, r1, r2, n1

(* A user id and a PIN that run together to the bytes of another pair.     *)
TwoUsers == {<<1>>, <<1, 2>>}
OneUser  == {<<1>>}
TwoPins  == {<<2, 3>>, <<3>>}

Json(v) == Leaf("json", v)
OneContent  == {Json("c1")}

GeneratedSymmetry ==
    Permutations(Devices) \cup Permutations(MasterKeys)
        \cup Permutations(Salts) \cup Permutations(RecoveryKeys)

=============================================================================
