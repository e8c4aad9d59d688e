--------------------------- MODULE MCRecoveryKey ----------------------------
(* A small instance of RecoveryKey for TLC.                                *)
EXTENDS RecoveryKey

(* Two bytes, with and without letters, leading zeros, equal digits.       *)
TwoByteKeys == [1 .. 2 -> {10, 31, 160}]

(* The filter of the model is the library's, on every short text.          *)
ASSUME OnlyIsSelectSeq ==
    \A s \in BoundedSeq({"A", "a", "-", "+"}, 5) :
        \A chars \in SUBSET {"A", "a", "-", "+"} :
            only(chars, s) = SelectSeq(s, LAMBDA c : c \in chars)
=============================================================================
