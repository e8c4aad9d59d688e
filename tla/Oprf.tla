-------------------------------- MODULE Oprf --------------------------------
(***************************************************************************)
(* oprf.rs: the two hashes a PIN goes through, one before and one after    *)
(* the server evaluates it.                                                *)
(*                                                                         *)
(* SHA-256 is ideal: two digests are equal exactly when the hashed byte    *)
(* strings are.  What is hashed is kept as the sequence of bytes the       *)
(* updates append: whether two inputs can give one string is the question. *)
(***************************************************************************)
EXTENDS Naturals, Sequences

CONSTANT Width      \* how many lengths the four bytes of a u32 tell apart

ASSUME WidthAssumption == Width \in Nat \ {0}

sha256(bytes) == [digest |-> bytes]

(* user_id.len() as u32, in big-endian bytes: one symbol for the four.     *)
length_prefix(user) == <<Len(user) % Width>>

(* Fault: the user id is hashed without its length.                        *)
BlindWithoutLength(user, pin) == sha256(<<"incokit-oprf-v2">> \o user \o pin)

blind(user, pin) ==
    sha256(<<"incokit-oprf-v2">> \o length_prefix(user) \o user \o pin)

(* The server's HMAC of what it is sent: 32 bytes, one symbol, and ideal.  *)
evaluate(blinded) == <<[hmac |-> blinded]>>

finalize(user, pin, evaluated) ==
    sha256(<<"incokit-oprf-finalize-v2">> \o length_prefix(user) \o user \o pin \o evaluated)

=============================================================================
