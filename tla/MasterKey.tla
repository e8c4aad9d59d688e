----------------------------- MODULE MasterKey ------------------------------
(***************************************************************************)
(* encryption.rs and keys.rs: the master key, wrapped by keys derived from *)
(* a PIN or a recovery key.                                                *)
(*                                                                         *)
(* Argon2id is ideal: distinct inputs or salts give distinct keys.  Its    *)
(* error arms are dead: the parameters are constants, and a salt of        *)
(* generate_salt has 32 bytes.  So is the length check of the unwrapping:  *)
(* nothing but a [u8; 32] is ever wrapped, and no other blob opens.        *)
(***************************************************************************)
EXTENDS Aead

CONSTANTS MasterKeys, Salts, RecoveryKeys

(* fill_bytes may return anything: the values a generator may give, also   *)
(* one it gave before.                                                     *)
generate_master_key   == MasterKeys
generate_salt         == Salts
generate_recovery_key == RecoveryKeys

(* encryption::derive_key.                                                 *)
derive_wrapping_key(input, salt) == [input |-> input, salt |-> salt]

(* Fault: the two arguments, both [u8; 32], are exchanged.                 *)
WrapSwapped(derived_key, master_key, nonce) == encrypt(master_key, derived_key, nonce)

wrap_master_key(derived_key, master_key, nonce) == encrypt(derived_key, master_key, nonce)

(* Fault: a failed decryption leaves the key of zeros it began with.       *)
UnwrapToZeros(derived_key, wrapped) ==
    LET r == decrypt(derived_key, wrapped) IN IF r.ok THEN r ELSE Ok("zeros")

unwrap_master_key(derived_key, wrapped) == decrypt(derived_key, wrapped)

=============================================================================
