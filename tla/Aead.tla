-------------------------------- MODULE Aead --------------------------------
(***************************************************************************)
(* encryption.rs: AES-256-GCM as the code uses it.                         *)
(*                                                                         *)
(* The cipher is ideal: what encrypt returns is a box that only its own    *)
(* key opens, and any other byte string fails to authenticate.  A byte     *)
(* string handed to decrypt is therefore a box or noise of some length.    *)
(***************************************************************************)
EXTENDS Naturals

(* CryptoResult<T> of error.rs: a value or the name of the error variant.  *)
Ok(v)  == [ok |-> TRUE, val |-> v]
Err(e) == [ok |-> FALSE, err |-> e]

Overhead == 12 + 16     \* nonce (12 bytes) and tag (16 bytes)

Box(key, nonce, plain) ==
    [tag |-> "box", key |-> key, nonce |-> nonce, plain |-> plain]

(* Bytes encrypt never returned: a damaged, truncated or foreign blob.     *)
Noise(n) == [tag |-> "noise", len |-> n]

(* A box holds its nonce and its tag, so only noise can be too short.      *)
TooShort(data) == data.tag = "noise" /\ data.len < Overhead

(* Fault: the tag is not checked, whatever the key.                        *)
OpensUnchecked(key, data) == data.tag = "box"

Opens(key, data) == data.tag = "box" /\ data.key = key

(* The nonce is drawn by the caller of this operator: fill_bytes may       *)
(* return any value.  The error arms of the code are dead here: a key has  *)
(* 32 bytes by its type, and GCM refuses only texts beyond 2^36 bytes.     *)
encrypt(key, plain, nonce) == Ok(Box(key, nonce, plain))

decrypt(key, data) ==
    CASE TooShort(data)                       -> Err("CiphertextTooShort")
      [] ~TooShort(data) /\ Opens(key, data)  -> Ok(data.plain)
      [] ~TooShort(data) /\ ~Opens(key, data) -> Err("Decrypt")

=============================================================================
