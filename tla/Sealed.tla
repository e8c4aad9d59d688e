------------------------------- MODULE Sealed -------------------------------
(***************************************************************************)
(* sealed.rs: the "e2ee:" wire format over the cipher.                     *)
(*                                                                         *)
(* A byte string is described by what the code can tell apart:             *)
(*   json     text that parses as JSON (it cannot start with "e2ee:")      *)
(*   text     any other UTF-8 text without the prefix                      *)
(*   binary   bytes that are not UTF-8                                     *)
(*   wire     "e2ee:" followed by the base64 of raw                        *)
(*   badwire  "e2ee:" followed by something that is not base64             *)
(* A stored field is a Rust str, hence any of these but binary.            *)
(***************************************************************************)
EXTENDS Aead

Leaf(form, v) == [form |-> form, v |-> v]
Wire(raw)     == [form |-> "wire", raw |-> raw]

starts_with_prefix(s) == s.form \in {"wire", "badwire"}

-----------------------------------------------------------------------------
(* Bytes                                                                   *)

seal_bytes(key, plain, nonce) ==
    LET raw == encrypt(key, plain, nonce)
    IN  IF raw.ok THEN Ok(Wire(raw.val)) ELSE raw

(* Fault: the strict reader also lets plaintext rows through.              *)
UnsealTakesPlaintext(key, stored) ==
    IF starts_with_prefix(stored) /\ stored.form = "wire"
    THEN decrypt(key, stored.raw) ELSE Ok(stored)

unseal_bytes(key, stored) ==
    CASE ~starts_with_prefix(stored) -> Err("MissingE2eePrefix")
      [] stored.form = "badwire"     -> Err("Base64")
      [] stored.form = "wire"        -> decrypt(key, stored.raw)

(* Fault: a prefixed field that does not open is passed through as it is.  *)
TryUnsealFallsThrough(key, stored) ==
    LET r == unseal_bytes(key, stored) IN IF r.ok THEN r ELSE Ok(stored)

try_unseal_bytes(key, stored) ==
    IF starts_with_prefix(stored) THEN unseal_bytes(key, stored)
                                  ELSE Ok(stored)

-----------------------------------------------------------------------------
(* Strings: String::from_utf8 refuses exactly the binary forms.            *)

from_utf8(r) == IF r.ok /\ r.val.form = "binary" THEN Err("Utf8") ELSE r

seal_string(key, plain, nonce) == seal_bytes(key, plain, nonce)

unseal_string(key, stored) == from_utf8(unseal_bytes(key, stored))

try_unseal_string(key, stored) == from_utf8(try_unseal_bytes(key, stored))

-----------------------------------------------------------------------------
(* JSON: serde_json::from_str accepts exactly the json forms.  A value     *)
(* to_string cannot serialise has the form "opaque" here.                  *)

from_json(r) == IF r.ok /\ r.val.form # "json" THEN Err("Json") ELSE r

seal_json(key, value, nonce) ==
    IF value.form = "opaque" THEN Err("Json") ELSE seal_string(key, value, nonce)

unseal_json(key, stored) == from_json(unseal_string(key, stored))

try_unseal_json(key, stored) == from_json(try_unseal_string(key, stored))

=============================================================================
