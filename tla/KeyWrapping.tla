---------------------------- MODULE KeyWrapping -----------------------------
(***************************************************************************)
(* keys.rs: keys stored encrypted under the master key, and the sealing of *)
(* payloads between two X25519 keypairs.                                   *)
(*                                                                         *)
(* X25519 is ideal: a keypair is named by its private key, two keypairs    *)
(* agree on one secret, whichever side computes it, and no other two agree *)
(* on the same.                                                            *)
(***************************************************************************)
EXTENDS Namespace, Aead

CONSTANT NotKeys    \* payloads that do not have 32 bytes

-----------------------------------------------------------------------------
(* Keys under the master key                                               *)

(* Fault: the length of what was opened is not checked.                    *)
AsKeyUnchecked(r) == r

(* copy_from_slice into [u8; 32], after the check of the length.           *)
as_key(r) == IF r.ok /\ r.val \in NotKeys THEN Err("InvalidKeyLength") ELSE r

encrypt_private_key(master, private, nonce) == encrypt(master, private, nonce)

decrypt_private_key(master, encrypted) == as_key(decrypt(master, encrypted))

wrap_profile_key_with_master(master, key, nonce) == encrypt(master, key, nonce)

unwrap_profile_key_with_master(master, wrapped) == as_key(decrypt(master, wrapped))

-----------------------------------------------------------------------------
(* Payloads between two keypairs                                           *)

(* Fault: only the other side's key enters the secret.                     *)
DhOfTheirs(my_private, their_public) == {their_public}

(* Fault: the secret depends on which side computes it.                    *)
DhDirected(my_private, their_public) == <<my_private, their_public>>

x25519_diffie_hellman(my_private, their_public) == {my_private, their_public}

(* Fault: the secret does not enter the key.                               *)
SharingKeyWithoutSecret(secret) == hkdf({}, info(ProfileSharing, 0))

derive_sharing_key(secret) == hkdf(secret, info(ProfileSharing, 0))

encrypt_blob_for_sharing(sender_private, recipient_public, plain, nonce) ==
    encrypt(derive_sharing_key(x25519_diffie_hellman(sender_private, recipient_public)),
            plain, nonce)

decrypt_shared_blob(recipient_private, sender_public, data) ==
    decrypt(derive_sharing_key(x25519_diffie_hellman(recipient_private, sender_public)), data)

encrypt_profile_key_for_sharing(sender_private, recipient_public, key, nonce) ==
    encrypt_blob_for_sharing(sender_private, recipient_public, key, nonce)

decrypt_shared_profile_key(recipient_private, sender_public, data) ==
    as_key(decrypt_shared_blob(recipient_private, sender_public, data))

=============================================================================
