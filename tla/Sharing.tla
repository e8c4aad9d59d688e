------------------------------ MODULE Sharing -------------------------------
(***************************************************************************)
(* keys.rs as its callers use it: users share profile keys and payloads    *)
(* through a server that keeps public keys, the users' keys encrypted      *)
(* under their master keys, and the shares.                                *)
(*                                                                         *)
(* A user is named by the master key of the account.  The server may hand  *)
(* any share to anyone, as from anyone, late, several times or never.  A   *)
(* user may replace the keypair at any time, also while shares for the old *)
(* one are under way, and may stop between any two calls: between storing  *)
(* a new private key and publishing its public key, between reading a      *)
(* recipient's public key and sealing for it.                              *)
(***************************************************************************)
EXTENDS KeyWrapping

CONSTANTS
    Users,          \* accounts, each with its master key
    Pairs,          \* X25519 keypairs
    ProfileKeys,    \* profile keys
    Nonces,         \* what fill_bytes can return
    None            \* no row, no keypair, no user

(* Payloads other than keys are told from keys by their length alone.      *)
ASSUME LengthsAssumption ==
    /\ NotKeys \cap Pairs = {}
    /\ NotKeys \cap ProfileKeys = {}

ASSUME NoneAssumption ==
    /\ None \notin Users
    /\ None \notin Pairs

VARIABLES
    owner,      \* who generated a keypair, or None
    private,    \* private[u]: the stored private key of u, encrypted
    public,     \* public[u]: the public key the server shows for u
    pending,    \* pending[u]: a keypair stored, its public key not yet sent
    wrapped,    \* wrapped[u]: the profile keys u keeps, encrypted
    target,     \* target[u]: the recipient and public key u read to seal for
    shares,     \* the blobs left with the server
    sealings,   \* history: every sealing, with its parties and keypairs
    entrusted   \* history: entrusted[k]: who made k or was sealed it

vars == <<owner, private, public, pending, wrapped, target, shares, sealings, entrusted>>

keys == <<owner, private, public, pending>>

-----------------------------------------------------------------------------
Init ==
    /\ owner     = [p \in Pairs |-> None]
    /\ private   = [u \in Users |-> None]
    /\ public    = [u \in Users |-> None]
    /\ pending   = [u \in Users |-> None]
    /\ wrapped   = [u \in Users |-> {}]
    /\ target    = [u \in Users |-> None]
    /\ shares    = {}
    /\ sealings  = {}
    /\ entrusted = [k \in ProfileKeys |-> {}]

(* generate_x25519_keypair and encrypt_private_key; the result replaces    *)
(* the stored private key.  A random keypair is nobody else's.             *)
NewKeypair(u, p, n) ==
    LET r == encrypt_private_key(u, p, n)
    IN  /\ owner[p] = None
        /\ r.ok
        /\ owner'   = [owner EXCEPT ![p] = u]
        /\ private' = [private EXCEPT ![u] = r.val]
        /\ pending' = [pending EXCEPT ![u] = p]
        /\ UNCHANGED <<public, wrapped, target, shares, sealings, entrusted>>

(* The public key of the new keypair reaches the server.                   *)
Publish(u) ==
    /\ pending[u] # None
    /\ public'  = [public EXCEPT ![u] = pending[u]]
    /\ pending' = [pending EXCEPT ![u] = None]
    /\ UNCHANGED <<owner, private, wrapped, target, shares, sealings, entrusted>>

(* generate_profile_key and wrap_profile_key_with_master.                  *)
NewProfileKey(u, k, n) ==
    LET r == wrap_profile_key_with_master(u, k, n)
    IN  /\ entrusted[k] = {}
        /\ r.ok
        /\ wrapped'   = [wrapped EXCEPT ![u] = @ \cup {r.val}]
        /\ entrusted' = [entrusted EXCEPT ![k] = {u}]
        /\ UNCHANGED <<keys, target, shares, sealings>>

(* u reads the public key of the user it is about to seal for.             *)
ReadPublic(u, v) ==
    /\ public[v] # None
    /\ target' = [target EXCEPT ![u] = [to |-> v, key |-> public[v]]]
    /\ UNCHANGED <<keys, wrapped, shares, sealings, entrusted>>

(* What a sealing leaves with the server, and in the history.              *)
Leave(u, own, plain, blob) ==
    /\ shares'   = shares \cup {blob}
    /\ sealings' = sealings \cup
          {[from |-> u, own |-> own, to |-> target[u].to, key |-> target[u].key,
            plain |-> plain, blob |-> blob]}
    /\ target'   = [target EXCEPT ![u] = None]

(* u opens its private key and one of its profile keys, and seals the      *)
(* profile key for the public key it has read.                             *)
ShareKey(u, w, n) ==
    LET own == decrypt_private_key(u, private[u])
        k   == unwrap_profile_key_with_master(u, w)
        r   == encrypt_profile_key_for_sharing(own.val, target[u].key, k.val, n)
    IN  /\ target[u] # None /\ private[u] # None
        /\ w \in wrapped[u]
        /\ own.ok /\ k.ok /\ r.ok
        /\ Leave(u, own.val, k.val, r.val)
        /\ entrusted' = [entrusted EXCEPT ![k.val] = @ \cup {target[u].to}]
        /\ UNCHANGED <<keys, wrapped>>

(* The same with a payload of another length.                              *)
ShareBlob(u, plain, n) ==
    LET own == decrypt_private_key(u, private[u])
        r   == encrypt_blob_for_sharing(own.val, target[u].key, plain, n)
    IN  /\ target[u] # None /\ private[u] # None
        /\ own.ok /\ r.ok
        /\ Leave(u, own.val, plain, r.val)
        /\ UNCHANGED <<keys, wrapped, entrusted>>

(* v is handed a share as coming from u, opens it with the public key the  *)
(* server shows for u, and keeps the profile key under its own master key. *)
Accept(v, u, blob, n) ==
    LET own == decrypt_private_key(v, private[v])
        k   == decrypt_shared_profile_key(own.val, public[u], blob)
        r   == wrap_profile_key_with_master(v, k.val, n)
    IN  /\ private[v] # None /\ public[u] # None
        /\ blob \in shares
        /\ own.ok /\ k.ok /\ r.ok
        /\ wrapped' = [wrapped EXCEPT ![v] = @ \cup {r.val}]
        /\ UNCHANGED <<keys, target, shares, sealings, entrusted>>

(* The process of u stops: what it had not sent is gone.                   *)
Crash(u) ==
    /\ pending' = [pending EXCEPT ![u] = None]
    /\ target'  = [target EXCEPT ![u] = None]
    /\ UNCHANGED <<owner, private, public, wrapped, shares, sealings, entrusted>>

Next ==
    \/ \E u \in Users, p \in Pairs, n \in Nonces : NewKeypair(u, p, n)
    \/ \E u \in Users : Publish(u) \/ Crash(u)
    \/ \E u \in Users, k \in ProfileKeys, n \in Nonces : NewProfileKey(u, k, n)
    \/ \E u, v \in Users : ReadPublic(u, v)
    \/ \E u \in Users, n \in Nonces : \E w \in wrapped[u] : ShareKey(u, w, n)
    \/ \E u \in Users, plain \in NotKeys, n \in Nonces : ShareBlob(u, plain, n)
    \/ \E v, u \in Users, n \in Nonces : \E blob \in shares : Accept(v, u, blob, n)

Spec == Init /\ [][Next]_vars

-----------------------------------------------------------------------------
(* Types                                                                   *)

Payloads == ProfileKeys \cup NotKeys

SharedBoxes ==
    {Box(derive_sharing_key({p, q}), n, x) : p \in Pairs, q \in Pairs, n \in Nonces, x \in Payloads}

Sealings ==
    [from : Users, own : Pairs, to : Users, key : Pairs, plain : Payloads, blob : SharedBoxes]

(* Stored private keys are boxes of the user's own master key and keypair, *)
(* kept profile keys are profile keys under the user's own master key: no  *)
(* payload of another length is ever kept as a key (as_key).               *)
TypeOK ==
    /\ owner   \in [Pairs -> Users \cup {None}]
    /\ DOMAIN private = Users /\ DOMAIN wrapped = Users
    /\ \A u \in Users : private[u] = None
                        \/ \E p \in Pairs, n \in Nonces : private[u] = Box(u, n, p)
    /\ public  \in [Users -> Pairs \cup {None}]
    /\ pending \in [Users -> Pairs \cup {None}]
    /\ \A u \in Users : wrapped[u] \subseteq {Box(u, n, k) : n \in Nonces, k \in ProfileKeys}
    /\ target  \in [Users -> {None} \cup [to : Users, key : Pairs]]
    /\ sealings \subseteq Sealings
    /\ shares = {s.blob : s \in sealings}
    /\ entrusted \in [ProfileKeys -> SUBSET Users]

-----------------------------------------------------------------------------
(* Safety                                                                  *)

(* The profile keys u can open with its master key.                        *)
Holds(u) == {unwrap_profile_key_with_master(u, w).val : w \in wrapped[u]}

(* Whatever the server hands to whom, and however keypairs were replaced:  *)
(* whoever holds a profile key made it or is someone for whom a holder     *)
(* sealed it ("a non-recipient must not be able to decrypt the share",     *)
(* keys.rs:338), along any chain of further sharing.                       *)
KeysStayEntrusted ==
    \A u \in Users : \A k \in Holds(u) : u \in entrusted[k]

(* A share that opens for v under the public key shown for u holds what    *)
(* one of the two sealed for the other.  The secret is the same on both    *)
(* sides, so it does not tell which of them: "the recipient can't be       *)
(* tricked into accepting a key that wasn't sealed by the claimed owner"   *)
(* (keys.rs:342) holds of every share but the recipient's own.             *)
OpenedSharesAreOfThePair ==
    \A v, u \in Users : \A blob \in shares :
        LET own == decrypt_private_key(v, private[v])
            r   == decrypt_shared_blob(own.val, public[u], blob)
        IN  private[v] # None /\ public[u] # None /\ own.ok /\ r.ok
            => \E s \in sealings : /\ {s.from, s.to} = {u, v}
                                   /\ s.plain = r.val

(* A share opens for its recipient, to what was sealed, as long as the     *)
(* recipient still stores the keypair it was sealed for and the server     *)
(* still shows the sender's: restarts, delays and the replacement of other *)
(* keypairs do not matter.                                                 *)
SharesReachRecipient ==
    \A s \in sealings :
        private[s.to] # None /\ public[s.from] = s.own
        => LET own == decrypt_private_key(s.to, private[s.to])
           IN  own = Ok(s.key) => decrypt_shared_blob(own.val, public[s.from], s.blob) = Ok(s.plain)

-----------------------------------------------------------------------------
(* Refinement: sharing implements Entrustment.                             *)

Promise == INSTANCE Entrustment WITH
    holders <- [k \in ProfileKeys |-> {u \in Users : k \in Holds(u)}],
    offers  <- [k \in ProfileKeys |-> {<<s.from, s.to>> : s \in {t \in sealings : t.plain = k}}]

(* Every step is a step of Entrustment: whichever share the server hands   *)
(* to whom, and although the secret is the same on both sides, a profile   *)
(* key reaches only the user a holder sealed it for, and no replaced       *)
(* keypair takes from a user a key it once held.                           *)
ImplementsEntrustment == Promise!Spec

=============================================================================
