--------------------------- MODULE SharingProofs ----------------------------
(***************************************************************************)
(* Proofs about Sharing, for any users, keypairs, keys and payloads: its   *)
(* invariants, then that it implements Entrustment.                        *)
(***************************************************************************)
EXTENDS Sharing, TLAPS

-----------------------------------------------------------------------------
(* What the operators of keys.rs return                                    *)

(* The sharing key determines the secret it was derived from               *)
(* (derive_sharing_key).                                                   *)
LEMMA SharingKeyInjective ==
    ASSUME NEW s, NEW t, derive_sharing_key(s) = derive_sharing_key(t)
    PROVE  s = t
<1> DEFINE i == info(ProfileSharing, 0)
<1>1. [ikm |-> s, info |-> i] = [ikm |-> t, info |-> i]
  BY DEF derive_sharing_key, hkdf
<1> HIDE DEF i
<1> QED
  BY <1>1

(* decrypt opens a box under its own key and under no other.               *)
LEMMA BoxOpens ==
    ASSUME NEW key, NEW k, NEW n, NEW x
    PROVE  /\ k = key => decrypt(key, Box(k, n, x)) = Ok(x)
           /\ k # key => decrypt(key, Box(k, n, x)) = Err("Decrypt")
<1> DEFINE b == Box(k, n, x)
<1>1. b.tag = "box" /\ b.key = k /\ b.plain = x
  BY DEF Box
<1> HIDE DEF b
<1>2. ~TooShort(b)
  BY <1>1 DEF TooShort
<1>3. Opens(key, b) <=> k = key
  BY <1>1 DEF Opens
<1>4. k = key => decrypt(key, b) = Ok(x)
  BY <1>1, <1>2, <1>3 DEF decrypt
<1>5. k # key => decrypt(key, b) = Err("Decrypt")
  BY <1>2, <1>3 DEF decrypt
<1> QED
  BY <1>4, <1>5 DEF b

(* A result says whether it is one.                                        *)
LEMMA Results ==
    ASSUME NEW v, NEW e
    PROVE  Ok(v).ok /\ Ok(v).val = v /\ ~Err(e).ok
<1>1. Ok(v).ok /\ Ok(v).val = v
  BY DEF Ok
<1>2. Err(e).ok = FALSE
  BY DEF Err
<1> QED
  BY <1>1, <1>2

(* Stored keys come back under the master key that wrapped them            *)
(* (decrypt_private_key, unwrap_profile_key_with_master).                  *)
LEMMA StoredKeysOpen ==
    ASSUME NEW u, NEW n, NEW x, x \notin NotKeys
    PROVE  /\ decrypt_private_key(u, Box(u, n, x)) = Ok(x)
           /\ unwrap_profile_key_with_master(u, Box(u, n, x)) = Ok(x)
<1>1. decrypt(u, Box(u, n, x)) = Ok(x)
  BY BoxOpens
<1>2. as_key(Ok(x)) = Ok(x)
  BY Results DEF as_key
<1> QED
  BY <1>1, <1>2 DEF decrypt_private_key, unwrap_profile_key_with_master

(* A share opens exactly for the two keypairs it was sealed between, to    *)
(* what was sealed (decrypt_shared_blob).                                  *)
LEMMA ShareOpensForPair ==
    ASSUME NEW own, NEW pub, NEW secret, NEW n, NEW x,
           NEW blob, blob = Box(derive_sharing_key(secret), n, x)
    PROVE  /\ x25519_diffie_hellman(own, pub) = secret
              => decrypt_shared_blob(own, pub, blob) = Ok(x)
           /\ decrypt_shared_blob(own, pub, blob).ok
              => /\ x25519_diffie_hellman(own, pub) = secret
                 /\ decrypt_shared_blob(own, pub, blob) = Ok(x)
<1> DEFINE k == derive_sharing_key(secret)
           d == x25519_diffie_hellman(own, pub)
           m == derive_sharing_key(d)
           r == decrypt_shared_blob(own, pub, blob)
<1>1. r = decrypt(m, Box(k, n, x))
  BY DEF decrypt_shared_blob
<1>2. d = secret => k = m
  OBVIOUS
<1>3. k = m => d = secret
  BY SharingKeyInjective
<1> HIDE DEF k, m, r, d
<1>4. k = m => r = Ok(x)
  BY <1>1, BoxOpens
<1>5. k # m => ~r.ok
  BY <1>1, BoxOpens, Results
<1> QED
  BY <1>2, <1>3, <1>4, <1>5 DEF r, d

(* A share taken as a profile key is opened as such, and has the length of *)
(* a key (decrypt_shared_profile_key).                                     *)
LEMMA SharedKeyIsKey ==
    ASSUME NEW own, NEW pub, NEW blob, decrypt_shared_profile_key(own, pub, blob).ok
    PROVE  /\ decrypt_shared_blob(own, pub, blob).ok
           /\ decrypt_shared_profile_key(own, pub, blob) = decrypt_shared_blob(own, pub, blob)
           /\ decrypt_shared_blob(own, pub, blob).val \notin NotKeys
<1> DEFINE r == decrypt_shared_blob(own, pub, blob)
<1>1. as_key(r).ok
  BY DEF decrypt_shared_profile_key
<1> HIDE DEF r
<1>2. ~(r.ok /\ r.val \in NotKeys)
  BY <1>1, Results DEF as_key
<1>3. as_key(r) = r
  BY <1>2 DEF as_key
<1> QED
  BY <1>1, <1>2, <1>3 DEF r, decrypt_shared_profile_key

-----------------------------------------------------------------------------
(* The inductive invariant                                                 *)

StoredPrivate(u, p) == \E n \in Nonces : private[u] = Box(u, n, p)

(* Wherever a public key travels, it stays with the user it was read from: *)
(* in the private column, on its way to the server, on the server, and in  *)
(* the hands of a user about to seal.                                      *)
KeypairsAreOwned ==
    /\ \A u \in Users :
          private[u] = None \/ \E p \in Pairs : StoredPrivate(u, p) /\ owner[p] = u
    /\ \A u \in Users : pending[u] # None => owner[pending[u]] = u
    /\ \A u \in Users : public[u] # None => owner[public[u]] = u
    /\ \A u \in Users : target[u] # None => owner[target[u].key] = target[u].to

(* A share is a box of the pair of keypairs of its two parties.            *)
SealedForPair ==
    \A s \in sealings :
        /\ owner[s.own] = s.from /\ owner[s.key] = s.to
        /\ \E n \in Nonces : s.blob = Box(derive_sharing_key({s.own, s.key}), n, s.plain)
        /\ s.plain \in ProfileKeys => {s.from, s.to} \subseteq entrusted[s.plain]

(* A profile key stored by u is one u made or was sealed.                  *)
StoredAreEntrusted ==
    \A u \in Users : \A w \in wrapped[u] : u \in entrusted[w.plain]

IInv == TypeOK /\ KeypairsAreOwned /\ SealedForPair /\ StoredAreEntrusted

(* What u reads back from its private column is a keypair it generated.    *)
LEMMA OwnPrivate ==
    ASSUME IInv, NEW u \in Users, private[u] # None
    PROVE  \E p \in Pairs : owner[p] = u /\ decrypt_private_key(u, private[u]) = Ok(p)
<1>1. PICK p \in Pairs : StoredPrivate(u, p) /\ owner[p] = u
  BY DEF IInv, KeypairsAreOwned
<1>2. PICK n \in Nonces : private[u] = Box(u, n, p)
  BY <1>1 DEF StoredPrivate
<1>3. p \notin NotKeys
  BY LengthsAssumption
<1>4. decrypt_private_key(u, private[u]) = Ok(p)
  BY <1>2, <1>3, StoredKeysOpen
<1> QED
  BY <1>1, <1>4

(* What u reads back from its profile keys is a key entrusted to it.       *)
LEMMA OwnProfileKey ==
    ASSUME IInv, NEW u \in Users, NEW w \in wrapped[u]
    PROVE  \E k \in ProfileKeys : u \in entrusted[k] /\ unwrap_profile_key_with_master(u, w) = Ok(k)
<1>1. PICK n \in Nonces, k \in ProfileKeys : w = Box(u, n, k)
  BY DEF IInv, TypeOK
<1>2. k \notin NotKeys
  BY LengthsAssumption
<1>3. unwrap_profile_key_with_master(u, w) = Ok(k)
  BY <1>1, <1>2, StoredKeysOpen
<1>4. w.plain = k
  BY <1>1 DEF Box
<1> QED
  BY <1>3, <1>4 DEF IInv, StoredAreEntrusted

(* A share that opens for v with the public key shown for u was sealed by  *)
(* one of the two for the other.                                           *)
LEMMA OpenedShare ==
    ASSUME IInv, NEW v \in Users, NEW u \in Users, NEW blob \in shares,
           private[v] # None, public[u] # None,
           decrypt_shared_blob(decrypt_private_key(v, private[v]).val, public[u], blob).ok
    PROVE  \E s \in sealings :
              /\ {s.from, s.to} = {u, v}
              /\ decrypt_shared_blob(decrypt_private_key(v, private[v]).val, public[u], blob)
                    = Ok(s.plain)
<1>1. PICK p \in Pairs : owner[p] = v /\ decrypt_private_key(v, private[v]) = Ok(p)
  BY OwnPrivate
<1>2. decrypt_private_key(v, private[v]).val = p
  BY <1>1, Results
<1>3. PICK s \in sealings : s.blob = blob
  BY DEF IInv, TypeOK
<1>4. PICK n \in Nonces : blob = Box(derive_sharing_key({s.own, s.key}), n, s.plain)
  BY <1>3 DEF IInv, SealedForPair
<1>5. {p, public[u]} = {s.own, s.key} /\ decrypt_shared_blob(p, public[u], blob) = Ok(s.plain)
  <2> DEFINE secret == {s.own, s.key}
  <2>1. decrypt_shared_blob(p, public[u], blob).ok
    BY <1>2
  <2> HIDE DEF secret
  <2>2. /\ x25519_diffie_hellman(p, public[u]) = secret
        /\ decrypt_shared_blob(p, public[u], blob) = Ok(s.plain)
    BY <1>4, <2>1, ShareOpensForPair DEF secret
  <2> QED
    BY <2>2 DEF secret, x25519_diffie_hellman
<1>6. owner[public[u]] = u
  BY DEF IInv, KeypairsAreOwned
<1>7. owner[s.own] = s.from /\ owner[s.key] = s.to
  BY DEF IInv, SealedForPair
<1> QED
  BY <1>1, <1>2, <1>5, <1>6, <1>7

LEMMA InitIInv == Init => IInv
<1> SUFFICES ASSUME Init PROVE IInv
  OBVIOUS
<1>1. TypeOK
  BY NoneAssumption DEF Init, TypeOK
<1>2. KeypairsAreOwned
  BY DEF Init, KeypairsAreOwned
<1>3. SealedForPair
  BY DEF Init, SealedForPair
<1>4. StoredAreEntrusted
  BY DEF Init, StoredAreEntrusted
<1> QED
  BY <1>1, <1>2, <1>3, <1>4 DEF IInv

(* A new keypair replaces the private one of its user, and no other user's *)
(* (generate_x25519_keypair, encrypt_private_key).                         *)
LEMMA NewKeypairStep ==
    ASSUME IInv, NEW u \in Users, NEW p \in Pairs, NEW n \in Nonces, NewKeypair(u, p, n)
    PROVE  IInv'
<1> USE DEF IInv
<1>1. /\ owner[p] = None
      /\ owner' = [owner EXCEPT ![p] = u]
      /\ pending' = [pending EXCEPT ![u] = p]
      /\ UNCHANGED <<public, wrapped, target, shares, sealings, entrusted>>
  BY DEF NewKeypair
<1>2. private' = [private EXCEPT ![u] = Box(u, n, p)]
  BY Results DEF NewKeypair, encrypt_private_key, encrypt
<1>3. TypeOK'
  <2>1. \A v \in Users : private'[v] = None
                          \/ \E q \in Pairs, m \in Nonces : private'[v] = Box(v, m, q)
    BY <1>2 DEF TypeOK
  <2>2. owner' \in [Pairs -> Users \cup {None}] /\ pending' \in [Users -> Pairs \cup {None}]
    BY <1>1 DEF TypeOK
  <2>3. DOMAIN private' = Users /\ DOMAIN wrapped' = Users
    BY <1>1, <1>2 DEF TypeOK
  <2>4. /\ sealings' \subseteq Sealings
        /\ shares' = {s.blob : s \in sealings'}
        /\ \A v \in Users : wrapped'[v] \subseteq {Box(v, m, k) : m \in Nonces, k \in ProfileKeys}
    BY <1>1 DEF TypeOK
  <2>5. /\ public' \in [Users -> Pairs \cup {None}]
        /\ target' \in [Users -> {None} \cup [to : Users, key : Pairs]]
        /\ entrusted' \in [ProfileKeys -> SUBSET Users]
    BY <1>1 DEF TypeOK
  <2> QED
    BY <2>1, <2>2, <2>3, <2>4, <2>5 DEF TypeOK
<1>4. \A q \in Pairs : owner[q] \in Users => owner'[q] = owner[q]
  BY <1>1, NoneAssumption DEF TypeOK
<1>5. KeypairsAreOwned'
  <2>1. owner'[p] = u
    BY <1>1 DEF TypeOK
  <2>2. ASSUME NEW v \in Users
        PROVE  private'[v] = None \/ \E q \in Pairs : StoredPrivate(v, q)' /\ owner'[q] = v
    <3>1. CASE v = u
      BY <1>2, <2>1, <3>1 DEF StoredPrivate, TypeOK
    <3>2. CASE v # u
      BY <1>2, <1>4, <3>2 DEF StoredPrivate, TypeOK, KeypairsAreOwned
    <3> QED
      BY <3>1, <3>2
  <2>3. ASSUME NEW v \in Users
        PROVE  /\ pending'[v] # None => owner'[pending'[v]] = v
               /\ public'[v] # None => owner'[public'[v]] = v
               /\ target'[v] # None => owner'[target'[v].key] = target'[v].to
    BY <1>1, <1>4, <2>1 DEF TypeOK, KeypairsAreOwned
  <2> QED
    BY <2>2, <2>3 DEF KeypairsAreOwned
<1>6. SealedForPair'
  <2> SUFFICES ASSUME NEW s \in sealings
               PROVE  owner'[s.own] = s.from /\ owner'[s.key] = s.to
    BY <1>1 DEF SealedForPair
  <2>1. s.own \in Pairs /\ s.from \in Users /\ s.key \in Pairs /\ s.to \in Users
    BY DEF TypeOK, Sealings
  <2> QED
    BY <1>4, <2>1 DEF SealedForPair
<1>7. StoredAreEntrusted'
  BY <1>1 DEF StoredAreEntrusted
<1> QED
  BY <1>3, <1>5, <1>6, <1>7

(* A profile key wrapped for a user it is entrusted to may be stored.      *)
LEMMA KeepStep ==
    ASSUME IInv, NEW u \in Users, NEW k \in ProfileKeys, NEW n \in Nonces,
           wrapped' = [wrapped EXCEPT ![u] = @ \cup {Box(u, n, k)}],
           UNCHANGED <<keys, target, shares, sealings>>,
           entrusted' \in [ProfileKeys -> SUBSET Users],
           \A j \in ProfileKeys : entrusted[j] \subseteq entrusted'[j],
           u \in entrusted'[k]
    PROVE  IInv'
<1> USE DEF IInv, keys
<1>1. TypeOK'
  <2>1. \A v \in Users :
           wrapped'[v] \subseteq {Box(v, m, j) : m \in Nonces, j \in ProfileKeys}
    BY DEF TypeOK
  <2> QED
    BY <2>1 DEF TypeOK
<1>2. KeypairsAreOwned'
  BY DEF KeypairsAreOwned, StoredPrivate
<1>3. SealedForPair'
  BY DEF SealedForPair
<1>4. StoredAreEntrusted'
  <2> SUFFICES ASSUME NEW v \in Users, NEW w \in wrapped'[v]
               PROVE  v \in entrusted'[w.plain]
    BY DEF StoredAreEntrusted
  <2>1. CASE w \in wrapped[v]
    <3>1. w.plain \in ProfileKeys
      BY <2>1 DEF TypeOK, Box
    <3> QED
      BY <2>1, <3>1 DEF StoredAreEntrusted
  <2>2. CASE w \notin wrapped[v]
    <3>1. v = u /\ w = Box(u, n, k)
      BY <2>2 DEF TypeOK
    <3> QED
      BY <3>1 DEF Box
  <2> QED
    BY <2>1, <2>2
<1> QED
  BY <1>1, <1>2, <1>3, <1>4

(* A share sealed with the user's own keypair for the public key it read   *)
(* may be left with the server.                                            *)
LEMMA LeaveStep ==
    ASSUME IInv, NEW u \in Users, target[u] # None,
           NEW own \in Pairs, owner[own] = u,
           NEW plain \in Payloads, NEW n \in Nonces, NEW blob,
           blob = Box(derive_sharing_key({own, target[u].key}), n, plain),
           Leave(u, own, plain, blob),
           UNCHANGED <<keys, wrapped>>,
           entrusted' \in [ProfileKeys -> SUBSET Users],
           \A k \in ProfileKeys : entrusted[k] \subseteq entrusted'[k],
           plain \in ProfileKeys => {u, target[u].to} \subseteq entrusted'[plain]
    PROVE  IInv'
<1> USE DEF IInv, keys
<1> DEFINE s == [from |-> u, own |-> own, to |-> target[u].to, key |-> target[u].key,
                 plain |-> plain, blob |-> blob]
<1>1. /\ sealings' = sealings \cup {s}
      /\ shares' = shares \cup {blob}
      /\ target' = [target EXCEPT ![u] = None]
  BY DEF Leave
<1>2. target[u] \in [to : Users, key : Pairs]
  BY DEF TypeOK
<1>3. TypeOK'
  <2>1. blob \in SharedBoxes
    <3> DEFINE q == target[u].key
    <3>1. q \in Pairs /\ blob = Box(derive_sharing_key({own, q}), n, plain)
      BY <1>2
    <3> HIDE DEF q
    <3> QED
      BY ONLY <3>1, own \in Pairs, n \in Nonces, plain \in Payloads DEF SharedBoxes
  <2>2. s \in Sealings
    BY <1>2, <2>1 DEF Sealings
  <2>3. sealings' \subseteq Sealings
    <3> HIDE DEF s
    <3> QED
      BY <1>1, <2>2 DEF TypeOK
  <2>4. shares' = {t.blob : t \in sealings'}
    <3>1. s.blob = blob
      OBVIOUS
    <3> HIDE DEF s
    <3> QED
      BY <1>1, <3>1 DEF TypeOK
  <2>5. target' \in [Users -> {None} \cup [to : Users, key : Pairs]]
    BY <1>1 DEF TypeOK
  <2> QED
    BY <2>3, <2>4, <2>5 DEF TypeOK
<1>4. KeypairsAreOwned'
  <2>1. \A v \in Users : target'[v] # None => target'[v] = target[v]
    BY <1>1 DEF TypeOK
  <2>2. \A v \in Users : target'[v] # None => owner'[target'[v].key] = target'[v].to
    BY <2>1 DEF KeypairsAreOwned
  <2> QED
    BY <2>2 DEF KeypairsAreOwned, StoredPrivate
<1>5. SealedForPair'
  <2> SUFFICES ASSUME NEW t \in sealings'
               PROVE  /\ owner[t.own] = t.from /\ owner[t.key] = t.to
                      /\ \E m \in Nonces :
                            t.blob = Box(derive_sharing_key({t.own, t.key}), m, t.plain)
                      /\ t.plain \in ProfileKeys => {t.from, t.to} \subseteq entrusted'[t.plain]
    BY DEF SealedForPair
  <2>1. CASE t \in sealings
    BY <2>1 DEF SealedForPair
  <2>2. CASE t = s
    <3>1. owner[target[u].key] = target[u].to
      BY DEF KeypairsAreOwned
    <3> QED
      BY <2>2, <3>1
  <2> QED
    BY <1>1, <2>1, <2>2
<1>6. StoredAreEntrusted'
  <2> SUFFICES ASSUME NEW v \in Users, NEW w \in wrapped[v]
               PROVE  v \in entrusted'[w.plain]
    BY DEF StoredAreEntrusted
  <2>1. w.plain \in ProfileKeys
    BY DEF TypeOK, Box
  <2> QED
    BY <2>1 DEF StoredAreEntrusted
<1> QED
  BY <1>3, <1>4, <1>5, <1>6

(* The actions that change who shows or reads which public key.            *)
LEMMA PublicStep ==
    ASSUME IInv, NEW u \in Users, Publish(u) \/ Crash(u) \/ \E v \in Users : ReadPublic(u, v)
    PROVE  IInv'
<1> USE DEF IInv
<1>1. UNCHANGED <<owner, private, wrapped, shares, sealings, entrusted>>
  BY DEF Publish, Crash, ReadPublic, keys
<1>2. /\ public' \in [Users -> Pairs \cup {None}]
      /\ pending' \in [Users -> Pairs \cup {None}]
      /\ target' \in [Users -> {None} \cup [to : Users, key : Pairs]]
      /\ \A v \in Users :
            /\ pending'[v] # None => owner[pending'[v]] = v
            /\ public'[v] # None => owner[public'[v]] = v
            /\ target'[v] # None => owner[target'[v].key] = target'[v].to
  <2>1. CASE Publish(u)
    BY <2>1 DEF Publish, TypeOK, KeypairsAreOwned
  <2>2. CASE Crash(u)
    BY <2>2 DEF Crash, TypeOK, KeypairsAreOwned
  <2>3. ASSUME NEW v \in Users, ReadPublic(u, v)
        PROVE  <1>2!:
    <3> DEFINE t == [to |-> v, key |-> public[v]]
    <3>1. public[v] # None /\ target' = [target EXCEPT ![u] = t] /\ UNCHANGED <<public, pending>>
      BY <2>3 DEF ReadPublic, keys
    <3>2. t \in [to : Users, key : Pairs] /\ owner[t.key] = t.to
      BY <3>1 DEF TypeOK, KeypairsAreOwned
    <3> HIDE DEF t
    <3> QED
      BY <3>1, <3>2 DEF TypeOK, KeypairsAreOwned
  <2> QED
    BY <2>1, <2>2, <2>3
<1>3. TypeOK'
  BY <1>1, <1>2 DEF TypeOK
<1>4. KeypairsAreOwned'
  BY <1>1, <1>2 DEF KeypairsAreOwned, StoredPrivate
<1>5. SealedForPair' /\ StoredAreEntrusted'
  BY <1>1 DEF SealedForPair, StoredAreEntrusted
<1> QED
  BY <1>3, <1>4, <1>5

LEMMA NewProfileKeyStep ==
    ASSUME IInv, NEW u \in Users, NEW k \in ProfileKeys, NEW n \in Nonces, NewProfileKey(u, k, n)
    PROVE  IInv'
<1>1. /\ wrapped' = [wrapped EXCEPT ![u] = @ \cup {Box(u, n, k)}]
      /\ UNCHANGED <<keys, target, shares, sealings>>
      /\ entrusted[k] = {}
      /\ entrusted' = [entrusted EXCEPT ![k] = {u}]
  BY Results DEF NewProfileKey, wrap_profile_key_with_master, encrypt
<1>2. /\ entrusted' \in [ProfileKeys -> SUBSET Users]
      /\ \A j \in ProfileKeys : entrusted[j] \subseteq entrusted'[j]
      /\ u \in entrusted'[k]
  BY <1>1 DEF IInv, TypeOK
<1> QED
  BY <1>1, <1>2, KeepStep

(* Sharing a profile key entrusts it to the owner of the key it is sealed  *)
(* for; the sharer had been entrusted with it before.                      *)
LEMMA ShareKeyStep ==
    ASSUME IInv, NEW u \in Users, NEW w \in wrapped[u], NEW n \in Nonces, ShareKey(u, w, n)
    PROVE  IInv'
<1>1. target[u] # None /\ private[u] # None /\ UNCHANGED <<keys, wrapped>>
  BY DEF ShareKey
<1>2. PICK own \in Pairs : owner[own] = u /\ decrypt_private_key(u, private[u]) = Ok(own)
  BY <1>1, OwnPrivate
<1>3. PICK k \in ProfileKeys : u \in entrusted[k] /\ unwrap_profile_key_with_master(u, w) = Ok(k)
  BY OwnProfileKey
<1> DEFINE blob == Box(derive_sharing_key({own, target[u].key}), n, k)
<1>4. /\ decrypt_private_key(u, private[u]).val = own
      /\ unwrap_profile_key_with_master(u, w).val = k
  BY <1>2, <1>3, Results
<1>5. encrypt_profile_key_for_sharing(own, target[u].key, k, n).val = blob
  BY Results DEF encrypt_profile_key_for_sharing, encrypt_blob_for_sharing, encrypt,
                 x25519_diffie_hellman
<1>6. /\ Leave(u, own, k, blob)
      /\ entrusted' = [entrusted EXCEPT ![k] = @ \cup {target[u].to}]
  BY <1>4, <1>5 DEF ShareKey
<1>7. target[u].to \in Users
  BY <1>1 DEF IInv, TypeOK
<1>8. /\ entrusted' \in [ProfileKeys -> SUBSET Users]
      /\ \A j \in ProfileKeys : entrusted[j] \subseteq entrusted'[j]
      /\ {u, target[u].to} \subseteq entrusted'[k]
  BY <1>3, <1>6, <1>7 DEF IInv, TypeOK
<1>9. k \in Payloads
  BY DEF Payloads
<1> HIDE DEF blob
<1> QED
  BY <1>1, <1>2, <1>6, <1>8, <1>9, LeaveStep DEF blob

LEMMA ShareBlobStep ==
    ASSUME IInv, NEW u \in Users, NEW plain \in NotKeys, NEW n \in Nonces, ShareBlob(u, plain, n)
    PROVE  IInv'
<1>1. target[u] # None /\ private[u] # None /\ UNCHANGED <<keys, wrapped, entrusted>>
  BY DEF ShareBlob
<1>2. PICK own \in Pairs : owner[own] = u /\ decrypt_private_key(u, private[u]) = Ok(own)
  BY <1>1, OwnPrivate
<1> DEFINE blob == Box(derive_sharing_key({own, target[u].key}), n, plain)
<1>3. decrypt_private_key(u, private[u]).val = own
  BY <1>2, Results
<1>4. encrypt_blob_for_sharing(own, target[u].key, plain, n).val = blob
  BY Results DEF encrypt_blob_for_sharing, encrypt, x25519_diffie_hellman
<1>5. Leave(u, own, plain, blob)
  BY <1>3, <1>4 DEF ShareBlob
<1>6. plain \in Payloads /\ plain \notin ProfileKeys
  BY LengthsAssumption DEF Payloads
<1>7. entrusted' \in [ProfileKeys -> SUBSET Users]
  BY <1>1 DEF IInv, TypeOK
<1> HIDE DEF blob
<1> QED
  BY <1>1, <1>2, <1>5, <1>6, <1>7, LeaveStep DEF blob

(* A share accepted as a profile key was sealed by one of the two parties  *)
(* for the other, and so entrusted to both.                                *)
LEMMA AcceptStep ==
    ASSUME IInv, NEW v \in Users, NEW u \in Users, NEW n \in Nonces, NEW blob \in shares,
           Accept(v, u, blob, n)
    PROVE  IInv'
<1> DEFINE own == decrypt_private_key(v, private[v]).val
           k   == decrypt_shared_profile_key(own, public[u], blob)
<1>1. /\ private[v] # None /\ public[u] # None
      /\ k.ok
      /\ wrapped' = [wrapped EXCEPT ![v] = @ \cup {Box(v, n, k.val)}]
      /\ UNCHANGED <<keys, target, shares, sealings, entrusted>>
  BY Results DEF Accept, wrap_profile_key_with_master, encrypt
<1> HIDE DEF own
<1>2. /\ decrypt_shared_blob(own, public[u], blob).ok
      /\ k = decrypt_shared_blob(own, public[u], blob)
      /\ k.val \notin NotKeys
  BY <1>1, SharedKeyIsKey
<1>3. PICK s \in sealings : {s.from, s.to} = {u, v} /\ k = Ok(s.plain)
  BY <1>1, <1>2, OpenedShare DEF own
<1>4. k.val = s.plain /\ s.plain \in Payloads
  BY <1>3, Results DEF IInv, TypeOK, Sealings
<1>5. s.plain \in ProfileKeys
  BY <1>2, <1>4 DEF Payloads
<1>6. v \in entrusted[s.plain]
  BY <1>3, <1>5 DEF IInv, SealedForPair
<1>7. entrusted' \in [ProfileKeys -> SUBSET Users]
  BY <1>1 DEF IInv, TypeOK
<1> HIDE DEF k
<1> QED
  BY <1>1, <1>4, <1>5, <1>6, <1>7, KeepStep

LEMMA IInvInductive == IInv /\ [Next]_vars => IInv'
<1> SUFFICES ASSUME IInv, [Next]_vars PROVE IInv'
  OBVIOUS
<1>1. ASSUME NEW u \in Users, NEW p \in Pairs, NEW n \in Nonces, NewKeypair(u, p, n)
      PROVE  IInv'
  BY <1>1, NewKeypairStep
<1>2. ASSUME NEW u \in Users, Publish(u) \/ Crash(u) \/ \E v \in Users : ReadPublic(u, v)
      PROVE  IInv'
  BY <1>2, PublicStep
<1>3. ASSUME NEW u \in Users, NEW k \in ProfileKeys, NEW n \in Nonces, NewProfileKey(u, k, n)
      PROVE  IInv'
  BY <1>3, NewProfileKeyStep
<1>4. ASSUME NEW u \in Users, NEW n \in Nonces, NEW w \in wrapped[u], ShareKey(u, w, n)
      PROVE  IInv'
  BY <1>4, ShareKeyStep
<1>5. ASSUME NEW u \in Users, NEW plain \in NotKeys, NEW n \in Nonces, ShareBlob(u, plain, n)
      PROVE  IInv'
  BY <1>5, ShareBlobStep
<1>6. ASSUME NEW v \in Users, NEW u \in Users, NEW n \in Nonces, NEW blob \in shares,
             Accept(v, u, blob, n)
      PROVE  IInv'
  BY <1>6, AcceptStep
<1>7. CASE UNCHANGED vars
  <2>1. TypeOK'
    BY <1>7 DEF vars, IInv, TypeOK
  <2>2. KeypairsAreOwned'
    BY <1>7 DEF vars, IInv, KeypairsAreOwned, StoredPrivate
  <2>3. SealedForPair' /\ StoredAreEntrusted'
    BY <1>7 DEF vars, IInv, SealedForPair, StoredAreEntrusted
  <2> QED
    BY <2>1, <2>2, <2>3 DEF IInv
<1> QED
  BY <1>1, <1>2, <1>3, <1>4, <1>5, <1>6, <1>7 DEF Next

LEMMA Invariance == Spec => []IInv
  BY InitIInv, IInvInductive, PTL DEF Spec

-----------------------------------------------------------------------------
(* Theorems                                                                *)

(* Private columns hold keypairs and profile-key columns hold profile      *)
(* keys, each under the master key of its user (as_key).                   *)
THEOREM TypeCorrect == Spec => []TypeOK
<1>1. IInv => TypeOK
  BY DEF IInv
<1> QED
  BY <1>1, Invariance, PTL

(* Whoever can open a profile key made it or was sealed it, whatever the   *)
(* server hands to whom (keys.rs:74-136, 175-204).                         *)
THEOREM OnlyTheEntrustedHoldKeys == Spec => []KeysStayEntrusted
<1>1. ASSUME IInv PROVE KeysStayEntrusted
  <2> SUFFICES ASSUME NEW u \in Users, NEW w \in wrapped[u]
               PROVE  u \in entrusted[unwrap_profile_key_with_master(u, w).val]
    BY DEF KeysStayEntrusted, Holds
  <2>1. PICK k \in ProfileKeys : u \in entrusted[k] /\ unwrap_profile_key_with_master(u, w) = Ok(k)
    BY <1>1, OwnProfileKey
  <2> QED
    BY <2>1, Results
<1> QED
  BY <1>1, Invariance, PTL

(* A share opens for nobody but the two users it was sealed between, to    *)
(* what one of them sealed (decrypt_shared_blob).                          *)
THEOREM SharesOpenForThePair == Spec => []OpenedSharesAreOfThePair
<1>1. ASSUME IInv PROVE OpenedSharesAreOfThePair
  <2> SUFFICES ASSUME NEW v \in Users, NEW u \in Users, NEW blob \in shares,
                      private[v] # None, public[u] # None,
                      decrypt_shared_blob(decrypt_private_key(v, private[v]).val,
                                          public[u], blob).ok
               PROVE  \E s \in sealings :
                         /\ {s.from, s.to} = {u, v}
                         /\ s.plain = decrypt_shared_blob(decrypt_private_key(v, private[v]).val,
                                                          public[u], blob).val
    BY DEF OpenedSharesAreOfThePair
  <2>1. PICK s \in sealings :
           /\ {s.from, s.to} = {u, v}
           /\ decrypt_shared_blob(decrypt_private_key(v, private[v]).val, public[u], blob)
                 = Ok(s.plain)
    BY <1>1, OpenedShare
  <2> QED
    BY <2>1, Results
<1> QED
  BY <1>1, Invariance, PTL

(* A share reaches its recipient while the two keypairs it was sealed      *)
(* between are in place.                                                   *)
THEOREM SharesReach == Spec => []SharesReachRecipient
<1>1. ASSUME IInv PROVE SharesReachRecipient
  <2> SUFFICES ASSUME NEW s \in sealings, public[s.from] = s.own,
                      decrypt_private_key(s.to, private[s.to]) = Ok(s.key)
               PROVE  decrypt_shared_blob(decrypt_private_key(s.to, private[s.to]).val,
                                          public[s.from], s.blob) = Ok(s.plain)
    BY DEF SharesReachRecipient
  <2>1. decrypt_private_key(s.to, private[s.to]).val = s.key
    BY Results
  <2> DEFINE secret == {s.own, s.key}
  <2>2. PICK n \in Nonces : s.blob = Box(derive_sharing_key(secret), n, s.plain)
    BY <1>1 DEF IInv, SealedForPair
  <2>3. x25519_diffie_hellman(s.key, s.own) = secret
    BY DEF x25519_diffie_hellman
  <2> HIDE DEF secret
  <2>4. decrypt_shared_blob(s.key, s.own, s.blob) = Ok(s.plain)
    BY <2>2, <2>3, ShareOpensForPair
  <2> QED
    BY <2>1, <2>4
<1> QED
  BY <1>1, Invariance, PTL

-----------------------------------------------------------------------------
(* Sharing implements Entrustment                                          *)

(* What Entrustment sees of the state.                                     *)
HolderMap == [k \in ProfileKeys |-> {u \in Users : k \in Holds(u)}]
OfferMap  == [k \in ProfileKeys |-> {<<s.from, s.to>> : s \in {t \in sealings : t.plain = k}}]

(* Whoever sealed a profile key still holds it: kept keys are never        *)
(* removed, and no longer depend on the keypair they came with.            *)
SealersHold ==
    \A s \in sealings : s.plain \in ProfileKeys => s.plain \in Holds(s.from)

RInv == IInv /\ SealersHold

-----------------------------------------------------------------------------
(* What steps do to the two maps                                           *)

(* A kept profile key makes its keeper a holder of it and of nothing else. *)
LEMMA KeptKeyIsHeld ==
    ASSUME IInv, NEW v \in Users, NEW k \in ProfileKeys, NEW n \in Nonces,
           wrapped' = [wrapped EXCEPT ![v] = @ \cup {Box(v, n, k)}]
    PROVE  /\ HolderMap' = [HolderMap EXCEPT ![k] = @ \cup {v}]
           /\ \A u \in Users : Holds(u) \subseteq Holds(u)'
<1>1. k \notin NotKeys
  BY LengthsAssumption
<1>2. unwrap_profile_key_with_master(v, Box(v, n, k)).val = k
  BY <1>1, StoredKeysOpen, Results
<1>3. DOMAIN wrapped = Users
  BY DEF IInv, TypeOK
<1>4. Holds(v)' = Holds(v) \cup {k}
  BY <1>2, <1>3 DEF Holds
<1>5. ASSUME NEW u \in Users, u # v
      PROVE  Holds(u)' = Holds(u)
  BY <1>3, <1>5 DEF Holds
<1>6. ASSUME NEW j \in ProfileKeys
      PROVE  {u \in Users : j \in Holds(u)}'
                = IF j = k THEN {u \in Users : j \in Holds(u)} \cup {v}
                           ELSE {u \in Users : j \in Holds(u)}
  BY <1>4, <1>5
<1>7. HolderMap' = [HolderMap EXCEPT ![k] = @ \cup {v}]
  BY <1>6 DEF HolderMap
<1> QED
  BY <1>4, <1>5, <1>7

(* Steps that keep no key and seal nothing change neither map.             *)
LEMMA MapsUntouched ==
    ASSUME SealersHold, UNCHANGED <<wrapped, sealings>>
    PROVE  UNCHANGED <<HolderMap, OfferMap>> /\ SealersHold'
  BY DEF HolderMap, OfferMap, SealersHold, Holds

(* A sealing of x adds one offer of x and, if x is no profile key, none.   *)
LEMMA SealingIsOffered ==
    ASSUME SealersHold, NEW u \in Users, NEW own, NEW x, NEW blob,
           Leave(u, own, x, blob), UNCHANGED wrapped,
           x \in ProfileKeys => x \in Holds(u)
    PROVE  /\ HolderMap' = HolderMap
           /\ SealersHold'
           /\ x \in ProfileKeys
              => OfferMap' = [OfferMap EXCEPT ![x] = @ \cup {<<u, target[u].to>>}]
           /\ x \notin ProfileKeys => OfferMap' = OfferMap
<1> DEFINE s == [from |-> u, own |-> own, to |-> target[u].to, key |-> target[u].key,
                 plain |-> x, blob |-> blob]
<1>1. sealings' = sealings \cup {s}
  BY DEF Leave
<1>2. s.from = u /\ s.to = target[u].to /\ s.plain = x
  OBVIOUS
<1> HIDE DEF s
<1>3. \A v : Holds(v)' = Holds(v)
  BY DEF Holds
<1>4. HolderMap' = HolderMap
  BY DEF HolderMap, Holds
<1>5. SealersHold'
  BY <1>1, <1>2, <1>3 DEF SealersHold
<1>6. ASSUME NEW j \in ProfileKeys
      PROVE  {<<t.from, t.to>> : t \in {y \in sealings' : y.plain = j}}
                = IF j = x THEN {<<t.from, t.to>> : t \in {y \in sealings : y.plain = j}}
                                  \cup {<<u, target[u].to>>}
                           ELSE {<<t.from, t.to>> : t \in {y \in sealings : y.plain = j}}
  BY <1>1, <1>2
<1>7. x \in ProfileKeys => OfferMap' = [OfferMap EXCEPT ![x] = @ \cup {<<u, target[u].to>>}]
  BY <1>6 DEF OfferMap
<1>8. x \notin ProfileKeys => OfferMap' = OfferMap
  BY <1>6 DEF OfferMap
<1> QED
  BY <1>4, <1>5, <1>7, <1>8

-----------------------------------------------------------------------------
(* The actions                                                             *)

(* What a step must be to Entrustment, with the invariant kept.            *)
Fits == SealersHold' /\ [Promise!Next]_(Promise!vars)

LEMMA PromiseStutters ==
    ASSUME UNCHANGED <<HolderMap, OfferMap>>
    PROVE  UNCHANGED Promise!vars
  BY DEF Promise!vars, HolderMap, OfferMap

(* A key nobody was entrusted with is held by nobody and was never sealed. *)
LEMMA MakeFits ==
    ASSUME RInv, NEW u \in Users, NEW k \in ProfileKeys, NEW n \in Nonces, NewProfileKey(u, k, n)
    PROVE  Fits
<1>1. /\ wrapped' = [wrapped EXCEPT ![u] = @ \cup {Box(u, n, k)}]
      /\ UNCHANGED sealings
      /\ entrusted[k] = {}
  BY Results DEF NewProfileKey, wrap_profile_key_with_master, encrypt
<1>2. /\ HolderMap' = [HolderMap EXCEPT ![k] = @ \cup {u}]
      /\ \A v \in Users : Holds(v) \subseteq Holds(v)'
  BY <1>1, KeptKeyIsHeld DEF RInv
<1>3. ASSUME NEW v \in Users, k \in Holds(v)
      PROVE  FALSE
  <2>1. PICK w \in wrapped[v] : k = unwrap_profile_key_with_master(v, w).val
    BY <1>3 DEF Holds
  <2>2. PICK j \in ProfileKeys :
           v \in entrusted[j] /\ unwrap_profile_key_with_master(v, w) = Ok(j)
    BY OwnProfileKey DEF RInv
  <2> QED
    BY <1>1, <2>1, <2>2, Results
<1>4. ASSUME NEW s \in sealings, s.plain = k
      PROVE  FALSE
  BY <1>1, <1>4 DEF RInv, IInv, SealedForPair
<1>5. HolderMap[k] = {} /\ OfferMap[k] = {}
  BY <1>3, <1>4 DEF HolderMap, OfferMap
<1>6. HolderMap' = [HolderMap EXCEPT ![k] = {u}]
  BY <1>2, <1>5
<1>7. OfferMap' = OfferMap
  BY <1>1 DEF OfferMap
<1>8. SealersHold'
  BY <1>1, <1>2 DEF SealersHold, RInv, IInv, TypeOK, Sealings
<1>9. Promise!Make(u, k)
  BY <1>5, <1>6, <1>7 DEF Promise!Make, HolderMap, OfferMap
<1> QED
  BY <1>8, <1>9 DEF Fits, Promise!Next

(* A user seals a profile key it holds.                                    *)
LEMMA OfferFits ==
    ASSUME RInv, NEW u \in Users, NEW w \in wrapped[u], NEW n \in Nonces, ShareKey(u, w, n)
    PROVE  Fits
<1>1. PICK k \in ProfileKeys : unwrap_profile_key_with_master(u, w) = Ok(k)
  BY OwnProfileKey DEF RInv
<1>2. unwrap_profile_key_with_master(u, w).val = k
  BY <1>1, Results
<1>3. k \in Holds(u)
  BY <1>2 DEF Holds
<1> DEFINE own  == decrypt_private_key(u, private[u]).val
           blob == encrypt_profile_key_for_sharing(own, target[u].key, k, n).val
<1>4. Leave(u, own, k, blob) /\ UNCHANGED wrapped /\ target[u] # None
  BY <1>2 DEF ShareKey
<1>5. target[u].to \in Users
  BY <1>4 DEF RInv, IInv, TypeOK
<1> HIDE DEF own, blob
<1>6. /\ HolderMap' = HolderMap
      /\ SealersHold'
      /\ OfferMap' = [OfferMap EXCEPT ![k] = @ \cup {<<u, target[u].to>>}]
  <2>1. PICK o, b : o = own /\ b = blob
    OBVIOUS
  <2> QED
    BY <1>3, <1>4, <2>1, SealingIsOffered DEF RInv
<1>7. u \in HolderMap[k]
  BY <1>3 DEF HolderMap
<1>8. PICK v \in Users : v = target[u].to
  BY <1>5
<1>9. Promise!Offer(u, v, k)
  BY <1>6, <1>7, <1>8 DEF Promise!Offer, HolderMap, OfferMap
<1> QED
  BY <1>6, <1>9 DEF Fits, Promise!Next

(* Another payload is no offer of a key.                                   *)
LEMMA BlobFits ==
    ASSUME RInv, NEW u \in Users, NEW plain \in NotKeys, NEW n \in Nonces, ShareBlob(u, plain, n)
    PROVE  Fits
<1> DEFINE own  == decrypt_private_key(u, private[u]).val
           blob == encrypt_blob_for_sharing(own, target[u].key, plain, n).val
<1>1. Leave(u, own, plain, blob) /\ UNCHANGED wrapped
  BY DEF ShareBlob
<1>2. plain \notin ProfileKeys
  BY LengthsAssumption
<1> HIDE DEF own, blob
<1>3. SealersHold' /\ HolderMap' = HolderMap /\ OfferMap' = OfferMap
  <2>1. PICK o, b : o = own /\ b = blob
    OBVIOUS
  <2> QED
    BY <1>1, <1>2, <2>1, SealingIsOffered DEF RInv
<1> QED
  BY <1>3, PromiseStutters DEF Fits

(* A share accepted as a key was offered to its acceptor, or by it: then   *)
(* the acceptor held the key already, and gains nothing.                   *)
LEMMA TakeFits ==
    ASSUME RInv, NEW v \in Users, NEW u \in Users, NEW n \in Nonces, NEW blob \in shares,
           Accept(v, u, blob, n)
    PROVE  Fits
<1> DEFINE own == decrypt_private_key(v, private[v]).val
           r   == decrypt_shared_profile_key(own, public[u], blob)
<1>1. /\ private[v] # None /\ public[u] # None
      /\ r.ok
      /\ wrapped' = [wrapped EXCEPT ![v] = @ \cup {Box(v, n, r.val)}]
      /\ UNCHANGED sealings
  BY Results DEF Accept, wrap_profile_key_with_master, encrypt
<1> HIDE DEF own
<1>2. /\ decrypt_shared_blob(own, public[u], blob).ok
      /\ r = decrypt_shared_blob(own, public[u], blob)
      /\ r.val \notin NotKeys
  BY <1>1, SharedKeyIsKey
<1>3. PICK s \in sealings : {s.from, s.to} = {u, v} /\ r = Ok(s.plain)
  BY <1>1, <1>2, OpenedShare DEF own, RInv
<1> HIDE DEF r
<1>4. PICK k : k = s.plain
  OBVIOUS
<1>5. r.val = k /\ k \in ProfileKeys
  BY <1>2, <1>3, <1>4, Results DEF RInv, IInv, TypeOK, Sealings, Payloads
<1>6. /\ HolderMap' = [HolderMap EXCEPT ![k] = @ \cup {v}]
      /\ \A x \in Users : Holds(x) \subseteq Holds(x)'
  BY <1>1, <1>5, KeptKeyIsHeld DEF RInv
<1>7. SealersHold'
  BY <1>1, <1>6 DEF SealersHold, RInv, IInv, TypeOK, Sealings
<1>8. OfferMap' = OfferMap
  BY <1>1 DEF OfferMap
<1>9. CASE s.to = v
  <2>1. <<u, v>> \in OfferMap[k]
    BY <1>3, <1>4, <1>5, <1>9 DEF OfferMap
  <2>2. Promise!Take(u, v, k)
    BY <1>6, <1>8, <2>1 DEF Promise!Take, HolderMap, OfferMap
  <2> QED
    BY <1>5, <1>7, <2>2 DEF Fits, Promise!Next
<1>10. CASE s.from = v
  <2>1. v \in HolderMap[k]
    BY <1>4, <1>5, <1>10 DEF HolderMap, RInv, SealersHold
  <2>2. HolderMap' = HolderMap
    BY <1>6, <2>1 DEF HolderMap
  <2> QED
    BY <1>7, <1>8, <2>2, PromiseStutters DEF Fits
<1> QED
  BY <1>3, <1>9, <1>10

LEMMA StepFits == RInv /\ [Next]_vars => Fits
<1> SUFFICES ASSUME RInv, [Next]_vars PROVE Fits
  OBVIOUS
<1>1. CASE UNCHANGED <<wrapped, sealings>>
  BY <1>1, MapsUntouched, PromiseStutters DEF Fits, RInv
<1>2. ASSUME NEW u \in Users, NEW p \in Pairs, NEW n \in Nonces, NewKeypair(u, p, n)
      PROVE  Fits
  BY <1>1, <1>2 DEF NewKeypair
<1>3. ASSUME NEW u \in Users, Publish(u) \/ Crash(u)
      PROVE  Fits
  BY <1>1, <1>3 DEF Publish, Crash
<1>4. ASSUME NEW u \in Users, NEW v \in Users, ReadPublic(u, v)
      PROVE  Fits
  BY <1>1, <1>4 DEF ReadPublic
<1>5. CASE UNCHANGED vars
  BY <1>1, <1>5 DEF vars
<1> QED
  BY <1>2, <1>3, <1>4, <1>5, MakeFits, OfferFits, BlobFits, TakeFits DEF Next

-----------------------------------------------------------------------------
(* A profile key reaches a user only from its maker along offers of those  *)
(* who held it (encrypt_profile_key_for_sharing,                           *)
(* decrypt_shared_profile_key), for any users, keypairs and shares.        *)
THEOREM SharingImplementsEntrustment == Spec => ImplementsEntrustment
<1>1. Init => SealersHold /\ Promise!Init
  BY DEF Init, SealersHold, Promise!Init, Holds
<1>2. IInv /\ SealersHold /\ [Next]_vars => SealersHold' /\ [Promise!Next]_(Promise!vars)
  BY StepFits DEF RInv, Fits
<1> QED
  BY <1>1, <1>2, Invariance, PTL DEF Spec, ImplementsEntrustment, Promise!Spec

=============================================================================
