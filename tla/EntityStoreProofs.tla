------------------------- MODULE EntityStoreProofs --------------------------
(***************************************************************************)
(* Proofs about EntityStore, for any accounts, devices, rows and contents. *)
(***************************************************************************)
EXTENDS EntityStore, TLAPS

(* The key of an entity determines the account, the namespace and the id   *)
(* it was derived from: namespaces without an id never reach this layer    *)
(* (derive_key, namespace.rs).                                             *)
LEMMA EntityKeyInjective ==
    ASSUME NEW sk1, NEW sk2,
           NEW e1 \in Entities, NEW e2 \in Entities,
           entity_key(sk1, e1) = entity_key(sk2, e2)
    PROVE  sk1 = sk2 /\ e1.ns = e2.ns /\ e1.id = e2.id
<1>1. /\ e1.ns # ProfileSharing
      /\ e2.ns # ProfileSharing
  BY EntitiesAssumption DEF PerEntityNamespaces, ProfileSharing
<1>2. /\ entity_key(sk1, e1) = [ikm |-> sk1, info |-> <<"incokit-", e1.ns, ":", e1.id>>]
      /\ entity_key(sk2, e2) = [ikm |-> sk2, info |-> <<"incokit-", e2.ns, ":", e2.id>>]
  BY <1>1 DEF entity_key, derive, derive_key, hkdf, info
<1> DEFINE i1 == <<"incokit-", e1.ns, ":", e1.id>>
           i2 == <<"incokit-", e2.ns, ":", e2.id>>
<1>3. [ikm |-> sk1, info |-> i1] = [ikm |-> sk2, info |-> i2]
  BY <1>2
<1>4. sk1 = sk2 /\ i1 = i2
  <2> HIDE DEF i1, i2
  <2>1. /\ [ikm |-> sk1, info |-> i1].ikm = [ikm |-> sk2, info |-> i2].ikm
        /\ [ikm |-> sk1, info |-> i1].info = [ikm |-> sk2, info |-> i2].info
    BY <1>3
  <2> QED
    BY <2>1
<1>5. i1[2] = i2[2] /\ i1[4] = i2[4]
  BY <1>4
<1> QED
  BY <1>4, <1>5

(* A field is prefixed exactly when it is a box, damaged, or a legacy text *)
(* that starts with the prefix.                                            *)
LEMMA FieldForms ==
    ASSUME NEW s \in Fields
    PROVE  \/ s.form \in {"json", "text"} /\ s \in LegacyRows
           \/ s.form = "badwire"
           \/ s.form = "wire" /\ s.raw.tag = "noise"
           \/ s.form = "wire" /\ s.raw \in Boxes
  BY LegacyRowsAssumption, DamagedFieldsAssumption DEF Fields, Wire

-----------------------------------------------------------------------------
(* The readers                                                             *)

(* The strict byte reader succeeds only on a box of the very key it is     *)
(* given, and yields its plaintext (unseal_bytes, decrypt).                *)
LEMMA UnsealOpensBox ==
    ASSUME NEW s \in Fields, NEW k, unseal_bytes(k, s).ok
    PROVE  /\ s.form = "wire" /\ s.raw \in Boxes /\ s.raw.key = k
           /\ unseal_bytes(k, s) = Ok(s.raw.plain)
<1>1. CASE s.form \in {"json", "text"}
  BY <1>1 DEF unseal_bytes, starts_with_prefix, Err
<1>2. CASE s.form = "badwire"
  BY <1>2 DEF unseal_bytes, starts_with_prefix, Err
<1>3. CASE s.form = "wire"
  <2>1. unseal_bytes(k, s) = decrypt(k, s.raw)
    BY <1>3 DEF unseal_bytes, starts_with_prefix
  <2>2. CASE s.raw.tag = "noise"
    <3>1. ~Opens(k, s.raw)
      BY <2>2 DEF Opens
    <3>2. \/ decrypt(k, s.raw) = Err("CiphertextTooShort")
          \/ decrypt(k, s.raw) = Err("Decrypt")
      BY <3>1 DEF decrypt
    <3> QED
      BY <2>1, <3>2 DEF Err
  <2>3. CASE s.raw \in Boxes
    <3>1. s.raw.tag = "box" /\ ~TooShort(s.raw)
      BY <2>3 DEF Boxes, Box, TooShort
    <3>2. CASE s.raw.key = k
      BY <1>3, <2>1, <2>3, <3>1, <3>2 DEF decrypt, Opens
    <3>3. CASE s.raw.key # k
      <4>1. decrypt(k, s.raw) = Err("Decrypt")
        BY <3>1, <3>3 DEF decrypt, Opens
      <4> QED
        BY <2>1, <4>1 DEF Err
    <3> QED
      BY <3>2, <3>3
  <2> QED
    BY <1>3, <2>2, <2>3, FieldForms
<1> QED
  BY <1>1, <1>2, <1>3, FieldForms

(* What a lenient string read returns can be stored and sealed again.      *)
LEMMA LenientReadYieldsString ==
    ASSUME NEW s \in Fields, NEW k, try_unseal_string(k, s).ok
    PROVE  try_unseal_string(k, s).val \in Strings
<1> DEFINE r == try_unseal_bytes(k, s)
<1>1. r.ok /\ try_unseal_string(k, s) = r /\ r.val.form # "binary"
  BY DEF try_unseal_string, from_utf8, Err
<1>2. CASE starts_with_prefix(s)
  <2>1. r = unseal_bytes(k, s)
    BY <1>2 DEF try_unseal_bytes
  <2>2. s.raw \in Boxes /\ r = Ok(s.raw.plain)
    BY <1>1, <2>1, UnsealOpensBox
  <2>3. s.raw.plain \in Plaintexts
    BY <2>2 DEF Boxes, Box
  <2> QED
    BY <1>1, <2>2, <2>3 DEF Ok, Strings
<1>3. CASE ~starts_with_prefix(s)
  <2>1. r = Ok(s)
    BY <1>3 DEF try_unseal_bytes
  <2>2. s \in LegacyRows
    BY <1>3, FieldForms DEF starts_with_prefix
  <2> QED
    BY <1>1, <2>1, <2>2 DEF Ok, Strings, Plaintexts
<1> QED
  BY <1>2, <1>3

(* Sealing returns a box of the key it is given, or nothing (seal_bytes,   *)
(* seal_string, seal_json).                                                *)
LEMMA SealMakesBox ==
    ASSUME NEW k, NEW v, NEW n
    PROVE  /\ seal_bytes(k, v, n) = Ok(Wire(Box(k, n, v)))
           /\ seal_string(k, v, n) = Ok(Wire(Box(k, n, v)))
           /\ seal_json(k, v, n).ok => seal_json(k, v, n) = Ok(Wire(Box(k, n, v)))
                                       /\ v.form # "opaque"
<1>1. seal_bytes(k, v, n) = Ok(Wire(Box(k, n, v)))
  BY DEF seal_bytes, encrypt, Ok
<1> QED
  BY <1>1 DEF seal_string, seal_json, Err

-----------------------------------------------------------------------------
(* Types                                                                   *)

(* The three saves store a box of the row's own key.                       *)
LEMMA SaveStoresBox ==
    ASSUME NEW d \in Devices, NEW e \in Entities, NEW v \in Contents, NEW n \in Nonces,
           SaveString(d, e, v, n) \/ SaveJson(d, e, v, n) \/ SaveBytes(d, e, v, n)
    PROVE  /\ v \in Plaintexts
           /\ stored' = [stored EXCEPT ![e] = Wire(Box(entity_key(e.owner, e), n, v))]
           /\ sealed' = sealed \cup {[ent |-> e, plain |-> v]}
           /\ sound' = sound \cup {e}
           /\ UNCHANGED <<session, draft>>
<1> DEFINE k == entity_key(session[d], e)
<1>1. session[d] = e.owner
  BY DEF SaveString, SaveJson, SaveBytes
<1>2. v.form # "opaque"
  BY SealMakesBox DEF SaveString, SaveJson, SaveBytes, Put, seal_entity_json
<1>3. Put(e, Ok(Wire(Box(k, n, v))), v) /\ UNCHANGED <<session, draft>>
  <2>1. CASE SaveString(d, e, v, n)
    BY <2>1, SealMakesBox DEF SaveString, seal_entity_string
  <2>2. CASE SaveJson(d, e, v, n)
    BY <2>2, SealMakesBox DEF SaveJson, seal_entity_json, Put
  <2>3. CASE SaveBytes(d, e, v, n)
    BY <2>3, SealMakesBox DEF SaveBytes
  <2> QED
    BY <2>1, <2>2, <2>3
<1> QED
  BY <1>1, <1>2, <1>3 DEF Put, Ok, Plaintexts

(* The second half of a rewrap stores a box of the row's own key.          *)
LEMMA RewrapStoresBox ==
    ASSUME NEW d \in Devices, NEW n \in Nonces, EndRewrap(d, n)
    PROVE  LET e == draft[d].ent
               v == draft[d].val
           IN  /\ draft[d] # NoDraft
               /\ session[d] = e.owner
               /\ stored' = [stored EXCEPT ![e] = Wire(Box(entity_key(e.owner, e), n, v))]
               /\ sealed' = sealed \cup {[ent |-> e, plain |-> v]}
               /\ sound' = sound \cup {e}
               /\ draft' = [draft EXCEPT ![d] = NoDraft]
               /\ UNCHANGED session
<1> DEFINE e == draft[d].ent
           v == draft[d].val
<1>1. session[d] = e.owner
  BY DEF EndRewrap
<1>2. seal_entity_string(session[d], e, v, n)
      = Ok(Wire(Box(entity_key(e.owner, e), n, v)))
  BY <1>1, SealMakesBox DEF seal_entity_string
<1> QED
  BY <1>1, <1>2 DEF EndRewrap, Put, Ok

(* A row's own box is a field.                                             *)
LEMMA OwnBoxIsField ==
    ASSUME NEW e \in Entities, NEW n \in Nonces, NEW v \in Plaintexts
    PROVE  Wire(Box(entity_key(e.owner, e), n, v)) \in Fields
  BY DEF Fields, Boxes, Keys

(* TypeOK is inductive.                                                    *)
LEMMA TypeOKStep == TypeOK /\ [Next]_vars => TypeOK'
<1> SUFFICES ASSUME TypeOK, [Next]_vars
             PROVE  TypeOK'
  OBVIOUS
<1> USE DEF TypeOK
<1>1. ASSUME NEW d \in Devices, NEW m \in Masters, Open(d, m)
      PROVE  TypeOK'
  BY <1>1 DEF Open
<1>2. ASSUME NEW d \in Devices, Close(d)
      PROVE  TypeOK'
  BY <1>2 DEF Close
<1>3. ASSUME NEW d \in Devices, Crash(d)
      PROVE  TypeOK'
  BY <1>3 DEF Crash
<1>4. ASSUME NEW d \in Devices, NEW e \in Entities, NEW v \in Contents, NEW n \in Nonces,
             SaveString(d, e, v, n) \/ SaveJson(d, e, v, n) \/ SaveBytes(d, e, v, n)
      PROVE  TypeOK'
  <2> DEFINE w == Wire(Box(entity_key(e.owner, e), n, v))
  <2>1. /\ v \in Plaintexts
        /\ stored' = [stored EXCEPT ![e] = w]
        /\ sealed' = sealed \cup {[ent |-> e, plain |-> v]}
        /\ sound' = sound \cup {e}
        /\ UNCHANGED <<session, draft>>
    BY <1>4, SaveStoresBox
  <2>2. w \in Fields
    BY <2>1, OwnBoxIsField
  <2> HIDE DEF w
  <2> QED
    BY <2>1, <2>2
<1>5. ASSUME NEW d \in Devices, NEW e \in Entities, BeginRewrap(d, e)
      PROVE  TypeOK'
  <2> DEFINE r == try_unseal_entity_string(session[d], e, stored[e])
  <2>1. r.ok /\ r = try_unseal_string(entity_key(session[d], e), stored[e])
    BY <1>5 DEF BeginRewrap, try_unseal_entity_string
  <2>2. r.val \in Strings
    BY <2>1, LenientReadYieldsString
  <2>3. /\ draft' = [draft EXCEPT ![d] = [ent |-> e, was |-> stored[e], val |-> r.val]]
        /\ UNCHANGED <<stored, session, sealed, sound>>
    BY <1>5 DEF BeginRewrap
  <2> HIDE DEF r
  <2> QED
    BY <2>2, <2>3
<1>6. ASSUME NEW d \in Devices, NEW n \in Nonces, EndRewrap(d, n)
      PROVE  TypeOK'
  <2> DEFINE e == draft[d].ent
             v == draft[d].val
             w == Wire(Box(entity_key(e.owner, e), n, v))
  <2>1. /\ draft[d] # NoDraft
        /\ stored' = [stored EXCEPT ![e] = w]
        /\ sealed' = sealed \cup {[ent |-> e, plain |-> v]}
        /\ sound' = sound \cup {e}
        /\ draft' = [draft EXCEPT ![d] = NoDraft]
        /\ UNCHANGED session
    BY <1>6, RewrapStoresBox
  <2>2. e \in Entities /\ v \in Strings
    BY <2>1
  <2>3. v \in Plaintexts
    BY <2>2 DEF Strings
  <2>4. w \in Fields
    BY <2>2, <2>3, OwnBoxIsField
  <2> HIDE DEF w, e, v
  <2> QED
    BY <2>1, <2>2, <2>3, <2>4
<1>7. ASSUME NEW e1 \in Entities, NEW e2 \in Entities, Renumber(e1, e2)
      PROVE  TypeOK'
  BY <1>7 DEF Renumber
<1>8. ASSUME NEW e \in Entities, Damage(e)
      PROVE  TypeOK'
  BY <1>8 DEF Damage, Fields
<1>9. CASE UNCHANGED vars
  BY <1>9 DEF vars
<1> QED
  BY <1>1, <1>2, <1>3, <1>4, <1>5, <1>6, <1>7, <1>8, <1>9 DEF Next

(* Every reachable state is well typed: the fields are legacy rows,        *)
(* damaged ones or boxes of entity keys, whatever the callers do.          *)
THEOREM TypeCorrect == Spec => []TypeOK
<1>1. Init => TypeOK
  BY DEF Init, TypeOK, Fields
<1> QED
  BY <1>1, TypeOKStep, PTL DEF Spec

-----------------------------------------------------------------------------
(* Authentic reads                                                         *)

(* The strengthening: every box in the database was made by a sealing call *)
(* for the entity whose key it carries, wherever it is stored now.         *)
BoxesWereSealed ==
    \A e \in Entities :
        stored[e].form = "wire" /\ stored[e].raw.tag = "box"
        => \E h \in Entities :
              /\ stored[e].raw.key = entity_key(h.owner, h)
              /\ [ent |-> h, plain |-> stored[e].raw.plain] \in sealed

(* Storing the row's own box, with its sealing recorded, keeps it.         *)
LEMMA StoringOwnBox ==
    ASSUME TypeOK, BoxesWereSealed,
           NEW e \in Entities, NEW v, NEW n,
           stored' = [stored EXCEPT ![e] = Wire(Box(entity_key(e.owner, e), n, v))],
           sealed' = sealed \cup {[ent |-> e, plain |-> v]}
    PROVE  BoxesWereSealed'
<1> SUFFICES ASSUME NEW x \in Entities,
                    stored'[x].form = "wire", stored'[x].raw.tag = "box"
             PROVE  \E h \in Entities :
                       /\ stored'[x].raw.key = entity_key(h.owner, h)
                       /\ [ent |-> h, plain |-> stored'[x].raw.plain] \in sealed'
  BY DEF BoxesWereSealed
<1>1. CASE x = e
  <2>1. stored'[x] = Wire(Box(entity_key(e.owner, e), n, v))
    BY <1>1 DEF TypeOK
  <2>2. /\ stored'[x].raw.key = entity_key(e.owner, e)
        /\ stored'[x].raw.plain = v
    BY <2>1 DEF Wire, Box
  <2> QED
    BY <2>2
<1>2. CASE x # e
  <2>1. stored'[x] = stored[x]
    BY <1>2 DEF TypeOK
  <2>2. PICK h \in Entities : /\ stored[x].raw.key = entity_key(h.owner, h)
                              /\ [ent |-> h, plain |-> stored[x].raw.plain] \in sealed
    BY <2>1 DEF BoxesWereSealed
  <2>3. sealed \subseteq sealed'
    OBVIOUS
  <2> QED
    BY <2>1, <2>2, <2>3
<1> QED
  BY <1>1, <1>2

(* BoxesWereSealed is inductive.                                           *)
LEMMA BoxesWereSealedStep == TypeOK /\ BoxesWereSealed /\ [Next]_vars => BoxesWereSealed'
<1> SUFFICES ASSUME TypeOK, BoxesWereSealed, [Next]_vars
             PROVE  BoxesWereSealed'
  OBVIOUS
<1>1. ASSUME UNCHANGED <<stored, sealed>>
      PROVE  BoxesWereSealed'
  BY <1>1 DEF BoxesWereSealed
<1>2. ASSUME NEW d \in Devices, NEW m \in Masters, Open(d, m)
      PROVE  BoxesWereSealed'
  BY <1>1, <1>2 DEF Open
<1>3. ASSUME NEW d \in Devices, Close(d) \/ Crash(d)
      PROVE  BoxesWereSealed'
  BY <1>1, <1>3 DEF Close, Crash
<1>4. ASSUME NEW d \in Devices, NEW e \in Entities, NEW v \in Contents, NEW n \in Nonces,
             SaveString(d, e, v, n) \/ SaveJson(d, e, v, n) \/ SaveBytes(d, e, v, n)
      PROVE  BoxesWereSealed'
  <2>1. /\ stored' = [stored EXCEPT ![e] = Wire(Box(entity_key(e.owner, e), n, v))]
        /\ sealed' = sealed \cup {[ent |-> e, plain |-> v]}
    BY <1>4, SaveStoresBox
  <2> QED
    BY <2>1, StoringOwnBox
<1>5. ASSUME NEW d \in Devices, NEW e \in Entities, BeginRewrap(d, e)
      PROVE  BoxesWereSealed'
  BY <1>1, <1>5 DEF BeginRewrap
<1>6. ASSUME NEW d \in Devices, NEW n \in Nonces, EndRewrap(d, n)
      PROVE  BoxesWereSealed'
  <2>1. draft[d] # NoDraft
    BY <1>6, RewrapStoresBox
  <2>2. draft[d].ent \in Entities /\ draft[d].val \in Strings
    BY <2>1 DEF TypeOK
  <2>3. PICK e \in Entities, v \in Strings : e = draft[d].ent /\ v = draft[d].val
    BY <2>2
  <2>4. /\ stored' = [stored EXCEPT ![e] = Wire(Box(entity_key(e.owner, e), n, v))]
        /\ sealed' = sealed \cup {[ent |-> e, plain |-> v]}
    BY <1>6, <2>3, RewrapStoresBox
  <2> QED
    BY <2>4, StoringOwnBox
<1>7. ASSUME NEW e1 \in Entities, NEW e2 \in Entities, Renumber(e1, e2)
      PROVE  BoxesWereSealed'
  BY <1>7 DEF Renumber, BoxesWereSealed, TypeOK
<1>8. ASSUME NEW e \in Entities, Damage(e)
      PROVE  BoxesWereSealed'
  <2>1. PICK s \in DamagedFields : stored' = [stored EXCEPT ![e] = s]
    BY <1>8 DEF Damage
  <2>2. ~(s.form = "wire" /\ s.raw.tag = "box")
    BY DamagedFieldsAssumption
  <2> QED
    BY <1>8, <2>1, <2>2 DEF Damage, BoxesWereSealed, TypeOK
<1>9. CASE UNCHANGED vars
  BY <1>1, <1>9 DEF vars
<1> QED
  BY <1>2, <1>3, <1>4, <1>5, <1>6, <1>7, <1>8, <1>9 DEF Next

(* A successful read is a successful byte read of the same strictness.     *)
LEMMA ReadIsByteRead ==
    ASSUME NEW reader \in Readers, NEW sk, NEW e \in Entities, Read(reader, sk, e).ok
    PROVE  LET k == entity_key(sk, e)
               b == IF reader.strict THEN unseal_bytes(k, stored[e])
                                     ELSE try_unseal_bytes(k, stored[e])
           IN  b.ok /\ Read(reader, sk, e) = b
<1> USE DEF Err
<1>1. CASE reader = [shape |-> "bytes", strict |-> TRUE]
  BY <1>1 DEF Read
<1>2. CASE reader = [shape |-> "bytes", strict |-> FALSE]
  BY <1>2 DEF Read
<1>3. CASE reader = [shape |-> "string", strict |-> TRUE]
  BY <1>3 DEF Read, unseal_entity_string, unseal_string, from_utf8
<1>4. CASE reader = [shape |-> "string", strict |-> FALSE]
  BY <1>4 DEF Read, try_unseal_entity_string, try_unseal_string, from_utf8
<1>5. CASE reader = [shape |-> "json", strict |-> TRUE]
  BY <1>5 DEF Read, unseal_entity_json, unseal_json, unseal_string, from_utf8, from_json
<1>6. CASE reader = [shape |-> "json", strict |-> FALSE]
  BY <1>6 DEF Read, try_unseal_entity_json, try_unseal_json, try_unseal_string,
              from_utf8, from_json
<1>7. \/ reader = [shape |-> "bytes", strict |-> TRUE]
      \/ reader = [shape |-> "bytes", strict |-> FALSE]
      \/ reader = [shape |-> "string", strict |-> TRUE]
      \/ reader = [shape |-> "string", strict |-> FALSE]
      \/ reader = [shape |-> "json", strict |-> TRUE]
      \/ reader = [shape |-> "json", strict |-> FALSE]
  BY DEF Readers
<1> QED
  BY <1>1, <1>2, <1>3, <1>4, <1>5, <1>6, <1>7

(* In a state where every box was sealed for the entity of its key, reads  *)
(* are authentic: the key that opened the box belongs to one entity only.  *)
LEMMA SealedBoxesGiveAuthenticReads == TypeOK /\ BoxesWereSealed => ReadsAreAuthentic
<1> SUFFICES ASSUME TypeOK, BoxesWereSealed,
                    NEW reader \in Readers, NEW sk \in Masters, NEW e \in Entities,
                    Read(reader, sk, e).ok,
                    reader.strict \/ starts_with_prefix(stored[e])
             PROVE  [ent |-> [e EXCEPT !.owner = sk], plain |-> Read(reader, sk, e).val] \in sealed
  BY DEF ReadsAreAuthentic
<1> DEFINE k == entity_key(sk, e)
           s == stored[e]
<1>1. s \in Fields
  BY DEF TypeOK
<1>2. unseal_bytes(k, s).ok /\ Read(reader, sk, e) = unseal_bytes(k, s)
  BY ReadIsByteRead DEF try_unseal_bytes
<1>3. /\ s.form = "wire" /\ s.raw \in Boxes /\ s.raw.key = k
      /\ Read(reader, sk, e).val = s.raw.plain
  BY <1>1, <1>2, UnsealOpensBox DEF Ok
<1>4. s.raw.tag = "box"
  BY <1>3 DEF Boxes, Box
<1>5. PICK h \in Entities : /\ s.raw.key = entity_key(h.owner, h)
                            /\ [ent |-> h, plain |-> s.raw.plain] \in sealed
  BY <1>3, <1>4 DEF BoxesWereSealed
<1>6. h.owner = sk /\ h.ns = e.ns /\ h.id = e.id
  <2>1. entity_key(h.owner, h) = entity_key(sk, e)
    BY <1>3, <1>5
  <2> HIDE DEF k, s
  <2> QED
    BY <2>1, EntityKeyInjective
<1>7. h = [e EXCEPT !.owner = sk]
  BY <1>6, EntitiesAssumption
<1> QED
  BY <1>3, <1>5, <1>7

(* A reader that succeeds on a prefixed field, or strictly on any field,   *)
(* returns what the session's account sealed for that namespace and id,    *)
(* for any accounts, rows, devices and contents.                           *)
THEOREM AuthenticReads == Spec => []ReadsAreAuthentic
<1>1. Init => BoxesWereSealed
  BY LegacyRowsAssumption DEF Init, BoxesWereSealed
<1> QED
  BY <1>1, TypeCorrect, BoxesWereSealedStep, SealedBoxesGiveAuthenticReads, PTL DEF Spec

-----------------------------------------------------------------------------
(* Sound rows                                                              *)

(* The strengthening: a sound row is clear text, or a box of its own key.  *)
SoundRowsAreOwn ==
    \A e \in sound :
        \/ ~starts_with_prefix(stored[e])
        \/ /\ stored[e].form = "wire" /\ stored[e].raw.tag = "box"
           /\ stored[e].raw.key = entity_key(e.owner, e)

(* Storing the row's own box makes the row sound, and leaves the others.   *)
LEMMA StoringSoundRow ==
    ASSUME TypeOK, SoundRowsAreOwn,
           NEW e \in Entities, NEW v, NEW n,
           stored' = [stored EXCEPT ![e] = Wire(Box(entity_key(e.owner, e), n, v))],
           sound' = sound \cup {e}
    PROVE  SoundRowsAreOwn'
<1> SUFFICES ASSUME NEW x \in sound', starts_with_prefix(stored'[x])
             PROVE  /\ stored'[x].form = "wire" /\ stored'[x].raw.tag = "box"
                    /\ stored'[x].raw.key = entity_key(x.owner, x)
  BY DEF SoundRowsAreOwn
<1>1. CASE x = e
  <2>1. stored'[x] = Wire(Box(entity_key(e.owner, e), n, v))
    BY <1>1 DEF TypeOK
  <2> QED
    BY <1>1, <2>1 DEF Wire, Box
<1>2. CASE x # e
  <2>1. stored'[x] = stored[x] /\ x \in sound
    BY <1>2 DEF TypeOK
  <2> QED
    BY <2>1 DEF SoundRowsAreOwn
<1> QED
  BY <1>1, <1>2

(* SoundRowsAreOwn is inductive.                                           *)
LEMMA SoundRowsStep == TypeOK /\ SoundRowsAreOwn /\ [Next]_vars => SoundRowsAreOwn'
<1> SUFFICES ASSUME TypeOK, SoundRowsAreOwn, [Next]_vars
             PROVE  SoundRowsAreOwn'
  OBVIOUS
<1>1. ASSUME UNCHANGED <<stored, sound>>
      PROVE  SoundRowsAreOwn'
  BY <1>1 DEF SoundRowsAreOwn
<1>2. ASSUME NEW d \in Devices, NEW m \in Masters, Open(d, m)
      PROVE  SoundRowsAreOwn'
  BY <1>1, <1>2 DEF Open
<1>3. ASSUME NEW d \in Devices, Close(d) \/ Crash(d)
      PROVE  SoundRowsAreOwn'
  BY <1>1, <1>3 DEF Close, Crash
<1>4. ASSUME NEW d \in Devices, NEW e \in Entities, NEW v \in Contents, NEW n \in Nonces,
             SaveString(d, e, v, n) \/ SaveJson(d, e, v, n) \/ SaveBytes(d, e, v, n)
      PROVE  SoundRowsAreOwn'
  <2>1. /\ stored' = [stored EXCEPT ![e] = Wire(Box(entity_key(e.owner, e), n, v))]
        /\ sound' = sound \cup {e}
    BY <1>4, SaveStoresBox
  <2> QED
    BY <2>1, StoringSoundRow
<1>5. ASSUME NEW d \in Devices, NEW e \in Entities, BeginRewrap(d, e)
      PROVE  SoundRowsAreOwn'
  BY <1>1, <1>5 DEF BeginRewrap
<1>6. ASSUME NEW d \in Devices, NEW n \in Nonces, EndRewrap(d, n)
      PROVE  SoundRowsAreOwn'
  <2>1. draft[d] # NoDraft
    BY <1>6, RewrapStoresBox
  <2>2. draft[d].ent \in Entities /\ draft[d].val \in Strings
    BY <2>1 DEF TypeOK
  <2>3. PICK e \in Entities, v \in Strings : e = draft[d].ent /\ v = draft[d].val
    BY <2>2
  <2>4. /\ stored' = [stored EXCEPT ![e] = Wire(Box(entity_key(e.owner, e), n, v))]
        /\ sound' = sound \cup {e}
    BY <1>6, <2>3, RewrapStoresBox
  <2> QED
    BY <2>4, StoringSoundRow
<1>7. ASSUME NEW e1 \in Entities, NEW e2 \in Entities, Renumber(e1, e2)
      PROVE  SoundRowsAreOwn'
  BY <1>7 DEF Renumber, SoundRowsAreOwn, TypeOK
<1>8. ASSUME NEW e \in Entities, Damage(e)
      PROVE  SoundRowsAreOwn'
  BY <1>8 DEF Damage, SoundRowsAreOwn, TypeOK
<1>9. CASE UNCHANGED vars
  BY <1>1, <1>9 DEF vars
<1> QED
  BY <1>2, <1>3, <1>4, <1>5, <1>6, <1>7, <1>8, <1>9 DEF Next

(* The owner's key opens a box of that key (unseal_bytes, decrypt).        *)
LEMMA OwnBoxOpens ==
    ASSUME NEW k, NEW s, s.form = "wire", s.raw.tag = "box", s.raw.key = k
    PROVE  unseal_bytes(k, s) = Ok(s.raw.plain)
<1>1. unseal_bytes(k, s) = decrypt(k, s.raw)
  BY DEF unseal_bytes, starts_with_prefix
<1>2. Opens(k, s.raw) /\ ~TooShort(s.raw)
  BY DEF Opens, TooShort
<1> QED
  BY <1>1, <1>2 DEF decrypt

(* Rows that are clear or boxed under their own key are readable.          *)
LEMMA OwnRowsAreReadable == SoundRowsAreOwn => SoundRowsReadable
<1> SUFFICES ASSUME SoundRowsAreOwn, NEW e \in sound
             PROVE  LET k == entity_key(e.owner, e)
                    IN  /\ try_unseal_bytes(k, stored[e]).ok
                        /\ starts_with_prefix(stored[e])
                           => unseal_bytes(k, stored[e]) = try_unseal_bytes(k, stored[e])
  BY DEF SoundRowsReadable, Read
<1>1. CASE ~starts_with_prefix(stored[e])
  BY <1>1 DEF try_unseal_bytes, Ok
<1>2. CASE starts_with_prefix(stored[e])
  <2>1. unseal_bytes(entity_key(e.owner, e), stored[e]) = Ok(stored[e].raw.plain)
    BY <1>2, OwnBoxOpens DEF SoundRowsAreOwn
  <2> QED
    BY <1>2, <2>1 DEF try_unseal_bytes, Ok
<1> QED
  BY <1>1, <1>2

(* A row nobody damaged or renumbered is readable by its owner at every    *)
(* moment of the migration, whatever the devices do and however they race. *)
THEOREM SoundRowsStayReadable == Spec => []SoundRowsReadable
<1>1. Init => SoundRowsAreOwn
  BY DEF Init, SoundRowsAreOwn
<1> QED
  BY <1>1, TypeCorrect, SoundRowsStep, OwnRowsAreReadable, PTL DEF Spec

-----------------------------------------------------------------------------
(* Rewraps                                                                 *)

(* The strengthening: the plaintext a device holds is what the lenient     *)
(* reader makes of the field it has read.                                  *)
DraftsWereRead ==
    \A d \in Devices :
        draft[d] # NoDraft
        => LET e == draft[d].ent
           IN  try_unseal_entity_string(e.owner, e, draft[d].was) = Ok(draft[d].val)

(* A successful lenient string read is Ok of its value.                    *)
LEMMA LenientReadIsOk ==
    ASSUME NEW s \in Fields, NEW k, try_unseal_string(k, s).ok
    PROVE  try_unseal_string(k, s) = Ok(try_unseal_string(k, s).val)
<1> DEFINE r == try_unseal_bytes(k, s)
<1>1. r.ok /\ try_unseal_string(k, s) = r
  BY DEF try_unseal_string, from_utf8, Err
<1>2. CASE starts_with_prefix(s)
  <2>1. r = unseal_bytes(k, s)
    BY <1>2 DEF try_unseal_bytes
  <2>2. r = Ok(s.raw.plain)
    BY <1>1, <2>1, UnsealOpensBox
  <2> QED
    BY <1>1, <2>2 DEF Ok
<1>3. CASE ~starts_with_prefix(s)
  <2>1. r = Ok(s)
    BY <1>3 DEF try_unseal_bytes
  <2> QED
    BY <1>1, <2>1 DEF Ok
<1> QED
  BY <1>2, <1>3

(* DraftsWereRead is inductive.                                            *)
LEMMA DraftsWereReadStep == TypeOK /\ DraftsWereRead /\ [Next]_vars => DraftsWereRead'
<1> SUFFICES ASSUME TypeOK, DraftsWereRead, [Next]_vars
             PROVE  DraftsWereRead'
  OBVIOUS
<1>1. ASSUME UNCHANGED draft
      PROVE  DraftsWereRead'
  BY <1>1 DEF DraftsWereRead
<1>2. ASSUME NEW d \in Devices, draft' = [draft EXCEPT ![d] = NoDraft]
      PROVE  DraftsWereRead'
  <2> SUFFICES ASSUME NEW x \in Devices, draft'[x] # NoDraft
               PROVE  draft'[x] = draft[x]
    BY DEF DraftsWereRead
  <2> QED
    BY <1>2 DEF TypeOK
<1>3. ASSUME NEW d \in Devices, NEW m \in Masters, Open(d, m)
      PROVE  DraftsWereRead'
  BY <1>1, <1>3 DEF Open
<1>4. ASSUME NEW d \in Devices, Close(d) \/ Crash(d)
      PROVE  DraftsWereRead'
  BY <1>1, <1>2, <1>4 DEF Close, Crash
<1>5. ASSUME NEW d \in Devices, NEW e \in Entities, NEW v \in Contents, NEW n \in Nonces,
             SaveString(d, e, v, n) \/ SaveJson(d, e, v, n) \/ SaveBytes(d, e, v, n)
      PROVE  DraftsWereRead'
  BY <1>1, <1>5, SaveStoresBox
<1>6. ASSUME NEW d \in Devices, NEW e \in Entities, BeginRewrap(d, e)
      PROVE  DraftsWereRead'
  <2> DEFINE k == entity_key(e.owner, e)
             r == try_unseal_string(k, stored[e])
  <2>1. /\ r.ok
        /\ draft' = [draft EXCEPT ![d] = [ent |-> e, was |-> stored[e], val |-> r.val]]
    BY <1>6 DEF BeginRewrap, try_unseal_entity_string
  <2>2. stored[e] \in Fields
    BY DEF TypeOK
  <2>3. r = Ok(r.val)
    BY <2>1, <2>2, LenientReadIsOk
  <2> SUFFICES ASSUME NEW x \in Devices, draft'[x] # NoDraft
               PROVE  try_unseal_entity_string(draft'[x].ent.owner, draft'[x].ent, draft'[x].was)
                      = Ok(draft'[x].val)
    BY DEF DraftsWereRead
  <2>4. CASE x = d
    <3>1. /\ draft'[x].ent = e
          /\ draft'[x].was = stored[e]
          /\ draft'[x].val = r.val
      BY <2>1, <2>4 DEF TypeOK
    <3> QED
      BY <2>3, <3>1 DEF try_unseal_entity_string
  <2>5. CASE x # d
    <3>1. draft'[x] = draft[x]
      BY <2>1, <2>5 DEF TypeOK
    <3> QED
      BY <3>1 DEF DraftsWereRead
  <2> QED
    BY <2>4, <2>5
<1>7. ASSUME NEW d \in Devices, NEW n \in Nonces, EndRewrap(d, n)
      PROVE  DraftsWereRead'
  BY <1>2, <1>7, RewrapStoresBox
<1>8. ASSUME NEW e1 \in Entities, NEW e2 \in Entities, Renumber(e1, e2)
      PROVE  DraftsWereRead'
  BY <1>1, <1>8 DEF Renumber
<1>9. ASSUME NEW e \in Entities, Damage(e)
      PROVE  DraftsWereRead'
  BY <1>1, <1>9 DEF Damage
<1>10. CASE UNCHANGED vars
  BY <1>1, <1>10 DEF vars
<1> QED
  BY <1>3, <1>4, <1>5, <1>6, <1>7, <1>8, <1>9, <1>10 DEF Next

(* The property of one rewrap, as UnracedRewrapKeepsContent states it.     *)
KeepsContent(d) ==
    draft[d] # NoDraft /\ draft'[d] = NoDraft
    /\ stored'[draft[d].ent] # stored[draft[d].ent]
    /\ stored[draft[d].ent] = draft[d].was
    => LET e == draft[d].ent
       IN  try_unseal_entity_string(e.owner, e, stored'[e])
           = try_unseal_entity_string(e.owner, e, stored[e])

(* The second half of a rewrap keeps the content of an unraced row.        *)
LEMMA EndRewrapKeeps ==
    ASSUME TypeOK, DraftsWereRead, NEW d \in Devices, NEW n \in Nonces, EndRewrap(d, n)
    PROVE  KeepsContent(d)
<1> SUFFICES ASSUME draft[d] # NoDraft, stored[draft[d].ent] = draft[d].was
             PROVE  try_unseal_entity_string(draft[d].ent.owner, draft[d].ent,
                                             stored'[draft[d].ent])
                    = try_unseal_entity_string(draft[d].ent.owner, draft[d].ent,
                                               stored[draft[d].ent])
  BY DEF KeepsContent
<1>1. draft[d].ent \in Entities /\ draft[d].val \in Strings
  BY DEF TypeOK
<1>2. PICK e \in Entities, v \in Strings : e = draft[d].ent /\ v = draft[d].val
  BY <1>1
<1> DEFINE k == entity_key(e.owner, e)
           s == Wire(Box(k, n, v))
<1>3. stored'[e] = s
  BY <1>2, RewrapStoresBox DEF TypeOK
<1>4. unseal_bytes(k, s) = Ok(v)
  <2>1. s.form = "wire" /\ s.raw.tag = "box" /\ s.raw.key = k /\ s.raw.plain = v
    BY DEF Wire, Box
  <2> HIDE DEF s, k
  <2> QED
    BY <2>1, OwnBoxOpens
<1>5. try_unseal_string(k, s) = Ok(v)
  <2>1. try_unseal_bytes(k, s) = Ok(v)
    BY <1>4 DEF try_unseal_bytes, starts_with_prefix, Wire
  <2>2. v.form # "binary"
    BY DEF Strings
  <2> QED
    BY <2>1, <2>2 DEF try_unseal_string, from_utf8, Ok
<1>6. try_unseal_string(k, stored[e]) = Ok(v)
  BY <1>2 DEF DraftsWereRead, try_unseal_entity_string
<1> QED
  BY <1>2, <1>3, <1>5, <1>6 DEF try_unseal_entity_string

(* Every step keeps the content of the rows whose rewrap it ends.          *)
LEMMA StepsKeepContent ==
    TypeOK /\ DraftsWereRead /\ [Next]_vars
    => [\A d \in Devices : KeepsContent(d)]_vars
<1> SUFFICES ASSUME TypeOK, DraftsWereRead, Next, NEW d \in Devices
             PROVE  KeepsContent(d)
  OBVIOUS
<1>1. ASSUME UNCHANGED draft \/ UNCHANGED stored
      PROVE  KeepsContent(d)
  BY <1>1 DEF KeepsContent
<1>2. ASSUME NEW x \in Devices, NEW n \in Nonces, EndRewrap(x, n)
      PROVE  KeepsContent(d)
  <2>1. CASE x = d
    BY <1>2, <2>1, EndRewrapKeeps
  <2>2. CASE x # d
    <3>1. draft'[d] = draft[d]
      BY <1>2, <2>2, RewrapStoresBox DEF TypeOK
    <3> QED
      BY <3>1 DEF KeepsContent
  <2> QED
    BY <2>1, <2>2
<1>3. ASSUME NEW x \in Devices, NEW m \in Masters, Open(x, m)
      PROVE  KeepsContent(d)
  BY <1>1, <1>3 DEF Open
<1>4. ASSUME NEW x \in Devices, Close(x) \/ Crash(x)
      PROVE  KeepsContent(d)
  BY <1>1, <1>4 DEF Close, Crash
<1>5. ASSUME NEW x \in Devices, NEW e \in Entities, NEW v \in Contents, NEW n \in Nonces,
             SaveString(x, e, v, n) \/ SaveJson(x, e, v, n) \/ SaveBytes(x, e, v, n)
      PROVE  KeepsContent(d)
  BY <1>1, <1>5, SaveStoresBox
<1>6. ASSUME NEW x \in Devices, NEW e \in Entities, BeginRewrap(x, e)
      PROVE  KeepsContent(d)
  BY <1>1, <1>6 DEF BeginRewrap
<1>7. ASSUME NEW e1 \in Entities, NEW e2 \in Entities, Renumber(e1, e2)
      PROVE  KeepsContent(d)
  BY <1>1, <1>7 DEF Renumber
<1>8. ASSUME NEW e \in Entities, Damage(e)
      PROVE  KeepsContent(d)
  BY <1>1, <1>8 DEF Damage
<1> QED
  BY <1>2, <1>3, <1>4, <1>5, <1>6, <1>7, <1>8 DEF Next

(* A rewrap nobody raced leaves its row reading as it did before.          *)
THEOREM RewrapKeepsContent == Spec => UnracedRewrapKeepsContent
<1>1. Init => DraftsWereRead
  BY DEF Init, DraftsWereRead
<1>2. [\A d \in Devices : KeepsContent(d)]_vars
      => [\A d \in Devices :
             draft[d] # NoDraft /\ draft'[d] = NoDraft
             /\ stored'[draft[d].ent] # stored[draft[d].ent]
             /\ stored[draft[d].ent] = draft[d].was
             => LET e == draft[d].ent
                IN  try_unseal_entity_string(e.owner, e, stored'[e])
                    = try_unseal_entity_string(e.owner, e, stored[e])]_vars
  BY DEF KeepsContent
<1> QED
  BY <1>1, <1>2, TypeCorrect, DraftsWereReadStep, StepsKeepContent, PTL
     DEF Spec, UnracedRewrapKeepsContent

=============================================================================
