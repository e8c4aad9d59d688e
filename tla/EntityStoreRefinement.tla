----------------------- MODULE EntityStoreRefinement ------------------------
(***************************************************************************)
(* EntityStore implements LockedRecords: initial states map to initial     *)
(* states and every step to a step or a stutter, for any constants.        *)
(***************************************************************************)
EXTENDS EntityStoreProofs

(* What LockedRecords sees of the state.                                   *)
RecMap   == [e \in Entities |-> RecordOf(stored[e])]
DraftMap == [d \in Devices |-> DraftOf(draft[d])]

-----------------------------------------------------------------------------
(* The record a field stands for                                           *)

(* A field without the prefix is clear text.                               *)
LEMMA ClearRecord ==
    ASSUME NEW s, ~starts_with_prefix(s)
    PROVE  RecordOf(s) = [kind |-> "clear", val |-> s]
  BY DEF RecordOf

(* A prefixed field that is not a box is junk.                             *)
LEMMA JunkRecord ==
    ASSUME NEW s, starts_with_prefix(s), s.form = "badwire" \/ s.raw.tag = "noise"
    PROVE  RecordOf(s) = [kind |-> "junk"]
<1>1. ~(s.form = "wire" /\ s.raw.tag = "box")
  OBVIOUS
<1>2. {e \in Entities : s.form = "wire" /\ s.raw.tag = "box"
                        /\ s.raw.key = entity_key(e.owner, e)} = {}
  BY <1>1
<1> QED
  BY <1>2 DEF RecordOf

(* A box of an entity's own key is a record locked to that entity only.    *)
LEMMA LockedRecord ==
    ASSUME NEW e \in Entities, NEW s, s.form = "wire", s.raw.tag = "box",
           s.raw.key = entity_key(e.owner, e)
    PROVE  RecordOf(s) = [kind |-> "locked", home |-> e, val |-> s.raw.plain]
<1> DEFINE homes == {x \in Entities : s.form = "wire" /\ s.raw.tag = "box"
                                      /\ s.raw.key = entity_key(x.owner, x)}
<1>1. ASSUME NEW x \in homes
      PROVE  x = e
  <2>1. x \in Entities /\ entity_key(x.owner, x) = entity_key(e.owner, e)
    BY <1>1
  <2>2. x.owner = e.owner /\ x.ns = e.ns /\ x.id = e.id
    BY <2>1, EntityKeyInjective
  <2> QED
    BY <2>1, <2>2, EntitiesAssumption
<1>2. e \in homes
  OBVIOUS
<1>3. homes # {} /\ (CHOOSE x \in homes : TRUE) = e
  <2> HIDE DEF homes
  <2> QED
    BY <1>1, <1>2
<1>4. starts_with_prefix(s)
  BY DEF starts_with_prefix
<1>5. RecordOf(s) = [kind |-> "locked", home |-> CHOOSE x \in homes : TRUE, val |-> s.raw.plain]
  BY <1>3, <1>4 DEF RecordOf
<1> HIDE DEF homes
<1> QED
  BY <1>3, <1>5

(* What a save or a rewrap of row e stores is a record locked to e.        *)
LEMMA OwnBoxRecord ==
    ASSUME NEW e \in Entities, NEW n, NEW v
    PROVE  RecordOf(Wire(Box(entity_key(e.owner, e), n, v)))
           = [kind |-> "locked", home |-> e, val |-> v]
<1> DEFINE s == Wire(Box(entity_key(e.owner, e), n, v))
<1>1. s.form = "wire" /\ s.raw.tag = "box" /\ s.raw.key = entity_key(e.owner, e)
      /\ s.raw.plain = v
  BY DEF Wire, Box
<1> HIDE DEF s
<1>2. RecordOf(s) = [kind |-> "locked", home |-> e, val |-> s.raw.plain]
  BY <1>1, LockedRecord
<1> QED
  BY <1>1, <1>2 DEF s

-----------------------------------------------------------------------------
(* Steps                                                                   *)

(* Storing the row's own box locks its record and touches no other.        *)
LEMMA StoringLocks ==
    ASSUME TypeOK, NEW e \in Entities, NEW v, NEW n,
           stored' = [stored EXCEPT ![e] = Wire(Box(entity_key(e.owner, e), n, v))]
    PROVE  RecMap' = [RecMap EXCEPT ![e] = Records!Locked(e, v)]
<1>1. ASSUME NEW x \in Entities
      PROVE  RecordOf(stored'[x]) = IF x = e THEN Records!Locked(e, v)
                                             ELSE RecordOf(stored[x])
  <2>1. CASE x = e
    <3>1. stored'[x] = Wire(Box(entity_key(e.owner, e), n, v))
      BY <2>1 DEF TypeOK
    <3> QED
      BY <2>1, <3>1, OwnBoxRecord DEF Records!Locked
  <2>2. CASE x # e
    BY <2>2 DEF TypeOK
  <2> QED
    BY <2>1, <2>2
<1> QED
  BY <1>1 DEF RecMap

(* A lenient string read that succeeds under the owner's session is of a   *)
(* record that yields that value (try_unseal_string).                      *)
LEMMA LenientReadYields ==
    ASSUME TypeOK, NEW e \in Entities,
           try_unseal_string(entity_key(e.owner, e), stored[e]).ok
    PROVE  /\ \/ RecordOf(stored[e]).kind = "clear"
              \/ RecordOf(stored[e]).kind = "locked" /\ RecordOf(stored[e]).home = e
           /\ RecordOf(stored[e]).val
              = try_unseal_string(entity_key(e.owner, e), stored[e]).val
<1> DEFINE k == entity_key(e.owner, e)
           s == stored[e]
           r == try_unseal_bytes(k, s)
<1>1. s \in Fields
  BY DEF TypeOK
<1>2. r.ok /\ try_unseal_string(k, s) = r
  BY DEF try_unseal_string, from_utf8, Err
<1>3. CASE starts_with_prefix(s)
  <2>1. r = unseal_bytes(k, s)
    BY <1>3 DEF try_unseal_bytes
  <2>2. s.form = "wire" /\ s.raw \in Boxes /\ s.raw.key = k /\ r = Ok(s.raw.plain)
    BY <1>1, <1>2, <2>1, UnsealOpensBox
  <2>3. s.raw.tag = "box"
    BY <2>2 DEF Boxes, Box
  <2>4. RecordOf(s) = [kind |-> "locked", home |-> e, val |-> s.raw.plain]
    BY <2>2, <2>3, LockedRecord
  <2> QED
    BY <1>2, <2>2, <2>4 DEF Ok
<1>4. CASE ~starts_with_prefix(s)
  <2>1. r = Ok(s)
    BY <1>4 DEF try_unseal_bytes
  <2>2. RecordOf(s) = [kind |-> "clear", val |-> s]
    BY <1>4, ClearRecord
  <2> QED
    BY <1>2, <2>1, <2>2 DEF Ok
<1> QED
  BY <1>3, <1>4

(* Ending a rewrap, or a crash, drops the draft of that device only.       *)
LEMMA DroppingDraft ==
    ASSUME TypeOK, NEW d \in Devices, draft' = [draft EXCEPT ![d] = NoDraft]
    PROVE  DraftMap' = [DraftMap EXCEPT ![d] = NoDraft]
<1>1. ASSUME NEW x \in Devices
      PROVE  DraftOf(draft'[x]) = IF x = d THEN NoDraft ELSE DraftOf(draft[x])
  <2>1. CASE x = d
    <3>1. draft'[x] = NoDraft
      BY <2>1 DEF TypeOK
    <3> QED
      BY <2>1, <3>1 DEF DraftOf
  <2>2. CASE x # d
    BY <2>2 DEF TypeOK
  <2> QED
    BY <2>1, <2>2
<1> QED
  BY <1>1 DEF DraftMap

(* A device has no draft exactly when LockedRecords sees none.             *)
LEMMA DraftsAgree ==
    ASSUME TypeOK, NEW d \in Devices
    PROVE  /\ DraftMap[d] = NoDraft <=> draft[d] = NoDraft
           /\ draft[d] # NoDraft => /\ DraftMap[d].ent = draft[d].ent
                                    /\ DraftMap[d].val = draft[d].val
<1>1. DraftMap[d] = DraftOf(draft[d])
  BY DEF DraftMap
<1>2. CASE draft[d] = NoDraft
  BY <1>1, <1>2 DEF DraftOf
<1>3. CASE draft[d] # NoDraft
  <2>1. draft[d].ent \in Entities /\ draft[d].val \in Strings
    BY <1>3 DEF TypeOK
  <2>2. DraftMap[d] = [ent |-> draft[d].ent, val |-> draft[d].val]
    BY <1>1, <1>3 DEF DraftOf
  <2>3. DraftMap[d] \in [ent : Entities, val : Strings]
    BY <2>1, <2>2
  <2> QED
    BY <1>3, <2>2, <2>3, NoDraftAssumption
<1> QED
  BY <1>2, <1>3

(* Every row of the initial database is clear text or junk.                *)
LEMMA InitRefines == Init => Records!Init
<1> SUFFICES ASSUME Init
             PROVE  Records!Init
  OBVIOUS
<1>1. ASSUME NEW e \in Entities
      PROVE  RecordOf(stored[e])
             \in {Records!Clear(s) : s \in {x \in LegacyRows : ~Records!starts_with_prefix(x)}}
                 \cup {Records!Junk}
  <2>1. stored[e] \in LegacyRows
    BY DEF Init
  <2>2. CASE starts_with_prefix(stored[e])
    <3>1. stored[e].form = "badwire"
      BY <2>1, <2>2, LegacyRowsAssumption DEF starts_with_prefix
    <3> QED
      BY <2>2, <3>1, JunkRecord DEF Records!Junk
  <2>3. CASE ~starts_with_prefix(stored[e])
    BY <2>1, <2>3, ClearRecord DEF Records!Clear, Records!starts_with_prefix, starts_with_prefix
  <2> QED
    BY <2>2, <2>3
<1>2. DraftMap = [d \in Devices |-> NoDraft]
  BY DEF Init, DraftMap, DraftOf
<1> QED
  BY <1>1, <1>2 DEF Init, Records!Init, DraftMap

(* Every step maps to a step of LockedRecords or leaves it unchanged.      *)
LEMMA StepRefines == TypeOK /\ TypeOK' /\ [Next]_vars => [Records!Next]_(Records!vars)
<1> SUFFICES ASSUME TypeOK, TypeOK', [Next]_vars
             PROVE  Records!Next \/ UNCHANGED Records!vars
  OBVIOUS
<1> USE DEF RecMap, DraftMap
<1>1. ASSUME NEW d \in Devices, NEW m \in Masters, Open(d, m)
      PROVE  Records!Open(d, m)
  BY <1>1 DEF Open, Records!Open
<1>2. ASSUME NEW d \in Devices, Close(d)
      PROVE  Records!Close(d)
  BY <1>2 DEF Close, Records!Close
<1>3. ASSUME NEW d \in Devices, Crash(d)
      PROVE  Records!Crash(d)
  <2>1. DraftMap' = [DraftMap EXCEPT ![d] = NoDraft]
    BY <1>3, DroppingDraft DEF Crash
  <2> QED
    BY <1>3, <2>1 DEF Crash, Records!Crash
<1>4. ASSUME NEW d \in Devices, NEW e \in Entities, NEW v \in Contents, NEW n \in Nonces,
             SaveString(d, e, v, n) \/ SaveJson(d, e, v, n) \/ SaveBytes(d, e, v, n)
      PROVE  Records!Save(d, e, v)
  <2>1. /\ stored' = [stored EXCEPT ![e] = Wire(Box(entity_key(e.owner, e), n, v))]
        /\ UNCHANGED <<session, draft>>
    BY <1>4, SaveStoresBox
  <2>2. session[d] = e.owner
    BY <1>4 DEF SaveString, SaveJson, SaveBytes
  <2>3. RecMap' = [RecMap EXCEPT ![e] = Records!Locked(e, v)]
    BY <2>1, StoringLocks
  <2> QED
    BY <2>1, <2>2, <2>3 DEF Records!Save
<1>5. ASSUME NEW d \in Devices, NEW e \in Entities, BeginRewrap(d, e)
      PROVE  Records!BeginRelock(d, e)
  <2> DEFINE r == try_unseal_string(entity_key(e.owner, e), stored[e])
  <2>1. /\ session[d] = e.owner /\ draft[d] = NoDraft /\ r.ok
        /\ draft' = [draft EXCEPT ![d] = [ent |-> e, was |-> stored[e], val |-> r.val]]
        /\ UNCHANGED <<stored, session>>
    BY <1>5 DEF BeginRewrap, try_unseal_entity_string
  <2>2. DraftMap[d] = NoDraft
    BY <2>1, DraftsAgree
  <2>3. RecMap[e] = RecordOf(stored[e]) /\ RecMap[e].val = r.val
    BY <2>1, LenientReadYields
  <2>4. Records!Yields(e.owner, e, FALSE)
    <3>1. [e EXCEPT !.owner = e.owner] = e
      BY EntitiesAssumption
    <3> QED
      BY <2>1, <2>3, <3>1, LenientReadYields DEF Records!Yields
  <2>5. r.val.form # "binary"
    <3>1. stored[e] \in Fields
      BY DEF TypeOK
    <3> QED
      BY <2>1, <3>1, LenientReadYieldsString DEF Strings
  <2>6. DraftMap' = [DraftMap EXCEPT ![d] = [ent |-> e, val |-> RecMap[e].val]]
    <3>1. ASSUME NEW x \in Devices
          PROVE  DraftOf(draft'[x]) = IF x = d THEN [ent |-> e, val |-> r.val]
                                               ELSE DraftOf(draft[x])
      <4>1. CASE x = d
        <5>1. draft'[x] = [ent |-> e, was |-> stored[e], val |-> r.val]
          BY <2>1, <4>1 DEF TypeOK
        <5>2. stored[e] \in Fields /\ r.val \in Strings
          BY <2>1, LenientReadYieldsString DEF TypeOK
        <5>3. draft'[x] # NoDraft
          BY <5>1, <5>2, NoDraftAssumption
        <5> HIDE DEF r
        <5> QED
          BY <4>1, <5>1, <5>3 DEF DraftOf
      <4>2. CASE x # d
        BY <2>1, <4>2 DEF TypeOK
      <4> QED
        BY <4>1, <4>2
    <3> QED
      BY <2>3, <3>1
  <2> QED
    BY <2>1, <2>2, <2>3, <2>4, <2>5, <2>6 DEF Records!BeginRelock
<1>6. ASSUME NEW d \in Devices, NEW n \in Nonces, EndRewrap(d, n)
      PROVE  Records!EndRelock(d)
  <2>1. /\ draft[d] # NoDraft /\ session[d] = draft[d].ent.owner
        /\ draft' = [draft EXCEPT ![d] = NoDraft]
        /\ UNCHANGED session
    BY <1>6, RewrapStoresBox
  <2>2. PICK e \in Entities, v \in Strings : e = draft[d].ent /\ v = draft[d].val
    BY <2>1 DEF TypeOK
  <2>3. RecMap' = [RecMap EXCEPT ![e] = Records!Locked(e, v)]
    <3>1. stored' = [stored EXCEPT ![e] = Wire(Box(entity_key(e.owner, e), n, v))]
      BY <1>6, <2>2, RewrapStoresBox
    <3> QED
      BY <3>1, StoringLocks
  <2>4. DraftMap' = [DraftMap EXCEPT ![d] = NoDraft]
    BY <2>1, DroppingDraft
  <2>5. DraftMap[d] # NoDraft /\ DraftMap[d].ent = e /\ DraftMap[d].val = v
    BY <2>1, <2>2, DraftsAgree
  <2> QED
    BY <2>1, <2>2, <2>3, <2>4, <2>5 DEF Records!EndRelock
<1>7. ASSUME NEW e1 \in Entities, NEW e2 \in Entities, Renumber(e1, e2)
      PROVE  Records!Move(e1, e2)
  <2>1. RecMap' = [RecMap EXCEPT ![e2] = RecMap[e1]]
    BY <1>7 DEF Renumber, TypeOK
  <2> QED
    BY <1>7, <2>1 DEF Renumber, Records!Move
<1>8. ASSUME NEW e \in Entities, Damage(e)
      PROVE  Records!Spoil(e)
  <2>1. PICK s \in DamagedFields : stored' = [stored EXCEPT ![e] = s]
    BY <1>8 DEF Damage
  <2>2. RecordOf(s) = Records!Junk
    BY <2>1, DamagedFieldsAssumption, JunkRecord DEF starts_with_prefix, Records!Junk
  <2>3. RecMap' = [RecMap EXCEPT ![e] = Records!Junk]
    BY <2>1, <2>2 DEF TypeOK
  <2> QED
    BY <1>8, <2>3 DEF Damage, Records!Spoil
<1>9. CASE UNCHANGED vars
  BY <1>9 DEF vars, Records!vars
<1> QED
  BY <1>1, <1>2, <1>3, <1>4, <1>5, <1>6, <1>7, <1>8, <1>9 DEF Next, Records!Next

(* The sealed store does, step by step, no more and no less than lock each *)
(* record to its own entity and owner.                                     *)
THEOREM StoreImplementsLockedRecords == Spec => ImplementsLockedRecords
  BY TypeCorrect, InitRefines, StepRefines, PTL
     DEF Spec, ImplementsLockedRecords, Records!Spec

-----------------------------------------------------------------------------
(* What the readers tell of a record                                       *)

(* The byte readers succeed where LockedRecords says, with the value of    *)
(* the record.                                                             *)
LEMMA ByteReadsAgree ==
    ASSUME TypeOK, NEW sk, NEW e \in Entities, NEW strict \in BOOLEAN
    PROVE  LET k == entity_key(sk, e)
               b == IF strict THEN unseal_bytes(k, stored[e]) ELSE try_unseal_bytes(k, stored[e])
           IN  /\ b.ok <=> Records!Yields(sk, e, strict)
               /\ b.ok => b = Ok(RecordOf(stored[e]).val)
<1> DEFINE k == entity_key(sk, e)
           s == stored[e]
           b == IF strict THEN unseal_bytes(k, s) ELSE try_unseal_bytes(k, s)
           x == [e EXCEPT !.owner = sk]
<1> SUFFICES (b.ok <=> Records!Yields(sk, e, strict)) /\ (b.ok => b = Ok(RecordOf(s).val))
  OBVIOUS
<1>1. s \in Fields
  BY DEF TypeOK
<1>2. Records!Yields(sk, e, strict) <=>
         \/ RecordOf(s).kind = "clear" /\ ~strict
         \/ RecordOf(s).kind = "locked" /\ RecordOf(s).home = x
  BY DEF Records!Yields
<1>3. CASE ~starts_with_prefix(s)
  <2>1. try_unseal_bytes(k, s) = Ok(s)
    BY <1>3 DEF try_unseal_bytes
  <2>0. unseal_bytes(k, s) = Err("MissingE2eePrefix")
    <3>1. s.form # "badwire" /\ s.form # "wire"
      BY <1>3 DEF starts_with_prefix
    <3> QED
      BY <1>3, <3>1, Zenon DEF unseal_bytes
  <2>2. RecordOf(s) = [kind |-> "clear", val |-> s]
    BY <1>3, ClearRecord
  <2> QED
    BY <1>2, <2>0, <2>1, <2>2 DEF Ok, Err
<1>4. CASE starts_with_prefix(s)
  <2>1. b = unseal_bytes(k, s)
    BY <1>4 DEF try_unseal_bytes
  <2>2. CASE b.ok
    <3>1. s.form = "wire" /\ s.raw \in Boxes /\ s.raw.key = k /\ b = Ok(s.raw.plain)
      BY <1>1, <2>1, <2>2, UnsealOpensBox
    <3>2. s.raw.tag = "box" /\ s.raw.key \in Keys
      BY <3>1 DEF Boxes, Box
    <3>3. PICK y \in Entities : k = entity_key(y.owner, y)
      BY <3>1, <3>2 DEF Keys
    <3>4. y.owner = sk /\ y.ns = e.ns /\ y.id = e.id
      BY <3>3, EntityKeyInjective
    <3>5. y = x
      BY <3>4, EntitiesAssumption
    <3>6. RecordOf(s) = [kind |-> "locked", home |-> y, val |-> s.raw.plain]
      BY <3>1, <3>2, <3>3, LockedRecord
    <3>7. /\ RecordOf(s).kind = "locked" /\ RecordOf(s).home = x
          /\ RecordOf(s).val = s.raw.plain
      BY <3>5, <3>6
    <3>8. Records!Yields(sk, e, strict)
      BY <1>2, <3>7
    <3>9. b = Ok(RecordOf(s).val)
      BY <3>1, <3>7
    <3> QED
      BY <2>2, <3>8, <3>9
  <2>3. CASE ~b.ok
    <3> HIDE DEF b
    <3> SUFFICES ASSUME Records!Yields(sk, e, strict)
                 PROVE  FALSE
      BY <2>3
    <3>0. \/ RecordOf(s).kind = "clear" /\ ~strict
          \/ RecordOf(s).kind = "locked" /\ RecordOf(s).home = x
      BY <1>2
    <3> DEFINE homes == {h \in Entities : s.form = "wire" /\ s.raw.tag = "box"
                                          /\ s.raw.key = entity_key(h.owner, h)}
    <3>1. RecordOf(s) = IF homes = {} THEN [kind |-> "junk"]
                        ELSE [kind |-> "locked", home |-> CHOOSE h \in homes : TRUE,
                              val |-> s.raw.plain]
      BY <1>4 DEF RecordOf
    <3>2. homes # {} /\ x = CHOOSE h \in homes : TRUE
      <4> HIDE DEF homes, x
      <4> QED
        BY <3>0, <3>1
    <3>3. x \in homes
      <4> HIDE DEF homes, x
      <4> QED
        BY <3>2
    <3>4. s.form = "wire" /\ s.raw.tag = "box" /\ s.raw.key = entity_key(x.owner, x)
      BY <3>3
    <3>5. entity_key(x.owner, x) = k
      BY EntitiesAssumption DEF entity_key
    <3>6. b = Ok(s.raw.plain)
      BY <2>1, <3>4, <3>5, OwnBoxOpens DEF b
    <3> QED
      BY <2>3, <3>6 DEF Ok
  <2> QED
    BY <2>2, <2>3
<1> QED
  BY <1>3, <1>4

(* A reader is the byte reader of its strictness, then the checks of its   *)
(* shape.                                                                  *)
LEMMA ReaderIsByteReader ==
    ASSUME NEW reader \in Readers, NEW sk, NEW e \in Entities
    PROVE  LET k == entity_key(sk, e)
               b == IF reader.strict THEN unseal_bytes(k, stored[e])
                                     ELSE try_unseal_bytes(k, stored[e])
           IN  /\ reader.shape \in {"bytes", "string", "json"} /\ reader.strict \in BOOLEAN
               /\ reader.shape = "bytes"  => Read(reader, sk, e) = b
               /\ reader.shape = "string" => Read(reader, sk, e) = from_utf8(b)
               /\ reader.shape = "json"   => Read(reader, sk, e) = from_json(from_utf8(b))
<1>1. CASE reader = [shape |-> "bytes", strict |-> TRUE]
  BY <1>1 DEF Read
<1>2. CASE reader = [shape |-> "bytes", strict |-> FALSE]
  BY <1>2 DEF Read
<1>3. CASE reader = [shape |-> "string", strict |-> TRUE]
  BY <1>3 DEF Read, unseal_entity_string, unseal_string
<1>4. CASE reader = [shape |-> "string", strict |-> FALSE]
  BY <1>4 DEF Read, try_unseal_entity_string, try_unseal_string
<1>5. CASE reader = [shape |-> "json", strict |-> TRUE]
  BY <1>5 DEF Read, unseal_entity_json, unseal_json, unseal_string
<1>6. CASE reader = [shape |-> "json", strict |-> FALSE]
  BY <1>6 DEF Read, try_unseal_entity_json, try_unseal_json, try_unseal_string
<1>7. \/ reader = [shape |-> "bytes", strict |-> TRUE]
      \/ reader = [shape |-> "bytes", strict |-> FALSE]
      \/ reader = [shape |-> "string", strict |-> TRUE]
      \/ reader = [shape |-> "string", strict |-> FALSE]
      \/ reader = [shape |-> "json", strict |-> TRUE]
      \/ reader = [shape |-> "json", strict |-> FALSE]
  BY DEF Readers
<1> QED
  BY <1>1, <1>2, <1>3, <1>4, <1>5, <1>6, <1>7

(* No reader of sealed.rs or entity.rs tells more or less than the record. *)
THEOREM ReadersTellTheRecord == Spec => []ReadsAgree
<1>1. ASSUME TypeOK, NEW reader \in Readers, NEW sk \in Masters, NEW e \in Entities
      PROVE  LET r    == Read(reader, sk, e)
                 v    == RecordOf(stored[e]).val
                 fits == CASE reader.shape = "bytes"  -> TRUE
                           [] reader.shape = "string" -> v.form # "binary"
                           [] reader.shape = "json"   -> v.form = "json"
             IN  /\ r.ok <=> Records!Yields(sk, e, reader.strict) /\ fits
                 /\ r.ok => r.val = v
  <2> DEFINE k == entity_key(sk, e)
             b == IF reader.strict THEN unseal_bytes(k, stored[e])
                                   ELSE try_unseal_bytes(k, stored[e])
             v == RecordOf(stored[e]).val
             yields == Records!Yields(sk, e, reader.strict)
             fits == CASE reader.shape = "bytes"  -> TRUE
                       [] reader.shape = "string" -> v.form # "binary"
                       [] reader.shape = "json"   -> v.form = "json"
  <2>1. (b.ok <=> yields) /\ (b.ok => b = Ok(v))
    BY <1>1, ReaderIsByteReader, ByteReadsAgree
  <2>2. /\ reader.shape = "bytes"  => (fits <=> TRUE)
        /\ reader.shape = "string" => (fits <=> v.form # "binary")
        /\ reader.shape = "json"   => (fits <=> v.form = "json")
    OBVIOUS
  <2> HIDE DEF k, b, v, yields, fits
  <2>3. CASE reader.shape = "bytes"
    <3>1. Read(reader, sk, e) = b
      BY <2>3, ReaderIsByteReader DEF b, k
    <3> QED
      BY <2>1, <2>2, <2>3, <3>1 DEF Ok, v, yields, fits
  <2>4. CASE reader.shape = "string"
    <3>1. Read(reader, sk, e) = from_utf8(b)
      BY <2>4, ReaderIsByteReader DEF b, k
    <3>2. /\ from_utf8(b).ok <=> yields /\ fits
          /\ from_utf8(b).ok => from_utf8(b).val = v
      BY <2>1, <2>2, <2>4 DEF Ok, Err, from_utf8
    <3> QED
      BY <3>1, <3>2 DEF v, yields, fits
  <2>5. CASE reader.shape = "json"
    <3>1. Read(reader, sk, e) = from_json(from_utf8(b))
      BY <2>5, ReaderIsByteReader DEF b, k
    <3>2. /\ from_json(from_utf8(b)).ok <=> yields /\ fits
          /\ from_json(from_utf8(b)).ok => from_json(from_utf8(b)).val = v
      BY <2>1, <2>2, <2>5 DEF Ok, Err, from_utf8, from_json
    <3> QED
      BY <3>1, <3>2 DEF v, yields, fits
  <2> QED
    BY <2>3, <2>4, <2>5, ReaderIsByteReader
<1>2. TypeOK => ReadsAgree
  BY <1>1 DEF ReadsAgree
<1> QED
  BY <1>2, TypeCorrect, PTL

=============================================================================
