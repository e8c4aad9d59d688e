---------------------------- MODULE EntityStore -----------------------------
(***************************************************************************)
(* entity.rs over namespace.rs, session.rs, sealed.rs and encryption.rs:   *)
(* rows of an application whose sensitive field is sealed under a key of   *)
(* its own.                                                                *)
(*                                                                         *)
(* The library keeps no state of its own.  The state here is what its      *)
(* callers keep between calls: the SessionKey of each device, the stored   *)
(* field of each row, and the plaintext a device holds between reading a   *)
(* row and writing it back sealed (the migration of legacy rows described  *)
(* in the header of sealed.rs).  Rows are shared by the devices, a device  *)
(* may stop between any two calls, rows may be damaged or turn up under    *)
(* another entity id (the renumbering entity.rs warns of).                 *)
(*                                                                         *)
(* Reads change no state: the invariants quantify over every call of a     *)
(* reader that could be made in a state.                                   *)
(***************************************************************************)
EXTENDS Namespace, Sealed

CONSTANTS
    Masters,    \* master keys, one per account
    Devices,    \* running instances of the application
    Entities,   \* the rows: an owner, a namespace and an entity id
    Contents,   \* what the application saves
    LegacyRows, \* what a row can hold before encryption shipped
    Nonces,     \* what fill_bytes can return
    DamagedFields, \* what damage makes of a prefixed field
    NoSession,  \* no SessionKey on the device
    NoDraft     \* no rewrap under way on the device

(* An implementor of EncryptedEntity picks one of the per-entity           *)
(* namespaces; ProfileSharing ignores the id and is for X25519 secrets.    *)
ASSUME EntitiesAssumption ==
    Entities \subseteq [owner : Masters, ns : PerEntityNamespaces, id : Int]

(* Forms of the strings an application can pass to seal or have stored.    *)
ASSUME ContentsAssumption ==
    \A v \in Contents : v.form \in {"json", "text", "binary", "badwire", "opaque"}

ASSUME LegacyRowsAssumption ==
    \A s \in LegacyRows : s.form \in {"json", "text", "badwire"}

(* Damage behind the prefix: the rest is too short, not what encrypt       *)
(* returned, or not base64.                                                *)
ASSUME DamagedFieldsAssumption ==
    \A s \in DamagedFields :
        \/ s.form = "badwire"
        \/ s.form = "wire" /\ s.raw.tag = "noise" /\ s.raw.len \in Nat

ASSUME NoSessionAssumption == NoSession \notin Masters

VARIABLES
    stored,     \* stored[e]: the field of row e in the database
    session,    \* session[d]: the SessionKey device d holds, or NoSession
    draft,      \* draft[d]: the row device d has read in order to rewrap it
    sealed,     \* history: the plaintexts sealed so far, with their entity
    sound       \* history: rows untouched by damage and renumbering

vars == <<stored, session, draft, sealed, sound>>

-----------------------------------------------------------------------------
(* entity.rs                                                               *)

entity_key(sk, e) == derive(sk, e.ns, e.id)

(* Fault: one entity type's sealing path keeps the namespace of another.   *)
SealStringAsProfile(sk, e, plain, nonce) ==
    seal_string(derive(sk, "profile", e.id), plain, nonce)

seal_entity_string(sk, e, plain, nonce) ==
    seal_string(entity_key(sk, e), plain, nonce)

unseal_entity_string(sk, e, s) == unseal_string(entity_key(sk, e), s)

try_unseal_entity_string(sk, e, s) == try_unseal_string(entity_key(sk, e), s)

(* Fault: as_bytes() where entity_key() belongs.                           *)
SealJsonUnderMaster(sk, e, value, nonce) == seal_json(sk, value, nonce)

seal_entity_json(sk, e, value, nonce) ==
    seal_json(entity_key(sk, e), value, nonce)

unseal_entity_json(sk, e, s) == unseal_json(entity_key(sk, e), s)

try_unseal_entity_json(sk, e, s) == try_unseal_json(entity_key(sk, e), s)

-----------------------------------------------------------------------------
Init ==
    /\ stored  \in [Entities -> LegacyRows]
    /\ session = [d \in Devices |-> NoSession]
    /\ draft   = [d \in Devices |-> NoDraft]
    /\ sealed  = {}
    /\ sound   = {e \in Entities : ~starts_with_prefix(stored[e])}

(* SessionKey::new, with whatever master key PIN, recovery or keychain     *)
(* produced.                                                               *)
Open(d, m) ==
    /\ session[d] = NoSession
    /\ session' = [session EXCEPT ![d] = m]
    /\ UNCHANGED <<stored, draft, sealed, sound>>

(* Drop for SessionKey.  A plaintext already read is not tied to it.       *)
Close(d) ==
    /\ session[d] # NoSession
    /\ session' = [session EXCEPT ![d] = NoSession]
    /\ UNCHANGED <<stored, draft, sealed, sound>>

(* The process stops: everything in memory is gone.                        *)
Crash(d) ==
    /\ session' = [session EXCEPT ![d] = NoSession]
    /\ draft'   = [draft EXCEPT ![d] = NoDraft]
    /\ UNCHANGED <<stored, sealed, sound>>

(* The caller keeps what a sealing call returned; an error stores nothing. *)
Put(e, r, plain) ==
    /\ r.ok
    /\ stored' = [stored EXCEPT ![e] = r.val]
    /\ sealed' = sealed \cup {[ent |-> e, plain |-> plain]}
    /\ sound'  = sound \cup {e}

(* A device saves only rows of the account it has open; nothing in the     *)
(* library checks it (CryptoError::UserIdMismatch is left to the caller).  *)
SaveString(d, e, v, n) ==
    /\ session[d] = e.owner
    /\ v.form \in {"json", "text", "badwire"}
    /\ Put(e, seal_entity_string(session[d], e, v, n), v)
    /\ UNCHANGED <<session, draft>>

SaveJson(d, e, v, n) ==
    /\ session[d] = e.owner
    /\ v.form \in {"json", "opaque"}
    /\ Put(e, seal_entity_json(session[d], e, v, n), v)
    /\ UNCHANGED <<session, draft>>

(* seal_bytes under SessionKey::entity_key, the binary path.               *)
SaveBytes(d, e, v, n) ==
    /\ session[d] = e.owner
    /\ v.form # "opaque"
    /\ Put(e, seal_bytes(entity_key(session[d], e), v, n), v)
    /\ UNCHANGED <<session, draft>>

(* Fault: the migration reads with the strict reader.                      *)
BeginRewrapStrict(d, e) ==
    LET r == unseal_entity_string(session[d], e, stored[e])
    IN  /\ session[d] = e.owner
        /\ draft[d] = NoDraft
        /\ r.ok
        /\ draft' = [draft EXCEPT ![d] = [ent |-> e, was |-> stored[e], val |-> r.val]]
        /\ UNCHANGED <<stored, session, sealed, sound>>

(* First half of a rewrap: the lenient read.                               *)
BeginRewrap(d, e) ==
    LET r == try_unseal_entity_string(session[d], e, stored[e])
    IN  /\ session[d] = e.owner
        /\ draft[d] = NoDraft
        /\ r.ok
        /\ draft' = [draft EXCEPT ![d] = [ent |-> e, was |-> stored[e], val |-> r.val]]
        /\ UNCHANGED <<stored, session, sealed, sound>>

(* Fault: the stored field, not what was read from it, is sealed again.    *)
EndRewrapOfStored(d, n) ==
    /\ draft[d] # NoDraft
    /\ session[d] = draft[d].ent.owner
    /\ Put(draft[d].ent,
           seal_entity_string(session[d], draft[d].ent, draft[d].was, n), draft[d].was)
    /\ draft' = [draft EXCEPT ![d] = NoDraft]
    /\ UNCHANGED session

(* Second half: seal what was read and store it over whatever is there.    *)
EndRewrap(d, n) ==
    /\ draft[d] # NoDraft
    /\ session[d] = draft[d].ent.owner
    /\ Put(draft[d].ent,
           seal_entity_string(session[d], draft[d].ent, draft[d].val, n), draft[d].val)
    /\ draft' = [draft EXCEPT ![d] = NoDraft]
    /\ UNCHANGED session

(* The field of e1 turns up in the row of e2 without being rewrapped.      *)
Renumber(e1, e2) ==
    /\ e1 # e2
    /\ stored' = [stored EXCEPT ![e2] = stored[e1]]
    /\ sound'  = sound \ {e2}
    /\ UNCHANGED <<session, draft, sealed>>

(* A prefixed field is cut, altered, or no longer base64.                  *)
Damage(e) ==
    /\ starts_with_prefix(stored[e])
    /\ \E s \in DamagedFields : stored' = [stored EXCEPT ![e] = s]
    /\ sound' = sound \ {e}
    /\ UNCHANGED <<session, draft, sealed>>

Next ==
    \/ \E d \in Devices, m \in Masters : Open(d, m)
    \/ \E d \in Devices : Close(d) \/ Crash(d)
    \/ \E d \in Devices, e \in Entities, v \in Contents, n \in Nonces :
          SaveString(d, e, v, n) \/ SaveJson(d, e, v, n) \/ SaveBytes(d, e, v, n)
    \/ \E d \in Devices, e \in Entities : BeginRewrap(d, e)
    \/ \E d \in Devices, n \in Nonces : EndRewrap(d, n)
    \/ \E e1, e2 \in Entities : Renumber(e1, e2)
    \/ \E e \in Entities : Damage(e)

Spec == Init /\ [][Next]_vars

-----------------------------------------------------------------------------
(* Types                                                                   *)

Plaintexts == {v \in Contents : v.form # "opaque"} \cup LegacyRows

Keys == {entity_key(e.owner, e) : e \in Entities}

Boxes ==
    {Box(k, n, v) : k \in Keys, n \in Nonces, v \in Plaintexts}

Fields == LegacyRows \cup DamagedFields \cup {Wire(b) : b \in Boxes}

Strings == {v \in Plaintexts : v.form # "binary"}

ASSUME NoDraftAssumption ==
    /\ NoDraft \notin [ent : Entities, was : Fields, val : Strings]
    /\ NoDraft \notin [ent : Entities, val : Strings]

(* Every field is a legacy row, a damaged one or a box of some entity's    *)
(* key; what a device holds between the halves of a rewrap is a plaintext. *)
TypeOK ==
    /\ stored  \in [Entities -> Fields]
    /\ session \in [Devices -> Masters \cup {NoSession}]
    /\ draft   \in [Devices -> {NoDraft} \cup [ent : Entities, was : Fields, val : Strings]]
    /\ sealed  \subseteq [ent : Entities, plain : Plaintexts]
    /\ sound   \subseteq Entities

-----------------------------------------------------------------------------
(* Safety                                                                  *)

Readers == [shape : {"bytes", "string", "json"}, strict : BOOLEAN]

(* The call a reader makes on row e when session sk is open.               *)
Read(reader, sk, e) ==
    LET s == stored[e]
        k == entity_key(sk, e)
    IN  CASE reader = [shape |-> "bytes",  strict |-> TRUE]  -> unseal_bytes(k, s)
          [] reader = [shape |-> "bytes",  strict |-> FALSE] -> try_unseal_bytes(k, s)
          [] reader = [shape |-> "string", strict |-> TRUE]  -> unseal_entity_string(sk, e, s)
          [] reader = [shape |-> "string", strict |-> FALSE] -> try_unseal_entity_string(sk, e, s)
          [] reader = [shape |-> "json",   strict |-> TRUE]  -> unseal_entity_json(sk, e, s)
          [] reader = [shape |-> "json",   strict |-> FALSE] -> try_unseal_entity_json(sk, e, s)

(* Whatever was moved, damaged, rewrapped or raced: when a reader succeeds *)
(* on a prefixed field, or strictly on any field, the account of the       *)
(* session sealed that very value for that very namespace and id ("the     *)
(* prefix is a commitment, not a hint", sealed.rs; "a key for one entity   *)
(* cannot decrypt another's blob", lib.rs).                                *)
ReadsAreAuthentic ==
    \A reader \in Readers, sk \in Masters, e \in Entities :
        LET r == Read(reader, sk, e)
        IN  r.ok /\ (reader.strict \/ starts_with_prefix(stored[e]))
            => [ent |-> [e EXCEPT !.owner = sk], plain |-> r.val] \in sealed

(* A row that nobody damaged or renumbered since it was last written is    *)
(* readable by its owner at every moment of the migration, on any device,  *)
(* through the lenient reader, and the strict reader agrees as soon as the *)
(* row is sealed: no interleaving of saves, rewraps and crashes leaves a   *)
(* row nobody can open.                                                    *)
SoundRowsReadable ==
    \A e \in sound :
        LET lenient == Read([shape |-> "bytes", strict |-> FALSE], e.owner, e)
            strict  == Read([shape |-> "bytes", strict |-> TRUE],  e.owner, e)
        IN  /\ lenient.ok
            /\ starts_with_prefix(stored[e]) => strict = lenient

(* A rewrap that nobody raced leaves the row reading as it did before it   *)
(* began, even when sessions were closed and reopened in between; in       *)
(* particular a sealed row that is rewrapped again is not sealed twice.    *)
UnracedRewrapKeepsContent ==
    [][\A d \in Devices :
          draft[d] # NoDraft /\ draft'[d] = NoDraft
          /\ stored'[draft[d].ent] # stored[draft[d].ent]
          /\ stored[draft[d].ent] = draft[d].was
          => LET e == draft[d].ent
             IN  try_unseal_entity_string(e.owner, e, stored'[e])
                 = try_unseal_entity_string(e.owner, e, stored[e])]_vars

FinishRewrap(d, e) ==
    /\ draft[d] # NoDraft /\ draft[d].ent = e
    /\ \E n \in Nonces : EndRewrap(d, n)

(* The device comes back to every account, and reads and stores again      *)
(* every row it can again and again.  No code of the crate schedules that: *)
(* sealed.rs leaves the migration to the caller ("until a migration        *)
(* rewraps them"), and what follows is said of a caller who does it.       *)
KeepsMigrating(d) ==
    /\ \A m \in Masters : SF_vars(Open(d, m))
    /\ \A e \in Entities : SF_vars(BeginRewrap(d, e)) /\ SF_vars(FinishRewrap(d, e))

(* If one device keeps migrating, a row that does not begin with the       *)
(* prefix does so in the end, and opens strictly unless it was damaged or  *)
(* overwritten meanwhile: however often sessions close, processes stop and *)
(* other devices race it, the library refuses neither half of the rewrap.  *)
(* Of a legacy row that begins with the prefix this promises nothing: the  *)
(* lenient reader takes it for a sealed one and fails (sealed.rs:53).      *)
MigrationSealsRows ==
    (\E d \in Devices : KeepsMigrating(d))
    => \A e \in Entities :
          ~starts_with_prefix(stored[e])
          ~> /\ starts_with_prefix(stored[e])
             /\ e \in sound => unseal_entity_string(e.owner, e, stored[e]).ok

(* sealed.rs:9, "Rows written before E2EE shipped hold plaintext.          *)
(* try_unseal_* returns such rows as-is": of a legacy row that nobody      *)
(* rewrote, the lenient byte reader returns the very string.               *)
LegacyRowsReadAsIs ==
    \A e \in Entities :
        stored[e] \in LegacyRows
        => Read([shape |-> "bytes", strict |-> FALSE], e.owner, e) = Ok(stored[e])

-----------------------------------------------------------------------------
(* Refinement: the stored fields implement LockedRecords.                  *)

RecordOf(s) ==
    LET homes == {e \in Entities : s.form = "wire" /\ s.raw.tag = "box"
                                   /\ s.raw.key = entity_key(e.owner, e)}
    IN  IF ~starts_with_prefix(s)
        THEN [kind |-> "clear", val |-> s]
        ELSE IF homes = {} THEN [kind |-> "junk"]
        ELSE [kind |-> "locked", home |-> CHOOSE e \in homes : TRUE, val |-> s.raw.plain]

DraftOf(dr) == IF dr = NoDraft THEN NoDraft ELSE [ent |-> dr.ent, val |-> dr.val]

Records == INSTANCE LockedRecords WITH
    rec   <- [e \in Entities |-> RecordOf(stored[e])],
    draft <- [d \in Devices |-> DraftOf(draft[d])]

(* Every step of the store is a step of LockedRecords: keys, nonces and    *)
(* the wire format do no more and no less than lock each record to its     *)
(* own entity and owner.                                                   *)
ImplementsLockedRecords == Records!Spec

(* A reader succeeds exactly where LockedRecords says it may, up to the    *)
(* shape the reader asks for, and yields the value of the record.          *)
ReadsAgree ==
    \A reader \in Readers, sk \in Masters, e \in Entities :
        LET r   == Read(reader, sk, e)
            rcd == RecordOf(stored[e])
            fits == CASE reader.shape = "bytes"  -> TRUE
                      [] reader.shape = "string" -> rcd.val.form # "binary"
                      [] reader.shape = "json"   -> rcd.val.form = "json"
        IN  /\ r.ok <=> Records!Yields(sk, e, reader.strict) /\ fits
            /\ r.ok => r.val = rcd.val

=============================================================================
