# A formal model of incokit-e2ee

TLA+ modules that model the `incokit-e2ee` crate, TLC configurations that check
them on small instances, and TLAPS proofs that hold for all of them. Paths
below are relative to the repository.

## The system

The crate is a library: it runs no thread, opens no connection and keeps no
state between calls. What can go wrong is in the sequences of calls its
applications make, often from several devices, on data that lives elsewhere: rows
in a database shared by devices, wrapped keys on a server, an entry of the OS
keychain. The modules therefore model each function as an operator, and the state
of its callers as variables.

| Component | State (kept by) | Operations | What makes it correct |
|---|---|---|---|
| AEAD cipher, `src/encryption.rs:9-48` | none | `encrypt`, `decrypt` | opens under its own key only; tells short data from a failed tag |
| Key derivation, `src/namespace.rs` | none | `derive_key` | distinct (account, namespace, id) give distinct keys |
| Session key, `src/session.rs` | master key in memory (device) | `new`, `derive`, `as_bytes`, `Drop` | reads and seals need it; it is gone after a drop |
| Wire format, `src/sealed.rs` | none | `seal_*`, `unseal_*`, `try_unseal_*` for bytes, strings, JSON | the prefix commits; the strict and lenient readers agree on sealed fields |
| Entity layer, `src/entity.rs` | rows (database) | `seal_entity_*`, `unseal_entity_*`, `try_unseal_entity_*` | a row opens only as what it was sealed as; a migration never loses a row |
| Keychain, `src/keychain.rs` | one entry per service and account (OS) | `save`, `load`, `delete`, `has` | a load tells the last save, and an error is never an absent key |
| Sharing, `src/keys.rs:64-136, 206-224` | keypairs, shares (server) | `generate_x25519_keypair`, `encrypt_*_for_sharing`, `decrypt_shared_*` | only the two parties open a share; it holds what one of them sealed |
| Master-key wrapping, `src/encryption.rs:52-81` | salt and two wrapped blobs (server) | `derive_key`, `wrap_master_key`, `unwrap_master_key` | PIN and recovery key both lead to the one master key, through PIN changes and crashes |
| Stored keys, `src/keys.rs:138-204` | wrapped private key, wrapped profile keys (server) | `encrypt_private_key`, `wrap_profile_key_with_master`, inverses | a blob comes back as the kind of key it was stored as |
| Recovery-key text, `src/keys.rs:29-60` | none | `format_recovery_key`, `parse_recovery_key` | a careful copy parses to the key; a lost, doubled or foreign character never yields another key, a misread digit always does |
| PIN blind, `src/oprf.rs` | none | `blind`, `finalize` | distinct (user, PIN) give distinct blinds: only the account's own PIN opens it |
| Errors, `src/error.rs` | none | the variants | each failure keeps its own name |

How they interact: `entity.rs` calls `session.rs` for a key (which calls
`namespace.rs`) and `sealed.rs` for the wire format (which calls
`encryption.rs`). The master key inside the session comes from
`unwrap_master_key`, under a key that `derive_key` makes from a recovery key or from what
`oprf.rs` made of a PIN, or from the keychain; the private key and profile keys used for
sharing are stored under it. There are no callbacks.

The hard behaviours: two devices on the same rows; a rewrap (read, seal, store)
interrupted or raced; rows renumbered or moved without a rewrap; plaintext and
sealed rows side by side during the migration; damaged fields; a keychain that
refuses access, or into which other programs put keys of their own; two devices that enrol at
once and go to work before either has an answer; a PIN or a
recovery key changed on one device while the answer to another's change is lost and it
is sent again; evaluations that belong to another request; keypairs replaced while
shares are under way; a recovery key copied by hand. `PROJECT.json` lists them
as hazards, each at its line.

## The modules

**`Aead`** (encryption.rs, the result type of error.rs). Ciphertext is a record
`Box(key, nonce, plain)`; anything else handed to `decrypt` is `Noise(len)`. A box
opens under the key it carries: the cipher is ideal, which is the assumption the
whole model rests on. The nonce is a parameter, for `fill_bytes` may return
anything, the same nonce twice included.

**`Namespace`** (namespace.rs, `derive` of session.rs). The info string is kept as
the sequence of parts `format!` joins, so the isolation of keys rests on what goes
into the string. HKDF is ideal.

**`Sealed`** (sealed.rs). A byte string is described by what the code tells apart:
`json`, `text`, `binary`, `wire` (prefix and base64), `badwire` (prefix and no
base64), and `opaque` for a value that does not serialise. Each function is the
composition the code writes. JSON readers ask for any JSON value: a type that
refuses some of them would fail more often, never succeed differently.

**`EntityStore`** (entity.rs, session.rs). The state is the callers':

| Variable | Stands for |
|---|---|
| `stored[e]` | the sensitive field of row `e` in the database |
| `session[d]` | the `SessionKey` of device `d` |
| `draft[d]` | the plaintext `d` has read and is about to seal again |
| `sealed`, `sound` | history: what was sealed for which row; rows untouched by damage or renumbering since their last write |

`Open` and `Close` are `SessionKey::new` and `Drop`; `SaveString`, `SaveJson` and
`SaveBytes` call a sealing function and store what it returned; `BeginRewrap` and
`EndRewrap` are the two halves of the migration the header of sealed.rs describes
(lenient read, then seal and store), with anything allowed between them; `Crash`,
`Renumber` and `Damage` are what happens to the application's process and database.
Readers change nothing, so they are not actions: the invariants quantify over
every call of each of the six readers in every state.

An application seals a row only while the row's account is open. The library does not check it
(`CryptoError::UserIdMismatch` is never constructed), so it is a guard of the saves and of both
halves of a rewrap, and of them only. Renumbering moves fields freely between accounts.

**`LockedRecords`** is the abstract specification: a row is clear text, a record
locked to one entity and account, or junk. There are no keys, nonces or prefixes in it.
`EntityStore` implements it under the mapping `RecordOf` (property
`ImplementsLockedRecords`).

**`Keychain`** (keychain.rs). `entries` is the OS store, `reachable` whether the OS answers,
`last` a history: the key last saved, or that someone else wrote since. `Save` and `Delete` are
the two functions that change an entry, for every service (the wrappers of lines 65-82 use
`DEFAULT_SERVICE`); `Toggle` and `Overwrite` are the OS and other programs, which may remove an
entry, make it unreadable, or leave a valid key of their own: `decode_key` takes any 32 bytes,
and the default service is that of every application that does not choose one. `HasStore` is
read off the features of `Cargo.toml:43`; that keyring then uses a mock store whose passwords do
not outlive their `Entry` is keyring's documented behaviour, external to this repository.

**`KeyWrapping`** (keys.rs:74-136, 156-224). Pure operators. X25519 is ideal: a keypair
is named by its private key, and the secret of two keypairs is the unordered pair, so
both sides compute the same one and no others do. `as_key` is the length check three
functions repeat: `NotKeys` are the payloads that do not have 32 bytes.

**`Sharing`** (keys.rs as its callers use it). A user is named by the master key of the
account.

| Variable | Stands for |
|---|---|
| `private[u]`, `wrapped[u]` | the stored private key and profile keys of `u`, encrypted under the master key |
| `public[u]`, `shares` | what the server shows as the public key of `u`; the blobs left with it |
| `pending[u]`, `target[u]` | a public key `u` has not sent yet; the recipient's public key `u` has read |
| `owner`, `sealings`, `entrusted` | history: who generated a keypair; what was sealed by whom for whom; who made a profile key or was sealed it |

`NewKeypair` generates a keypair and replaces the stored private key, `Publish` sends
its public key, `ReadPublic` and `ShareKey` or `ShareBlob` are the two halves of a
sealing, `Accept` opens a share as a profile key and stores it under the recipient's
own master key. A user may stop between any two (`Crash`). The server may hand any
blob to anyone as from anyone, any number of times: shares are never removed, and
`Accept` takes any of them with any user's public key. The server is not assumed to
invent public keys: it shows what was published, for the crate has no means to tell.

**`Entrustment`** is the abstract specification of sharing: who holds a profile key and
who has offered it to whom. There are no keypairs, boxes or server in it. `Sharing` implements
it (`ImplementsEntrustment`), where the holders are those who can open the key under
their master key and the offers are the sealings.

**`Oprf`** (oprf.rs). SHA-256 is ideal and what is hashed is kept as the sequence of bytes
the `update` calls append, so that whether two inputs can run together to one string is a
question the model can answer. The length prefix is one symbol of `Width` values. The
server's HMAC is external and ideal.

**`MasterKey`** (encryption.rs:50-81, keys.rs:7-27). The generators, `derive_key` (Argon2id,
ideal), `wrap_master_key` and `unwrap_master_key`. The error arms of Argon2 and the length
check after the decryption are dead in these flows: parameters and salt length are constants,
and nothing but 32 bytes is ever wrapped.

**`Account`** (examples/full_flow.rs, and what oprf.rs, session.rs and keychain.rs say of
their callers) composes `Oprf`, `MasterKey`, `Namespace`, `Sealed` and an instance of
`Keychain` into the life of a master key.

| Variable | Stands for |
|---|---|
| `account[u]` | the row of `u` on the server: salt, key wrapped under the PIN, key wrapped under the recovery key |
| `rows[u]` | one sealed profile row of `u` in the database |
| `session[d]` | the `SessionKey` of device `d`, and whose it is |
| `upload[d]` | what `d` has to store and has no answer for |
| `meant[u]` | history: the master key, PIN and recovery key the row was last made from |
| `unproven[u]` | history: the keys a session of `u` was opened with on no word of the server's |
| `entries`, `reachable`, `last` | the keychain all devices (processes of one machine) share |

`Enrol` is section 1 of the example, with the recovery key that encryption.rs:64 names as the
second path; the device may open its session with the key it generated at once, as
full_flow.rs:58 does, and work while the upload is still on its way, or leave it to a later unlock.
`Insert` and `Refuse` are the server's two answers; neither touches a session, so a device whose
row was refused goes on with the key it generated; `ChangePin` and
`ChangeRecovery` wrap the session's master key again under the stored salt, and `Replace`
stores that one column. An answer may be lost (`answered = FALSE`): the upload stays, and is
sent again after anything else has happened. `Unlock`, `Recover` and `Resume` open a session
with a PIN, a recovery key or the keychain's entry, whoever left it there; `Unlock` takes the
evaluation of *any* user and PIN. `SaveRow` is section 2 of the example. `Lock`, `Crash`,
`Remember` and `KeychainStep` do what their names say. The example calls `derive_key` on
the PIN itself; the model follows oprf.rs:31-39, where the key material is what `finalize`
returns.

Some of this the model takes from no source, for the repository holds neither a server nor an
application, and the properties of accounts assume it. Of the server: a row is inserted only
where there is none, and one column is replaced in one step together with the salt it was
wrapped under. Of a device: it enrols where it finds no account, has one upload on its way at a
time and opens no other session meanwhile, changes secrets only of an account the server has,
and wraps under the stored salt. The key of a session is what the device generated, unwrapped or
found in the keychain, and is checked against nothing. An account therefore may get a second
key, in two ways: a device works with the key it generated and another device's row was first,
or it resumes with a key another program left in the keychain. `KeysOf(u)` are the keys that
came in so and the account's own, and `Settled(u)` says of a state that the account's own is the
only one. What `SessionsHoldMaster`, `SecretsOpen`, `RowsRecoverable` and `KeyNeverChanges` say
of one master key they say where `Settled` holds; of other states they say what is left.

A device reads the row and unwraps in one step, which loses nothing, for a row's salt and
master key never change (`Steady` in `AccountProofs`).

**`Vault`** is the abstract specification of an account: which PINs and recovery keys open it,
on which devices it is open, and what the holder of the recovery key reads. Devices may be at
work before the account is stored (`Create` takes them over, with the row they wrote), and an
account goes `astray`, once and for all, when a second key comes in: its row is then promised to
nobody, PIN and recovery key still are. `Account` implements
it under a mapping that *tries* every PIN and recovery key on the stored columns
(`ImplementsVault`). Seen from the keychain, `Account` is a caller of `Keychain`: it implements
that specification too (`UsesKeychain`), with its own three keychain variables.

**`RecoveryKey`** (keys.rs:29-60). `format_recovery_key` and `parse_recovery_key` on sequences of
characters, for keys of `KeyBytes` bytes in groups of `Group` digits. The state is a copy of
the text that a person spaces, joins and writes in either case, with at most one slip: of a
character (`Omit`, `Repeat`, and `Mistype`, anything but a digit for a digit) or of a digit
(`Misread` as one of the `Lookalikes`, `Exchange` of two); `slip` says which. `only` is
`chars().filter().collect()`: what stands at the kept places, in their order. It is written without
recursion so that it can be proved about, and `MCRecoveryKey` has TLC compare it with the
recursive `SelectSeq` on all texts of up to five characters out of four.

Definitions introduced by a comment that says "Fault:" are not part of any
specification. Each is a plausible slip in the function that follows it, with which
a property of the runs is seen to fail; `PROJECT.json` pairs them.

## What TLC checks

| Run | Instance | Shows |
|---|---|---|
| `isolation` | 4 rows that differ in namespace, id or account, 2 accounts, 1 device, no damage, at most 2 distinct things sealed | `ReadsAreAuthentic` |
| `rewrap` | 2 rows, 2 devices, 2 nonces, contents that are and are not UTF-8 | `TypeOK`, `SoundRowsReadable`, `UnracedRewrapKeepsContent`, `ImplementsLockedRecords` |
| `shapes` | 2 rows, 1 device, every form of content, legacy row and damage | `ReadsAreAuthentic`, `ReadsAgree`, `ImplementsLockedRecords` |
| `migration` | 2 legacy rows, 2 devices, 1 nonce, nothing newly saved, either row may begin with the prefix, damage, renumbering and crashes | `MigrationSealsRows` |
| `shares` | 3 users, 3 keypairs, 1 profile key, 1 other payload, 1 nonce, at most 2 sealings | `TypeOK`, `KeysStayEntrusted`, `OpenedSharesAreOfThePair`, `SharesReachRecipient`, `ImplementsEntrustment` |
| `account_race` | 1 user, 2 devices, 2 PINs, 1 salt, 2 each of master keys and recovery keys, 1 row content, a keychain others write to | `TypeOK`, `SessionsHoldMaster`, `SecretsOpen`, `RowsRecoverable`, `ImplementsVault`, `KeyNeverChanges`, `UsesKeychain` |
| `account_users` | 2 users and 2 PINs that run together to the same bytes, 1 device, 2 salts, no keychain store | `SecretsOpen`, `OnlyTheSecretUnlocks` |
| `recovery_copies` | all 9 keys of 2 bytes out of 3, groups of 2 digits, 2 harmless changes and 1 slip, 2 lookalikes | `CarefulCopiesParse`, `OneSlipIsNoticed`, `MisreadIsAnotherKey` |
| `legacy` | as `shapes`, one content | violates `LegacyRowsReadAsIs` |
| `keychain` | 2 services, 2 accounts, 2 keys | `TypeOK`, `LoadTellsLastSave`, `AnswersWhenReachable` |
| `keychain_has` | the same | violates `HasTellsExistence` |
| `keychain_linux` | the same, `Platform = "linux"` | violates `SavedKeyIsKept` |

- `ReadsAreAuthentic`: whatever was moved, damaged or raced, a reader that succeeds on a
  prefixed field returns a value that the account of the session sealed for that namespace and
  id.
- `SoundRowsReadable`: no interleaving of saves, rewraps and crashes leaves a row its owner
  cannot read. Readers agree once it is sealed.
- `UnracedRewrapKeepsContent`: a rewrap that nobody raced leaves the row reading as before. A
  *raced* rewrap overwrites the save it raced with, in the model as in any caller that follows
  sealed.rs without a transaction: the library has no version to compare, and the property says
  so by its precondition.
- `ReadsAgree`: the readers succeed exactly where `LockedRecords` says they may, up to the shape
  they ask for.
- `KeysStayEntrusted`: whoever can open a profile key made it, or is someone a holder sealed it
  for, along any chain of sharing. `OpenedSharesAreOfThePair`: a share that opens for `v` with
  the public key of `u` holds what one of the two sealed for the other; which of them the blob
  does not tell, for the secret is symmetric, and the property claims no more.
  `SharesReachRecipient`: while the two keypairs of a share are in place, it opens to what was
  sealed. A recipient who has replaced the keypair, or lost the new one between `NewKeypair` and
  `Publish`, cannot open it: that is the property's precondition. `ImplementsEntrustment`:
  although a blob does not tell which of the pair sealed it, a profile key reaches only the user
  it was sealed for; a sharer who is handed its own share back gains nothing.
- `SessionsHoldMaster`: however a session was opened, on whichever device and after whichever
  race, it holds a key of `KeysOf`: the account's, or one that a device went to work with by
  itself. A session that is not the account's thus always goes back to one of the two ways
  above, also through PIN changes and keychain entries such a session made; and where neither
  happened, all sessions of a user hold the one master key. `SecretsOpen`: the PIN and the
  recovery key last stored both open the account, whatever crashed, was lost or was sent twice,
  and although sessions that had gone astray may have changed them; to the master key where the
  account is settled. `OnlyTheSecretUnlocks`: nothing else does. `RowsRecoverable`: in a settled
  account the recovery key reads the row whoever wrote it, before the account was stored or
  after, also through `derive_profile_key`, the old alias. "Last stored" is what the server took
  last: a repeated upload may put an earlier PIN change back on top of a later one, in the model
  as for any caller that retries.
- `KeyNeverChanges`: no step takes an account away, and none makes the row of a settled one
  unwrap to another key, whatever is tried on it. A server that let a second, late enrolment
  overwrite the first would break it. `UsesKeychain`: whatever crashes, races and sessions read
  back from the keychain, the devices save master keys only, each under its user, so the entries
  are those of `Keychain`.
- `MigrationSealsRows`: if one device keeps migrating, every row that does not begin with the
  prefix is sealed in the end. It promises nothing of a legacy row that does: the lenient reader
  takes it for a sealed one, fails, and the row can never be rewrapped (run `legacy`).
- `CarefulCopiesParse`, `OneSlipIsNoticed`: a copy without a slip parses to the key shown; with
  a character too many, too few or that is no digit it is refused, or still parses to that key
  (a repeated dash, say). `MisreadIsAnotherKey`: a digit taken for another, or two exchanged,
  always parses, and to another key, for the text has no check digits. That key then unwraps
  nothing (`OnlyTheSecretUnlocks`), which is the first moment anyone is told.
- `LoadTellsLastSave`: a load that answers None has found no entry, so neither a refusing OS nor
  a password that does not decode, whoever left it, reads as an absent key; and of an entry
  nobody else wrote since, a load that answers gives the last save under that service and
  account. `AnswersWhenReachable`: while the OS answers, an entry nobody else edited can be
  read.

**Bounds.** `SealedBound` limits how many distinct (row, plaintext) pairs are ever
sealed. Two are enough for one row's box to be moved over another's, read under both,
and rewrapped; what distinguishes keys is covered by the four rows, which differ
from the first in one component each. Two devices give every race of two rewraps
or of a rewrap and a save; a third adds no new pair. Two nonces tell a stored field
from the same plaintext sealed again. Damage is left to `rewrap` and `shapes`,
where it meets every reader. Three users are the two parties of a share and an
outsider, or a chain of two sharings; three keypairs give each user one, or one of
two users a replacement; `SealingsBound` limits
how many shares are ever left, and two make a chain, or a share before and
one after a replacement. In `account_race` two devices give every race of two enrolments,
of two changes, and of a change with a repeated upload. Its one salt loses little, for the salt
of an account never changes; what two of them do to a PIN that is changed, lost and sent again is
seen in `account_users`, which has no keychain store in return. Two values of each other generated
thing tell the winner's from the loser's, and two PINs the old from the new. In
`account_users` the ids are `<<1>>` and `<<1, 2>>`, the PINs `<<2, 3>>` and `<<3>>`: without the
length prefix both users' inputs are `<<1, 2, 3>>`. In `recovery_copies` the
two-byte keys have letters, leading zeros and equal digits, and two groups give one
dash; a slip needs no more of the text than its own neighbourhood and the count, and the
lookalikes `8` and `b` are one for each of the two forms a digit has. The proofs
below have none of these bounds.
`DeviceNonceSymmetry`, `KeySymmetry`, `PairUserSymmetry` and `GeneratedSymmetry` exchange model
values that no definition tells apart, and are used in runs without liveness only. Only
`recovery_copies` turns the deadlock check off: a copy whose slip and changes are used up
is done.

**Fairness.** The crate schedules nothing, so no fairness is a fact of its code, and no
specification here has any. The one liveness property, `MigrationSealsRows`, carries its fairness
as a hypothesis about a caller: sealed.rs:11 speaks of legacy rows staying "until a migration
rewraps them", and `KeepsMigrating(d)` says of one device that it opens every account again and again,
and whatever row it can again and again read, or seal and store, it once does. It is strong fairness
because sessions close, other devices rewrap the same row, rows are renumbered and processes
stop in between. A caller that does less is promised nothing. New saves are left out of the run, for
a save seals its row. What the property then says of the crate is
that the lenient reader takes every plaintext that is not prefixed, that what
it took can be sealed, and that what was sealed opens strictly (with a strict reader in the
migration it fails). No other liveness is claimed.

### What the violations show

- `keychain_has`: `has_master_key_in_service` (keychain.rs:59) answers false for any
  error, while line 57 documents "True if a master key exists". In two steps, a save
  and an OS that starts refusing, an existing key is reported as missing. The
  load itself tells the cases apart (`LoadTellsLastSave` holds).
- `keychain_linux`: keychain.rs:8 promises the Secret Service on Linux, the manifest
  enables no such store. It does not concern applications that enable one
  themselves.
- `legacy`: sealed.rs:9-10 says legacy rows are returned as they are; a plaintext
  that begins with `e2ee:` is not, and cannot be migrated. The tests of the same
  file ("the prefix is a commitment, not a hint") show the behaviour is meant; it is
  the sentence that is too strong.

One sentence is weakened without a run of its own. keys.rs:342-344 says a recipient "can't be
tricked into accepting a key that wasn't sealed by the claimed owner". The secret is the same in
both directions (keys.rs:208), so a user who is handed its own share as from the other accepts it.
A key that neither of the two sealed for the other is not accepted (`OpenedSharesAreOfThePair`),
and nobody gains a key (`ImplementsEntrustment`).

## What TLAPS proves

For any values of the constants that meet the assumptions named in the modules:

| Theorem | States |
|---|---|
| `EntityStoreProofs!TypeCorrect` | `Spec => []TypeOK` |
| `EntityStoreProofs!AuthenticReads` | `Spec => []ReadsAreAuthentic` |
| `EntityStoreProofs!SoundRowsStayReadable` | `Spec => []SoundRowsReadable` |
| `EntityStoreProofs!RewrapKeepsContent` | `Spec => UnracedRewrapKeepsContent` |
| `EntityStoreRefinement!StoreImplementsLockedRecords` | `Spec => ImplementsLockedRecords` |
| `KeychainProofs!TypeCorrect` | `Spec => []TypeOK` |
| `EntityStoreRefinement!ReadersTellTheRecord` | `Spec => []ReadsAgree` |
| `KeychainProofs!LoadsTellLastSave` | `HasStore` implies `Spec => []LoadTellsLastSave` |
| `KeychainProofs!LoadsAnswer` | `HasStore` implies `Spec => []AnswersWhenReachable` |
| `SharingProofs!TypeCorrect` | `Spec => []TypeOK` |
| `SharingProofs!OnlyTheEntrustedHoldKeys` | `Spec => []KeysStayEntrusted` |
| `SharingProofs!SharesOpenForThePair` | `Spec => []OpenedSharesAreOfThePair` |
| `SharingProofs!SharesReach` | `Spec => []SharesReachRecipient` |
| `SharingProofs!SharingImplementsEntrustment` | `Spec => ImplementsEntrustment` |
| `OprfProofs!BlindIsInjective` | equal blinds have equal user and PIN |
| `OprfProofs!FinalizeIsInjective` | equal key material has equal user, PIN and evaluation |
| `AccountProofs!TypeCorrect` | `Spec => []TypeOK` |
| `AccountProofs!SessionsCorrect` | `Spec => []SessionsHoldMaster` |
| `AccountProofs!SecretsAlwaysOpen` | `Spec => []SecretsOpen` |
| `AccountProofs!NothingElseUnlocks` | `Spec => []OnlyTheSecretUnlocks` |
| `AccountProofs!RowsAlwaysRecoverable` | `Spec => []RowsRecoverable` |
| `AccountProofs!KeysNeverChange` | `Spec => KeyNeverChanges` |
| `AccountRefinement!AccountImplementsVault` | `Spec => ImplementsVault` |
| `AccountRefinement!AccountUsesKeychain` | `Spec => UsesKeychain` |
| `RecoveryKeyProofs!RoundTrip` | `parse_recovery_key(format_recovery_key(k)) = Ok(k)` for every key `k` |
| `RecoveryKeyProofs!CarefulCopies` | `Spec => []CarefulCopiesParse` |
| `RecoveryKeyProofs!SlipsAreNoticed` | `Spec => []OneSlipIsNoticed` |
| `RecoveryKeyProofs!MisreadsAreOtherKeys` | `Spec => []MisreadIsAnotherKey` |

The argument for the store. `EntityKeyInjective`: the key of a row determines its
account, namespace and id, because per-entity namespaces put both into the info
string. `UnsealOpensBox`: a strict read succeeds only on a box of its own key.
`ReadsAreAuthentic` is not inductive, for it speaks of reads, so it is strengthened
to `BoxesWereSealed`: every box in the database, wherever it is now, was sealed for
the entity whose key it carries. Saves and rewraps add such a box
(`SaveStoresBox`, `RewrapStoresBox`), renumbering moves one, damage makes none. A
successful read then opens a box whose key belongs to one entity only, the one it
was sealed for. `SoundRowsReadable` follows from `SoundRowsAreOwn` (a sound row is clear
text or a box of its own key), `UnracedRewrapKeepsContent` from `DraftsWereRead` (a
device holds what the lenient reader made of the field it read). The refinement
maps each action to one action of `LockedRecords`; `LockedRecord` shows that a box
stands for exactly one record, which makes the `CHOOSE` of `RecordOf` well
determined. For `ReadsAgree`, `ByteReadsAgree` compares the two byte readers with the record
and `ReaderIsByteReader` reduces the other four to them.

The argument for sharing. The secret of a sharing key determines the two keypairs
(`SharingKeyInjective`), and a share opens exactly for them (`ShareOpensForPair`). The
safety properties speak of users, and a keypair changes columns and hands, so they are
strengthened to `IInv`: `KeypairsAreOwned` (a public key, stored, sent, shown or read,
is one its user generated), `SealedForPair` (a share is a box of the keypairs of its two
parties, both entrusted with the profile key in it) and `StoredAreEntrusted`. A share
that opens is a box of the opener's own keypair and one the other user generated
(`OpenedShare`), so its parties are the two. `KeepStep` and `LeaveStep` show that
storing an entrusted key and leaving a share preserve `IInv`; the actions reduce to
them. For the refinement one more fact is needed, `SealersHold`: who sealed a profile
key still holds it. So when a share opens for the one who sealed it, nothing is
gained, and otherwise it opens for whom it was sealed.

The argument for accounts. `BlindIsInjective` and `FinalizeIsInjective`: the length prefix says
where the user id ends, ids being shorter than it can count, and evaluations of one length say
where the PIN ends. The properties speak of the stored row, which uploads change later, so they
are strengthened to `IInv`, whose second half `Traced` says that everything kept or on its way
goes back to a key of `KeysOf`, which only grows: the row's two columns (`AccountFits`), an
upload whenever it may arrive (`UploadFits`: it carries the salt the account has and wraps one
of its keys), sessions, keychain entries and the sealed row. The first half is `TypeOK` and
`Grounded` (a column upload belongs to an account the server has). That the salt and the master
key of an account never change and no key that came in is forgotten (`Steady`) is what carries
an upload over the steps of others. In a settled account `KeysOf` is one key, and no step
settles an account that is not (`SettledBefore`): the stronger halves of the properties follow.
`Unlocks` then says when a column opens, and the injectivity of the two hashes that this is for
one PIN only. The refinement compares Vault's state with `Seen`, the secrets last meant and the
content of the row's box. For `KeyNeverChanges`, `UnwrapsMaster` shows that what any PIN,
recovery key or evaluation unwraps from the row of a settled account is the master key it was
made from, and that one does, so `Steady` is enough. `KeychainStepRefines` maps the steps to
those of `Keychain`; that a saved value is a master key comes from `TypeOK`.

The argument for the recovery text needs no induction over its characters. `Shown(s, k, at)` says
that `at` is an increasing bijection from the digits of `k` to the places of `s` that have a hex
digit, and that the digit there, in either case, is the one of `k`; `Shows` that there is such
an `at`. `ShownParses`: a text that shows `k` parses to `Ok(k)`. The place that `only` takes for its
`i`-th character is the one with `i` digits up to it, and of an increasing bijection that is
`at[i]` (`ShownRank`); `BytesReadBack` puts the two halves of a byte together.
`FormatShows`: the formatted text shows its key, where division by the group length says which
places hold the dashes (`GroupsFit`, `PlaceOfDigit`, `DigitAtPlace`). `MiscountedIsRefused`: a text with
another number of digits does not parse. `IInv` then says of a copy: while nothing slipped, it shows
the key; after the slip of a character it shows it still or has a digit too many or too few;
after the slip of a digit it shows another key. Removing and inserting a character shifts the places
behind it (`Removed`, `Inserted`), which either leaves the bijection in step
(`DroppedShows`) or changes the count by one (`DroppedCount`); both are stated for a shorter and a
longer text and used in both directions. A replaced digit changes one half of one byte
(`ReplacedDigit`, `NibbleSet`), and two exchanged digits are two of those.

The assumptions: rows use one of the four per-entity namespaces (a type declared with
`ProfileSharing` would get one key for all ids, namespace.rs:54); legacy rows are
plaintext that is not itself a sealed field; damage makes no box of a key that the
damager does not hold (that is what the GCM tag is for); `NoSession`, `NoDraft` and
`NoEntry` are not ordinary values; keys are told from other payloads by their length
(`LengthsAssumption`), and `None` is none of the values it stands beside; user ids are shorter
than 2^32 bytes (`UsersAssumption`), evaluations have one length; the digits of a recovery key fill
its groups (`GroupAssumption`: 64 and 8 in the code), separators and odd characters are no hex
digits and lookalikes are (`CharactersAssumption`). TLC evaluates all of them
in the runs.

Only model-checked: `MigrationSealsRows`, for liveness under a hypothesis of fairness is out of
the prover's reach; that `only` agrees with `SelectSeq`, which is recursive; and the violations.
Every invariant and every action property or refinement of a passing run is also proved.

## Not modelled

- That the private key and the public key of a new keypair reach the server together
  (keys.rs:157): the model lets them part, and `SharesReachRecipient` excludes the shares
  that are then lost. Storing them in one step is the caller's part.
- The exchange of a stored private key with a stored profile key (keys.rs:175-181: "Same
  primitive as `encrypt_private_key`"): it goes unnoticed, by construction of the one
  primitive, and needs no model.
- An evaluation of another request used at enrolment (oprf.rs:40): the key is then wrapped under
  a key no unlock derives again, and the crate has no means to notice.
- `CryptoError::NotUnlocked` and `UserIdMismatch`, which no code constructs, and the
  conversion of errors to strings.
- The golden vectors: they pin the bytes of real ciphers, and an ideal cipher has none.
- Memory wiping (a model has no memory), nonce repetition (a probability), timing and
  sizes, rate limiting (the server's).

Further work: a liveness statement of sharing (a share is accepted in the end) would need a
fairness of servers and recipients that the repository says nothing of.
