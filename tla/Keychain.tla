------------------------------ MODULE Keychain ------------------------------
(***************************************************************************)
(* keychain.rs: the master key as a password entry of the OS keychain.     *)
(*                                                                         *)
(* The entries belong to the OS and are shared by every process of the     *)
(* user: several applications, each with its service name, and several     *)
(* instances of each, call the functions in any order.  One keyring call   *)
(* is atomic.  The OS may refuse at any moment (locked keychain, denied    *)
(* prompt), and other programs, also one that uses this crate under the    *)
(* default service, may leave anything in an entry, another 32-byte key    *)
(* included, or remove it.  Loads change no state: the invariants quantify *)
(* over every load.                                                        *)
(***************************************************************************)
EXTENDS Aead

CONSTANTS
    Services,        \* service names, among them DEFAULT_SERVICE
    DEFAULT_SERVICE,
    Accounts,        \* account names
    Keys,            \* master keys
    Platform,        \* the OS the crate is built for
    NoEntry,         \* no entry; also Option::None
    Foreign          \* history: the entry was last written by someone else

ASSUME ServicesAssumption == DEFAULT_SERVICE \in Services

ASSUME PlatformAssumption == Platform \in {"macos", "windows", "linux"}

ASSUME MarkersAssumption ==
    /\ NoEntry \notin Keys
    /\ Foreign \notin Keys
    /\ NoEntry # Foreign

Slots == Services \X Accounts

VARIABLES
    entries,    \* entries[slot]: the password the OS keeps, or NoEntry
    reachable,  \* the OS answers keyring calls
    last        \* history: last[slot]: the key last saved and not deleted

vars == <<entries, reachable, last>>

-----------------------------------------------------------------------------
(* Passwords                                                               *)

(* STANDARD.encode of the 32 bytes.                                        *)
encode(key) == [form |-> "base64", bytes |-> key]

(* What no save leaves: not base64, or not 32 bytes of it.                 *)
UndecodablePasswords == {[form |-> "text"], [form |-> "base64_not_32"]}

Passwords == {encode(k) : k \in Keys} \cup UndecodablePasswords

ASSUME NoEntryAssumption == NoEntry \notin Passwords

decode_key(encoded) ==
    CASE encoded.form = "text"   -> Err("Keychain decode error")
      [] encoded.form = "base64" -> Ok(encoded.bytes)
      [] encoded.form = "base64_not_32" -> Err("Invalid key length in keychain")

-----------------------------------------------------------------------------
(* The keyring crate.  The features the manifest enables bring a store for *)
(* two platforms; on any other, keyring falls back to its mock store, in   *)
(* which each Entry has a password of its own, dropped with the Entry.     *)

HasStore == Platform \in {"macos", "windows"}

entry(service, account) == <<service, account>>

get_password(slot) ==
    CASE ~reachable -> Err("keyring")
      [] reachable /\ (~HasStore \/ entries[slot] = NoEntry) -> Err("NoEntry")
      [] reachable /\ HasStore /\ entries[slot] # NoEntry    -> Ok(entries[slot])

-----------------------------------------------------------------------------
(* The readers of keychain.rs                                              *)

(* Fault: a password that does not decode reads as an absent entry.        *)
DecodeErrorsAsNone(service, account) ==
    LET r == get_password(entry(service, account))
    IN  CASE r.ok /\ decode_key(r.val).ok  -> decode_key(r.val)
          [] r.ok /\ ~decode_key(r.val).ok -> Ok(NoEntry)
          [] ~r.ok /\ r.err = "NoEntry"    -> Ok(NoEntry)
          [] ~r.ok /\ r.err # "NoEntry"    -> Err("Keychain load error")

load_master_key_in_service(service, account) ==
    LET r == get_password(entry(service, account))
    IN  CASE r.ok                          -> decode_key(r.val)
          [] ~r.ok /\ r.err = "NoEntry"    -> Ok(NoEntry)
          [] ~r.ok /\ r.err # "NoEntry"    -> Err("Keychain load error")

has_master_key_in_service(service, account) ==
    LET r == load_master_key_in_service(service, account)
    IN  r.ok /\ r.val # NoEntry

-----------------------------------------------------------------------------
Init ==
    /\ entries = [slot \in Slots |-> NoEntry]
    /\ reachable \in BOOLEAN
    /\ last = [slot \in Slots |-> NoEntry]

(* Fault: the key bytes are stored without encoding them.                  *)
SaveUnencoded(service, account, key) ==
    /\ reachable
    /\ entries' = [entries EXCEPT ![entry(service, account)] = key]
    /\ last' = [last EXCEPT ![<<service, account>>] = key]
    /\ UNCHANGED reachable

(* save_master_key_in_service answers Ok only if set_password did; an      *)
(* error has changed nothing and is a stutter.                             *)
Save(service, account, key) ==
    /\ reachable
    /\ LET slot == entry(service, account)
       IN  entries' = IF HasStore THEN [entries EXCEPT ![slot] = encode(key)]
                                  ELSE entries
    /\ last' = [last EXCEPT ![<<service, account>>] = key]
    /\ UNCHANGED reachable

(* Fault: the entry is emptied in place, under a key of zeros.             *)
DeleteByZeroing(service, account) ==
    /\ reachable
    /\ entries' = [entries EXCEPT ![entry(service, account)] =
                      IF @ = NoEntry THEN @ ELSE [form |-> "base64_not_32"]]
    /\ last' = [last EXCEPT ![<<service, account>>] = NoEntry]
    /\ UNCHANGED reachable

(* delete_master_key_in_service: Ok whether or not there was an entry.     *)
Delete(service, account) ==
    /\ reachable
    /\ entries' = [entries EXCEPT ![entry(service, account)] = NoEntry]
    /\ last' = [last EXCEPT ![<<service, account>>] = NoEntry]
    /\ UNCHANGED reachable

(* The wrappers for DEFAULT_SERVICE.                                       *)
save_master_key(account, key) == Save(DEFAULT_SERVICE, account, key)
load_master_key(account)      == load_master_key_in_service(DEFAULT_SERVICE, account)
delete_master_key(account)    == Delete(DEFAULT_SERVICE, account)
has_master_key(account)       == has_master_key_in_service(DEFAULT_SERVICE, account)

(* The OS starts or stops refusing.                                        *)
Toggle ==
    /\ reachable' = ~reachable
    /\ UNCHANGED <<entries, last>>

(* Another program, or the user, writes or removes an entry: any password, *)
(* that of a key of its own too (DEFAULT_SERVICE is everyone's default).   *)
Overwrite(slot) ==
    /\ HasStore
    /\ \E p \in Passwords \cup {NoEntry} : entries' = [entries EXCEPT ![slot] = p]
    /\ last' = [last EXCEPT ![slot] = Foreign]
    /\ UNCHANGED reachable

Next ==
    \/ \E service \in Services, account \in Accounts, key \in Keys : Save(service, account, key)
    \/ \E service \in Services, account \in Accounts : Delete(service, account)
    \/ Toggle
    \/ \E slot \in Slots : Overwrite(slot)

Spec == Init /\ [][Next]_vars

-----------------------------------------------------------------------------
(* Entries are what encode wrote, what others left, or nothing.            *)
TypeOK ==
    /\ entries \in [Slots -> Passwords \cup {NoEntry}]
    /\ reachable \in BOOLEAN
    /\ last \in [Slots -> Keys \cup {NoEntry, Foreign}]

(* A load that answers None has found no entry: neither a refusing OS nor  *)
(* a password that does not decode, whoever left it, is mistaken for an    *)
(* absent key, which would make a caller create a second one.  And of an   *)
(* entry no other program wrote since, it answers the key last saved for   *)
(* that service and account, None if it was deleted since: applications    *)
(* with different service names never see each other's key.                *)
LoadTellsLastSave ==
    \A service \in Services, account \in Accounts :
        LET slot == <<service, account>>
            r == load_master_key_in_service(service, account)
        IN  r.ok => /\ r.val = NoEntry => entries[slot] = NoEntry
                    /\ last[slot] # Foreign => r.val = last[slot]

(* While the OS answers, an entry no other program touched can always be   *)
(* read: no sequence of saves and deletes leaves a password the readers    *)
(* refuse, and the presence reported is that of a saved key.               *)
AnswersWhenReachable ==
    \A service \in Services, account \in Accounts :
        LET was == last[<<service, account>>]
        IN  reachable /\ was # Foreign
            => /\ load_master_key_in_service(service, account).ok
               /\ has_master_key_in_service(service, account) <=> was \in Keys

(* keychain.rs:57, "True if a master key exists for (service, account)":   *)
(* an entry that holds a key is reported.                                  *)
HasTellsExistence ==
    \A service \in Services, account \in Accounts :
        (\E key \in Keys : HasStore /\ entries[<<service, account>>] = encode(key))
        => has_master_key_in_service(service, account)

(* keychain.rs:8: on Linux the key is stored in the Secret Service; a key  *)
(* just saved is found by the next load.                                   *)
SavedKeyIsKept ==
    \A service \in Services, account \in Accounts :
        last[<<service, account>>] \in Keys
        => load_master_key_in_service(service, account) # Ok(NoEntry)

=============================================================================
