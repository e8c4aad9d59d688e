------------------------------ MODULE Account -------------------------------
(***************************************************************************)
(* The life of a master key: full_flow.rs and the callers it stands for.   *)
(*                                                                         *)
(* A device sets up an account (salt, master key, recovery key), wraps the *)
(* master key once under the PIN and once under the recovery key, and      *)
(* leaves the row with a server.  It may work with the key it generated    *)
(* before any answer, as the example does, and the server may turn out to  *)
(* have another device's row.  Otherwise a session is opened with the PIN, *)
(* the recovery key or the key the OS keychain holds (session.rs:14), and  *)
(* PIN and recovery key are changed one at a time.                         *)
(*                                                                         *)
(* The server inserts a row only where there is none, and replaces single  *)
(* columns; each of its answers may be lost, whereupon the device sends    *)
(* the same upload again, whatever happened in between.  Devices are       *)
(* processes of one machine: they share its keychain, with each other and  *)
(* with programs that may leave a key of their own in it.  A device reads  *)
(* the row and unwraps in one step: the salt never changes.                *)
(***************************************************************************)
EXTENDS Oprf, MasterKey, Namespace, Sealed

CONSTANTS
    Users,          \* user ids, as byte sequences
    Pins,           \* PINs, as byte sequences
    Devices,
    Nonces,
    Contents,       \* JSON values of a profile row
    None,           \* no account, session, upload, row or keychain entry
    Platform, DEFAULT_SERVICE, Foreign      \* see Keychain

(* A user id is shorter than 2^32 bytes.                                   *)
ASSUME UsersAssumption ==
    /\ Users \subseteq Seq(0 .. 255) /\ Pins \subseteq Seq(0 .. 255)
    /\ \A u \in Users : Len(u) < Width

ASSUME ContentsAssumption == \A v \in Contents : v.form = "json"

VARIABLES
    account,    \* account[u]: the row of u on the server, or None
    rows,       \* rows[u]: the sealed profile row of u in the database, or None
    session,    \* session[d]: the SessionKey of device d and its user, or None
    upload,     \* upload[d]: what d has to store and has no answer for, or None
    meant,      \* history: what the row of u was last made from, or None
    unproven,   \* history: the keys a session of u was opened with on no word of
                \* the server's: generated there, or left in the keychain by others
    entries, reachable, last                \* see Keychain

Chain == INSTANCE Keychain WITH
    Services <- {DEFAULT_SERVICE}, Accounts <- Users, Keys <- MasterKeys, NoEntry <- None

vars == <<account, rows, session, upload, meant, unproven, entries, reachable, last>>

-----------------------------------------------------------------------------
(* Unlocking.  An evaluation is what the server returned for some blinded  *)
(* PIN: also one asked for earlier, or by another user.                    *)

pin_key(u, pin, evaluated, salt) == derive_wrapping_key(finalize(u, pin, evaluated), salt)

asked(u, pin) == evaluate(blind(u, pin))

try_pin(u, pin, evaluated) ==
    unwrap_master_key(pin_key(u, pin, evaluated, account[u].salt), account[u].pin)

try_recovery(u, rec) ==
    unwrap_master_key(derive_wrapping_key(rec, account[u].salt), account[u].rec)

(* ProfileRow of the example; one row per user.                            *)
ProfileId == 42

profile_key(master) == derive(master, "profile", ProfileId)

(* Fault: the alias derives under another namespace.                       *)
DeriveProfileAsProxy(master, profile_id) == derive_key("proxy", master, profile_id)

(* keys.rs, for call sites that predate the namespaces.                    *)
derive_profile_key(master, profile_id) == derive_key("profile", master, profile_id)

-----------------------------------------------------------------------------
Init ==
    /\ account = [u \in Users |-> None]
    /\ rows = [u \in Users |-> None]
    /\ session = [d \in Devices |-> None]
    /\ upload = [d \in Devices |-> None]
    /\ meant = [u \in Users |-> None]
    /\ unproven = [u \in Users |-> {}]
    /\ Chain!Init

pin_column(u, pin, salt, master, n) ==
    wrap_master_key(pin_key(u, pin, asked(u, pin), salt), master, n).val

rec_column(rec, salt, master, n) ==
    wrap_master_key(derive_wrapping_key(rec, salt), master, n).val

(* What Enrol leaves to store, from the keys it generated.                 *)
NewAccount(u, m, salt, n) ==
    [kind |-> "account", user |-> u, meant |-> m,
     cols |-> [salt |-> salt,
               pin  |-> pin_column(u, m.pin, salt, m.master, n),
               rec  |-> rec_column(m.rec, salt, m.master, n)]]

(* Section 1 of the example: the keys are generated and wrapped, and wait  *)
(* to be stored.  The device opens a session with the key it generated     *)
(* (full_flow.rs:58), or leaves that to a later unlock.                    *)
Enrol(d, u, pin, n) ==
    /\ session[d] = None /\ upload[d] = None /\ account[u] = None
    /\ \E master \in generate_master_key, salt \in generate_salt, rec \in generate_recovery_key :
          /\ upload' = [upload EXCEPT ![d] =
                 NewAccount(u, [master |-> master, pin |-> pin, rec |-> rec], salt, n)]
          /\ \/ UNCHANGED <<session, unproven>>
             \/ /\ session' = [session EXCEPT ![d] = [user |-> u, key |-> master]]
                /\ unproven' = [unproven EXCEPT ![u] = @ \cup {master}]
    /\ UNCHANGED <<account, rows, meant, entries, reachable, last>>

(* Fault: the server replaces a row that is there.                         *)
InsertOverwriting(d, answered) ==
    LET up == upload[d]
    IN  /\ up # None /\ up.kind = "account"
        /\ account' = [account EXCEPT ![up.user] = up.cols]
        /\ meant' = [meant EXCEPT ![up.user] = up.meant]
        /\ upload' = [upload EXCEPT ![d] = None]
        /\ UNCHANGED <<rows, session, unproven, entries, reachable, last>>

(* The server takes a row where there is none.                             *)
Insert(d, answered) ==
    LET up == upload[d]
    IN  /\ up # None /\ up.kind = "account" /\ account[up.user] = None
        /\ account' = [account EXCEPT ![up.user] = up.cols]
        /\ meant' = [meant EXCEPT ![up.user] = up.meant]
        /\ upload' = IF answered THEN [upload EXCEPT ![d] = None] ELSE upload
        /\ UNCHANGED <<rows, session, unproven, entries, reachable, last>>

(* There is a row already, of another device or of this one's first try;   *)
(* a session opened meanwhile goes on.                                     *)
Refuse(d) ==
    LET up == upload[d]
    IN  /\ up # None /\ up.kind = "account" /\ account[up.user] # None
        /\ upload' = [upload EXCEPT ![d] = None]
        /\ UNCHANGED <<account, rows, session, meant, unproven, entries, reachable, last>>

(* Fault: the PIN is changed together with the salt it shares.             *)
ChangePinWithNewSalt(d, pin, n) ==
    LET s == session[d]
    IN  /\ s # None /\ upload[d] = None /\ account[s.user] # None
        /\ \E salt \in generate_salt :
              upload' = [upload EXCEPT ![d] =
                  [kind |-> "pin", user |-> s.user, meant |-> pin, salt |-> salt,
                   col |-> pin_column(s.user, pin, salt, s.key, n)]]
        /\ UNCHANGED <<account, rows, session, meant, unproven, entries, reachable, last>>

(* The master key of the session is wrapped again, under the stored salt.  *)
ChangePin(d, pin, n) ==
    LET s == session[d]
        salt == account[s.user].salt
    IN  /\ s # None /\ upload[d] = None /\ account[s.user] # None
        /\ upload' = [upload EXCEPT ![d] =
               [kind |-> "pin", user |-> s.user, meant |-> pin, salt |-> salt,
                col |-> pin_column(s.user, pin, salt, as_bytes(s.key), n)]]
        /\ UNCHANGED <<account, rows, session, meant, unproven, entries, reachable, last>>

ChangeRecovery(d, n) ==
    LET s == session[d]
        salt == account[s.user].salt
    IN  /\ s # None /\ upload[d] = None /\ account[s.user] # None
        /\ \E rec \in generate_recovery_key :
              upload' = [upload EXCEPT ![d] =
                  [kind |-> "rec", user |-> s.user, meant |-> rec, salt |-> salt,
                   col |-> rec_column(rec, salt, as_bytes(s.key), n)]]
        /\ UNCHANGED <<account, rows, session, meant, unproven, entries, reachable, last>>

(* The server replaces one column, and the salt that goes with it.         *)
Replace(d, answered) ==
    LET up == upload[d]
    IN  /\ up # None /\ up.kind \in {"pin", "rec"}
        /\ IF up.kind = "pin"
           THEN /\ account' = [account EXCEPT ![up.user].pin = up.col, ![up.user].salt = up.salt]
                /\ meant' = [meant EXCEPT ![up.user].pin = up.meant]
           ELSE /\ account' = [account EXCEPT ![up.user].rec = up.col, ![up.user].salt = up.salt]
                /\ meant' = [meant EXCEPT ![up.user].rec = up.meant]
        /\ upload' = IF answered THEN [upload EXCEPT ![d] = None] ELSE upload
        /\ UNCHANGED <<rows, session, unproven, entries, reachable, last>>

-----------------------------------------------------------------------------
(* Opening and closing a session                                           *)

(* SessionKey::new with the key r holds, if the step before did not fail.  *)
OpenWith(d, u, r) ==
    /\ session[d] = None /\ upload[d] = None
    /\ r.ok
    /\ session' = [session EXCEPT ![d] = [user |-> u, key |-> r.val]]
    /\ UNCHANGED <<account, rows, upload, meant, entries, reachable, last>>

(* PIN unlock, with the evaluation of some (by, typed).                    *)
Unlock(d, u, pin, by, typed) ==
    /\ account[u] # None
    /\ OpenWith(d, u, try_pin(u, pin, asked(by, typed)))
    /\ UNCHANGED unproven

Recover(d, u, rec) ==
    /\ account[u] # None
    /\ OpenWith(d, u, try_recovery(u, rec))
    /\ UNCHANGED unproven

(* With the key of the keychain, whoever left it there.                    *)
Resume(d, u) ==
    LET r == Chain!load_master_key(u)
    IN  /\ r # Ok(None)
        /\ OpenWith(d, u, r)
        /\ unproven' = IF last[<<DEFAULT_SERVICE, u>>] = Foreign
                       THEN [unproven EXCEPT ![u] = @ \cup {r.val}] ELSE unproven

(* Drop for SessionKey; an upload on its way holds no key.                 *)
Lock(d) ==
    /\ session[d] # None
    /\ session' = [session EXCEPT ![d] = None]
    /\ UNCHANGED <<account, rows, upload, meant, unproven, entries, reachable, last>>

(* The process stops, with or without an upload on its way.                *)
Crash(d) ==
    /\ session' = [session EXCEPT ![d] = None]
    /\ upload' = [upload EXCEPT ![d] = None]
    /\ UNCHANGED <<account, rows, meant, unproven, entries, reachable, last>>

Remember(d) ==
    /\ session[d] # None
    /\ Chain!save_master_key(session[d].user, as_bytes(session[d].key))
    /\ UNCHANGED <<account, rows, session, upload, meant, unproven>>

(* Section 2 of the example: seal_entity_json of the profile row.          *)
SaveRow(d, v, n) ==
    LET s == session[d]
        r == seal_json(profile_key(s.key), v, n)
    IN  /\ s # None /\ r.ok
        /\ rows' = [rows EXCEPT ![s.user] = r.val]
        /\ UNCHANGED <<account, session, upload, meant, unproven, entries, reachable, last>>

(* The keychain on its own: entries deleted, refused, edited by others.    *)
KeychainStep ==
    /\ \/ \E u \in Users : Chain!delete_master_key(u)
       \/ Chain!Toggle
       \/ \E slot \in Chain!Slots : Chain!Overwrite(slot)
    /\ UNCHANGED <<account, rows, session, upload, meant, unproven>>

Next ==
    \/ \E d \in Devices, u \in Users, pin \in Pins, n \in Nonces : Enrol(d, u, pin, n)
    \/ \E d \in Devices, answered \in BOOLEAN : Insert(d, answered) \/ Replace(d, answered)
    \/ \E d \in Devices : Refuse(d) \/ Lock(d) \/ Crash(d) \/ Remember(d)
    \/ \E d \in Devices, pin \in Pins, n \in Nonces : ChangePin(d, pin, n)
    \/ \E d \in Devices, n \in Nonces : ChangeRecovery(d, n)
    \/ \E d \in Devices, u, by \in Users, pin, typed \in Pins : Unlock(d, u, pin, by, typed)
    \/ \E d \in Devices, u \in Users, rec \in RecoveryKeys : Recover(d, u, rec)
    \/ \E d \in Devices, u \in Users : Resume(d, u)
    \/ \E d \in Devices, v \in Contents, n \in Nonces : SaveRow(d, v, n)
    \/ KeychainStep

Spec == Init /\ [][Next]_vars

-----------------------------------------------------------------------------
(* Types                                                                   *)

PinColumns ==
    {Box(pin_key(u, pin, asked(u, pin), salt), n, m) :
        u \in Users, pin \in Pins, salt \in Salts, m \in MasterKeys, n \in Nonces}

RecColumns ==
    {Box(derive_wrapping_key(rec, salt), n, m) :
        rec \in RecoveryKeys, salt \in Salts, m \in MasterKeys, n \in Nonces}

Columns == [salt : Salts, pin : PinColumns, rec : RecColumns]

Meanings == [master : MasterKeys, pin : Pins, rec : RecoveryKeys]

Uploads ==
         [kind : {"account"}, user : Users, meant : Meanings, cols : Columns]
    \cup [kind : {"pin"}, user : Users, meant : Pins, salt : Salts, col : PinColumns]
    \cup [kind : {"rec"}, user : Users, meant : RecoveryKeys, salt : Salts, col : RecColumns]

Sessions == [user : Users, key : MasterKeys]

Fields ==
    {Wire(Box(profile_key(m), n, v)) : m \in MasterKeys, n \in Nonces, v \in Contents}

ASSUME NoneAssumption ==
    /\ None \notin Users /\ None \notin MasterKeys /\ None \notin Contents
    /\ None \notin Columns /\ None \notin Meanings /\ None \notin Uploads
    /\ None \notin Sessions /\ None \notin Fields /\ None \notin Chain!Passwords
    /\ None \notin [pins : SUBSET Pins, recs : SUBSET RecoveryKeys]

(* A wrapping key stands where a wrapping key belongs, a master key inside *)
(* it: whatever the devices and the server keep is of the form the example *)
(* gives it.                                                               *)
TypeOK ==
    /\ account \in [Users -> Columns \cup {None}]
    /\ rows \in [Users -> Fields \cup {None}]
    /\ session \in [Devices -> Sessions \cup {None}]
    /\ upload \in [Devices -> Uploads \cup {None}]
    /\ meant \in [Users -> Meanings \cup {None}]
    /\ unproven \in [Users -> SUBSET MasterKeys]
    /\ Chain!TypeOK

-----------------------------------------------------------------------------
(* Safety                                                                  *)

(* The keys that may be at work for u: the master key its account was made *)
(* with, and those taken on no word of the server's.                       *)
KeysOf(u) == unproven[u] \cup (IF account[u] = None THEN {} ELSE {meant[u].master})

(* No device of u has worked with a key the server's row does not hold.    *)
Settled(u) == account[u] # None /\ KeysOf(u) = {meant[u].master}

(* An account gets a second key in two ways only: a device went to work    *)
(* with the key it generated and another device's row was first, or the    *)
(* keychain held a key some other program left.  However a session was     *)
(* opened, by enrolment, PIN, recovery key or keychain, on whichever       *)
(* device, after whichever race and whatever was stored by a session that  *)
(* had gone astray, it holds one of these keys; and where neither happened *)
(* all sessions of a user hold the master key of the account ("Wrap the    *)
(* master key the moment you load it (after PIN unlock, recovery, or       *)
(* reading it back from the OS keychain)", session.rs:14).                 *)
SessionsHoldMaster ==
    \A d \in Devices :
        LET s == session[d]
        IN  s # None => /\ s.key \in KeysOf(s.user)
                        /\ Settled(s.user) => s.key = meant[s.user].master

(* An account opens to the PIN last stored and the recovery key last       *)
(* stored, and to nothing else: not to another PIN, not to the evaluation  *)
(* of another PIN or of another user's ("a stolen evaluated element from   *)
(* user A cannot be replayed", oprf.rs), not even where a user id and a    *)
(* PIN run together to the same bytes.                                     *)
OnlyTheSecretUnlocks ==
    \A u \in Users : account[u] # None =>
        /\ \A by \in Users, pin, typed \in Pins :
              try_pin(u, pin, asked(by, typed)).ok
              => by = u /\ typed = pin /\ pin = meant[u].pin
        /\ \A rec \in RecoveryKeys : try_recovery(u, rec).ok => rec = meant[u].rec

(* No crash, lost answer, repeated or raced upload leaves an account its   *)
(* user cannot open: PIN and recovery key last stored both unwrap, the     *)
(* master key where no second key came in, else one of those that did.     *)
SecretsOpen ==
    \A u \in Users : account[u] # None =>
        LET m == meant[u]
        IN  \A r \in {try_pin(u, m.pin, asked(u, m.pin)), try_recovery(u, m.rec)} :
               /\ r.ok /\ r.val \in KeysOf(u)
               /\ Settled(u) => r = Ok(m.master)

(* Where no second key came in: whoever wrote the profile row, after       *)
(* enrolling, unlocking or resuming by any path, before the account was    *)
(* stored or after, and whatever changed since, the recovery key reads it, *)
(* also at a call site that derives the key the old way.                   *)
RowsRecoverable ==
    \A u \in Users : rows[u] # None /\ Settled(u) =>
        LET r == try_recovery(u, meant[u].rec)
        IN  r.ok /\ unseal_json(derive_profile_key(r.val, ProfileId), rows[u]).ok

(* Whatever unwraps from the row of u, with any PIN, evaluation or         *)
(* recovery key.                                                           *)
Unwrapped(u) ==
    LET results == {try_pin(u, pin, asked(by, typed)) : pin, typed \in Pins, by \in Users}
                      \cup {try_recovery(u, rec) : rec \in RecoveryKeys}
    IN  {r.val : r \in {q \in results : q.ok}}

(* An account is never lost and its master key never replaced: through     *)
(* changes of PIN and recovery key, crashes, and uploads that come twice   *)
(* or late, the row unwraps to the very key it unwrapped to before, to     *)
(* which all that was ever sealed goes back, unless a second key came in.  *)
KeyNeverChanges ==
    [][\A u \in Users : account[u] # None
          => account'[u] # None /\ (Settled(u)' => Unwrapped(u)' = Unwrapped(u))]_vars

-----------------------------------------------------------------------------
(* Refinement: accounts implement Vault.                                   *)

WaysOf(u) ==
    [pins |-> {pin \in Pins : try_pin(u, pin, asked(u, pin)).ok},
     recs |-> {rec \in RecoveryKeys : try_recovery(u, rec).ok}]

(* What the holder of a recovery key that opens the account reads.         *)
RecoveredRow(u) ==
    LET r == try_recovery(u, CHOOSE rec \in RecoveryKeys : try_recovery(u, rec).ok)
        c == unseal_json(profile_key(r.val), rows[u])
    IN  IF r.ok /\ c.ok THEN c.val ELSE "unreadable"

OpenTo(d) ==
    IF session[d] # None /\ account[session[d].user] # None THEN session[d].user ELSE None

TheVault == INSTANCE Vault WITH
    ways   <- [u \in Users |-> IF account[u] = None THEN None ELSE WaysOf(u)],
    open   <- [d \in Devices |-> OpenTo(d)],
    row    <- [u \in Users |-> IF rows[u] # None /\ Settled(u) THEN RecoveredRow(u) ELSE None],
    astray <- {u \in Users : account[u] # None /\ ~Settled(u)}

(* Every step of the devices, the server and the keychain is a step of     *)
(* Vault: at every moment exactly one PIN and one recovery key open an     *)
(* account, each is changed without the other, and, until a second key     *)
(* comes in, a row changes only when it is written.                        *)
ImplementsVault == TheVault!Spec

(* What the devices do to their keychain, through crashes, races and       *)
(* sessions opened from it, are steps of Keychain: they save master keys   *)
(* only, each under its user, and what is shown of Keychain holds of it.   *)
UsesKeychain == Chain!Spec

=============================================================================
