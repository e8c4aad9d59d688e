---------------------------- MODULE AccountProofs ---------------------------
(***************************************************************************)
(* Proofs about Account, for every set of users, PINs, devices and keys,   *)
(* and every width of the length prefix.                                   *)
(***************************************************************************)
EXTENDS Account, OprfProofs

-----------------------------------------------------------------------------
(* The operators the actions are built from                                *)

LEMMA Results ==
    ASSUME NEW v, NEW e
    PROVE  /\ Ok(v).ok /\ Ok(v).val = v /\ ~Err(e).ok
           /\ Chain!Ok(v) = Ok(v) /\ Chain!Err(e) = Err(e)
BY DEF Ok, Err, Chain!Ok, Chain!Err

(* A box gives its content to its own key and an error to any other.       *)
LEMMA DecryptsBox ==
    ASSUME NEW k, NEW b, b.tag = "box"
    PROVE  /\ decrypt(k, b).ok <=> b.key = k
           /\ b.key = k => decrypt(k, b) = Ok(b.plain)
           /\ decrypt(k, b).ok => decrypt(k, b).val = b.plain
<1>1. ~TooShort(b)
    BY DEF TooShort
<1>2. CASE b.key = k
    <2>1. decrypt(k, b) = Ok(b.plain)
        BY <1>1, <1>2 DEF decrypt, Opens
    <2> QED BY <1>2, <2>1, Results
<1>3. CASE b.key # k
    <2>1. decrypt(k, b) = Err("Decrypt")
        BY <1>1, <1>3 DEF decrypt, Opens
    <2> QED BY <1>3, <2>1, Results
<1> QED BY <1>2, <1>3

LEMMA PinColumnIsBox ==
    ASSUME NEW u \in Users, NEW pin \in Pins, NEW salt \in Salts,
           NEW m \in MasterKeys, NEW n \in Nonces
    PROVE  /\ pin_column(u, pin, salt, m, n) = Box(pin_key(u, pin, asked(u, pin), salt), n, m)
           /\ pin_column(u, pin, salt, m, n) \in PinColumns
<1>1. pin_column(u, pin, salt, m, n) = Box(pin_key(u, pin, asked(u, pin), salt), n, m)
    BY Results DEF pin_column, wrap_master_key, encrypt
<1> QED BY <1>1 DEF PinColumns

LEMMA RecColumnIsBox ==
    ASSUME NEW rec \in RecoveryKeys, NEW salt \in Salts,
           NEW m \in MasterKeys, NEW n \in Nonces
    PROVE  /\ rec_column(rec, salt, m, n) = Box(derive_wrapping_key(rec, salt), n, m)
           /\ rec_column(rec, salt, m, n) \in RecColumns
<1>1. rec_column(rec, salt, m, n) = Box(derive_wrapping_key(rec, salt), n, m)
    BY Results DEF rec_column, wrap_master_key, encrypt
<1> QED BY <1>1 DEF RecColumns

LEMMA BoxFields ==
    ASSUME NEW k, NEW n, NEW p
    PROVE  Box(k, n, p).tag = "box" /\ Box(k, n, p).key = k /\ Box(k, n, p).plain = p
BY DEF Box

LEMMA ColumnsAreBoxes ==
    ASSUME NEW c \in PinColumns \cup RecColumns
    PROVE  c.tag = "box" /\ c.plain \in MasterKeys
BY BoxFields DEF PinColumns, RecColumns

(* What the keychain yields, if it yields a key, is what the entry holds.  *)
LEMMA LoadedKey ==
    ASSUME Chain!TypeOK, NEW u \in Users,
           Chain!load_master_key(u).ok, Chain!load_master_key(u) # Ok(None)
    PROVE  LET k == Chain!load_master_key(u).val
           IN  k \in MasterKeys /\ entries[<<DEFAULT_SERVICE, u>>] = Chain!encode(k)
<1> DEFINE g  == Chain!get_password(Chain!entry(DEFAULT_SERVICE, u))
           pw == entries[<<DEFAULT_SERVICE, u>>]
           r  == Chain!load_master_key(u)
<1>1. CASE ~reachable
  <2>1. g = Chain!Err("keyring")
    BY <1>1 DEF Chain!get_password
  <2>2. ~g.ok /\ g.err # "NoEntry"
    BY <2>1 DEF Chain!Err
  <2> HIDE DEF g
  <2>3. r = Chain!Err("Keychain load error")
    BY <2>2 DEF Chain!load_master_key, Chain!load_master_key_in_service, g
  <2> QED
    BY <2>3, Results
<1>2. CASE reachable /\ (~Chain!HasStore \/ pw = None)
  <2>1. g = Chain!Err("NoEntry")
    BY <1>2 DEF Chain!get_password, Chain!entry
  <2>2. ~g.ok /\ g.err = "NoEntry"
    BY <2>1 DEF Chain!Err
  <2> HIDE DEF g
  <2>3. r = Chain!Ok(None)
    BY <2>2 DEF Chain!load_master_key, Chain!load_master_key_in_service, g
  <2> QED
    BY <2>3, Results
<1>3. CASE reachable /\ Chain!HasStore /\ pw # None
  <2>1. g = Chain!Ok(pw)
    BY <1>3 DEF Chain!get_password, Chain!entry
  <2>2. g.ok /\ g.val = pw
    BY <2>1 DEF Chain!Ok
  <2> HIDE DEF g
  <2>3. r = Chain!decode_key(pw)
    BY <2>2 DEF Chain!load_master_key, Chain!load_master_key_in_service, g
  <2>4. pw \in Chain!Passwords
    BY <1>3 DEF Chain!TypeOK, Chain!Slots
  <2>5. pw \notin Chain!UndecodablePasswords
    <3>1. ASSUME pw = [form |-> "text"] PROVE FALSE
      <4>1. pw.form = "text"
        BY <3>1
      <4>2. r = Chain!Err("Keychain decode error")
        BY <2>3, <4>1 DEF Chain!decode_key
      <4> QED BY <4>2, Results
    <3>2. ASSUME pw = [form |-> "base64_not_32"] PROVE FALSE
      <4>1. pw.form = "base64_not_32"
        BY <3>2
      <4>2. r = Chain!Err("Invalid key length in keychain")
        BY <2>3, <4>1 DEF Chain!decode_key
      <4> QED BY <4>2, Results
    <3> QED BY <3>1, <3>2 DEF Chain!UndecodablePasswords
  <2>6. ASSUME NEW k \in MasterKeys, pw = Chain!encode(k)
        PROVE  r.val = k
    <3>1. pw.form = "base64" /\ pw.bytes = k
      BY <2>6 DEF Chain!encode
    <3>2. r = Chain!Ok(k)
      BY <2>3, <3>1 DEF Chain!decode_key
    <3> QED
      BY <3>2, Results
  <2>7. PICK k \in MasterKeys : pw = Chain!encode(k)
    BY <2>4, <2>5 DEF Chain!Passwords
  <2> QED
    BY <2>6, <2>7
<1> QED
  BY <1>1, <1>2, <1>3

-----------------------------------------------------------------------------
(* Types                                                                   *)

LEMMA InitType == Init => TypeOK
BY DEF Init, TypeOK, Chain!Init, Chain!TypeOK, Chain!Slots

LEMMA NewAccountType ==
    ASSUME NEW u \in Users, NEW m \in Meanings, NEW salt \in Salts, NEW n \in Nonces
    PROVE  /\ NewAccount(u, m, salt, n) \in Uploads
           /\ NewAccount(u, m, salt, n).kind = "account"
           /\ NewAccount(u, m, salt, n).user = u
           /\ NewAccount(u, m, salt, n).meant = m
           /\ NewAccount(u, m, salt, n).cols.salt = salt
           /\ NewAccount(u, m, salt, n).cols.pin = pin_column(u, m.pin, salt, m.master, n)
           /\ NewAccount(u, m, salt, n).cols.rec = rec_column(m.rec, salt, m.master, n)
<1>1. m.master \in MasterKeys /\ m.pin \in Pins /\ m.rec \in RecoveryKeys
    BY DEF Meanings
<1>2. /\ pin_column(u, m.pin, salt, m.master, n) \in PinColumns
      /\ rec_column(m.rec, salt, m.master, n) \in RecColumns
    BY <1>1, PinColumnIsBox, RecColumnIsBox
<1> QED BY <1>2 DEF NewAccount, Uploads, Columns

(* The kinds of upload, with what each carries.                            *)
LEMMA UploadShapes ==
    ASSUME NEW up \in Uploads
    PROVE  /\ up.user \in Users
           /\ up.kind \in {"account", "pin", "rec"}
           /\ up.kind = "account" => up.meant \in Meanings /\ up.cols \in Columns
           /\ up.kind = "pin" => /\ up.meant \in Pins /\ up.salt \in Salts
                                 /\ up.col \in PinColumns
           /\ up.kind = "rec" => /\ up.meant \in RecoveryKeys /\ up.salt \in Salts
                                 /\ up.col \in RecColumns
BY DEF Uploads

LEMMA UnwrapType ==
    ASSUME NEW c \in PinColumns \cup RecColumns, NEW k, unwrap_master_key(k, c).ok
    PROVE  unwrap_master_key(k, c).val \in MasterKeys /\ unwrap_master_key(k, c).val = c.plain
BY ColumnsAreBoxes, DecryptsBox DEF unwrap_master_key

LEMMA ColumnsShape ==
    ASSUME NEW c \in Columns
    PROVE  c.salt \in Salts /\ c.pin \in PinColumns /\ c.rec \in RecColumns
BY DEF Columns

(* The row a session seals.                                                *)
LEMMA SealedRow ==
    ASSUME NEW m \in MasterKeys, NEW v \in Contents, NEW n \in Nonces
    PROVE  LET r == seal_json(profile_key(m), v, n)
           IN  /\ r = Ok(Wire(Box(profile_key(m), n, v)))
               /\ r.ok => r.val \in Fields
<1>1. encrypt(profile_key(m), v, n) = Ok(Box(profile_key(m), n, v))
    BY DEF encrypt
<1>2. seal_json(profile_key(m), v, n) = Ok(Wire(Box(profile_key(m), n, v)))
    BY <1>1, Results, ContentsAssumption DEF seal_json, seal_string, seal_bytes
<1> QED BY <1>2, Results DEF Fields

(* An account never disappears; its columns and what they mean come        *)
(* together, and columns are changed of accounts there are.  The types of  *)
(* the next state rest on it.                                              *)
Grounded ==
    /\ \A u \in Users : account[u] # None => meant[u] # None
    /\ \A d \in Devices :
          upload[d] # None /\ upload[d].kind # "account" => account[upload[d].user] # None

Typed == TypeOK /\ Grounded

LEMMA InitTyped == Init => Typed
BY InitType DEF Init, Typed, Grounded

(* The variables of the keychain, left alone.                              *)
chain == <<entries, reachable, last>>

LEMMA ChainUntouched ==
    ASSUME Chain!TypeOK, UNCHANGED chain
    PROVE  Chain!TypeOK'
BY DEF chain, Chain!TypeOK

(* One step per action; what leaves the accounts and the keychain alone    *)
(* shares a step.                                                          *)
THEOREM TypedStep == Typed /\ [Next]_vars => Typed'
<1> SUFFICES ASSUME Typed, [Next]_vars PROVE Typed'
    OBVIOUS
<1> USE NoneAssumption
<1>a. /\ account \in [Users -> Columns \cup {None}]
      /\ rows \in [Users -> Fields \cup {None}]
      /\ session \in [Devices -> Sessions \cup {None}]
      /\ upload \in [Devices -> Uploads \cup {None}]
      /\ meant \in [Users -> Meanings \cup {None}]
      /\ unproven \in [Users -> SUBSET MasterKeys]
      /\ Chain!TypeOK
    BY DEF Typed, TypeOK
<1>g. Grounded
    BY DEF Typed
<1>1. ASSUME UNCHANGED <<account, meant, chain>>,
             rows' \in [Users -> Fields \cup {None}],
             session' \in [Devices -> Sessions \cup {None}],
             unproven' \in [Users -> SUBSET MasterKeys],
             upload' \in [Devices -> Uploads \cup {None}],
             \A d \in Devices : \/ upload'[d] \in {upload[d], None}
                                \/ upload'[d].kind = "account"
                                \/ account[upload'[d].user] # None
      PROVE  Typed'
  <2>1. TypeOK'
    BY <1>1, <1>a, ChainUntouched DEF TypeOK
  <2>2. Grounded'
    BY <1>1, <1>g DEF Grounded
  <2> QED BY <2>1, <2>2 DEF Typed
<1>2. ASSUME NEW d \in Devices, NEW u \in Users, NEW pin \in Pins, NEW n \in Nonces,
             Enrol(d, u, pin, n)
      PROVE  Typed'
  <2>1. PICK master \in MasterKeys, salt \in Salts, rec \in RecoveryKeys :
           /\ upload' = [upload EXCEPT ![d] =
                 NewAccount(u, [master |-> master, pin |-> pin, rec |-> rec], salt, n)]
           /\ \/ UNCHANGED <<session, unproven>>
              \/ /\ session' = [session EXCEPT ![d] = [user |-> u, key |-> master]]
                 /\ unproven' = [unproven EXCEPT ![u] = @ \cup {master}]
    BY <1>2 DEF Enrol, generate_master_key, generate_salt, generate_recovery_key
  <2> DEFINE up == NewAccount(u, [master |-> master, pin |-> pin, rec |-> rec], salt, n)
             s == [user |-> u, key |-> master]
  <2>2. up \in Uploads /\ up.kind = "account" /\ s \in Sessions
    BY NewAccountType DEF Meanings, Sessions
  <2>3. /\ upload' = [upload EXCEPT ![d] = up]
        /\ session' \in {session, [session EXCEPT ![d] = s]}
        /\ unproven' \in {unproven, [unproven EXCEPT ![u] = @ \cup {master}]}
        /\ UNCHANGED <<account, rows, meant, chain>>
    BY <1>2, <2>1 DEF Enrol, chain
  <2> HIDE DEF up, s
  <2>4. /\ upload' \in [Devices -> Uploads \cup {None}]
        /\ session' \in [Devices -> Sessions \cup {None}]
        /\ unproven' \in [Users -> SUBSET MasterKeys]
        /\ \A e \in Devices : upload'[e] = upload[e] \/ upload'[e].kind = "account"
    BY <1>a, <2>2, <2>3
  <2> QED BY <1>1, <1>a, <2>3, <2>4
<1>3. ASSUME NEW d \in Devices, NEW answered \in BOOLEAN, Insert(d, answered)
      PROVE  Typed'
  <2> DEFINE up == upload[d]
  <2>1. /\ up \in Uploads /\ up.user \in Users /\ up.kind = "account"
        /\ up.meant \in Meanings /\ up.cols \in Columns
    BY <1>3, <1>a, UploadShapes DEF Insert
  <2>2. /\ account' = [account EXCEPT ![up.user] = up.cols]
        /\ meant' = [meant EXCEPT ![up.user] = up.meant]
        /\ upload' \in {upload, [upload EXCEPT ![d] = None]}
        /\ UNCHANGED <<rows, session, unproven, chain>>
    BY <1>3 DEF Insert, chain
  <2> HIDE DEF up
  <2>3. TypeOK'
    BY <1>a, <2>1, <2>2, ChainUntouched DEF TypeOK
  <2>4. \A v \in Users : account[v] # None => account'[v] # None
    BY <1>a, <2>1, <2>2
  <2>5. Grounded'
    <3>1. \A v \in Users : account'[v] # None => meant'[v] # None
      BY <1>a, <1>g, <2>1, <2>2 DEF Grounded
    <3>2. ASSUME NEW e \in Devices, upload'[e] # None, upload'[e].kind # "account"
          PROVE  account'[upload'[e].user] # None
      <4>1. upload'[e] = upload[e] /\ upload[e].user \in Users
        BY <1>a, <2>2, <3>2, UploadShapes
      <4> QED BY <1>g, <2>4, <3>2, <4>1 DEF Grounded
    <3> QED BY <3>1, <3>2 DEF Grounded
  <2> QED BY <2>3, <2>5 DEF Typed
<1>4. ASSUME NEW d \in Devices, NEW answered \in BOOLEAN, Replace(d, answered)
      PROVE  Typed'
  <2> DEFINE up == upload[d]
             c == IF up.kind = "pin" THEN [account[up.user] EXCEPT !.pin = up.col, !.salt = up.salt]
                                     ELSE [account[up.user] EXCEPT !.rec = up.col, !.salt = up.salt]
             m == IF up.kind = "pin" THEN [meant[up.user] EXCEPT !.pin = up.meant]
                                     ELSE [meant[up.user] EXCEPT !.rec = up.meant]
  <2>1. up \in Uploads /\ up.user \in Users /\ up.kind \in {"pin", "rec"}
    BY <1>4, <1>a, UploadShapes DEF Replace
  <2>2. account[up.user] \in Columns /\ meant[up.user] \in Meanings
    BY <1>4, <1>a, <1>g, <2>1 DEF Replace, Grounded
  <2>3. c \in Columns /\ m \in Meanings
    <3>1. CASE up.kind = "pin"
      BY <3>1, <2>1, <2>2, UploadShapes DEF Columns, Meanings
    <3>2. CASE up.kind = "rec"
      BY <3>2, <2>1, <2>2, UploadShapes DEF Columns, Meanings
    <3> QED BY <2>1, <3>1, <3>2
  <2>4. /\ account' = [account EXCEPT ![up.user] = c]
        /\ meant' = [meant EXCEPT ![up.user] = m]
        /\ upload' \in {upload, [upload EXCEPT ![d] = None]}
        /\ UNCHANGED <<rows, session, unproven, chain>>
    <3>1. CASE up.kind = "pin"
      BY <3>1, <1>4, <1>a, <2>1 DEF Replace, chain
    <3>2. CASE up.kind = "rec"
      BY <3>2, <1>4, <1>a, <2>1 DEF Replace, chain
    <3> QED BY <2>1, <3>1, <3>2
  <2> HIDE DEF up, c, m
  <2>5. TypeOK'
    BY <1>a, <2>1, <2>3, <2>4, ChainUntouched DEF TypeOK
  <2>6. Grounded'
    <3>1. \A v \in Users : account[v] # None => account'[v] # None
      BY <1>a, <2>1, <2>3, <2>4
    <3>2. \A v \in Users : account'[v] # None => meant'[v] # None
      BY <1>a, <1>g, <2>1, <2>3, <2>4 DEF Grounded
    <3>3. ASSUME NEW e \in Devices, upload'[e] # None, upload'[e].kind # "account"
          PROVE  account'[upload'[e].user] # None
      <4>1. upload'[e] = upload[e] /\ upload[e].user \in Users
        BY <1>a, <2>4, <3>3, UploadShapes
      <4> QED BY <1>g, <3>1, <3>3, <4>1 DEF Grounded
    <3> QED BY <3>2, <3>3 DEF Grounded
  <2> QED BY <2>5, <2>6 DEF Typed
<1>5. ASSUME NEW d \in Devices, Refuse(d) \/ Lock(d) \/ Crash(d)
      PROVE  Typed'
  <2>1. /\ upload' \in {upload, [upload EXCEPT ![d] = None]}
        /\ session' \in {session, [session EXCEPT ![d] = None]}
        /\ UNCHANGED <<account, rows, meant, unproven, chain>>
    BY <1>5 DEF Refuse, Lock, Crash, chain
  <2>2. /\ upload' \in [Devices -> Uploads \cup {None}]
        /\ session' \in [Devices -> Sessions \cup {None}]
        /\ \A e \in Devices : upload'[e] \in {upload[e], None}
    BY <1>a, <2>1
  <2> QED BY <1>1, <1>a, <2>1, <2>2
<1>6. ASSUME NEW d \in Devices, NEW up \in Uploads, account[up.user] # None,
             upload' = [upload EXCEPT ![d] = up],
             UNCHANGED <<account, rows, session, meant, unproven, chain>>
      PROVE  Typed'
  <2>1. /\ upload' \in [Devices -> Uploads \cup {None}]
        /\ \A e \in Devices : upload'[e] = upload[e] \/ account[upload'[e].user] # None
    BY <1>6, <1>a
  <2> QED BY <1>1, <1>6, <1>a, <2>1
<1>7. ASSUME NEW d \in Devices, session[d] # None, account[session[d].user] # None
      PROVE  /\ session[d].user \in Users /\ session[d].key \in MasterKeys
             /\ account[session[d].user].salt \in Salts
  BY <1>7, <1>a, ColumnsShape DEF Sessions
<1>8. ASSUME NEW d \in Devices, NEW pin \in Pins, NEW n \in Nonces, ChangePin(d, pin, n)
      PROVE  Typed'
  <2> DEFINE s == session[d]
             salt == account[s.user].salt
             up == [kind |-> "pin", user |-> s.user, meant |-> pin, salt |-> salt,
                    col |-> pin_column(s.user, pin, salt, s.key, n)]
  <2>1. /\ s # None /\ account[s.user] # None /\ upload' = [upload EXCEPT ![d] = up]
        /\ UNCHANGED <<account, rows, session, meant, unproven, chain>>
    BY <1>8 DEF ChangePin, as_bytes, chain
  <2>2. pin_column(s.user, pin, salt, s.key, n) \in PinColumns
    BY <1>7, <2>1, PinColumnIsBox
  <2>3. up \in Uploads /\ up.user = s.user
    BY <1>7, <2>1, <2>2 DEF Uploads
  <2> HIDE DEF up
  <2> QED BY <1>6, <2>1, <2>3
<1>9. ASSUME NEW d \in Devices, NEW n \in Nonces, ChangeRecovery(d, n)
      PROVE  Typed'
  <2> DEFINE s == session[d]
             salt == account[s.user].salt
  <2>1. PICK rec \in RecoveryKeys :
           upload' = [upload EXCEPT ![d] =
              [kind |-> "rec", user |-> s.user, meant |-> rec, salt |-> salt,
               col |-> rec_column(rec, salt, s.key, n)]]
    BY <1>9 DEF ChangeRecovery, as_bytes, generate_recovery_key
  <2> DEFINE up == [kind |-> "rec", user |-> s.user, meant |-> rec, salt |-> salt,
                    col |-> rec_column(rec, salt, s.key, n)]
  <2>2. /\ s # None /\ account[s.user] # None /\ upload' = [upload EXCEPT ![d] = up]
        /\ UNCHANGED <<account, rows, session, meant, unproven, chain>>
    BY <1>9, <2>1 DEF ChangeRecovery, chain
  <2>3. rec_column(rec, salt, s.key, n) \in RecColumns
    BY <1>7, <2>2, RecColumnIsBox
  <2>4. up \in Uploads /\ up.user = s.user
    BY <1>7, <2>2, <2>3 DEF Uploads
  <2> HIDE DEF up
  <2> QED BY <1>6, <2>2, <2>4
<1>10. ASSUME NEW d \in Devices, NEW u \in Users, NEW r, r.ok => r.val \in MasterKeys,
              OpenWith(d, u, r),
              unproven' \in {unproven, [unproven EXCEPT ![u] = @ \cup {r.val}]}
       PROVE  Typed'
  <2> DEFINE s == [user |-> u, key |-> r.val]
  <2>1. r.val \in MasterKeys /\ s \in Sessions
    BY <1>10 DEF OpenWith, Sessions
  <2>2. session' = [session EXCEPT ![d] = s]
        /\ UNCHANGED <<account, rows, upload, meant, chain>>
    BY <1>10 DEF OpenWith, chain
  <2> HIDE DEF s
  <2>3. /\ session' \in [Devices -> Sessions \cup {None}]
        /\ unproven' \in [Users -> SUBSET MasterKeys]
    BY <1>10, <1>a, <2>1, <2>2
  <2> QED BY <1>1, <1>a, <2>2, <2>3
<1>11. ASSUME NEW d \in Devices, NEW u \in Users, NEW by \in Users,
              NEW pin \in Pins, NEW typed \in Pins, Unlock(d, u, pin, by, typed)
       PROVE  Typed'
  <2>1. account[u] # None /\ account[u].pin \in PinColumns
    BY <1>11, <1>a, ColumnsShape DEF Unlock
  <2> DEFINE r == try_pin(u, pin, asked(by, typed))
  <2>2. r.ok => r.val \in MasterKeys
    BY <2>1, UnwrapType DEF try_pin
  <2>3. OpenWith(d, u, r) /\ UNCHANGED unproven
    BY <1>11 DEF Unlock
  <2> HIDE DEF r
  <2> QED BY <1>10, <2>2, <2>3
<1>12. ASSUME NEW d \in Devices, NEW u \in Users, NEW rec \in RecoveryKeys, Recover(d, u, rec)
       PROVE  Typed'
  <2>1. account[u] # None /\ account[u].rec \in RecColumns
    BY <1>12, <1>a, ColumnsShape DEF Recover
  <2> DEFINE r == try_recovery(u, rec)
  <2>2. r.ok => r.val \in MasterKeys
    BY <2>1, UnwrapType DEF try_recovery
  <2>3. OpenWith(d, u, r) /\ UNCHANGED unproven
    BY <1>12 DEF Recover
  <2> HIDE DEF r
  <2> QED BY <1>10, <2>2, <2>3
<1>13. ASSUME NEW d \in Devices, NEW u \in Users, Resume(d, u)
       PROVE  Typed'
  <2> DEFINE r == Chain!load_master_key(u)
  <2>1. /\ r # Ok(None) /\ r.ok /\ OpenWith(d, u, r)
        /\ unproven' \in {unproven, [unproven EXCEPT ![u] = @ \cup {r.val}]}
    BY <1>13 DEF Resume, OpenWith
  <2>2. r.val \in MasterKeys
    BY <1>a, <2>1, LoadedKey
  <2> HIDE DEF r
  <2> QED BY <1>10, <2>1, <2>2
<1>14. ASSUME NEW d \in Devices, NEW v \in Contents, NEW n \in Nonces, SaveRow(d, v, n)
       PROVE  Typed'
  <2> DEFINE s == session[d]
             r == seal_json(profile_key(s.key), v, n)
  <2>1. s.user \in Users /\ s.key \in MasterKeys
    BY <1>14, <1>a DEF SaveRow, Sessions
  <2>2. r.ok /\ r.val \in Fields
    BY <1>14, <2>1, SealedRow DEF SaveRow
  <2>3. rows' = [rows EXCEPT ![s.user] = r.val]
        /\ UNCHANGED <<account, session, upload, meant, unproven, chain>>
    BY <1>14 DEF SaveRow, chain
  <2> HIDE DEF s, r
  <2>4. rows' \in [Users -> Fields \cup {None}]
    BY <1>a, <2>1, <2>2, <2>3
  <2> QED BY <1>1, <1>a, <2>3, <2>4
<1>15. ASSUME Chain!TypeOK', UNCHANGED <<account, rows, session, upload, meant, unproven>>
       PROVE  Typed'
  <2>1. TypeOK'
    BY <1>15, <1>a DEF TypeOK
  <2>2. Grounded'
    BY <1>15, <1>g DEF Grounded
  <2> QED BY <2>1, <2>2 DEF Typed
<1>16. ASSUME NEW d \in Devices, Remember(d)
       PROVE  Typed'
  <2> DEFINE u == session[d].user
             k == session[d].key
             slot == <<DEFAULT_SERVICE, u>>
  <2>1. u \in Users /\ k \in MasterKeys
    BY <1>16, <1>a DEF Remember, Sessions
  <2>2. slot \in Chain!Slots
    BY <2>1 DEF Chain!Slots
  <2>3. /\ entries' \in {entries, [entries EXCEPT ![slot] = Chain!encode(k)]}
        /\ last' = [last EXCEPT ![slot] = k]
        /\ UNCHANGED <<reachable, account, rows, session, upload, meant, unproven>>
    BY <1>16 DEF Remember, Chain!save_master_key, Chain!Save, Chain!entry, as_bytes
  <2>4. Chain!TypeOK'
    BY <1>a, <2>1, <2>2, <2>3 DEF Chain!TypeOK, Chain!Passwords
  <2> QED BY <1>15, <2>3, <2>4
<1>17. ASSUME KeychainStep
       PROVE  Typed'
  <2>1. UNCHANGED <<account, rows, session, upload, meant, unproven>>
    BY <1>17 DEF KeychainStep
  <2>2. ASSUME NEW u \in Users, Chain!delete_master_key(u)
        PROVE  Chain!TypeOK'
    <3>1. <<DEFAULT_SERVICE, u>> \in Chain!Slots
      BY DEF Chain!Slots
    <3>2. /\ entries' = [entries EXCEPT ![<<DEFAULT_SERVICE, u>>] = None]
          /\ last' = [last EXCEPT ![<<DEFAULT_SERVICE, u>>] = None]
          /\ UNCHANGED reachable
      BY <2>2 DEF Chain!delete_master_key, Chain!Delete, Chain!entry
    <3> QED BY <1>a, <3>1, <3>2 DEF Chain!TypeOK
  <2>3. ASSUME Chain!Toggle
        PROVE  Chain!TypeOK'
    BY <1>a, <2>3 DEF Chain!Toggle, Chain!TypeOK
  <2>4. ASSUME NEW slot \in Chain!Slots, Chain!Overwrite(slot)
        PROVE  Chain!TypeOK'
    <3>1. PICK p \in Chain!Passwords \cup {None} : entries' = [entries EXCEPT ![slot] = p]
      BY <2>4 DEF Chain!Overwrite
    <3>2. last' = [last EXCEPT ![slot] = Foreign] /\ UNCHANGED reachable
      BY <2>4 DEF Chain!Overwrite
    <3> QED BY <1>a, <3>1, <3>2 DEF Chain!TypeOK
  <2>5. Chain!TypeOK'
    BY <1>17, <2>2, <2>3, <2>4 DEF KeychainStep
  <2> QED BY <1>15, <2>1, <2>5
<1>18. CASE UNCHANGED vars
  <2>1. UNCHANGED <<account, rows, session, upload, meant, unproven, chain>>
    BY <1>18 DEF vars, chain
  <2> QED BY <1>1, <1>a, <2>1
<1> QED
  BY <1>2, <1>3, <1>4, <1>5, <1>8, <1>9, <1>11, <1>12, <1>13, <1>14, <1>16, <1>17, <1>18
  DEF Next

(* The row, the sessions, the uploads and the keychain entries stay of the *)
(* form the example gives them: a wrapping key wraps, a master key is what *)
(* is wrapped.                                                             *)
THEOREM TypeCorrect == Spec => []TypeOK
<1>1. Spec => []Typed
  BY InitTyped, TypedStep, PTL DEF Spec
<1> QED BY <1>1, PTL DEF Typed

-----------------------------------------------------------------------------
(* Contents: what the boxes hold, and under which keys                     *)

(* Columns locked for user u with the secrets of m.                        *)
Matches(u, cols, m) ==
    /\ cols.pin.key = pin_key(u, m.pin, asked(u, m.pin), cols.salt)
    /\ cols.rec.key = derive_wrapping_key(m.rec, cols.salt)

AccountFits(u) ==
    account[u] # None =>
        /\ Matches(u, account[u], meant[u])
        /\ account[u].pin.plain \in KeysOf(u) /\ account[u].rec.plain \in KeysOf(u)

(* An upload on its way would leave the account matching, whenever it      *)
(* arrives: it carries the salt the account has and wraps one of its keys. *)
UploadFits(d) ==
    LET up == upload[d]
    IN  up # None =>
        /\ up.kind = "account" =>
              /\ Matches(up.user, up.cols, up.meant)
              /\ up.cols.pin.plain = up.meant.master /\ up.cols.rec.plain = up.meant.master
        /\ up.kind = "pin" =>
              /\ up.salt = account[up.user].salt
              /\ up.col.key = pin_key(up.user, up.meant, asked(up.user, up.meant), up.salt)
              /\ up.col.plain \in KeysOf(up.user)
        /\ up.kind = "rec" =>
              /\ up.salt = account[up.user].salt
              /\ up.col.key = derive_wrapping_key(up.meant, up.salt)
              /\ up.col.plain \in KeysOf(up.user)

SessionFits(d) == session[d] # None => session[d].key \in KeysOf(session[d].user)

EntryFits(u) ==
    LET slot == <<DEFAULT_SERVICE, u>>
    IN  \A k \in MasterKeys : entries[slot] = Chain!encode(k) =>
           Chain!HasStore /\ (last[slot] # Foreign => k \in KeysOf(u))

RowFits(u) ==
    rows[u] # None =>
        \E k \in KeysOf(u), n \in Nonces, v \in Contents :
            rows[u] = Wire(Box(profile_key(k), n, v))

(* The induction: everything that is kept, or on its way, goes back to a   *)
(* key that came in for its user, and every box to the secret it is meant  *)
(* for.                                                                    *)
Traced ==
    /\ \A u \in Users : AccountFits(u) /\ EntryFits(u) /\ RowFits(u)
    /\ \A d \in Devices : UploadFits(d) /\ SessionFits(d)

IInv == Typed /\ Traced

LEMMA EncodeIsInjective ==
    ASSUME NEW k, NEW l, Chain!encode(k) = Chain!encode(l)
    PROVE  k = l
BY DEF Chain!encode

LEMMA InitTraced == Init => Traced
<1> SUFFICES ASSUME Init PROVE Traced
    OBVIOUS
<1>1. ASSUME NEW u \in Users, NEW k \in MasterKeys
      PROVE  entries[<<DEFAULT_SERVICE, u>>] # Chain!encode(k)
    BY <1>1, NoneAssumption DEF Init, Chain!Init, Chain!Slots, Chain!Passwords
<1> QED
  BY <1>1 DEF Init, Traced, AccountFits, EntryFits, RowFits, UploadFits, SessionFits

(* The salt and the master key of an account never change, and a key that  *)
(* came in is never forgotten.                                             *)
Steady ==
    \A u \in Users :
        /\ account[u] # None => /\ account'[u] # None
                                /\ account'[u].salt = account[u].salt
                                /\ meant'[u].master = meant[u].master
        /\ unproven[u] \subseteq unproven'[u]

LEMMA KeysStay ==
    ASSUME Steady, NEW u \in Users
    PROVE  KeysOf(u) \subseteq KeysOf(u)'
BY DEF Steady, KeysOf

(* What is left alone still fits.                                          *)
LEMMA Carried ==
    ASSUME IInv, Steady
    PROVE  /\ \A d \in Devices : session'[d] \in {session[d], None} => SessionFits(d)'
           /\ \A d \in Devices : upload'[d] \in {upload[d], None} => UploadFits(d)'
           /\ \A u \in Users : account'[u] = account[u] /\ meant'[u] = meant[u]
                                  => AccountFits(u)'
           /\ \A u \in Users : rows'[u] = rows[u] => RowFits(u)'
           /\ \A u \in Users :
                 LET slot == <<DEFAULT_SERVICE, u>>
                 IN  entries'[slot] = entries[slot] /\ last'[slot] = last[slot] => EntryFits(u)'
<1>1. Grounded /\ Traced
    BY DEF IInv, Typed
<1>2. ASSUME NEW d \in Devices, session'[d] \in {session[d], None}
      PROVE  SessionFits(d)'
  <2>1. session[d] # None => session[d].user \in Users
    BY DEF IInv, Typed, TypeOK, Sessions
  <2> QED BY <1>1, <1>2, <2>1, KeysStay DEF Traced, SessionFits
<1>3. ASSUME NEW d \in Devices, upload'[d] \in {upload[d], None}
      PROVE  UploadFits(d)'
  <2>1. upload[d] # None => upload[d].user \in Users
    BY UploadShapes DEF IInv, Typed, TypeOK
  <2>2. upload[d] # None /\ upload[d].kind # "account"
        => account'[upload[d].user].salt = account[upload[d].user].salt
    BY <1>1, <2>1 DEF Steady, Grounded
  <2>3. UploadFits(d)
    BY <1>1 DEF Traced
  <2>5. CASE upload[d] = None \/ upload'[d] = None
    BY <1>3, <2>5 DEF UploadFits
  <2>6. CASE upload[d] # None /\ upload'[d] # None
    <3>1. PICK u \in Users : u = upload[d].user
      BY <2>1, <2>6
    <3>2. upload'[d] = upload[d]
      BY <1>3, <2>6
    <3>3. KeysOf(u) \subseteq KeysOf(u)'
      BY KeysStay
    <3>4. KeysOf(upload[d].user) = KeysOf(u) /\ (KeysOf(upload[d].user))' = KeysOf(u)'
      BY <3>1, <3>2 DEF KeysOf
    <3> QED BY <2>2, <2>3, <2>6, <3>2, <3>3, <3>4 DEF UploadFits
  <2> QED BY <2>5, <2>6
<1>4. ASSUME NEW u \in Users, account'[u] = account[u], meant'[u] = meant[u]
      PROVE  AccountFits(u)'
  BY <1>1, <1>4, KeysStay DEF Traced, AccountFits
<1>5. ASSUME NEW u \in Users, rows'[u] = rows[u]
      PROVE  RowFits(u)'
  BY <1>1, <1>5, KeysStay DEF Traced, RowFits
<1>6. ASSUME NEW u \in Users,
             entries'[<<DEFAULT_SERVICE, u>>] = entries[<<DEFAULT_SERVICE, u>>],
             last'[<<DEFAULT_SERVICE, u>>] = last[<<DEFAULT_SERVICE, u>>]
      PROVE  EntryFits(u)'
  BY <1>1, <1>6, KeysStay DEF Traced, EntryFits
<1> QED BY <1>2, <1>3, <1>4, <1>5, <1>6

(* Only Insert and Replace touch an account: the one makes it, the other   *)
(* brings the salt it has.                                                 *)
LEMMA SteadyStep == IInv /\ [Next]_vars => Steady
<1> SUFFICES ASSUME IInv, [Next]_vars PROVE Steady
    OBVIOUS
<1> USE NoneAssumption
<1>a. /\ account \in [Users -> Columns \cup {None}]
      /\ upload \in [Devices -> Uploads \cup {None}]
      /\ meant \in [Users -> Meanings \cup {None}]
      /\ unproven \in [Users -> SUBSET MasterKeys]
    BY DEF IInv, Typed, TypeOK
<1>1. ASSUME NEW d \in Devices, NEW answered \in BOOLEAN, Insert(d, answered)
      PROVE  Steady
  <2> DEFINE up == upload[d]
  <2>1. up # None /\ up.user \in Users /\ account[up.user] = None
    BY <1>1, <1>a, UploadShapes DEF Insert
  <2>2. /\ account' = [account EXCEPT ![up.user] = up.cols]
        /\ meant' = [meant EXCEPT ![up.user] = up.meant]
        /\ UNCHANGED unproven
    BY <1>1 DEF Insert
  <2> HIDE DEF up
  <2> QED BY <1>a, <2>1, <2>2 DEF Steady
<1>2. ASSUME NEW d \in Devices, NEW answered \in BOOLEAN, Replace(d, answered)
      PROVE  Steady
  <2> DEFINE up == upload[d]
             old == account[up.user]
  <2>1. up # None /\ up.user \in Users /\ up.kind \in {"pin", "rec"}
    BY <1>2, <1>a, UploadShapes DEF Replace
  <2>2. old \in Columns /\ meant[up.user] \in Meanings /\ up.salt = old.salt
    BY <1>a, <2>1 DEF IInv, Typed, Grounded, Traced, UploadFits
  <2>3. PICK c, m : /\ account' = [account EXCEPT ![up.user] = c] /\ c.salt = old.salt
                    /\ meant' = [meant EXCEPT ![up.user] = m]
                    /\ m.master = meant[up.user].master /\ c # None
    <3>1. CASE up.kind = "pin"
      <4> DEFINE c == [old EXCEPT !.pin = up.col, !.salt = up.salt]
                 m == [meant[up.user] EXCEPT !.pin = up.meant]
      <4>1. c \in Columns /\ c.salt = old.salt /\ m.master = meant[up.user].master
        BY <1>a, <2>1, <2>2, <3>1, UploadShapes DEF Columns, Meanings
      <4>2. account' = [account EXCEPT ![up.user] = c] /\ meant' = [meant EXCEPT ![up.user] = m]
        BY <1>2, <1>a, <2>1, <3>1 DEF Replace
      <4> QED BY <4>1, <4>2
    <3>2. CASE up.kind = "rec"
      <4> DEFINE c == [old EXCEPT !.rec = up.col, !.salt = up.salt]
                 m == [meant[up.user] EXCEPT !.rec = up.meant]
      <4>1. c \in Columns /\ c.salt = old.salt /\ m.master = meant[up.user].master
        BY <1>a, <2>1, <2>2, <3>2, UploadShapes DEF Columns, Meanings
      <4>2. account' = [account EXCEPT ![up.user] = c] /\ meant' = [meant EXCEPT ![up.user] = m]
        BY <1>2, <1>a, <2>1, <3>2 DEF Replace
      <4> QED BY <4>1, <4>2
    <3> QED BY <2>1, <3>1, <3>2
  <2>4. UNCHANGED unproven
    BY <1>2 DEF Replace
  <2> HIDE DEF up
  <2>5. \A u \in Users : IF u = up.user THEN account'[u] = c /\ meant'[u] = m
                         ELSE account'[u] = account[u] /\ meant'[u] = meant[u]
    BY <1>a, <2>1, <2>3
  <2> QED BY <2>3, <2>4, <2>5 DEF Steady
<1>3. ASSUME UNCHANGED <<account, meant>>, \A u \in Users : unproven[u] \subseteq unproven'[u]
      PROVE  Steady
  BY <1>3 DEF Steady
<1>4. ASSUME NEW d \in Devices, NEW u \in Users, NEW pin \in Pins, NEW n \in Nonces,
             Enrol(d, u, pin, n)
      PROVE  Steady
  <2>1. \E k : unproven' \in {unproven, [unproven EXCEPT ![u] = @ \cup {k}]}
    BY <1>4 DEF Enrol
  <2>2. \A v \in Users : unproven[v] \subseteq unproven'[v]
    BY <1>a, <2>1
  <2> QED BY <1>3, <1>4, <2>2 DEF Enrol
<1>5. ASSUME NEW d \in Devices, NEW u \in Users, Resume(d, u)
      PROVE  Steady
  <2>1. \E k : unproven' \in {unproven, [unproven EXCEPT ![u] = @ \cup {k}]}
    BY <1>5 DEF Resume
  <2>2. \A v \in Users : unproven[v] \subseteq unproven'[v]
    BY <1>a, <2>1
  <2> QED BY <1>3, <1>5, <2>2 DEF Resume, OpenWith
<1>6. Next => \/ UNCHANGED <<account, meant, unproven>>
              \/ \E d \in Devices, answered \in BOOLEAN :
                    Insert(d, answered) \/ Replace(d, answered)
              \/ \E d \in Devices, u \in Users, pin \in Pins, n \in Nonces : Enrol(d, u, pin, n)
              \/ \E d \in Devices, u \in Users : Resume(d, u)
  BY Zenon DEF Next, Refuse, Lock, Crash, Remember, ChangePin, ChangeRecovery,
        Unlock, Recover, OpenWith, SaveRow, KeychainStep
<1> QED BY <1>1, <1>2, <1>3, <1>4, <1>5, <1>6 DEF vars

(* One step per action, under it what the action disturbs.                 *)
THEOREM TracedStep == IInv /\ [Next]_vars => Traced'
<1> SUFFICES ASSUME IInv, [Next]_vars PROVE Traced'
    OBVIOUS
<1> USE NoneAssumption
<1>a. /\ account \in [Users -> Columns \cup {None}]
      /\ rows \in [Users -> Fields \cup {None}]
      /\ session \in [Devices -> Sessions \cup {None}]
      /\ upload \in [Devices -> Uploads \cup {None}]
      /\ meant \in [Users -> Meanings \cup {None}]
      /\ unproven \in [Users -> SUBSET MasterKeys]
      /\ Chain!TypeOK
    BY DEF IInv, Typed, TypeOK
<1>g. Grounded /\ Traced
    BY DEF IInv, Typed
<1>s. Steady
    BY SteadyStep
<1>1. ASSUME NEW d \in Devices, UNCHANGED <<account, rows, meant, chain>>,
             \A e \in Devices \ {d} : upload'[e] = upload[e] /\ session'[e] = session[e],
             upload'[d] \in {upload[d], None} \/ UploadFits(d)',
             session'[d] \in {session[d], None} \/ SessionFits(d)'
      PROVE  Traced'
  BY <1>1, <1>s, Carried DEF Traced, chain
<1>2. ASSUME NEW d \in Devices, NEW u \in Users, NEW k, k \in KeysOf(u)',
             session' = [session EXCEPT ![d] = [user |-> u, key |-> k]],
             UNCHANGED <<account, rows, upload, meant, chain>>
      PROVE  Traced'
  <2>1. session'[d] = [user |-> u, key |-> k]
    BY <1>2, <1>a
  <2>2. session'[d].user = u /\ session'[d].key = k
    BY <2>1
  <2>3. (KeysOf(session[d].user))' = KeysOf(u)'
    BY <2>2 DEF KeysOf
  <2>4. SessionFits(d)'
    BY <1>2, <2>2, <2>3 DEF SessionFits
  <2>5. \A e \in Devices \ {d} : session'[e] = session[e]
    BY <1>2, <1>a
  <2> QED BY <1>1, <1>2, <2>4, <2>5
<1>3. ASSUME NEW d \in Devices, NEW u \in Users, NEW pin \in Pins, NEW n \in Nonces,
             Enrol(d, u, pin, n)
      PROVE  Traced'
  <2>1. PICK master \in MasterKeys, salt \in Salts, rec \in RecoveryKeys :
           /\ upload' = [upload EXCEPT ![d] =
                 NewAccount(u, [master |-> master, pin |-> pin, rec |-> rec], salt, n)]
           /\ \/ UNCHANGED <<session, unproven>>
              \/ /\ session' = [session EXCEPT ![d] = [user |-> u, key |-> master]]
                 /\ unproven' = [unproven EXCEPT ![u] = @ \cup {master}]
    BY <1>3 DEF Enrol, generate_master_key, generate_salt, generate_recovery_key
  <2> DEFINE m == [master |-> master, pin |-> pin, rec |-> rec]
             up == NewAccount(u, m, salt, n)
  <2>2. m \in Meanings /\ m.master = master /\ m.pin = pin /\ m.rec = rec
    BY DEF Meanings
  <2> HIDE DEF m
  <2>3. /\ up.kind = "account" /\ up.user = u /\ up.meant = m /\ up.cols.salt = salt
        /\ up.cols.pin = Box(pin_key(u, pin, asked(u, pin), salt), n, master)
        /\ up.cols.rec = Box(derive_wrapping_key(rec, salt), n, master)
    BY <2>2, NewAccountType, PinColumnIsBox, RecColumnIsBox
  <2> HIDE DEF up
  <2>4. /\ Matches(u, up.cols, m)
        /\ up.cols.pin.plain = m.master /\ up.cols.rec.plain = m.master
    BY <2>2, <2>3, BoxFields DEF Matches
  <2>5. upload' = [upload EXCEPT ![d] = up]
        /\ UNCHANGED <<account, rows, meant, chain>>
    BY <1>3, <2>1 DEF Enrol, up, m, chain
  <2>6. upload'[d] = up /\ \A e \in Devices \ {d} : upload'[e] = upload[e]
    BY <1>a, <2>5
  <2>7. UploadFits(d)'
    BY <2>3, <2>4, <2>6 DEF UploadFits
  <2>8. CASE UNCHANGED session
    BY <1>1, <2>5, <2>6, <2>7, <2>8
  <2>9. CASE /\ session' = [session EXCEPT ![d] = [user |-> u, key |-> master]]
             /\ unproven' = [unproven EXCEPT ![u] = @ \cup {master}]
    <3>1. /\ session'[d].user = u /\ session'[d].key = master
          /\ \A e \in Devices \ {d} : session'[e] = session[e]
          /\ master \in unproven'[u]
      BY <1>a, <2>9
    <3>2. SessionFits(d)'
      BY <3>1 DEF SessionFits, KeysOf
    <3> QED BY <1>1, <2>5, <2>6, <2>7, <3>1, <3>2
  <2> QED BY <2>1, <2>8, <2>9
<1>4. ASSUME NEW d \in Devices, NEW answered \in BOOLEAN, Insert(d, answered)
      PROVE  Traced'
  <2> DEFINE up == upload[d]
  <2>1. /\ up # None /\ up \in Uploads /\ up.user \in Users /\ up.kind = "account"
        /\ up.cols \in Columns /\ account[up.user] = None
    BY <1>4, <1>a, UploadShapes DEF Insert
  <2>2. /\ Matches(up.user, up.cols, up.meant)
        /\ up.cols.pin.plain = up.meant.master /\ up.cols.rec.plain = up.meant.master
    BY <1>g, <2>1 DEF Traced, UploadFits
  <2>3. /\ account' = [account EXCEPT ![up.user] = up.cols]
        /\ meant' = [meant EXCEPT ![up.user] = up.meant]
        /\ upload' \in {upload, [upload EXCEPT ![d] = None]}
        /\ UNCHANGED <<rows, session, chain>>
    BY <1>4 DEF Insert, chain
  <2> HIDE DEF up
  <2>4. ASSUME NEW u \in Users PROVE AccountFits(u)'
    <3>1. CASE u = up.user
      <4>1. account'[u] = up.cols /\ meant'[u] = up.meant
        BY <1>a, <2>3, <3>1
      <4>2. up.meant.master \in KeysOf(u)'
        BY <2>1, <4>1 DEF KeysOf
      <4> QED BY <2>2, <3>1, <4>1, <4>2 DEF AccountFits
    <3>2. CASE u # up.user
      <4>1. account'[u] = account[u] /\ meant'[u] = meant[u]
        BY <1>a, <2>3, <3>2
      <4> QED BY <1>s, <4>1, Carried
    <3> QED BY <3>1, <3>2
  <2>5. \A e \in Devices : upload'[e] \in {upload[e], None}
    BY <1>a, <2>3
  <2> QED BY <2>3, <1>s, <2>4, <2>5, Carried DEF Traced, chain
<1>5. ASSUME NEW d \in Devices, NEW answered \in BOOLEAN, Replace(d, answered)
      PROVE  Traced'
  <2> DEFINE up == upload[d]
             c == IF up.kind = "pin" THEN [account[up.user] EXCEPT !.pin = up.col, !.salt = up.salt]
                                     ELSE [account[up.user] EXCEPT !.rec = up.col, !.salt = up.salt]
             m == IF up.kind = "pin" THEN [meant[up.user] EXCEPT !.pin = up.meant]
                                     ELSE [meant[up.user] EXCEPT !.rec = up.meant]
  <2>1. up # None /\ up \in Uploads /\ up.user \in Users /\ up.kind \in {"pin", "rec"}
    BY <1>5, <1>a, UploadShapes DEF Replace
  <2>2. /\ account[up.user] # None /\ account[up.user] \in Columns
        /\ meant[up.user] \in Meanings
        /\ Matches(up.user, account[up.user], meant[up.user])
        /\ account[up.user].pin.plain \in KeysOf(up.user)
        /\ account[up.user].rec.plain \in KeysOf(up.user)
    BY <1>a, <1>g, <2>1 DEF Grounded, Traced, AccountFits
  <2>3. UploadFits(d)
    BY <1>g DEF Traced
  <2>4. c.salt = account[up.user].salt
    <3>1. CASE up.kind = "pin"
      BY <3>1, <2>1, <2>2, <2>3, UploadShapes DEF Columns, UploadFits
    <3>2. CASE up.kind = "rec"
      BY <3>2, <2>1, <2>2, <2>3, UploadShapes DEF Columns, UploadFits
    <3> QED BY <2>1, <3>1, <3>2
  <2>5. Matches(up.user, c, m) /\ c.pin.plain \in KeysOf(up.user) /\ c.rec.plain \in KeysOf(up.user)
    <3>1. CASE up.kind = "pin"
      <4>1. c.pin = up.col /\ c.rec = account[up.user].rec
            /\ m.pin = up.meant /\ m.rec = meant[up.user].rec
        BY <3>1, <2>2 DEF Columns, Meanings
      <4>2. /\ up.salt = account[up.user].salt
            /\ up.col.key = pin_key(up.user, up.meant, asked(up.user, up.meant), up.salt)
            /\ up.col.plain \in KeysOf(up.user)
        BY <3>1, <2>1, <2>3 DEF UploadFits
      <4> HIDE DEF c, m, up
      <4> QED BY <2>2, <2>4, <4>1, <4>2 DEF Matches
    <3>2. CASE up.kind = "rec"
      <4>1. c.rec = up.col /\ c.pin = account[up.user].pin
            /\ m.rec = up.meant /\ m.pin = meant[up.user].pin
        BY <3>2, <2>2 DEF Columns, Meanings
      <4>2. /\ up.salt = account[up.user].salt
            /\ up.col.key = derive_wrapping_key(up.meant, up.salt)
            /\ up.col.plain \in KeysOf(up.user)
        BY <3>2, <2>1, <2>3 DEF UploadFits
      <4> HIDE DEF c, m, up
      <4> QED BY <2>2, <2>4, <4>1, <4>2 DEF Matches
    <3> QED BY <2>1, <3>1, <3>2
  <2>6. /\ account' = [account EXCEPT ![up.user] = c]
        /\ meant' = [meant EXCEPT ![up.user] = m]
        /\ upload' \in {upload, [upload EXCEPT ![d] = None]}
        /\ UNCHANGED <<rows, session, chain>>
    <3>1. CASE up.kind = "pin"
      BY <3>1, <1>5, <1>a, <2>1 DEF Replace, chain
    <3>2. CASE up.kind = "rec"
      BY <3>2, <1>5, <1>a, <2>1 DEF Replace, chain
    <3> QED BY <2>1, <3>1, <3>2
  <2> HIDE DEF up, c, m
  <2>7. \A u \in Users : IF u = up.user THEN account'[u] = c /\ meant'[u] = m
                         ELSE account'[u] = account[u] /\ meant'[u] = meant[u]
    BY <1>a, <2>1, <2>6
  <2>8. ASSUME NEW u \in Users PROVE AccountFits(u)'
    <3>1. CASE u = up.user
      <4>1. KeysOf(u) \subseteq KeysOf(u)'
        BY <1>s, KeysStay
      <4> QED BY <2>5, <2>7, <3>1, <4>1 DEF AccountFits
    <3>2. CASE u # up.user
      BY <2>7, <1>s, <3>2, Carried
    <3> QED BY <3>1, <3>2
  <2>9. \A e \in Devices : upload'[e] \in {upload[e], None}
    BY <1>a, <2>6
  <2> QED BY <2>6, <1>s, <2>8, <2>9, Carried DEF Traced, chain
<1>6. ASSUME NEW d \in Devices, Refuse(d) \/ Lock(d) \/ Crash(d)
      PROVE  Traced'
  <2>1. /\ upload'[d] \in {upload[d], None} /\ session'[d] \in {session[d], None}
        /\ \A e \in Devices \ {d} : upload'[e] = upload[e] /\ session'[e] = session[e]
    BY <1>6, <1>a DEF Refuse, Lock, Crash
  <2>2. UNCHANGED <<account, rows, meant, chain>>
    BY <1>6 DEF Refuse, Lock, Crash, chain
  <2> QED BY <1>1, <2>1, <2>2
<1>7. ASSUME NEW d \in Devices, session[d] # None
      PROVE  /\ session[d].user \in Users /\ session[d].key \in MasterKeys
             /\ session[d].key \in KeysOf(session[d].user)
             /\ account[session[d].user] # None => account[session[d].user].salt \in Salts
  BY <1>7, <1>a, <1>g, ColumnsShape DEF Sessions, Traced, SessionFits
<1>8. ASSUME NEW d \in Devices, NEW pin \in Pins, NEW n \in Nonces, ChangePin(d, pin, n)
      PROVE  Traced'
  <2> DEFINE s == session[d]
             salt == account[s.user].salt
             up == [kind |-> "pin", user |-> s.user, meant |-> pin, salt |-> salt,
                    col |-> pin_column(s.user, pin, salt, s.key, n)]
  <2>1. /\ s # None /\ account[s.user] # None /\ upload' = [upload EXCEPT ![d] = up]
        /\ UNCHANGED <<account, rows, session, meant, unproven, chain>>
    BY <1>8 DEF ChangePin, as_bytes, chain
  <2>2. up.col = Box(pin_key(s.user, pin, asked(s.user, pin), salt), n, s.key)
    BY <1>7, <2>1, PinColumnIsBox
  <2>3. /\ up.kind = "pin" /\ up.user = s.user /\ up.meant = pin /\ up.salt = salt
        /\ up.col.key = pin_key(s.user, pin, asked(s.user, pin), salt)
        /\ up.col.plain = s.key
    BY <2>2, BoxFields
  <2> HIDE DEF up
  <2>4. upload'[d] = up /\ \A e \in Devices \ {d} : upload'[e] = upload[e]
    BY <1>a, <2>1
  <2>5. s.key \in KeysOf(s.user) /\ (KeysOf(upload[d].user))' = KeysOf(s.user)
    BY <1>7, <2>1, <2>3, <2>4 DEF KeysOf
  <2>6. UploadFits(d)'
    BY <2>1, <2>3, <2>4, <2>5 DEF UploadFits
  <2> QED BY <1>1, <2>1, <2>4, <2>6
<1>9. ASSUME NEW d \in Devices, NEW n \in Nonces, ChangeRecovery(d, n)
      PROVE  Traced'
  <2> DEFINE s == session[d]
             salt == account[s.user].salt
  <2>1. PICK rec \in RecoveryKeys :
           upload' = [upload EXCEPT ![d] =
              [kind |-> "rec", user |-> s.user, meant |-> rec, salt |-> salt,
               col |-> rec_column(rec, salt, s.key, n)]]
    BY <1>9 DEF ChangeRecovery, as_bytes, generate_recovery_key
  <2> DEFINE up == [kind |-> "rec", user |-> s.user, meant |-> rec, salt |-> salt,
                    col |-> rec_column(rec, salt, s.key, n)]
  <2>2. /\ s # None /\ account[s.user] # None /\ upload' = [upload EXCEPT ![d] = up]
        /\ UNCHANGED <<account, rows, session, meant, unproven, chain>>
    BY <1>9, <2>1 DEF ChangeRecovery, chain
  <2>3. up.col = Box(derive_wrapping_key(rec, salt), n, s.key)
    BY <1>7, <2>2, RecColumnIsBox
  <2>4. /\ up.kind = "rec" /\ up.user = s.user /\ up.meant = rec /\ up.salt = salt
        /\ up.col.key = derive_wrapping_key(rec, salt)
        /\ up.col.plain = s.key
    BY <2>3, BoxFields
  <2> HIDE DEF up
  <2>5. upload'[d] = up /\ \A e \in Devices \ {d} : upload'[e] = upload[e]
    BY <1>a, <2>2
  <2>6. s.key \in KeysOf(s.user) /\ (KeysOf(upload[d].user))' = KeysOf(s.user)
    BY <1>7, <2>2, <2>4, <2>5 DEF KeysOf
  <2>7. UploadFits(d)'
    BY <2>2, <2>4, <2>5, <2>6 DEF UploadFits
  <2> QED BY <1>1, <2>2, <2>5, <2>7
<1>10. ASSUME NEW d \in Devices, NEW u \in Users, NEW by \in Users,
              NEW pin \in Pins, NEW typed \in Pins, Unlock(d, u, pin, by, typed)
       PROVE  Traced'
  <2> DEFINE r == try_pin(u, pin, asked(by, typed))
  <2>1. account[u] # None /\ account[u].pin \in PinColumns /\ OpenWith(d, u, r)
    BY <1>10, <1>a, ColumnsShape DEF Unlock
  <2>2. r.ok => r.val = account[u].pin.plain
    BY <2>1, UnwrapType DEF try_pin
  <2>3. account[u].pin.plain \in KeysOf(u) /\ KeysOf(u) \subseteq KeysOf(u)'
    BY <1>g, <1>s, <2>1, KeysStay DEF Traced, AccountFits
  <2> HIDE DEF r
  <2> QED BY <1>2, <2>1, <2>2, <2>3 DEF OpenWith, chain
<1>11. ASSUME NEW d \in Devices, NEW u \in Users, NEW rec \in RecoveryKeys, Recover(d, u, rec)
       PROVE  Traced'
  <2> DEFINE r == try_recovery(u, rec)
  <2>1. account[u] # None /\ account[u].rec \in RecColumns /\ OpenWith(d, u, r)
    BY <1>11, <1>a, ColumnsShape DEF Recover
  <2>2. r.ok => r.val = account[u].rec.plain
    BY <2>1, UnwrapType DEF try_recovery
  <2>3. account[u].rec.plain \in KeysOf(u) /\ KeysOf(u) \subseteq KeysOf(u)'
    BY <1>g, <1>s, <2>1, KeysStay DEF Traced, AccountFits
  <2> HIDE DEF r
  <2> QED BY <1>2, <2>1, <2>2, <2>3 DEF OpenWith, chain
<1>12. ASSUME NEW d \in Devices, NEW u \in Users, Resume(d, u)
       PROVE  Traced'
  <2> DEFINE r == Chain!load_master_key(u)
             slot == <<DEFAULT_SERVICE, u>>
  <2>1. /\ r # Ok(None) /\ r.ok /\ OpenWith(d, u, r)
        /\ unproven' = IF last[slot] = Foreign
                       THEN [unproven EXCEPT ![u] = @ \cup {r.val}] ELSE unproven
    BY <1>12 DEF Resume, OpenWith
  <2>2. r.val \in MasterKeys /\ entries[slot] = Chain!encode(r.val)
    BY <1>a, <2>1, LoadedKey
  <2> HIDE DEF r
  <2>3. r.val \in KeysOf(u)'
    <3>1. CASE last[slot] = Foreign
      <4>1. r.val \in unproven'[u]
        BY <1>a, <2>1, <3>1
      <4> QED BY <4>1 DEF KeysOf
    <3>2. CASE last[slot] # Foreign
      <4>1. r.val \in KeysOf(u) /\ KeysOf(u) \subseteq KeysOf(u)'
        BY <1>g, <1>s, <2>2, <3>2, KeysStay DEF Traced, EntryFits
      <4> QED BY <4>1
    <3> QED BY <3>1, <3>2
  <2> QED BY <1>2, <2>1, <2>3 DEF OpenWith, chain
<1>13. ASSUME NEW d \in Devices, Remember(d)
       PROVE  Traced'
  <2> DEFINE u == session[d].user
             k == session[d].key
             slot == <<DEFAULT_SERVICE, u>>
  <2>1. u \in Users /\ k \in KeysOf(u)
    BY <1>7, <1>13 DEF Remember
  <2>2. /\ entries' \in {entries, [entries EXCEPT ![slot] = Chain!encode(k)]}
        /\ last' = [last EXCEPT ![slot] = k]
        /\ ~Chain!HasStore => entries' = entries
        /\ Chain!HasStore => entries' = [entries EXCEPT ![slot] = Chain!encode(k)]
        /\ UNCHANGED <<account, rows, session, upload, meant, unproven>>
    BY <1>13 DEF Remember, Chain!save_master_key, Chain!Save, Chain!entry, as_bytes
  <2>3. ASSUME NEW v \in Users PROVE EntryFits(v)'
    <3>1. slot \in Chain!Slots /\ <<DEFAULT_SERVICE, v>> \in Chain!Slots
      BY <2>1 DEF Chain!Slots
    <3>2. CASE v # u
      BY <1>a, <1>s, <2>2, <3>1, <3>2, Carried DEF Chain!TypeOK
    <3>3. CASE v = u /\ Chain!HasStore
      <4>1. entries'[<<DEFAULT_SERVICE, v>>] = Chain!encode(k)
        BY <1>a, <2>2, <3>1, <3>3 DEF Chain!TypeOK
      <4>2. k \in KeysOf(v) /\ KeysOf(v) \subseteq KeysOf(v)'
        BY <1>s, <2>1, <3>3, KeysStay
      <4> QED BY <3>3, <4>1, <4>2, EncodeIsInjective DEF EntryFits
    <3>4. CASE v = u /\ ~Chain!HasStore
      <4>1. EntryFits(v) /\ entries' = entries
        BY <1>g, <2>2, <3>4 DEF Traced
      <4> QED BY <3>4, <4>1 DEF EntryFits
    <3> QED BY <3>2, <3>3, <3>4
  <2> QED BY <2>2, <1>s, <2>3, Carried DEF Traced
<1>14. ASSUME NEW d \in Devices, NEW v \in Contents, NEW n \in Nonces, SaveRow(d, v, n)
       PROVE  Traced'
  <2> DEFINE s == session[d]
             r == seal_json(profile_key(s.key), v, n)
  <2>1. /\ s # None /\ s.user \in Users /\ s.key \in MasterKeys /\ s.key \in KeysOf(s.user)
    BY <1>7, <1>14 DEF SaveRow
  <2>2. r.val = Wire(Box(profile_key(s.key), n, v))
    BY <2>1, SealedRow, Results
  <2>3. rows' = [rows EXCEPT ![s.user] = r.val]
        /\ UNCHANGED <<account, session, upload, meant, unproven, chain>>
    BY <1>14 DEF SaveRow, chain
  <2> HIDE DEF s, r
  <2>4. ASSUME NEW u \in Users PROVE RowFits(u)'
    <3>1. CASE u = s.user
      <4>1. rows'[u] = Wire(Box(profile_key(s.key), n, v))
        BY <1>a, <2>1, <2>2, <2>3, <3>1
      <4>2. s.key \in KeysOf(u)'
        BY <1>s, <2>1, <3>1, KeysStay
      <4> QED BY <4>1, <4>2 DEF RowFits
    <3>2. CASE u # s.user
      <4>1. rows'[u] = rows[u]
        BY <1>a, <2>3, <3>2
      <4> QED BY <1>s, <4>1, Carried
    <3> QED BY <3>1, <3>2
  <2> QED BY <2>3, <1>s, <2>4, Carried DEF Traced, chain
<1>15. ASSUME KeychainStep
       PROVE  Traced'
  <2>1. UNCHANGED <<account, rows, session, upload, meant, unproven>>
    BY <1>15 DEF KeychainStep
  <2>2. \A slot \in Chain!Slots :
           \/ entries'[slot] = entries[slot] /\ last'[slot] = last[slot]
           \/ entries'[slot] = None
           \/ last'[slot] = Foreign /\ Chain!HasStore
    BY <1>15, <1>a DEF KeychainStep, Chain!delete_master_key, Chain!Delete, Chain!entry,
       Chain!Toggle, Chain!Overwrite, Chain!TypeOK
  <2>3. ASSUME NEW u \in Users PROVE EntryFits(u)'
    <3> DEFINE slot == <<DEFAULT_SERVICE, u>>
    <3>1. slot \in Chain!Slots
      BY DEF Chain!Slots
    <3>2. CASE entries'[slot] = entries[slot] /\ last'[slot] = last[slot]
      BY <1>s, <3>2, Carried
    <3>3. CASE entries'[slot] = None
      <4>1. \A k \in MasterKeys : Chain!encode(k) # None
        BY DEF Chain!Passwords
      <4> QED BY <3>3, <4>1 DEF EntryFits
    <3>4. CASE last'[slot] = Foreign /\ Chain!HasStore
      BY <3>4 DEF EntryFits
    <3> QED BY <2>2, <3>1, <3>2, <3>3, <3>4
  <2> QED BY <2>1, <1>s, <2>3, Carried DEF Traced
<1>16. CASE UNCHANGED vars
  <2>1. UNCHANGED <<account, rows, session, upload, meant, entries, last>>
    BY <1>16 DEF vars
  <2> QED BY <1>s, <2>1, Carried DEF Traced
<1> QED
  BY <1>3, <1>4, <1>5, <1>6, <1>8, <1>9, <1>10, <1>11, <1>12, <1>13, <1>14, <1>15, <1>16
  DEF Next

-----------------------------------------------------------------------------
(* What the invariant says to a user                                       *)

(* Whatever the devices, the server and the keychain do, the row, the      *)
(* uploads, the sessions, the keychain and the sealed row all hold keys    *)
(* that came in for their user, under the PIN and the recovery key the     *)
(* account was last made from.                                             *)
THEOREM InvariantHolds == Spec => []IInv
<1>1. Init => IInv
  BY InitTyped, InitTraced DEF IInv
<1>2. IInv /\ [Next]_vars => IInv'
  BY TypedStep, TracedStep DEF IInv
<1> QED BY <1>1, <1>2, PTL DEF Spec

(* Whichever way a session was opened, it holds the account's master key   *)
(* or one that came in on no word of the server's; where none did, all     *)
(* sessions of a user hold the one master key.                             *)
THEOREM SessionsCorrect == Spec => []SessionsHoldMaster
<1>1. IInv => SessionsHoldMaster
  BY DEF IInv, Typed, Traced, SessionFits, SessionsHoldMaster, Settled
<1> QED BY <1>1, InvariantHolds, PTL

(* What a PIN, a recovery key and an evaluation give: what the column      *)
(* holds, to the secret the column was made for.                           *)
LEMMA Unlocks ==
    ASSUME IInv, NEW u \in Users, account[u] # None
    PROVE  /\ \A pin, ev : try_pin(u, pin, ev).ok
                  => /\ finalize(u, pin, ev)
                           = finalize(u, meant[u].pin, asked(u, meant[u].pin))
                     /\ try_pin(u, pin, ev) = Ok(account[u].pin.plain)
           /\ try_pin(u, meant[u].pin, asked(u, meant[u].pin)) = Ok(account[u].pin.plain)
           /\ \A rec : try_recovery(u, rec).ok
                  => rec = meant[u].rec /\ try_recovery(u, rec) = Ok(account[u].rec.plain)
           /\ try_recovery(u, meant[u].rec) = Ok(account[u].rec.plain)
<1> DEFINE c == account[u]
           m == meant[u]
<1>1. c.pin.tag = "box" /\ c.rec.tag = "box"
  BY ColumnsShape, ColumnsAreBoxes DEF IInv, Typed, TypeOK
<1>2. Matches(u, c, m)
  BY DEF IInv, Traced, AccountFits
<1>3. ASSUME NEW a, NEW b, NEW salt,
             derive_wrapping_key(a, salt) = derive_wrapping_key(b, salt)
      PROVE  a = b
  BY <1>3 DEF derive_wrapping_key
<1>4. ASSUME NEW pin, NEW ev, try_pin(u, pin, ev).ok
      PROVE  finalize(u, pin, ev) = finalize(u, m.pin, asked(u, m.pin))
  <2>1. pin_key(u, pin, ev, c.salt) = c.pin.key
    BY <1>1, <1>4, DecryptsBox DEF try_pin, unwrap_master_key
  <2> QED BY <1>2, <1>3, <2>1 DEF Matches, pin_key
<1>5. ASSUME NEW pin, NEW ev, pin_key(u, pin, ev, c.salt) = c.pin.key
      PROVE  try_pin(u, pin, ev) = Ok(c.pin.plain)
  BY <1>1, <1>5, DecryptsBox DEF try_pin, unwrap_master_key
<1>6. ASSUME NEW rec, try_recovery(u, rec).ok
      PROVE  rec = m.rec
  <2>1. derive_wrapping_key(rec, c.salt) = c.rec.key
    BY <1>1, <1>6, DecryptsBox DEF try_recovery, unwrap_master_key
  <2> QED BY <1>2, <1>3, <2>1 DEF Matches
<1>7. try_recovery(u, m.rec) = Ok(c.rec.plain)
  BY <1>1, <1>2, DecryptsBox DEF try_recovery, unwrap_master_key, Matches
<1>8. pin_key(u, m.pin, asked(u, m.pin), c.salt) = c.pin.key
  BY <1>2 DEF Matches
<1>9. ASSUME NEW pin, NEW ev, try_pin(u, pin, ev).ok
      PROVE  try_pin(u, pin, ev) = Ok(c.pin.plain)
  BY <1>4, <1>5, <1>8, <1>9 DEF pin_key
<1> QED BY <1>4, <1>5, <1>6, <1>7, <1>8, <1>9

(* What the columns hold are keys of the user; one key, where only one     *)
(* came in.                                                                *)
LEMMA ColumnsHold ==
    ASSUME IInv, NEW u \in Users, account[u] # None
    PROVE  /\ account[u].pin.plain \in KeysOf(u) /\ account[u].rec.plain \in KeysOf(u)
           /\ Settled(u) => /\ account[u].pin.plain = meant[u].master
                            /\ account[u].rec.plain = meant[u].master
BY DEF IInv, Traced, AccountFits, Settled

(* PIN and recovery key last stored always unwrap: the master key, where   *)
(* no second key came in.                                                  *)
THEOREM SecretsAlwaysOpen == Spec => []SecretsOpen
<1>1. ASSUME IInv, NEW u \in Users, account[u] # None,
             NEW r \in {try_pin(u, meant[u].pin, asked(u, meant[u].pin)),
                        try_recovery(u, meant[u].rec)}
      PROVE  r.ok /\ r.val \in KeysOf(u) /\ (Settled(u) => r = Ok(meant[u].master))
  <2>1. r \in {Ok(account[u].pin.plain), Ok(account[u].rec.plain)}
    BY <1>1, Unlocks
  <2> QED BY <1>1, <2>1, ColumnsHold, Results
<1>2. IInv => SecretsOpen
  BY <1>1 DEF SecretsOpen
<1> QED BY <1>2, InvariantHolds, PTL

(* The two hashes of oprf.rs keep user, PIN and evaluated bytes apart.     *)
LEMMA OnlyTheSecretStep == IInv => OnlyTheSecretUnlocks
<1>1. ASSUME IInv PROVE OnlyTheSecretUnlocks
  <2>1. \A u \in Users : Fits(u)
    BY UsersAssumption DEF Fits, Bytes
  <2>2. ASSUME NEW u \in Users, account[u] # None, NEW by \in Users,
               NEW pin \in Pins, NEW typed \in Pins, try_pin(u, pin, asked(by, typed)).ok
        PROVE  by = u /\ typed = pin /\ pin = meant[u].pin
    <3> DEFINE p == meant[u].pin
               E == {[hmac |-> blind(by, typed)], [hmac |-> blind(u, p)]}
    <3>1. p \in Pins
      BY <1>1, <2>2 DEF IInv, Typed, TypeOK, Grounded, Meanings
    <3>2. Pins \subseteq Seq(Bytes)
      BY UsersAssumption DEF Bytes
    <3>3. finalize(u, pin, asked(by, typed)) = finalize(u, p, asked(u, p))
      BY <1>1, <2>2, Unlocks
    <3>4. /\ asked(by, typed) \in Seq(E) /\ asked(u, p) \in Seq(E)
          /\ Len(asked(by, typed)) = 1 /\ Len(asked(u, p)) = 1
      BY DEF asked, evaluate
    <3> HIDE DEF p, E
    <3>5. pin = p /\ asked(by, typed) = asked(u, p)
      BY <2>1, <3>1, <3>2, <3>3, <3>4, FinalizeIsInjective
    <3>6. [hmac |-> blind(by, typed)] = [hmac |-> blind(u, p)]
      BY <3>5 DEF asked, evaluate
    <3>7. by = u /\ typed = p
      BY <2>1, <3>1, <3>2, <3>6, BlindIsInjective
    <3> QED BY <3>5, <3>7 DEF p
  <2> QED BY <1>1, <2>2, Unlocks DEF OnlyTheSecretUnlocks
<1> QED BY <1>1

(* No other PIN and no other evaluation opens an account.                  *)
THEOREM NothingElseUnlocks == Spec => []OnlyTheSecretUnlocks
<1> QED BY OnlyTheSecretStep, InvariantHolds, PTL

(* The master key a row was sealed under reads it.                         *)
LEMMA RowReads ==
    ASSUME NEW k, NEW n, NEW v \in Contents
    PROVE  unseal_json(k, Wire(Box(k, n, v))) = Ok(v)
<1>1. decrypt(k, Box(k, n, v)) = Ok(v)
  BY BoxFields, DecryptsBox
<1> DEFINE w == Wire(Box(k, n, v))
<1>2. w.form = "wire" /\ w.raw = Box(k, n, v)
  BY DEF Wire
<1> HIDE DEF w
<1>3. unseal_bytes(k, w) = Ok(v)
  BY <1>1, <1>2 DEF unseal_bytes, starts_with_prefix
<1> QED
  BY <1>3, Results, ContentsAssumption DEF w, unseal_json, unseal_string, from_json, from_utf8

(* Where no second key came in, a row is sealed under the master key.      *)
LEMMA RowUnderMaster ==
    ASSUME IInv, NEW u \in Users, rows[u] # None, Settled(u)
    PROVE  \E n \in Nonces, v \in Contents :
               rows[u] = Wire(Box(profile_key(meant[u].master), n, v))
<1>1. RowFits(u) /\ KeysOf(u) = {meant[u].master}
  BY DEF IInv, Traced, Settled
<1> QED BY <1>1 DEF RowFits

(* There, the recovery key reads the row, whichever device sealed it.      *)
THEOREM RowsAlwaysRecoverable == Spec => []RowsRecoverable
<1>1. ASSUME IInv, NEW u \in Users, rows[u] # None, Settled(u)
      PROVE  /\ try_recovery(u, meant[u].rec).ok
             /\ LET k == derive_profile_key(try_recovery(u, meant[u].rec).val, ProfileId)
                IN  unseal_json(k, rows[u]).ok
  <2>1. PICK n \in Nonces, v \in Contents :
           rows[u] = Wire(Box(profile_key(meant[u].master), n, v))
    BY <1>1, RowUnderMaster
  <2>2. account[u] # None
    BY <1>1 DEF Settled
  <2>3. try_recovery(u, meant[u].rec) = Ok(meant[u].master)
    BY <1>1, <2>2, Unlocks, ColumnsHold
  <2>4. unseal_json(profile_key(meant[u].master), rows[u]) = Ok(v)
    BY <2>1, RowReads
  <2>5. derive_profile_key(meant[u].master, ProfileId) = profile_key(meant[u].master)
    BY DEF derive_profile_key, profile_key, derive
  <2> QED BY <2>3, <2>4, <2>5, Results
<1>2. IInv => RowsRecoverable
  BY <1>1 DEF RowsRecoverable
<1> QED BY <1>2, InvariantHolds, PTL

(* Whatever opens an account gives its master key, where no second came in. *)
UnwrapsMaster ==
    \A u \in Users : Settled(u) => Unwrapped(u) = {meant[u].master}

LEMMA UnwrapsMasterHere == IInv => UnwrapsMaster
<1> SUFFICES ASSUME IInv, NEW u \in Users, Settled(u)
             PROVE  Unwrapped(u) = {meant[u].master}
    BY DEF UnwrapsMaster
<1> DEFINE results == {try_pin(u, pin, asked(by, typed)) : pin, typed \in Pins, by \in Users}
                         \cup {try_recovery(u, rec) : rec \in RecoveryKeys}
<1>0. account[u] # None
  BY DEF Settled
<1>1. \A r \in results : r.ok => r.val = meant[u].master
  BY <1>0, Unlocks, ColumnsHold, Results
<1>2. meant[u].rec \in RecoveryKeys
  BY <1>0 DEF IInv, Typed, TypeOK, Grounded, Meanings
<1>3. try_recovery(u, meant[u].rec) \in results
  BY <1>2
<1>4. LET r == try_recovery(u, meant[u].rec) IN r.ok /\ r.val = meant[u].master
  BY <1>0, Unlocks, ColumnsHold, Results
<1>5. Unwrapped(u) = {r.val : r \in {q \in results : q.ok}}
  BY DEF Unwrapped
<1> HIDE DEF results
<1> QED BY <1>1, <1>3, <1>4, <1>5

(* No step settles an account that is not.                                 *)
LEMMA SettledBefore ==
    ASSUME Steady, NEW u \in Users, account[u] # None, Settled(u)'
    PROVE  Settled(u) /\ meant'[u].master = meant[u].master
<1>1. KeysOf(u) \subseteq KeysOf(u)' /\ KeysOf(u)' = {meant'[u].master}
  BY KeysStay DEF Settled
<1>2. meant[u].master \in KeysOf(u)
  BY DEF KeysOf
<1> QED BY <1>1, <1>2 DEF Settled

(* The row of an account unwraps to one and the same key for ever, unless  *)
(* a second key came in.                                                   *)
THEOREM KeysNeverChange == Spec => KeyNeverChanges
<1> DEFINE Kept == \A u \in Users : account[u] # None
                      => account'[u] # None /\ (Settled(u)' => Unwrapped(u)' = Unwrapped(u))
<1>1. UnwrapsMaster /\ UnwrapsMaster' /\ Steady => Kept
  <2> SUFFICES ASSUME UnwrapsMaster, UnwrapsMaster', Steady, NEW u \in Users, account[u] # None
               PROVE  account'[u] # None /\ (Settled(u)' => Unwrapped(u)' = Unwrapped(u))
    OBVIOUS
  <2>1. account'[u] # None
    BY DEF Steady
  <2>2. ASSUME Settled(u)' PROVE Unwrapped(u)' = Unwrapped(u)
    <3>1. Settled(u) /\ meant'[u].master = meant[u].master
      BY <2>2, SettledBefore
    <3>2. Unwrapped(u) = {meant[u].master}
      BY <3>1 DEF UnwrapsMaster
    <3>3. Unwrapped(u)' = {meant'[u].master}
      BY <2>2 DEF UnwrapsMaster
    <3> QED BY <3>1, <3>2, <3>3
  <2> QED BY <2>1, <2>2
<1>2. IInv /\ UnwrapsMaster /\ UnwrapsMaster' /\ [Next]_vars => [Kept]_vars
  BY <1>1, SteadyStep
<1> QED BY <1>2, UnwrapsMasterHere, InvariantHolds, PTL DEF Spec, KeyNeverChanges

=============================================================================
