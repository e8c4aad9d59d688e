--------------------------- MODULE KeychainProofs ---------------------------
(***************************************************************************)
(* Proofs about Keychain, for any services, accounts and keys.             *)
(***************************************************************************)
EXTENDS Keychain, TLAPS

-----------------------------------------------------------------------------
(* Types                                                                   *)

(* Every step keeps the types.                                             *)
LEMMA TypeOKStep == TypeOK /\ [Next]_vars => TypeOK'
<1> SUFFICES ASSUME TypeOK, [Next]_vars
             PROVE  TypeOK'
  OBVIOUS
<1> USE DEF TypeOK
<1>1. ASSUME NEW service \in Services, NEW account \in Accounts, NEW key \in Keys,
             Save(service, account, key)
      PROVE  TypeOK'
  BY <1>1 DEF Save, entry, Slots, Passwords
<1>2. ASSUME NEW service \in Services, NEW account \in Accounts, Delete(service, account)
      PROVE  TypeOK'
  BY <1>2 DEF Delete, entry, Slots
<1>3. ASSUME Toggle
      PROVE  TypeOK'
  BY <1>3 DEF Toggle
<1>4. ASSUME NEW slot \in Slots, Overwrite(slot)
      PROVE  TypeOK'
  BY <1>4 DEF Overwrite, Passwords
<1>5. CASE UNCHANGED vars
  BY <1>5 DEF vars
<1> QED
  BY <1>1, <1>2, <1>3, <1>4, <1>5 DEF Next

(* The entries are what the library or others wrote, or nothing.           *)
THEOREM TypeCorrect == Spec => []TypeOK
<1>1. Init => TypeOK
  BY DEF Init, TypeOK
<1> QED
  BY <1>1, TypeOKStep, PTL DEF Spec

-----------------------------------------------------------------------------
(* Loads and saves                                                         *)

(* The strengthening: an entry nobody else touched is the encoding of the  *)
(* key last saved, or absent when none was saved since the last delete.    *)
EntriesFollowSaves ==
    \A slot \in Slots :
        /\ last[slot] \in Keys   => entries[slot] = encode(last[slot])
        /\ last[slot] = NoEntry  => entries[slot] = NoEntry

(* On a platform with a store, EntriesFollowSaves is inductive.            *)
LEMMA EntriesStep == HasStore /\ TypeOK /\ EntriesFollowSaves /\ [Next]_vars
                     => EntriesFollowSaves'
<1> SUFFICES ASSUME HasStore, TypeOK, EntriesFollowSaves, [Next]_vars
             PROVE  EntriesFollowSaves'
  OBVIOUS
<1> USE DEF TypeOK, EntriesFollowSaves
<1>1. ASSUME NEW service \in Services, NEW account \in Accounts, NEW key \in Keys,
             Save(service, account, key)
      PROVE  EntriesFollowSaves'
  <2>1. PICK slot \in Slots : slot = <<service, account>>
    BY DEF Slots
  <2>2. /\ entries' = [entries EXCEPT ![slot] = encode(key)]
        /\ last' = [last EXCEPT ![slot] = key]
    BY <1>1, <2>1 DEF Save, entry
  <2> QED
    BY <2>2, MarkersAssumption
<1>2. ASSUME NEW service \in Services, NEW account \in Accounts, Delete(service, account)
      PROVE  EntriesFollowSaves'
  <2>1. PICK slot \in Slots : slot = <<service, account>>
    BY DEF Slots
  <2>2. /\ entries' = [entries EXCEPT ![slot] = NoEntry]
        /\ last' = [last EXCEPT ![slot] = NoEntry]
    BY <1>2, <2>1 DEF Delete, entry
  <2> QED
    BY <2>2, MarkersAssumption
<1>3. ASSUME Toggle
      PROVE  EntriesFollowSaves'
  BY <1>3 DEF Toggle
<1>4. ASSUME NEW slot \in Slots, Overwrite(slot)
      PROVE  EntriesFollowSaves'
  <2>1. last' = [last EXCEPT ![slot] = Foreign]
        /\ \A x \in Slots : x # slot => entries'[x] = entries[x]
    BY <1>4 DEF Overwrite
  <2> QED
    BY <2>1, MarkersAssumption
<1>5. CASE UNCHANGED vars
  BY <1>5 DEF vars
<1> QED
  BY <1>1, <1>2, <1>3, <1>4, <1>5 DEF Next

(* What a load answers on a platform with a store, from the entry it finds *)
(* (load_master_key_in_service).                                           *)
LEMMA LoadAnswer ==
    ASSUME HasStore, NEW service, NEW account
    PROVE  LET r == load_master_key_in_service(service, account)
               pw == entries[<<service, account>>]
           IN  /\ ~reachable => ~r.ok
               /\ reachable /\ pw = NoEntry => r = Ok(NoEntry)
               /\ reachable /\ pw # NoEntry => r = decode_key(pw)
<1> DEFINE g == get_password(entry(service, account))
           pw == entries[<<service, account>>]
<1>1. CASE ~reachable
  <2>1. g = Err("keyring")
    BY <1>1 DEF get_password
  <2>2. ~g.ok /\ g.err # "NoEntry"
    BY <2>1 DEF Err
  <2> HIDE DEF g
  <2>3. load_master_key_in_service(service, account) = Err("Keychain load error")
    BY <2>2 DEF load_master_key_in_service, g
  <2>4. ~Err("Keychain load error").ok
    BY DEF Err
  <2> QED
    BY <1>1, <2>3, <2>4
<1>2. CASE reachable /\ pw = NoEntry
  <2>1. g = Err("NoEntry")
    BY <1>2 DEF get_password, entry
  <2>2. ~g.ok /\ g.err = "NoEntry"
    BY <2>1 DEF Err
  <2> HIDE DEF g
  <2>3. load_master_key_in_service(service, account) = Ok(NoEntry)
    BY <2>2 DEF load_master_key_in_service, g
  <2> QED
    BY <1>2, <2>3
<1>3. CASE reachable /\ pw # NoEntry
  <2>1. g = Ok(pw)
    BY <1>3 DEF get_password, entry
  <2>2. g.ok /\ g.val = pw
    BY <2>1 DEF Ok
  <2> HIDE DEF g
  <2>3. load_master_key_in_service(service, account) = decode_key(g.val)
    BY <2>2 DEF load_master_key_in_service, g
  <2> QED
    BY <1>3, <2>2, <2>3
<1> QED
  BY <1>1, <1>2, <1>3

(* No password decodes to "no entry".                                      *)
LEMMA DecodesToKeys ==
    ASSUME NEW pw \in Passwords, decode_key(pw).ok
    PROVE  decode_key(pw).val \in Keys
<1>1. ASSUME pw = [form |-> "text"] PROVE FALSE
  <2>1. pw.form = "text"
    BY <1>1
  <2>2. decode_key(pw) = Err("Keychain decode error")
    BY <2>1 DEF decode_key
  <2>3. Err("Keychain decode error").ok = FALSE
    BY DEF Err
  <2> QED BY <2>2, <2>3
<1>2. ASSUME pw = [form |-> "base64_not_32"] PROVE FALSE
  <2>1. pw.form = "base64_not_32"
    BY <1>2
  <2>2. decode_key(pw) = Err("Invalid key length in keychain")
    BY <2>1 DEF decode_key
  <2>3. Err("Invalid key length in keychain").ok = FALSE
    BY DEF Err
  <2> QED BY <2>2, <2>3
<1>3. ASSUME NEW k \in Keys, pw = encode(k) PROVE decode_key(pw) = Ok(k)
  BY <1>3 DEF encode, decode_key
<1> QED BY <1>1, <1>2, <1>3 DEF Passwords, UndecodablePasswords, Ok

(* Whoever wrote an entry, a load answers None only if there is none.      *)
LEMMA NoneMeansNoEntry ==
    ASSUME HasStore, TypeOK, NEW service \in Services, NEW account \in Accounts,
           load_master_key_in_service(service, account).ok,
           load_master_key_in_service(service, account).val = NoEntry
    PROVE  entries[<<service, account>>] = NoEntry
<1> DEFINE r  == load_master_key_in_service(service, account)
           pw == entries[<<service, account>>]
<1>1. <<service, account>> \in Slots
  BY DEF Slots
<1>2. ASSUME pw # NoEntry PROVE FALSE
  <2>1. pw \in Passwords
    BY <1>1, <1>2 DEF TypeOK
  <2>2. r = decode_key(pw)
    BY <1>2, LoadAnswer
  <2> QED BY <2>1, <2>2, DecodesToKeys, MarkersAssumption
<1> QED BY <1>2

(* Entries that follow the saves make loads tell the last save.            *)
LEMMA LoadsFollow ==
    HasStore /\ TypeOK /\ EntriesFollowSaves => LoadTellsLastSave /\ AnswersWhenReachable
<1> SUFFICES ASSUME HasStore, TypeOK, EntriesFollowSaves
             PROVE  LoadTellsLastSave /\ AnswersWhenReachable
  OBVIOUS
<1>1. ASSUME NEW service \in Services, NEW account \in Accounts,
             last[<<service, account>>] # Foreign
      PROVE  LET r   == load_master_key_in_service(service, account)
                 was == last[<<service, account>>]
             IN  /\ r.ok => r.val = was
                 /\ reachable => /\ r.ok
                                 /\ r.val # NoEntry <=> was \in Keys
  <2> DEFINE r   == load_master_key_in_service(service, account)
             was == last[<<service, account>>]
             pw  == entries[<<service, account>>]
  <2>1. <<service, account>> \in Slots
    BY DEF Slots
  <2>2. CASE ~reachable
    BY <2>2, LoadAnswer
  <2>3. CASE reachable /\ was = NoEntry
    <3>1. r = Ok(NoEntry)
      BY <2>1, <2>3, LoadAnswer DEF EntriesFollowSaves
    <3> QED
      BY <2>3, <3>1, MarkersAssumption DEF Ok
  <2>4. CASE reachable /\ was \in Keys
    <3>1. pw = encode(was) /\ pw # NoEntry
      BY <2>1, <2>4, NoEntryAssumption DEF EntriesFollowSaves, Passwords
    <3>2. r = decode_key(pw)
      BY <2>4, <3>1, LoadAnswer
    <3>3. decode_key(pw) = Ok(was)
      BY <3>1 DEF decode_key, encode
    <3> QED
      BY <2>4, <3>2, <3>3, MarkersAssumption DEF Ok
  <2> QED
    BY <1>1, <2>1, <2>2, <2>3, <2>4 DEF TypeOK
<1>2. LoadTellsLastSave
  BY <1>1, NoneMeansNoEntry DEF LoadTellsLastSave
<1>3. AnswersWhenReachable
  BY <1>1 DEF AnswersWhenReachable, has_master_key_in_service
<1> QED BY <1>2, <1>3

LEMMA EntriesAlwaysFollow ==
    ASSUME HasStore
    PROVE  Spec => [](TypeOK /\ EntriesFollowSaves)
<1>1. Init => EntriesFollowSaves
  BY MarkersAssumption DEF Init, EntriesFollowSaves
<1>2. TypeOK /\ EntriesFollowSaves /\ [Next]_vars => EntriesFollowSaves'
  BY EntriesStep
<1> QED
  BY <1>1, <1>2, TypeCorrect, PTL DEF Spec

(* On a platform with a store, whatever the processes, the OS and other    *)
(* programs do: a load that answers None found no entry, and one of an     *)
(* entry no other program wrote tells the last save of that service and    *)
(* account.                                                                *)
THEOREM LoadsTellLastSave ==
    ASSUME HasStore
    PROVE  Spec => []LoadTellsLastSave
<1> QED
  BY EntriesAlwaysFollow, LoadsFollow, PTL

(* There, an entry no other program touched can be read whenever the OS    *)
(* answers, and is reported as present exactly when a key was saved.       *)
THEOREM LoadsAnswer ==
    ASSUME HasStore
    PROVE  Spec => []AnswersWhenReachable
<1> QED
  BY EntriesAlwaysFollow, LoadsFollow, PTL

=============================================================================
