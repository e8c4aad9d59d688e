------------------------- MODULE AccountRefinement --------------------------
(***************************************************************************)
(* Account implements Vault: initial states map to initial states, and     *)
(* every step of the devices, the server and the keychain maps to a step   *)
(* of Vault or to a stutter, for any constants.  Its keychain is that of   *)
(* Keychain.                                                               *)
(***************************************************************************)
EXTENDS AccountProofs

(* What Vault sees of the state.                                           *)
WaysMap   == [u \in Users |-> IF account[u] = None THEN None ELSE WaysOf(u)]
OpenMap   == [d \in Devices |-> OpenTo(d)]
RowMap    == [u \in Users |-> IF rows[u] # None /\ Settled(u) THEN RecoveredRow(u) ELSE None]
AstrayMap == {u \in Users : account[u] # None /\ ~Settled(u)}

(* The same, read off the secrets the account was last made from and the   *)
(* content of the row's box.                                               *)
WaysSeen(u) ==
    IF account[u] = None THEN None
                         ELSE [pins |-> {meant[u].pin}, recs |-> {meant[u].rec}]

RowSeen(u) == IF rows[u] # None /\ Settled(u) THEN rows[u].raw.plain ELSE None

Seen ==
    /\ \A u \in Users : WaysMap[u] = WaysSeen(u)
    /\ \A u \in Users : RowMap[u] = RowSeen(u)

LEMMA WaysOfAccount ==
    ASSUME IInv, NEW u \in Users, account[u] # None
    PROVE  WaysOf(u) = [pins |-> {meant[u].pin}, recs |-> {meant[u].rec}]
<1> DEFINE m == meant[u]
<1>1. m.pin \in Pins /\ m.rec \in RecoveryKeys
  BY DEF IInv, Typed, TypeOK, Grounded, Meanings
<1>2. OnlyTheSecretUnlocks
  BY OnlyTheSecretStep
<1>3. try_pin(u, m.pin, asked(u, m.pin)).ok /\ try_recovery(u, m.rec).ok
  BY Unlocks, Results
<1>4. {pin \in Pins : try_pin(u, pin, asked(u, pin)).ok} = {m.pin}
  BY <1>1, <1>2, <1>3 DEF OnlyTheSecretUnlocks
<1>5. {rec \in RecoveryKeys : try_recovery(u, rec).ok} = {m.rec}
  BY <1>1, <1>3, Unlocks
<1> QED BY <1>4, <1>5 DEF WaysOf

LEMMA RecoveredRowIsContent ==
    ASSUME IInv, NEW u \in Users, rows[u] # None, Settled(u)
    PROVE  RecoveredRow(u) = rows[u].raw.plain
<1> DEFINE m == meant[u]
           r == try_recovery(u, m.rec)
<1>1. PICK n \in Nonces, v \in Contents : rows[u] = Wire(Box(profile_key(m.master), n, v))
  BY RowUnderMaster
<1>2. account[u] # None
  BY DEF Settled
<1>3. m.rec \in RecoveryKeys
  BY <1>2 DEF IInv, Typed, TypeOK, Grounded, Meanings
<1>4. r.ok /\ r.val = m.master
  BY <1>2, Unlocks, ColumnsHold, Results
<1>5. (CHOOSE rec \in RecoveryKeys : try_recovery(u, rec).ok) = m.rec
  BY <1>2, <1>3, <1>4, Unlocks
<1>6. unseal_json(profile_key(r.val), rows[u]) = Ok(v)
  BY <1>1, <1>4, RowReads
<1>7. rows[u].raw.plain = v
  BY <1>1, BoxFields DEF Wire
<1> DEFINE k == CHOOSE rec \in RecoveryKeys : try_recovery(u, rec).ok
           c == unseal_json(profile_key(try_recovery(u, k).val), rows[u])
<1>8. RecoveredRow(u) = IF try_recovery(u, k).ok /\ c.ok THEN c.val ELSE "unreadable"
  BY DEF RecoveredRow
<1> HIDE DEF k
<1>9. c = Ok(v) /\ try_recovery(u, k).ok
  BY <1>4, <1>5, <1>6 DEF k
<1> HIDE DEF c
<1> QED BY <1>7, <1>8, <1>9, Results

LEMMA InvariantSees == IInv => Seen
<1>1. ASSUME IInv, NEW u \in Users PROVE WaysMap[u] = WaysSeen(u)
  BY <1>1, WaysOfAccount DEF WaysMap, WaysSeen
<1>2. ASSUME IInv, NEW u \in Users PROVE RowMap[u] = RowSeen(u)
  BY <1>2, RecoveredRowIsContent DEF RowMap, RowSeen
<1> QED BY <1>1, <1>2 DEF Seen

(* A sealed row holds a content.                                           *)
LEMMA FieldContent ==
    ASSUME NEW f \in Fields
    PROVE  f.raw.plain \in Contents
<1>1. PICK m \in MasterKeys, n \in Nonces, v \in Contents : f = Wire(Box(profile_key(m), n, v))
  BY DEF Fields
<1> QED BY <1>1, BoxFields DEF Wire

-----------------------------------------------------------------------------
(* The steps of Vault, over the maps                                       *)

vaultMaps == <<WaysMap, OpenMap, RowMap, AstrayMap>>

LEMMA VaultVars ==
    ASSUME UNCHANGED vaultMaps
    PROVE  UNCHANGED TheVault!vars
BY DEF vaultMaps, TheVault!vars, WaysMap, OpenMap, RowMap, AstrayMap

(* A key comes in that the account does not lead to.                       *)
Strays(u) ==
    /\ AstrayMap' = AstrayMap \cup {u}
    /\ RowMap' = [RowMap EXCEPT ![u] = None]

LEMMA VaultCreate ==
    ASSUME NEW u, NEW p \in Pins, NEW r \in RecoveryKeys, WaysMap[u] = None,
           WaysMap' = [WaysMap EXCEPT ![u] = [pins |-> {p}, recs |-> {r}]],
           NEW at \in SUBSET {d \in Devices : OpenMap[d] = None},
           OpenMap' = [d \in Devices |-> IF d \in at THEN u ELSE OpenMap[d]],
           \/ /\ \E v \in Contents \cup {None} : RowMap' = [RowMap EXCEPT ![u] = v]
              /\ UNCHANGED AstrayMap
           \/ Strays(u)
    PROVE  TheVault!Create(u)
BY DEF TheVault!Create, TheVault!GoAstray, Strays, WaysMap, OpenMap, RowMap, AstrayMap

LEMMA VaultChangePin ==
    ASSUME NEW u, NEW p \in Pins, WaysMap[u] # None,
           WaysMap' = [WaysMap EXCEPT ![u].pins = {p}],
           UNCHANGED <<OpenMap, RowMap, AstrayMap>>
    PROVE  TheVault!ChangePin(u)
BY DEF TheVault!ChangePin, WaysMap, OpenMap, RowMap, AstrayMap

LEMMA VaultChangeRecovery ==
    ASSUME NEW u, NEW r \in RecoveryKeys, WaysMap[u] # None,
           WaysMap' = [WaysMap EXCEPT ![u].recs = {r}],
           UNCHANGED <<OpenMap, RowMap, AstrayMap>>
    PROVE  TheVault!ChangeRecovery(u)
BY DEF TheVault!ChangeRecovery, WaysMap, OpenMap, RowMap, AstrayMap

LEMMA VaultOpen ==
    ASSUME NEW d, NEW u, WaysMap[u] # None,
           OpenMap' = [OpenMap EXCEPT ![d] = u], UNCHANGED WaysMap,
           UNCHANGED <<RowMap, AstrayMap>> \/ Strays(u)
    PROVE  TheVault!Open(d, u)
BY DEF TheVault!Open, TheVault!GoAstray, Strays, WaysMap, OpenMap, RowMap, AstrayMap

LEMMA VaultClose ==
    ASSUME NEW d, OpenMap' = [OpenMap EXCEPT ![d] = None],
           UNCHANGED <<WaysMap, RowMap, AstrayMap>>
    PROVE  TheVault!Close(d)
BY DEF TheVault!Close, WaysMap, OpenMap, RowMap, AstrayMap

LEMMA VaultWrite ==
    ASSUME NEW d, NEW v, OpenMap[d] # None, OpenMap[d] \notin AstrayMap,
           RowMap' = [RowMap EXCEPT ![OpenMap[d]] = v],
           UNCHANGED <<WaysMap, OpenMap, AstrayMap>>
    PROVE  TheVault!Write(d, v)
BY DEF TheVault!Write, WaysMap, OpenMap, RowMap, AstrayMap

-----------------------------------------------------------------------------
(* Init and the steps of Account                                           *)

LEMMA InitRefines == Init => TheVault!Init
BY DEF Init, TheVault!Init, OpenTo

(* Where the accounts are as they were, whether they are settled changes   *)
(* with the keys that came in.                                             *)
LEMMA SettledSame ==
    ASSUME NEW u \in Users, unproven'[u] = unproven[u],
           account'[u] = None <=> account[u] = None,
           account[u] # None => meant'[u].master = meant[u].master
    PROVE  Settled(u)' <=> Settled(u)
BY DEF Settled, KeysOf

LEMMA RowMapSame ==
    ASSUME Seen, Seen', NEW v \in Users, rows'[v] = rows[v] \/ ~Settled(v),
           Settled(v)' <=> Settled(v)
    PROVE  RowMap'[v] = RowMap[v]
BY DEF Seen, RowSeen

(* What Vault sees changes only with these variables.                      *)
LEMMA MapsUntouched ==
    ASSUME Seen, Seen'
    PROVE  /\ UNCHANGED <<account, meant>> => UNCHANGED WaysMap
           /\ UNCHANGED <<account, session>> => UNCHANGED OpenMap
           /\ UNCHANGED <<account, meant, unproven>> => UNCHANGED AstrayMap
           /\ UNCHANGED <<account, meant, unproven, rows>> => UNCHANGED RowMap
<1>1. ASSUME UNCHANGED <<account, meant>> PROVE UNCHANGED WaysMap
  <2>1. \A u \in Users : WaysMap'[u] = WaysMap[u]
    BY <1>1 DEF Seen, WaysSeen
  <2> QED BY <2>1 DEF WaysMap
<1>2. ASSUME UNCHANGED <<account, session>> PROVE UNCHANGED OpenMap
  BY <1>2 DEF OpenMap, OpenTo
<1>3. ASSUME UNCHANGED <<account, meant, unproven>> PROVE UNCHANGED AstrayMap
  BY <1>3 DEF AstrayMap, Settled, KeysOf
<1>4. ASSUME UNCHANGED <<account, meant, unproven, rows>> PROVE UNCHANGED RowMap
  <2>1. \A u \in Users : RowMap'[u] = RowMap[u]
    BY <1>4, SettledSame, RowMapSame
  <2> QED BY <2>1 DEF RowMap
<1> QED BY <1>1, <1>2, <1>3, <1>4

LEMMA SameWays ==
    ASSUME Seen, Seen', NEW v \in Users, account'[v] = account[v], meant'[v] = meant[v]
    PROVE  WaysMap'[v] = WaysMap[v]
BY DEF Seen, WaysSeen

(* Neither PIN nor recovery key matters to what is open, to the rows and   *)
(* to which accounts are astray.                                           *)
LEMMA SameKeys ==
    ASSUME Seen, Seen', UNCHANGED <<rows, session, unproven>>,
           \A d \in Devices : session[d] # None => session[d].user \in Users,
           \A u \in Users : /\ account'[u] = None <=> account[u] = None
                            /\ account[u] # None => meant'[u].master = meant[u].master
    PROVE  UNCHANGED <<OpenMap, RowMap, AstrayMap>>
<1>1. \A u \in Users : Settled(u)' <=> Settled(u)
  BY SettledSame
<1>2. UNCHANGED OpenMap
  <2>1. \A d \in Devices : OpenMap'[d] = OpenMap[d]
    BY DEF OpenMap, OpenTo
  <2> QED BY <2>1 DEF OpenMap
<1>3. UNCHANGED RowMap
  <2>1. \A u \in Users : RowMap'[u] = RowMap[u]
    BY <1>1, RowMapSame
  <2> QED BY <2>1 DEF RowMap
<1>4. UNCHANGED AstrayMap
  BY <1>1 DEF AstrayMap
<1> QED BY <1>2, <1>3, <1>4

(* One step per action.                                                    *)
THEOREM StepRefines == IInv /\ Seen /\ Seen' /\ [Next]_vars => [TheVault!Next]_(TheVault!vars)
<1> SUFFICES ASSUME IInv, Seen, Seen', [Next]_vars
             PROVE  TheVault!Next \/ UNCHANGED TheVault!vars
    OBVIOUS
<1> USE NoneAssumption
<1>a. /\ account \in [Users -> Columns \cup {None}]
      /\ rows \in [Users -> Fields \cup {None}]
      /\ session \in [Devices -> Sessions \cup {None}]
      /\ upload \in [Devices -> Uploads \cup {None}]
      /\ meant \in [Users -> Meanings \cup {None}]
      /\ unproven \in [Users -> SUBSET MasterKeys]
      /\ Chain!TypeOK
    BY DEF IInv, Typed, TypeOK
<1>g. Grounded
    BY DEF IInv, Typed
<1>s. Steady
    BY SteadyStep
<1>w. \A u \in Users : account[u] # None => WaysMap[u] # None
  <2>1. ASSUME NEW u \in Users, account[u] # None PROVE WaysMap[u] # None
    <3>1. meant[u].pin \in Pins /\ meant[u].rec \in RecoveryKeys
      BY <1>a, <1>g, <2>1 DEF Grounded, Meanings
    <3>2. WaysMap[u] = [pins |-> {meant[u].pin}, recs |-> {meant[u].rec}]
      BY <2>1 DEF Seen, WaysSeen
    <3>3. WaysMap[u] \in [pins : SUBSET Pins, recs : SUBSET RecoveryKeys]
      BY <3>1, <3>2
    <3> QED BY <3>3
  <2> QED BY <2>1
<1>1. ASSUME UNCHANGED <<account, rows, session, meant, unproven>>
      PROVE  UNCHANGED TheVault!vars
  BY <1>1, MapsUntouched, VaultVars DEF vaultMaps
<1>2. ASSUME NEW d \in Devices, NEW answered \in BOOLEAN, Insert(d, answered)
      PROVE  TheVault!Next
  <2>1. PICK u \in Users, m \in Meanings, c \in Columns :
           u = upload[d].user /\ m = upload[d].meant /\ c = upload[d].cols
    BY <1>2, <1>a, UploadShapes DEF Insert
  <2>2. m.pin \in Pins /\ m.rec \in RecoveryKeys
    BY DEF Meanings
  <2>3. /\ account[u] = None
        /\ account' = [account EXCEPT ![u] = c]
        /\ meant' = [meant EXCEPT ![u] = m]
        /\ UNCHANGED <<rows, session, unproven>>
    BY <1>2, <2>1 DEF Insert
  <2>4. \A v \in Users : IF v = u THEN account'[v] = c /\ meant'[v] = m
                         ELSE account'[v] = account[v] /\ meant'[v] = meant[v]
    BY <1>a, <2>3
  <2>5. WaysMap[u] = None
    BY <2>3 DEF WaysMap
  <2>6. WaysMap' = [WaysMap EXCEPT ![u] = [pins |-> {m.pin}, recs |-> {m.rec}]]
    <3>1. \A v \in Users : WaysMap'[v] = IF v = u THEN [pins |-> {m.pin}, recs |-> {m.rec}]
                                                  ELSE WaysMap[v]
      BY <2>4 DEF Seen, WaysSeen
    <3> QED BY <3>1 DEF WaysMap
  <2> DEFINE at == {e \in Devices : session[e] # None /\ session[e].user = u}
  <2>7. at \in SUBSET {e \in Devices : OpenMap[e] = None}
    BY <2>3 DEF OpenMap, OpenTo
  <2>8. OpenMap' = [e \in Devices |-> IF e \in at THEN u ELSE OpenMap[e]]
    <3>1. ASSUME NEW e \in Devices
          PROVE  OpenMap'[e] = IF e \in at THEN u ELSE OpenMap[e]
      <4>1. session'[e] = session[e] /\ (session[e] # None => session[e].user \in Users)
        BY <1>a, <2>3 DEF Sessions
      <4> QED BY <2>1, <2>4, <4>1 DEF OpenMap, OpenTo
    <3> QED BY <3>1 DEF OpenMap
  <2> HIDE DEF at
  <2>9. \A v \in Users \ {u} : (Settled(v)' <=> Settled(v)) /\ RowMap'[v] = RowMap[v]
    BY <2>3, <2>4, SettledSame, RowMapSame
  <2>10. ~Settled(u) /\ RowMap[u] = None /\ u \notin AstrayMap
    BY <2>3 DEF Settled, RowMap, AstrayMap
  <2>11. CASE Settled(u)'
    <3>1. RowMap'[u] \in Contents \cup {None}
      <4>1. RowMap'[u] = None \/ (rows[u] # None /\ RowMap'[u] = rows[u].raw.plain)
        BY <2>3 DEF Seen, RowSeen
      <4> QED BY <1>a, <4>1, FieldContent
    <3>2. RowMap' = [RowMap EXCEPT ![u] = RowMap'[u]]
      BY <2>9 DEF RowMap
    <3>3. UNCHANGED AstrayMap
      BY <2>4, <2>9, <2>10, <2>11 DEF AstrayMap
    <3>4. TheVault!Create(u)
      BY <2>2, <2>5, <2>6, <2>7, <2>8, <3>1, <3>2, <3>3, VaultCreate
    <3> QED BY <3>4 DEF TheVault!Next
  <2>12. CASE ~Settled(u)'
    <3>1. RowMap'[u] = None
      BY <2>12 DEF RowMap
    <3>2. RowMap' = [RowMap EXCEPT ![u] = None]
      BY <2>9, <3>1 DEF RowMap
    <3>3. AstrayMap' = AstrayMap \cup {u}
      BY <2>1, <2>4, <2>9, <2>12 DEF AstrayMap
    <3>4. TheVault!Create(u)
      BY <2>2, <2>5, <2>6, <2>7, <2>8, <3>2, <3>3, VaultCreate DEF Strays
    <3> QED BY <3>4 DEF TheVault!Next
  <2> QED BY <2>11, <2>12
<1>3. ASSUME NEW d \in Devices, NEW answered \in BOOLEAN, Replace(d, answered)
      PROVE  TheVault!Next
  <2>0. PICK u \in Users, salt \in Salts : u = upload[d].user /\ salt = upload[d].salt
    BY <1>3, <1>a, UploadShapes DEF Replace
  <2>1. PICK n, col : n = upload[d].meant /\ col = upload[d].col
    OBVIOUS
  <2>2. /\ account[u] \in Columns /\ meant[u] \in Meanings
        /\ upload[d].kind \in {"pin", "rec"}
    BY <1>3, <1>a, <1>g, <2>0, <2>1 DEF Replace, Grounded
  <2>3. UNCHANGED <<rows, session, unproven>>
    BY <1>3 DEF Replace
  <2>4. WaysMap[u] = [pins |-> {meant[u].pin}, recs |-> {meant[u].rec}] /\ WaysMap[u] # None
    BY <1>w, <2>2 DEF Seen, WaysSeen
  <2>5. CASE upload[d].kind = "pin"
    <3>1. n \in Pins /\ col \in PinColumns
      BY <1>3, <1>a, <2>0, <2>1, <2>5, UploadShapes DEF Replace
    <3>2. /\ account' = [account EXCEPT ![u].pin = col, ![u].salt = salt]
          /\ meant' = [meant EXCEPT ![u].pin = n]
      BY <1>3, <2>0, <2>1, <2>5 DEF Replace
    <3>3. account'[u] \in Columns /\ \A v \in Users \ {u} : account'[v] = account[v]
      BY <1>a, <2>2, <3>1, <3>2 DEF Columns
    <3>4. /\ meant'[u].pin = n /\ meant'[u].rec = meant[u].rec
          /\ meant'[u].master = meant[u].master
          /\ \A v \in Users \ {u} : meant'[v] = meant[v]
      BY <1>a, <2>2, <3>2 DEF Meanings
    <3>5. \A v \in Users : WaysMap'[v] = IF v = u THEN [pins |-> {n}, recs |-> {meant[u].rec}]
                                                  ELSE WaysMap[v]
      <4>1. WaysMap'[u] = [pins |-> {meant'[u].pin}, recs |-> {meant'[u].rec}]
        BY <3>3 DEF Seen, WaysSeen
      <4>2. \A v \in Users \ {u} : WaysMap'[v] = WaysMap[v]
        BY <3>3, <3>4, SameWays
      <4> QED BY <3>4, <4>1, <4>2
    <3>6. WaysMap' = [WaysMap EXCEPT ![u].pins = {n}]
      <4>1. WaysMap[u].recs = {meant[u].rec} /\ DOMAIN WaysMap[u] = {"pins", "recs"}
        BY <2>4
      <4> QED BY <2>4, <3>5, <4>1 DEF WaysMap
    <3>7. UNCHANGED <<OpenMap, RowMap, AstrayMap>>
      BY <1>a, <2>2, <2>3, <3>3, <3>4, SameKeys DEF Sessions
    <3>8. TheVault!ChangePin(u)
      BY <2>4, <3>1, <3>6, <3>7, VaultChangePin
    <3> QED BY <3>8 DEF TheVault!Next
  <2>6. CASE upload[d].kind = "rec"
    <3>1. n \in RecoveryKeys /\ col \in RecColumns
      BY <1>3, <1>a, <2>0, <2>1, <2>6, UploadShapes DEF Replace
    <3>2. /\ account' = [account EXCEPT ![u].rec = col, ![u].salt = salt]
          /\ meant' = [meant EXCEPT ![u].rec = n]
      BY <1>3, <2>0, <2>1, <2>6 DEF Replace
    <3>3. account'[u] \in Columns /\ \A v \in Users \ {u} : account'[v] = account[v]
      BY <1>a, <2>2, <3>1, <3>2 DEF Columns
    <3>4. /\ meant'[u].rec = n /\ meant'[u].pin = meant[u].pin
          /\ meant'[u].master = meant[u].master
          /\ \A v \in Users \ {u} : meant'[v] = meant[v]
      BY <1>a, <2>2, <3>2 DEF Meanings
    <3>5. \A v \in Users : WaysMap'[v] = IF v = u THEN [pins |-> {meant[u].pin}, recs |-> {n}]
                                                  ELSE WaysMap[v]
      <4>1. WaysMap'[u] = [pins |-> {meant'[u].pin}, recs |-> {meant'[u].rec}]
        BY <3>3 DEF Seen, WaysSeen
      <4>2. \A v \in Users \ {u} : WaysMap'[v] = WaysMap[v]
        BY <3>3, <3>4, SameWays
      <4> QED BY <3>4, <4>1, <4>2
    <3>6. WaysMap' = [WaysMap EXCEPT ![u].recs = {n}]
      <4>1. WaysMap[u].pins = {meant[u].pin} /\ DOMAIN WaysMap[u] = {"pins", "recs"}
        BY <2>4
      <4> QED BY <2>4, <3>5, <4>1 DEF WaysMap
    <3>7. UNCHANGED <<OpenMap, RowMap, AstrayMap>>
      BY <1>a, <2>2, <2>3, <3>3, <3>4, SameKeys DEF Sessions
    <3>8. TheVault!ChangeRecovery(u)
      BY <2>4, <3>1, <3>6, <3>7, VaultChangeRecovery
    <3> QED BY <3>8 DEF TheVault!Next
  <2> QED BY <2>2, <2>5, <2>6
<1>4. ASSUME NEW d \in Devices, NEW u \in Users, NEW k \in MasterKeys,
             session[d] = None, session' = [session EXCEPT ![d] = [user |-> u, key |-> k]],
             unproven' \in {unproven, [unproven EXCEPT ![u] = @ \cup {k}]},
             UNCHANGED <<account, rows, meant>>
      PROVE  TheVault!Next \/ UNCHANGED TheVault!vars
  <2> DEFINE s == [user |-> u, key |-> k]
  <2>1. s.user = u /\ s # None
    BY DEF Sessions
  <2>2. session' = [session EXCEPT ![d] = s]
    BY <1>4
  <2> HIDE DEF s
  <2>3. \A e \in Devices : session'[e] = IF e = d THEN s ELSE session[e]
    BY <1>a, <2>2
  <2>4. \A v \in Users \ {u} : (Settled(v)' <=> Settled(v)) /\ RowMap'[v] = RowMap[v]
    <3>1. \A v \in Users \ {u} : unproven'[v] = unproven[v]
      BY <1>a, <1>4
    <3> QED BY <1>4, <3>1, SettledSame, RowMapSame
  <2>5. UNCHANGED WaysMap
    BY <1>4, MapsUntouched
  <2>6. CASE account[u] = None
    <3>1. ~Settled(u) /\ ~Settled(u)'
      BY <1>4, <2>6 DEF Settled
    <3>2. UNCHANGED OpenMap
      <4>1. \A e \in Devices : OpenMap'[e] = OpenMap[e]
        BY <1>4, <2>1, <2>3, <2>6 DEF OpenMap, OpenTo
      <4> QED BY <4>1 DEF OpenMap
    <3>3. UNCHANGED RowMap
      <4>1. \A v \in Users : RowMap'[v] = RowMap[v]
        BY <1>4, <2>4, <3>1, RowMapSame
      <4> QED BY <4>1 DEF RowMap
    <3>4. UNCHANGED AstrayMap
      BY <1>4, <2>4, <3>1 DEF AstrayMap
    <3> QED BY <2>5, <3>2, <3>3, <3>4, VaultVars DEF vaultMaps
  <2>7. CASE account[u] # None
    <3>1. OpenMap' = [OpenMap EXCEPT ![d] = u]
      <4>1. \A e \in Devices : OpenMap'[e] = IF e = d THEN u ELSE OpenMap[e]
        BY <1>4, <2>1, <2>3, <2>7 DEF OpenMap, OpenTo
      <4> QED BY <4>1 DEF OpenMap
    <3>2. CASE Settled(u)' <=> Settled(u)
      <4>1. \A v \in Users : RowMap'[v] = RowMap[v]
        BY <1>4, <2>4, <3>2, RowMapSame
      <4>2. UNCHANGED RowMap
        BY <4>1 DEF RowMap
      <4>3. UNCHANGED AstrayMap
        BY <1>4, <2>4, <3>2 DEF AstrayMap
      <4>4. TheVault!Open(d, u)
        BY <1>w, <2>5, <2>7, <3>1, <4>2, <4>3, VaultOpen
      <4> QED BY <4>4 DEF TheVault!Next
    <3>3. CASE Settled(u) /\ ~Settled(u)'
      <4>1. RowMap'[u] = None
        BY <3>3 DEF RowMap
      <4>2. RowMap' = [RowMap EXCEPT ![u] = None]
        BY <2>4, <4>1 DEF RowMap
      <4>3. AstrayMap' = AstrayMap \cup {u}
        BY <1>4, <2>4, <2>7, <3>3 DEF AstrayMap
      <4>4. TheVault!Open(d, u)
        BY <1>w, <2>5, <2>7, <3>1, <4>2, <4>3, VaultOpen DEF Strays
      <4> QED BY <4>4 DEF TheVault!Next
    <3>4. Settled(u)' => Settled(u)
      BY <1>s, <2>7, SettledBefore
    <3> QED BY <3>2, <3>3, <3>4
  <2> QED BY <2>6, <2>7
<1>5. ASSUME NEW d \in Devices, NEW u \in Users, NEW pin \in Pins, NEW n \in Nonces,
             Enrol(d, u, pin, n)
      PROVE  TheVault!Next \/ UNCHANGED TheVault!vars
  <2>1. PICK k \in MasterKeys :
           \/ UNCHANGED <<session, unproven>>
           \/ /\ session' = [session EXCEPT ![d] = [user |-> u, key |-> k]]
              /\ unproven' = [unproven EXCEPT ![u] = @ \cup {k}]
    BY <1>5 DEF Enrol, generate_master_key
  <2>2. session[d] = None /\ UNCHANGED <<account, rows, meant>>
    BY <1>5 DEF Enrol
  <2> QED BY <1>1, <1>4, <2>1, <2>2
<1>6. ASSUME NEW d \in Devices, NEW u \in Users, NEW by \in Users,
             NEW pin \in Pins, NEW typed \in Pins, Unlock(d, u, pin, by, typed)
      PROVE  TheVault!Next \/ UNCHANGED TheVault!vars
  <2> DEFINE r == try_pin(u, pin, asked(by, typed))
  <2>1. /\ account[u] # None /\ account[u].pin \in PinColumns /\ r.ok
        /\ OpenWith(d, u, r) /\ UNCHANGED unproven
    BY <1>6, <1>a, ColumnsShape DEF Unlock, OpenWith
  <2>2. r.val \in MasterKeys
    BY <2>1, UnwrapType DEF try_pin
  <2> HIDE DEF r
  <2> QED BY <1>4, <2>1, <2>2 DEF OpenWith
<1>7. ASSUME NEW d \in Devices, NEW u \in Users, NEW rec \in RecoveryKeys, Recover(d, u, rec)
      PROVE  TheVault!Next \/ UNCHANGED TheVault!vars
  <2> DEFINE r == try_recovery(u, rec)
  <2>1. /\ account[u] # None /\ account[u].rec \in RecColumns /\ r.ok
        /\ OpenWith(d, u, r) /\ UNCHANGED unproven
    BY <1>7, <1>a, ColumnsShape DEF Recover, OpenWith
  <2>2. r.val \in MasterKeys
    BY <2>1, UnwrapType DEF try_recovery
  <2> HIDE DEF r
  <2> QED BY <1>4, <2>1, <2>2 DEF OpenWith
<1>8. ASSUME NEW d \in Devices, NEW u \in Users, Resume(d, u)
      PROVE  TheVault!Next \/ UNCHANGED TheVault!vars
  <2> DEFINE r == Chain!load_master_key(u)
  <2>1. /\ r # Ok(None) /\ r.ok /\ OpenWith(d, u, r)
        /\ unproven' \in {unproven, [unproven EXCEPT ![u] = @ \cup {r.val}]}
    BY <1>8 DEF Resume, OpenWith
  <2>2. r.val \in MasterKeys
    BY <1>a, <2>1, LoadedKey
  <2> HIDE DEF r
  <2> QED BY <1>4, <2>1, <2>2 DEF OpenWith
<1>9. ASSUME NEW d \in Devices, Lock(d) \/ Crash(d)
      PROVE  TheVault!Next
  <2>1. session' = [session EXCEPT ![d] = None] /\ UNCHANGED <<account, rows, meant, unproven>>
    BY <1>9 DEF Lock, Crash
  <2>2. OpenMap' = [OpenMap EXCEPT ![d] = None]
    <3>1. \A e \in Devices : OpenMap'[e] = IF e = d THEN None ELSE OpenMap[e]
      BY <1>a, <2>1 DEF OpenMap, OpenTo
    <3> QED BY <3>1 DEF OpenMap
  <2>3. TheVault!Close(d)
    BY <2>1, <2>2, MapsUntouched, VaultClose
  <2> QED BY <2>3 DEF TheVault!Next
<1>10. ASSUME NEW d \in Devices, NEW v \in Contents, NEW n \in Nonces, SaveRow(d, v, n)
       PROVE  TheVault!Next \/ UNCHANGED TheVault!vars
  <2> DEFINE s == session[d]
             r == seal_json(profile_key(s.key), v, n)
  <2>1. s # None /\ s.user \in Users /\ s.key \in MasterKeys
    BY <1>10, <1>a DEF SaveRow, Sessions
  <2>2. r.val = Wire(Box(profile_key(s.key), n, v)) /\ r.val \in Fields
    BY <2>1, SealedRow, Results
  <2>3. r.val.raw.plain = v
    BY <2>2, BoxFields DEF Wire
  <2>4. rows' = [rows EXCEPT ![s.user] = r.val] /\ UNCHANGED <<account, session, meant, unproven>>
    BY <1>10 DEF SaveRow
  <2>5. account[s.user] # None => OpenMap[d] = s.user
    BY <2>1 DEF OpenMap, OpenTo
  <2> HIDE DEF s, r
  <2>6. UNCHANGED <<WaysMap, OpenMap, AstrayMap>>
    BY <2>4, MapsUntouched
  <2>7. \A u \in Users : Settled(u)' <=> Settled(u)
    BY <2>4, SettledSame
  <2>8. \A u \in Users : u # s.user => rows'[u] = rows[u]
    BY <1>a, <2>4
  <2>9. CASE Settled(s.user)
    <3>1. rows'[s.user] = r.val /\ r.val # None
      BY <1>a, <2>1, <2>2, <2>4
    <3>2. RowMap'[s.user] = v
      BY <2>1, <2>3, <2>7, <2>9, <3>1 DEF Seen, RowSeen
    <3>3. \A u \in Users : RowMap'[u] = IF u = s.user THEN v ELSE RowMap[u]
      BY <2>7, <2>8, <3>2, RowMapSame
    <3>4. account[s.user] # None /\ s.user \notin AstrayMap
      BY <2>9 DEF Settled, AstrayMap
    <3>5. RowMap' = [RowMap EXCEPT ![OpenMap[d]] = v]
      BY <2>1, <2>5, <3>3, <3>4 DEF RowMap
    <3>6. TheVault!Write(d, v)
      BY <2>1, <2>5, <2>6, <3>4, <3>5, VaultWrite
    <3> QED BY <3>6 DEF TheVault!Next
  <2>10. CASE ~Settled(s.user)
    <3>1. \A u \in Users : RowMap'[u] = RowMap[u]
      BY <2>7, <2>8, <2>10, RowMapSame
    <3>2. UNCHANGED RowMap
      BY <3>1 DEF RowMap
    <3> QED BY <2>6, <3>2, VaultVars DEF vaultMaps
  <2> QED BY <2>9, <2>10
<1>11. ASSUME NEW d \in Devices,
              \/ \E pin \in Pins, n \in Nonces : ChangePin(d, pin, n)
              \/ \E n \in Nonces : ChangeRecovery(d, n)
              \/ Refuse(d) \/ Remember(d)
       PROVE  UNCHANGED <<account, rows, session, meant, unproven>>
  BY <1>11 DEF ChangePin, ChangeRecovery, Refuse, Remember
<1>12. KeychainStep \/ UNCHANGED vars => UNCHANGED <<account, rows, session, meant, unproven>>
  BY DEF KeychainStep, vars
<1> QED
  BY <1>1, <1>2, <1>3, <1>5, <1>6, <1>7, <1>8, <1>9, <1>10, <1>11, <1>12 DEF Next

(* Every behaviour of the devices, the server and the keychain is one of   *)
(* Vault.                                                                  *)
THEOREM AccountImplementsVault == Spec => ImplementsVault
<1>1. Spec => TheVault!Init /\ [][TheVault!Next]_(TheVault!vars)
  BY InvariantHolds, InvariantSees, InitRefines, StepRefines, PTL DEF Spec
<1> QED BY <1>1 DEF ImplementsVault, TheVault!Spec

-----------------------------------------------------------------------------
(* The keychain                                                            *)

(* Only Remember saves, and it saves the master key of an open session.    *)
LEMMA KeychainStepRefines ==
    ASSUME Typed, [Next]_vars
    PROVE  [Chain!Next]_(Chain!vars)
<1>1. ASSUME NEW d \in Devices, Remember(d)
      PROVE  Chain!Next
  <2>1. session[d].user \in Users /\ session[d].key \in MasterKeys
    BY <1>1 DEF Typed, TypeOK, Sessions, Remember
  <2>2. Chain!Save(DEFAULT_SERVICE, session[d].user, session[d].key)
    BY <1>1 DEF Remember, Chain!save_master_key, as_bytes
  <2> QED BY <2>1, <2>2 DEF Chain!Next
<1>2. ASSUME KeychainStep
      PROVE  Chain!Next
  BY <1>2 DEF KeychainStep, Chain!Next, Chain!delete_master_key
<1>3. Next => \/ UNCHANGED chain \/ KeychainStep
              \/ \E d \in Devices : Remember(d)
  BY Zenon DEF Next, Enrol, Insert, Replace, Refuse, Lock, Crash, ChangePin,
        ChangeRecovery, Unlock, Recover, Resume, OpenWith, SaveRow, chain
<1> QED BY <1>1, <1>2, <1>3 DEF vars, chain, Chain!vars

(* Every behaviour of the devices is, in its keychain, one of Keychain.    *)
THEOREM AccountUsesKeychain == Spec => UsesKeychain
<1>1. Init => Chain!Init
  BY DEF Init
<1>2. Typed /\ [Next]_vars => [Chain!Next]_(Chain!vars)
  BY KeychainStepRefines
<1>3. IInv => Typed
  BY DEF IInv
<1>4. Spec => Chain!Init /\ [][Chain!Next]_(Chain!vars)
  BY <1>1, <1>2, <1>3, InvariantHolds, PTL DEF Spec
<1> QED BY <1>4 DEF UsesKeychain, Chain!Spec

=============================================================================
