------------------------------- MODULE Vault --------------------------------
(***************************************************************************)
(* What an account promises, without keys, hashes or boxes: at every       *)
(* moment one PIN and one recovery key open it, changing one of the two    *)
(* leaves the other, and what was last written on any device, however the  *)
(* account was opened there, is what the recovery key leads to.  The last  *)
(* promise ends, once and for all, when a device works with a key that is  *)
(* not the account's: the account is then astray.                          *)
(***************************************************************************)
CONSTANTS Users, Pins, RecoveryKeys, Devices, Contents, None

VARIABLES
    ways,       \* ways[u]: the PINs and the recovery keys that open u, or None
    open,       \* open[d]: the user whose account is open on d, or None
    row,        \* row[u]: what the holder of a recovery key that opens u reads, or None
    astray      \* the users whose rows are no longer promised

vars == <<ways, open, row, astray>>

Init ==
    /\ ways = [u \in Users |-> None]
    /\ open = [d \in Devices |-> None]
    /\ row = [u \in Users |-> None]
    /\ astray = {}

GoAstray(u) ==
    /\ astray' = astray \cup {u}
    /\ row' = [row EXCEPT ![u] = None]

(* One account per user, whichever device asks first.  Devices may be at   *)
(* work for u already, and one may have written a row: it is the account's *)
(* from now on, unless they disagree.                                      *)
Create(u) ==
    /\ ways[u] = None
    /\ \E p \in Pins, r \in RecoveryKeys :
          ways' = [ways EXCEPT ![u] = [pins |-> {p}, recs |-> {r}]]
    /\ \E at \in SUBSET {d \in Devices : open[d] = None} :
          open' = [d \in Devices |-> IF d \in at THEN u ELSE open[d]]
    /\ \/ /\ \E v \in Contents \cup {None} : row' = [row EXCEPT ![u] = v]
          /\ UNCHANGED astray
       \/ GoAstray(u)

ChangePin(u) ==
    /\ ways[u] # None
    /\ UNCHANGED <<open, row, astray>>
    /\ \E p \in Pins : ways' = [ways EXCEPT ![u].pins = {p}]

ChangeRecovery(u) ==
    /\ ways[u] # None
    /\ UNCHANGED <<open, row, astray>>
    /\ \E r \in RecoveryKeys : ways' = [ways EXCEPT ![u].recs = {r}]

(* With the account's key, or one that leads it astray.                    *)
Open(d, u) ==
    /\ open' = [open EXCEPT ![d] = u]
    /\ ways[u] # None
    /\ UNCHANGED <<row, astray>> \/ GoAstray(u)
    /\ UNCHANGED ways

Close(d) ==
    /\ open' = [open EXCEPT ![d] = None]
    /\ UNCHANGED <<astray, row, ways>>

Write(d, v) ==
    /\ open[d] # None /\ open[d] \notin astray
    /\ UNCHANGED <<open, astray, ways>>
    /\ row' = [row EXCEPT ![open[d]] = v]

Next ==
    \/ \E d \in Devices : Close(d)
    \/ \E d \in Devices, u \in Users : Open(d, u)
    \/ \E u \in Users : Create(u) \/ ChangePin(u) \/ ChangeRecovery(u)
    \/ \E d \in Devices, v \in Contents : Write(d, v)

Spec == Init /\ [][Next]_vars

=============================================================================
