---------------------------- MODULE Entrustment -----------------------------
(***************************************************************************)
(* What sharing promises, without keypairs, master keys, boxes or a        *)
(* server: a profile key reaches a user only from its maker, along offers  *)
(* each made by a user who held the key at that moment.  Whoever holds a   *)
(* key keeps it, and an offer gives nothing to anyone but whom it is for.  *)
(***************************************************************************)
CONSTANTS Users, ProfileKeys

VARIABLES
    holders,    \* holders[k]: the users who can open k
    offers      \* offers[k]: the pairs <<u, v>> such that u offered k to v

vars == <<holders, offers>>

Init ==
    /\ holders = [k \in ProfileKeys |-> {}]
    /\ offers  = [k \in ProfileKeys |-> {}]

Make(u, k) ==
    /\ holders[k] = {} /\ offers[k] = {}
    /\ holders' = [holders EXCEPT ![k] = {u}]
    /\ UNCHANGED offers

Offer(u, v, k) ==
    /\ u \in holders[k]
    /\ offers' = [offers EXCEPT ![k] = @ \cup {<<u, v>>}]
    /\ UNCHANGED holders

Take(u, v, k) ==
    /\ <<u, v>> \in offers[k]
    /\ holders' = [holders EXCEPT ![k] = @ \cup {v}]
    /\ UNCHANGED offers

Next ==
    \E k \in ProfileKeys :
        \/ \E u \in Users : Make(u, k)
        \/ \E u, v \in Users : Offer(u, v, k) \/ Take(u, v, k)

Spec == Init /\ [][Next]_vars

=============================================================================
