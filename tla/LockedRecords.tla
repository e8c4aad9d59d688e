---------------------------- MODULE LockedRecords ----------------------------
(***************************************************************************)
(* What the entity layer promises, without keys, nonces or wire format:    *)
(* a row is clear text, a record locked to one entity, or junk.  A locked  *)
(* record yields its value only to the account it was locked by, read under*)
(* the namespace and id it was locked for; moving it does not relock it.   *)
(***************************************************************************)
EXTENDS Sealed

CONSTANTS
    Masters,    \* master keys, one per account
    Devices,    \* running instances of the application
    Entities,   \* the rows: [owner, ns, id]
    Contents,   \* what the application saves
    LegacyRows, \* what a row can hold before encryption shipped
    NoSession,  \* no SessionKey on the device
    NoDraft     \* no rewrap under way on the device

VARIABLES
    rec,        \* rec[e]: what the row of entity e holds
    session,    \* session[d]: the account open on device d
    draft       \* draft[d]: what device d has read and is about to relock

vars == <<rec, session, draft>>

Clear(s)     == [kind |-> "clear", val |-> s]
Locked(e, v) == [kind |-> "locked", home |-> e, val |-> v]
Junk         == [kind |-> "junk"]

(* What reading row e under account m yields; a strict reader insists on   *)
(* a locked record.                                                        *)
Yields(m, e, strict) ==
    \/ rec[e].kind = "clear" /\ ~strict
    \/ rec[e].kind = "locked" /\ rec[e].home = [e EXCEPT !.owner = m]

-----------------------------------------------------------------------------
Init ==
    /\ rec \in [Entities -> {Clear(s) : s \in {x \in LegacyRows : ~starts_with_prefix(x)}}
                            \cup {Junk}]
    /\ session = [d \in Devices |-> NoSession]
    /\ draft   = [d \in Devices |-> NoDraft]

Open(d, m) ==
    /\ session[d] = NoSession
    /\ session' = [session EXCEPT ![d] = m]
    /\ UNCHANGED <<rec, draft>>

Close(d) ==
    /\ session' = [session EXCEPT ![d] = NoSession]
    /\ UNCHANGED <<rec, draft>>

Crash(d) ==
    /\ session' = [session EXCEPT ![d] = NoSession]
    /\ draft'   = [draft EXCEPT ![d] = NoDraft]
    /\ UNCHANGED rec

Save(d, e, v) ==
    /\ session[d] = e.owner
    /\ rec' = [rec EXCEPT ![e] = Locked(e, v)]
    /\ UNCHANGED <<session, draft>>

BeginRelock(d, e) ==
    /\ session[d] = e.owner
    /\ draft[d] = NoDraft
    /\ Yields(e.owner, e, FALSE)
    /\ rec[e].val.form # "binary"
    /\ draft' = [draft EXCEPT ![d] = [ent |-> e, val |-> rec[e].val]]
    /\ UNCHANGED <<rec, session>>

EndRelock(d) ==
    /\ draft[d] # NoDraft
    /\ session[d] = draft[d].ent.owner
    /\ rec' = [rec EXCEPT ![draft[d].ent] = Locked(draft[d].ent, draft[d].val)]
    /\ draft' = [draft EXCEPT ![d] = NoDraft]
    /\ UNCHANGED session

Move(e1, e2) ==
    /\ rec' = [rec EXCEPT ![e2] = rec[e1]]
    /\ UNCHANGED <<session, draft>>

Spoil(e) ==
    /\ rec' = [rec EXCEPT ![e] = Junk]
    /\ UNCHANGED <<session, draft>>

Next ==
    \/ \E d \in Devices, m \in Masters : Open(d, m)
    \/ \E d \in Devices : Close(d) \/ Crash(d) \/ EndRelock(d)
    \/ \E d \in Devices, e \in Entities : BeginRelock(d, e)
    \/ \E d \in Devices, e \in Entities, v \in Contents : Save(d, e, v)
    \/ \E e1, e2 \in Entities : Move(e1, e2)
    \/ \E e \in Entities : Spoil(e)

Spec == Init /\ [][Next]_vars

=============================================================================
