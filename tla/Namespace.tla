------------------------------ MODULE Namespace ------------------------------
(***************************************************************************)
(* namespace.rs and session.rs: per-entity key derivation.                 *)
(*                                                                         *)
(* HKDF-SHA256 is ideal: two derivations give the same key exactly when    *)
(* they have the same input key and the same info string.  The info string *)
(* is kept as the sequence of parts format! joins; no part but the last    *)
(* can contain the ':' that ends it, so distinct parts give distinct       *)
(* strings.                                                                *)
(***************************************************************************)
EXTENDS Integers, Sequences

(* A KeyNamespace variant is written as its as_str(): the match in the     *)
(* code is one-to-one.                                                     *)
ProfileSharing      == "profile-sharing-v1"
PerEntityNamespaces == {"profile", "proxy", "session", "bookmark"}
KeyNamespace        == PerEntityNamespaces \cup {ProfileSharing}

(* Fault: the namespace is left out of the info string.                    *)
InfoWithoutNamespace(ns, id) == <<"incokit-", ":", id>>

(* Fault: the entity id is left out of the info string.                    *)
InfoWithoutId(ns, id) == <<"incokit-", ns>>

info(ns, id) ==
    IF ns = ProfileSharing THEN <<"incokit-", ns>>
                           ELSE <<"incokit-", ns, ":", id>>

hkdf(ikm, inf) == [ikm |-> ikm, info |-> inf]

derive_key(ns, master, id) == hkdf(master, info(ns, id))

(* SessionKey: a session is its 32 bytes.                                  *)
derive(session, ns, id) == derive_key(ns, session, id)

as_bytes(session) == session

=============================================================================
