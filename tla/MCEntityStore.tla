--------------------------- MODULE MCEntityStore ----------------------------
(* Small instances of EntityStore for TLC.                                 *)
EXTENDS EntityStore, FiniteSets, TLC

CONSTANTS m1, m2, d1, d2, n1, n2, MaxSealed

Row(owner, ns, id) == [owner |-> owner, ns |-> ns, id |-> id]

(* One row, and the three ways another row can differ from it: namespace,  *)
(* id, account.                                                            *)
MCEntities ==
    {Row(m1, "profile", 1), Row(m1, "proxy", 1), Row(m1, "profile", 2), Row(m2, "profile", 1)}

TwoEntities == {Row(m1, "profile", 1), Row(m1, "proxy", 1)}

Json   == Leaf("json", "c1")
Text   == Leaf("text", "c2")
Binary == Leaf("binary", "c3")
Pasted == Leaf("badwire", "c4")    \* a text that happens to start with "e2ee:"
Opaque == Leaf("opaque", "c5")     \* a value serde_json cannot serialise

NoContents  == {}
OneContent  == {Json}
TwoContents == {Json, Binary}
AllContents == {Json, Text, Binary, Pasted, Opaque}

OldAny    == {Leaf("text", "c6"), Pasted}
OldText   == {Leaf("text", "c6")}
OldRows   == {Leaf("text", "c6"), Leaf("json", "c7"), Pasted}

(* One byte short of nonce and tag, exactly nonce and tag, not base64.     *)
CutOrAltered == {Wire(Noise(Overhead - 1)), Wire(Noise(Overhead)), Leaf("badwire", "c8")}
Altered      == {Wire(Noise(Overhead))}
NoDamage     == {}

(* Bound: how many distinct (entity, plaintext) pairs are ever sealed.     *)
SealedBound == Cardinality(sealed) <= MaxSealed

DeviceNonceSymmetry == Permutations({d1, d2}) \cup Permutations({n1, n2})
=============================================================================
