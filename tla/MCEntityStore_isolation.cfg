\* Four rows that differ in namespace, id or account; one content.
SPECIFICATION Spec
CONSTANTS
    m1 = m1
    m2 = m2
    d1 = d1
    d2 = d2
    n1 = n1
    n2 = n2
    Masters = {m1, m2}
    Devices = {d1}
    Entities <- MCEntities
    Contents <- OneContent
    LegacyRows <- OldText
    DamagedFields <- NoDamage
    Nonces = {n1}
    NoSession = NoSession
    NoDraft = NoDraft
    MaxSealed = 2
CONSTRAINT SealedBound
INVARIANT ReadsAreAuthentic
