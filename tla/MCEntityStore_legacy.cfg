\* Legacy rows, one of them a text that starts with the prefix.
SPECIFICATION Spec
CONSTANTS
    m1 = m1
    m2 = m2
    d1 = d1
    d2 = d2
    n1 = n1
    n2 = n2
    Masters = {m1}
    Devices = {d1}
    Entities <- TwoEntities
    Contents <- OneContent
    LegacyRows <- OldAny
    DamagedFields <- Altered
    Nonces = {n1}
    NoSession = NoSession
    NoDraft = NoDraft
    MaxSealed = 2
CONSTRAINT SealedBound
INVARIANT LegacyRowsReadAsIs
