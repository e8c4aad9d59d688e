\* Two rows, one device, every kind of content and legacy row.
SPECIFICATION Spec
CONSTANTS
    m1 = m1
    m2 = m2
    d1 = d1
    d2 = d2
    n1 = n1
    n2 = n2
    Masters = {m1}
    Devices = {d1}
    Entities <- TwoEntities
    Contents <- AllContents
    LegacyRows <- OldRows
    DamagedFields <- CutOrAltered
    Nonces = {n1}
    NoSession = NoSession
    NoDraft = NoDraft
    MaxSealed = 2
CONSTRAINT SealedBound
INVARIANTS ReadsAreAuthentic ReadsAgree
PROPERTY ImplementsLockedRecords
