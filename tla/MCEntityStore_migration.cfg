\* The migration alone: two devices rewrap two legacy rows, either of which may begin with the prefix.
SPECIFICATION Spec
CONSTANTS
    m1 = m1
    m2 = m2
    d1 = d1
    d2 = d2
    n1 = n1
    n2 = n2
    Masters = {m1}
    Devices = {d1, d2}
    Entities <- TwoEntities
    Contents <- NoContents
    LegacyRows <- OldAny
    DamagedFields <- Altered
    Nonces = {n1}
    NoSession = NoSession
    NoDraft = NoDraft
    MaxSealed = 2
PROPERTY MigrationSealsRows
