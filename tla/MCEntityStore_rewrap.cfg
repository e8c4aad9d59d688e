\* Two rows, two devices racing through saves, rewraps and crashes.
SPECIFICATION Spec
CONSTANTS
    m1 = m1
    m2 = m2
    d1 = d1
    d2 = d2
    n1 = n1
    n2 = n2
    Masters = {m1}
    Devices = {d1, d2}
    Entities <- TwoEntities
    Contents <- TwoContents
    LegacyRows <- OldAny
    DamagedFields <- Altered
    Nonces = {n1, n2}
    NoSession = NoSession
    NoDraft = NoDraft
    MaxSealed = 2
CONSTRAINT SealedBound
SYMMETRY DeviceNonceSymmetry
INVARIANTS TypeOK SoundRowsReadable
PROPERTIES UnracedRewrapKeepsContent ImplementsLockedRecords
