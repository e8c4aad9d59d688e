\* Two devices enrol, change secrets, crash, retry and resume over one account,
\* with a keychain others write to as well.
SPECIFICATION Spec
CONSTANTS
    d1 = d1
    d2 = d2
    k1 = k1
    k2 = k2
    s1 = s1
    s2 = s2
    r1 = r1
    r2 = r2
    n1 = n1
    Width = 4
    MasterKeys = {k1, k2}
    Salts = {s1}
    RecoveryKeys = {r1, r2}
    Users <- OneUser
    Pins <- TwoPins
    Devices = {d1, d2}
    Nonces = {n1}
    Contents <- OneContent
    None = None
    Platform = "macos"
    DEFAULT_SERVICE = "com.incokit.encryption"
    Foreign = Foreign
SYMMETRY GeneratedSymmetry
INVARIANTS TypeOK SessionsHoldMaster SecretsOpen RowsRecoverable
PROPERTIES ImplementsVault KeyNeverChanges UsesKeychain
