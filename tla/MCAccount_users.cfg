\* Two users whose ids and PINs run together, on one device, on a
\* platform without a keychain store.
SPECIFICATION Spec
CONSTANTS
    d1 = d1
    d2 = d2
    k1 = k1
    k2 = k2
    s1 = s1
    s2 = s2
    r1 = r1
    r2 = r2
    n1 = n1
    Width = 4
    MasterKeys = {k1, k2}
    Salts = {s1, s2}
    RecoveryKeys = {r1, r2}
    Users <- TwoUsers
    Pins <- TwoPins
    Devices = {d1}
    Nonces = {n1}
    Contents <- OneContent
    None = None
    Platform = "linux"
    DEFAULT_SERVICE = "com.incokit.encryption"
    Foreign = Foreign
SYMMETRY GeneratedSymmetry
INVARIANTS SecretsOpen OnlyTheSecretUnlocks
