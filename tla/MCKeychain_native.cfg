\* Two applications, two accounts, two keys, on a platform with a store.
SPECIFICATION Spec
CONSTANTS
    k1 = k1
    k2 = k2
    a1 = a1
    a2 = a2
    Services = {"com.incokit.encryption", "com.other.app"}
    DEFAULT_SERVICE = "com.incokit.encryption"
    Accounts = {a1, a2}
    Keys = {k1, k2}
    Platform = "macos"
    NoEntry = NoEntry
    Foreign = Foreign
SYMMETRY KeySymmetry
INVARIANTS TypeOK LoadTellsLastSave AnswersWhenReachable
