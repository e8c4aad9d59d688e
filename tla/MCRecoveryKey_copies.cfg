\* A two-byte key in two groups, copied with one slip at most.
SPECIFICATION Spec
CONSTANTS
    KeyBytes = 2
    Group = 2
    Keys <- TwoByteKeys
    Separators = {"-", " "}
    OddCharacters = {"+", "O", " "}
    Lookalikes = {"8", "b"}
    MaxEdits = 2
INVARIANTS CarefulCopiesParse OneSlipIsNoticed MisreadIsAnotherKey
CHECK_DEADLOCK FALSE
