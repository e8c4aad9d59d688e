\* Three users; three keypairs, so one each or two of which one replaces the other.
SPECIFICATION Spec
CONSTANTS
    u1 = u1
    u2 = u2
    u3 = u3
    p1 = p1
    p2 = p2
    p3 = p3
    Users = {u1, u2, u3}
    Pairs = {p1, p2, p3}
    ProfileKeys = {k1}
    NotKeys = {b1}
    Nonces = {n1}
    None = None
    MaxSealings = 2
CONSTRAINT SealingsBound
SYMMETRY PairUserSymmetry
INVARIANTS TypeOK KeysStayEntrusted OpenedSharesAreOfThePair SharesReachRecipient
PROPERTY ImplementsEntrustment
