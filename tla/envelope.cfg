CONSTANTS
    ann = ann
    c1 = c1
    c2 = c2
    c3 = c3
    Credentials = {c1, c2, c3}
    Legacy = {c3}
    OwnerOf <- OneOwner
    p1 = p1
    p2 = p2
    Processes = {p1, p2}
    Versions = {1, 2}
    Staged = TRUE
    MaxKeys = 2
    Stopped = Stopped
    NoSecret = NoSecret
SYMMETRY Interchangeable
SPECIFICATION Spec
INVARIANTS
    TypeOK
    EveryKeyReadable
    OnlyItsOwnKey
    InOnePlace
