SPECIFICATION Spec
CONSTANTS
    Thread = {t1, t2}
    t1 = t1
    t2 = t2
    Spelling <- MCSpelling
    Lower <- MCLower
    Request <- MCRequest
    Rank <- MCRank
    Ttl = 2
    MaxEntries = 2
    MaxClock = 2
    Damaged = Damaged
    None = None
SYMMETRY Threads
INVARIANTS
    TypeOK
    AtMostMaxEntries
    HitIsRight
PROPERTIES
    ExpiriesAgree
    OnlyOwnKeyDropped
