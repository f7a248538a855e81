SPECIFICATION Spec
CONSTANTS
    Thread = {t1}
    t1 = t1
    Spelling <- MCSpelling
    Lower <- MCLower
    Request <- MCRequest
    Rank <- MCRank
    Ttl = 2
    MaxEntries = 1
    MaxClock = 1
    Damaged = Damaged
    None = None
PROPERTIES
    MissIsStored
