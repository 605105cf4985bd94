CONSTANTS
    Keys = {k1, k2}
    Readers = {r1, r2}
    Deletes = TRUE
    MaxChanges = 2
SPECIFICATION Spec
INVARIANT TypeOK
INVARIANT ChangesEvict
