CONSTANTS
    Thread = {t1, t2}
    Elem = {a, b, c, d}
    Capacity = 4
    LocalSize = 2
    Garbage = garbage
SPECIFICATION Spec
INVARIANTS TypeOK ClaimsApart HeldOnce NoOverflow
PROPERTIES WindowStable RefinesDoubleBuffer
