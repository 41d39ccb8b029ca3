SPECIFICATION HSpec
CONSTANTS
    Threads = {t1, t2}
    Keys = {k1, k2, k3}
    MaxEntries = 2
    Shapes = {"ok", "absent"}
    MaxStamp = 1
    None = None
SYMMETRY Symmetry
INVARIANTS TypeOK NoKeyError Bounded StoreInvariant
PROPERTIES InvalidateReportsWhatItDropped AdmittedStays ImplementsContract FreshAfterQuietReload
